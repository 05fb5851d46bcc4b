----------------------------- MODULE ChunkResume -------------------------------
(***************************************************************************)
(* Resuming the generation of a large document chunk by chunk              *)
(* (src/flashcards_generator/services/chunk_resume.py, use_cases.py and    *)
(* the generation_*.py modules it delegates to,                            *)
(* integrations/chunk_state_repository.py).                                *)
(*                                                                         *)
(* Several processes run over the same document and the same output        *)
(* directory.  What one leaves behind when it is cancelled, fails or       *)
(* crashes is the state the next one starts from: a manifest that says     *)
(* which chunks are completed, a result file for each, and the final deck. *)
(* A file is replaced in one step (_atomic_write, export_csv); removing a  *)
(* directory is not one step.  The attempts at a chunk are ChunkAttempts.  *)
(***************************************************************************)
EXTENDS Integers, Sequences, FiniteSets

CONSTANTS
  Process,      (* processes that may run the generation                    *)
  Source,       (* contents the document may have                           *)
  Chunks,       (* chunks a content is split into; 0: it is not split       *)
  Cloze,        (* values of the option that the manifest records           *)
  MaxCards,     (* bound: cards of one chunk                                *)
  MaxDamage,    (* bound: files damaged from outside                        *)
  NoProcess, NoKey, NoDeck, Unreadable

ASSUME ResumeAssumption ==
  /\ Chunks \in [Source -> Nat]
  /\ MaxCards \in Nat /\ MaxDamage \in Nat
  /\ NoProcess \notin Process

VARIABLES
  document,     (* the content of the document now                          *)
  manifest,     (* state.json                                               *)
  result,       (* chunk_001.json, chunk_002.json, ...                      *)
  csv,          (* the exported deck                                        *)
  owner,        (* holder of the lock on the resume directory               *)
  run,          (* what each process is doing                               *)
  damage        (* files damaged so far                                     *)

disk == <<manifest, result, csv>>
vars == <<document, manifest, result, csv, owner, run, damage>>

(* What a manifest must agree on to be resumed; the number of chunks        *)
(* follows from the content.                                                *)
Key   == [source : Source, cloze : Cloze]
Total(key) == Chunks[key.source]
Index == {1} \cup UNION {1 .. Chunks[s] : s \in Source}

Deck  == [key : Key, index : Index, cards : 0 .. MaxCards]
Entry == [status : {"pending", "completed", "failed"}, cards : 0 .. MaxCards]

(* What stands for nothing, and for a file that cannot be read, is no value *)
(* of a file.                                                               *)
ASSUME ValueAssumption ==
  /\ Key \cap {NoKey, Unreadable} = {} /\ NoKey # Unreadable
  /\ Deck \cap {NoDeck, Unreadable} = {} /\ NoDeck # Unreadable

Pending == [status |-> "pending", cards |-> 0]
Failed  == [status |-> "failed", cards |-> 0]
Completed(deck) == [status |-> "completed", cards |-> deck.cards]

FreshManifest(key) == [key |-> key, chunks |-> [i \in Index |-> Pending]]
NoManifest  == FreshManifest(NoKey)
BadManifest == FreshManifest(Unreadable)

NoCsv == [key |-> NoKey, decks |-> << >>]
Idle  == [pc |-> "idle", key |-> NoKey, chunk |-> 1, manifest |-> NoManifest,
          decks |-> [i \in Index |-> NoDeck]]

At(p, pc) == run[p].pc = pc
Active    == {p \in Process : ~ At(p, "idle")}

(* A document that is not split is generated in one go, without a lock.     *)
Split(p) == Total(run[p].key) > 0

ResumeInit ==
  /\ document \in Source
  /\ manifest = NoManifest
  /\ result = [i \in Index |-> NoDeck]
  /\ csv = NoCsv
  /\ owner = NoProcess
  /\ run = [p \in Process |-> Idle]
  /\ damage = 0

--------------------------------------------------------------------------------
(* Which of the saved chunks a run may use.                                 *)

(* Slip: a manifest is matched by its option alone.                         *)
MatchesOption(saved, key) ==
  saved.key \notin {NoKey, Unreadable} /\ saved.key.cloze = key.cloze

Matches(saved, key) == saved.key = key

Readable(i, cards) ==
  result[i] \notin {NoDeck, Unreadable} /\ result[i].cards = cards

Loadable(saved, i) ==
  saved.chunks[i].status = "completed" /\ Readable(i, saved.chunks[i].cards)

(* Slip: what was saved is not looked at.                                   *)
LoadNothing(saved) == [i \in Index |-> NoDeck]

LoadCompleted(saved) ==
  [i \in Index |-> IF Loadable(saved, i) THEN result[i] ELSE NoDeck]

--------------------------------------------------------------------------------
(* A run, in the order of its steps.  Goto leaves the files alone.          *)

Step(p, pc, changes) == run' = [run EXCEPT ![p] = [changes EXCEPT !.pc = pc]]
Goto(p, pc) == Step(p, pc, run[p]) /\ UNCHANGED <<document, disk, owner, damage>>

(* A run that is over drops the lock it may hold; the kernel does the same  *)
(* for a process that dies.                                                 *)
Over(p) ==
  /\ run' = [run EXCEPT ![p] = Idle]
  /\ owner' = IF owner = p THEN NoProcess ELSE owner

Leave(p) == Over(p) /\ UNCHANGED <<document, disk, damage>>

(* The snapshot fixes the content that this run works on.                   *)
Begin(p) ==
  /\ At(p, "idle")
  /\ \E cloze \in Cloze :
       LET key == [source |-> document, cloze |-> cloze]
       IN  Step(p, IF Total(key) > 0 THEN "lock" ELSE "look",
                [Idle EXCEPT !.key = key])
  /\ UNCHANGED <<document, disk, owner, damage>>

Lock(p) ==
  /\ At(p, "lock")
  /\ owner = NoProcess
  /\ owner' = p
  /\ Step(p, "look", run[p])
  /\ UNCHANGED <<document, disk, damage>>

AlreadyRunning(p) ==
  /\ At(p, "lock")
  /\ owner # NoProcess
  /\ Leave(p)

AlreadyExported(p) ==
  /\ At(p, "look")
  /\ csv # NoCsv
  /\ Leave(p)

LookForState(p) ==
  /\ At(p, "look")
  /\ csv = NoCsv
  /\ Goto(p, IF Split(p) THEN "load" ELSE "generate")

Resume(p) ==
  /\ At(p, "load")
  /\ Matches(manifest, run[p].key)
  /\ Step(p, "chunk", [run[p] EXCEPT !.manifest = manifest,
                                     !.decks = LoadCompleted(manifest)])
  /\ UNCHANGED <<document, disk, owner, damage>>

(* A manifest that cannot be read goes first, then all results, as for one  *)
(* that does not match.                                                     *)
DiscardState(p) ==
  /\ At(p, "load")
  /\ ~ Matches(manifest, run[p].key)
  /\ manifest' = IF manifest = BadManifest THEN NoManifest ELSE manifest
  /\ Step(p, "wipe", run[p])
  /\ UNCHANGED <<document, result, csv, owner, damage>>

(* rmtree takes the files one by one, state.json among them.                *)
RemoveFile(p) ==
  /\ run[p].pc \in {"wipe", "clean"}
  /\ \/ /\ manifest # NoManifest
        /\ manifest' = NoManifest
        /\ UNCHANGED result
     \/ \E i \in Index :
          /\ result[i] # NoDeck
          /\ result' = [result EXCEPT ![i] = NoDeck]
          /\ UNCHANGED manifest
  /\ UNCHANGED <<document, csv, owner, run, damage>>

Empty == manifest = NoManifest /\ \A i \in Index : result[i] = NoDeck

Wiped(p) ==
  /\ At(p, "wipe")
  /\ Empty
  /\ manifest' = FreshManifest(run[p].key)
  /\ Step(p, "chunk", [run[p] EXCEPT !.manifest = FreshManifest(run[p].key)])
  /\ UNCHANGED <<document, result, csv, owner, damage>>

Pointed(p)  == run[p].chunk <= Total(run[p].key)
Advanced(p) == [run[p] EXCEPT !.chunk = run[p].chunk + 1]

UseSaved(p) ==
  /\ At(p, "chunk")
  /\ Pointed(p)
  /\ run[p].decks[run[p].chunk] # NoDeck
  /\ Step(p, "chunk", Advanced(p))
  /\ UNCHANGED <<document, disk, owner, damage>>

ProcessChunk(p) ==
  /\ At(p, "chunk")
  /\ Pointed(p)
  /\ run[p].decks[run[p].chunk] = NoDeck
  /\ Goto(p, "generate")

(* The provider's answer, after all attempts.                               *)
Generated(p) ==
  /\ At(p, "generate")
  /\ \E n \in 0 .. MaxCards :
       LET i == run[p].chunk
           deck == [key |-> run[p].key, index |-> i, cards |-> n]
       IN  Step(p, IF Split(p) THEN "save_result" ELSE "export",
                [run[p] EXCEPT !.decks[i] = deck])
  /\ UNCHANGED <<document, disk, owner, damage>>

NothingGenerated(p) ==
  /\ At(p, "generate")
  /\ IF Split(p) THEN Goto(p, "mark_failed") ELSE Leave(p)

(* Slip: what was saved before is not written again.                        *)
SetOnlyChunkState(saved, i, entry) ==
  [FreshManifest(saved.key) EXCEPT !.chunks[i] = entry]

SetChunkState(saved, i, entry) == [saved EXCEPT !.chunks[i] = entry]

MarkFailed(p) ==
  /\ At(p, "mark_failed")
  /\ manifest' = SetChunkState(run[p].manifest, run[p].chunk, Failed)
  /\ Over(p)
  /\ UNCHANGED <<document, result, csv, damage>>

SaveResult(p) ==
  /\ At(p, "save_result")
  /\ LET i == run[p].chunk
     IN  result' = [result EXCEPT ![i] = run[p].decks[i]]
  /\ Step(p, "save_manifest", run[p])
  /\ UNCHANGED <<document, manifest, csv, owner, damage>>

SaveManifest(p) ==
  /\ At(p, "save_manifest")
  /\ LET i == run[p].chunk
         saved == SetChunkState(run[p].manifest, i, Completed(run[p].decks[i]))
     IN  /\ manifest' = saved
         /\ Step(p, "chunk", [Advanced(p) EXCEPT !.manifest = saved])
  /\ UNCHANGED <<document, result, csv, owner, damage>>

HasCards(p) == \E i \in 1 .. Total(run[p].key) : run[p].decks[i].cards > 0

Combine(p) ==
  /\ At(p, "chunk")
  /\ ~ Pointed(p)
  /\ IF HasCards(p) THEN Goto(p, "export") ELSE Leave(p)

Parts(p) == IF Split(p) THEN Total(run[p].key) ELSE 1

Export(p) ==
  /\ At(p, "export")
  /\ csv' = [key |-> run[p].key, decks |-> [i \in 1 .. Parts(p) |-> run[p].decks[i]]]
  /\ Step(p, "delete_manifest", run[p])
  /\ UNCHANGED <<document, manifest, result, owner, damage>>

DeleteManifest(p) ==
  /\ At(p, "delete_manifest")
  /\ manifest' = NoManifest
  /\ Step(p, "clean", run[p])
  /\ UNCHANGED <<document, result, csv, owner, damage>>

Cleaned(p) ==
  /\ At(p, "clean")
  /\ Empty
  /\ Leave(p)

(* A cancellation, an error of the file system or of the provider that is   *)
(* not retried, or the death of the process: all leave the files as they    *)
(* are.                                                                     *)
Stop(p) ==
  /\ ~ At(p, "idle")
  /\ Leave(p)

--------------------------------------------------------------------------------
(* The user edits the document, or removes a deck to have it made again     *)
(* when nothing runs.                                                       *)
Edit ==
  /\ document' \in Source \ {document}
  /\ UNCHANGED <<disk, owner, run, damage>>

RemoveDeck ==
  /\ csv # NoCsv
  /\ Active = {}
  /\ csv' = NoCsv
  /\ UNCHANGED <<document, manifest, result, owner, run, damage>>

Damage ==
  /\ damage < MaxDamage
  /\ damage' = damage + 1
  /\ \/ /\ manifest.key \in Key
        /\ manifest' = BadManifest
        /\ UNCHANGED result
     \/ \E i \in Index :
          /\ result[i] # NoDeck
          /\ result' = [result EXCEPT ![i] = Unreadable]
          /\ UNCHANGED manifest
  /\ UNCHANGED <<document, csv, owner, run>>

Work(p) ==
  \/ Lock(p) \/ AlreadyRunning(p) \/ AlreadyExported(p) \/ LookForState(p)
  \/ Resume(p) \/ DiscardState(p) \/ RemoveFile(p) \/ Wiped(p)
  \/ UseSaved(p) \/ ProcessChunk(p) \/ Generated(p) \/ NothingGenerated(p)
  \/ MarkFailed(p) \/ SaveResult(p) \/ SaveManifest(p) \/ Combine(p)
  \/ Export(p) \/ DeleteManifest(p) \/ Cleaned(p)

ResumeNext ==
  \/ \E p \in Process : Begin(p) \/ Work(p) \/ Stop(p)
  \/ Edit \/ RemoveDeck \/ Damage

ResumeSpec == ResumeInit /\ [][ResumeNext]_vars

--------------------------------------------------------------------------------
(* Properties.                                                              *)

(* Type invariant of the runs and of the files they share.                  *)
ResumeTypeOK ==
  /\ document \in Source
  /\ manifest \in [key : Key \cup {NoKey, Unreadable}, chunks : [Index -> Entry]]
  /\ result \in [Index -> Deck \cup {NoDeck, Unreadable}]
  /\ csv.key \in Key \cup {NoKey} /\ csv.decks \in Seq(Deck)
  /\ owner \in Process \cup {NoProcess}
  /\ \A p \in Process :
       /\ run[p].key \in Key \cup {NoKey}
       /\ run[p].decks \in [Index -> Deck \cup {NoDeck}]
       /\ At(p, "idle") => owner # p
  /\ damage \in 0 .. MaxDamage

(* The exported deck has all chunks of one content of the document, in      *)
(* order and made with the same option, whatever runs were stopped, resumed *)
(* or refused before (combine_chunk_decks, manifest_matches_source).        *)
DeckIsWhole ==
  /\ ResumeTypeOK
  /\ csv # NoCsv =>
       /\ Len(csv.decks) = (IF Total(csv.key) > 0 THEN Total(csv.key) ELSE 1)
       /\ \A i \in 1 .. Len(csv.decks) :
            csv.decks[i].key = csv.key /\ csv.decks[i].index = i

Saved(i) == manifest.key \in Key /\ Loadable(manifest, i)

(* A chunk that is saved for this content is not paid for again: a run that *)
(* generates does not find it on disk (load_completed_chunks, resume_lock). *)
NotPaidTwice ==
  \A p \in Process :
    At(p, "generate") /\ Split(p) /\ Matches(manifest, run[p].key)
      => ~ Saved(run[p].chunk)

(* A saved chunk is lost only to another version of the document or of the  *)
(* options, after the deck is exported, or to damage from outside; never to *)
(* a failed chunk, a crash or a run of the same version.                    *)
SavedIsKept ==
  [][\A i \in Index : Saved(i) /\ ~ Saved(i)' =>
       \/ csv # NoCsv
       \/ damage' > damage
       \/ owner # NoProcess /\ run[owner].key # manifest.key]_vars

================================================================================
