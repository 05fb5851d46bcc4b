------------------------------ MODULE CommandLine ------------------------------
(***************************************************************************)
(* The commands of the program (rust/cli/src/main.rs) and what is done with *)
(* one document after another (generate_source_csv in document_export.rs,   *)
(* prepared_generation.rs): prepare it, ask for cards, make a deck of them  *)
(* and write it; then merge what is in the folder (csv_merge.rs).           *)
(*                                                                          *)
(* The worker of the companion does the same with the documents of a job;   *)
(* it may be told to stop and then drops what it does.  The attempts at a   *)
(* chunk are those of DocumentGeneration: one that ends has a deck or an    *)
(* error here, and its notebook is gone or is left to be deleted later.     *)
(***************************************************************************)
EXTENDS DocumentPreparation, CardDeck

CONSTANTS
  Begins,      (* commands given in turn, the folder and the notebooks at first *)
  Batches,     (* the sources of a command                                  *)
  Notebook

(* A file is read as rows of fields, if it is a regular one.                *)
Cell == [text : Seq(STRING), padded : BOOLEAN]
File == [regular : BOOLEAN, rows : Seq(Seq(Cell))]

ASSUME CommandAssumption ==
  /\ IsFiniteSet(Notebook)
  /\ Batches \subseteq Seq(Source)
  /\ \A begin \in Begins :
       /\ begin.script \in Seq(STRING) /\ begin.remote \subseteq Notebook
       /\ IsFiniteSet(DOMAIN begin.folder) /\ DOMAIN begin.folder \subseteq Nat \X Nat
       /\ \A name \in DOMAIN begin.folder : begin.folder[name] \in File

VARIABLES
  script,      (* the commands to be given                                  *)
  run,         (* the command that runs                                     *)
  doc,         (* the document it makes a deck for                          *)
  folder,      (* the CSV files by their names                              *)
  remote,      (* notebooks at the provider                                 *)
  pending      (* notebooks whose deletion was left for finish_cleanup      *)

commandVars == <<script, run, doc, folder, remote, pending, prepVars>>

(* A file is named for its document and chunk, 0 for the whole deck:        *)
(* safe_filenames numbers the documents.                                    *)
Merged     == <<9, 0>>
Comes(a, b) == a[1] < b[1] \/ (a[1] = b[1] /\ a[2] < b[2])

NoMerge    == [todo |-> {}, next |-> 1, distinct |-> FALSE, out |-> << >>, seen |-> {},
               before |-> 0]
NoCommand  == [name |-> "none", exit |-> "none", todo |-> << >>, single |-> FALSE,
               reports |-> << >>, listed |-> {}, merge |-> NoMerge]
NoQuality  == [cards |-> << >>, pairs |-> {}, truncated |-> FALSE]
NoDocument == [pc |-> "none", total |-> 0, parts |-> << >>, artifacts |-> {}, lost |-> FALSE,
               kept |-> << >>, quality |-> NoQuality]

Init ==
  /\ PrepInit
  /\ \E begin \in Begins :
       script = begin.script /\ folder = begin.folder /\ remote = begin.remote
  /\ run = NoCommand /\ doc = NoDocument /\ pending = {}

Active(names) == run.name \in names /\ run.exit = "none"
Ends(code)  == run' = [run EXCEPT !.exit = code]
Given(name)   == script # << >> /\ Head(script) = name /\ run.name = "none"
Begun(new)    == run' = new /\ script' = Tail(script)

(* A command that is refused: its arguments, its folder, its credentials.   *)
Refused ==
  /\ script # << >> /\ run.name = "none"
  /\ \E code \in {"usage", "failure"} :
       Begun([NoCommand EXCEPT !.name = Head(script), !.exit = code])
  /\ UNCHANGED <<doc, folder, remote, pending, prepVars>>

NextCommand ==
  /\ run.exit # "none" /\ script # << >>
  /\ run' = NoCommand
  /\ UNCHANGED <<script, doc, folder, remote, pending, prepVars>>

--------------------------------------------------------------------------------
(* generate, and a job of the companion.                                    *)

Generating == {"generate", "job"}

GenerateBegins(name) ==
  /\ Given(name)
  /\ \E batch \in Batches, single \in BOOLEAN :
       Begun([NoCommand EXCEPT !.name = name, !.todo = batch, !.single = single])
  /\ UNCHANGED <<doc, folder, remote, pending, prepVars>>

Index == Len(run.reports) + 1

PrepareNext ==
  /\ Active(Generating) /\ run.todo # << >> /\ doc = NoDocument
  /\ Prepare(Head(run.todo))
  /\ run' = [run EXCEPT !.todo = Tail(@)]
  /\ doc' = [NoDocument EXCEPT !.pc = "prepare"]
  /\ UNCHANGED <<script, folder, remote, pending>>

Prepares == PrepStep /\ UNCHANGED <<script, run, doc, folder, remote, pending>>

Reported(outcome, artifacts) ==
  /\ run' = [run EXCEPT !.reports = Append(@, [outcome |-> outcome, artifacts |-> artifacts])]
  /\ doc' = NoDocument

(* A document without files has no content.                                 *)
Prepared ==
  /\ doc.pc = "prepare"
  /\ \/ /\ At("over") /\ Discard /\ Reported("failed", {})
     \/ /\ At("ready") /\ prep.files = << >> /\ Discard /\ Reported("skipped", {})
     \/ /\ At("ready") /\ prep.files # << >>
        /\ prep' = [NoPrep EXCEPT !.pc = "held"]
        /\ doc' = [NoDocument EXCEPT !.pc = "chunk", !.total = Len(prep.files)]
        /\ UNCHANGED <<run, dirs>>
  /\ plan' = NoPlan
  /\ UNCHANGED <<script, folder, remote, pending, group, thread>>

Field(text) == [text |-> text, padded |-> FALSE]
Rows(cards) ==
  [i \in DOMAIN cards |-> << Field(Text(cards[i].front)), Field(FlattenSeq(cards[i].back)) >>]

Puts(name, rows) ==
  folder' = [n \in DOMAIN folder \cup {name} |->
              IF n = name THEN [regular |-> TRUE, rows |-> rows] ELSE folder[n]]

(* export_deck: the file is written beside and renamed.                     *)
Exports(name, cards, d) ==
  \/ Puts(name, Rows(cards)) /\ doc' = [d EXCEPT !.artifacts = @ \cup {name}]
  \/ UNCHANGED folder /\ doc' = [d EXCEPT !.lost = TRUE]

(* close() has deleted the notebook, or it will be tried again.             *)
Closes ==
  \/ UNCHANGED <<remote, pending>>
  \/ /\ Notebook # remote
     /\ LET n == CHOOSE n \in Notebook : n \notin remote IN
        remote' = remote \cup {n} /\ pending' = pending \cup {n}

(* A document of one chunk has its duplicates removed at once.              *)
ChunkGenerated ==
  /\ doc.pc = "chunk" /\ Len(doc.parts) < doc.total
  /\ \E answer \in Answers :
       LET converted == ConvertedDeck(answer, run.single)
           part == IF doc.total = 1 THEN Deduplicated(converted) ELSE converted
           d == [doc EXCEPT !.parts = Append(@, part)]
       IN IF doc.total > 1 /\ part # << >>
          THEN Exports(<<Index, Len(d.parts)>>, part, d)
          ELSE doc' = d /\ UNCHANGED folder
  /\ Closes
  /\ UNCHANGED <<script, run, prepVars>>

ChunkFails ==
  /\ doc.pc = "chunk" /\ Len(doc.parts) < doc.total
  /\ Closes /\ Discard /\ Reported("failed", doc.artifacts)
  /\ UNCHANGED <<script, folder, plan, group, thread>>

Pairs(n) == {p \in (1 .. n) \X (1 .. n) : p[1] < p[2]}

(* Fronts that are the same in another case: the first is paired with each. *)
Foldings(n) == {same \in SUBSET Pairs(n) :
                  \A p, q \in same : p[2] # q[1] /\ (p[2] = q[2] => p = q)}

(* Which fronts have vectors of a small angle is left open.                 *)
Likenesses(n) == SUBSET Pairs(n)

(* The chunks are put together; the deck of several is filtered.            *)
Combined ==
  LET all == Deduplicated(FlattenSeq(doc.parts))
      filters == doc.total > 1
      cards == IF filters THEN Picked(all, {i \in DOMAIN all : ~ TrivialCard(all[i])}) ELSE all
  IN /\ doc.pc = "chunk" /\ Len(doc.parts) = doc.total
     /\ \E same \in IF filters THEN Foldings(Len(cards)) ELSE {{}},
           alike \in IF filters THEN Likenesses(Len(cards)) ELSE {{}},
           rows \in IF filters THEN {0, Len(cards)} ELSE {0} :
          LET compared == IF rows = 0 THEN {} ELSE alike
              analyzed == Analyzed(same, compared, rows)
          IN doc' = [doc EXCEPT !.pc = "export", !.kept = Without(cards, analyzed.pairs),
                                !.quality = [cards |-> cards, pairs |-> same \cup compared,
                                             truncated |-> analyzed.truncated]]
     /\ UNCHANGED <<script, run, folder, remote, pending, prepVars>>

(* No cards, or the whole deck is written; a deck that was not written      *)
(* fails the document.                                                      *)
Exported ==
  /\ doc.pc = "export"
  /\ \/ /\ doc.kept = << >>
        /\ Reported("failed", doc.artifacts) /\ UNCHANGED folder
     \/ /\ doc.kept # << >>
        /\ Puts(<<Index, 0>>, Rows(doc.kept))
        /\ Reported(IF doc.lost THEN "failed" ELSE "completed", doc.artifacts \cup {<<Index, 0>>})
     \/ /\ doc.kept # << >>
        /\ Reported("failed", doc.artifacts) /\ UNCHANGED folder
  /\ Discard
  /\ UNCHANGED <<script, remote, pending, plan, group, thread>>

(* The worker is told to stop: at a wait, where the notebook of a chunk is  *)
(* left to be deleted.                                                      *)
Stopped ==
  /\ Active({"job"})
  /\ \/ doc.pc = "prepare" /\ Dropped /\ UNCHANGED <<remote, pending>>
     \/ doc.pc = "chunk" /\ Closes /\ Discard /\ UNCHANGED <<plan, group, thread>>
  /\ doc' = NoDocument
  /\ run' = [run EXCEPT !.name = "stopped", !.todo = << >>]
  /\ UNCHANGED <<script, folder>>

Failed == \E i \in DOMAIN run.reports : run.reports[i].outcome = "failed"

Code(deleted) == IF Failed \/ ~ deleted THEN "failure" ELSE "success"

(* Slip: a command that has failed does not wait for the deletions.         *)
FinishOnSuccess ==
  /\ Active(Generating \cup {"stopped"}) /\ run.todo = << >> /\ doc = NoDocument
  /\ IF Failed THEN Ends("failure") /\ UNCHANGED <<remote, pending>>
     ELSE \E gone \in SUBSET pending, told \in BOOLEAN :
            /\ told => gone = pending
            /\ remote' = remote \ gone /\ pending' = {}
            /\ Ends(Code(told))
  /\ UNCHANGED <<script, doc, folder, prepVars>>

(* finish_cleanup, after the documents or when they were dropped; it may    *)
(* not be told that a notebook has gone.                                    *)
Finish ==
  /\ Active(Generating \cup {"stopped"}) /\ run.todo = << >> /\ doc = NoDocument
  /\ \E gone \in SUBSET pending, told \in BOOLEAN :
       /\ told => gone = pending
       /\ remote' = remote \ gone /\ pending' = {}
       /\ run' = [run EXCEPT !.exit = Code(told), !.listed = pending]
  /\ UNCHANGED <<script, doc, folder, prepVars>>

--------------------------------------------------------------------------------
(* merge.  The other files are read in the order of their names, row by row. *)

Others == DOMAIN folder \ {Merged}

(* source_files                                                             *)
MergeBegins ==
  /\ Given("merge")
  /\ \E distinct \in BOOLEAN :
       Begun([NoCommand EXCEPT
         !.name = "merge",
         !.exit = IF Others = {} \/ (\E n \in Others : ~ folder[n].regular) THEN "failure" ELSE @,
         !.merge = [NoMerge EXCEPT !.todo = Others, !.distinct = distinct]])
  /\ UNCHANGED <<doc, folder, remote, pending, prepVars>>

Foremost(names) == CHOOSE n \in names : \A m \in names : m = n \/ Comes(n, m)

Reads == folder[Foremost(run.merge.todo)].rows

(* Slip: the rows are compared as they are.                                 *)
KeyAsIs(row) == row

(* strip                                                                    *)
Key(row) == << row[1].text, row[2].text >>

(* A row of two columns                                                     *)
Merge(m, row) ==
  IF m.distinct /\ Key(row) \in m.seen THEN [m EXCEPT !.before = @ + 1]
  ELSE [m EXCEPT !.before = @ + 1, !.out = Append(@, row), !.seen = @ \cup {Key(row)}]

(* merge_record: a row of one column is passed over, one of three is an     *)
(* error.                                                                   *)
MergeRecord ==
  LET m == run.merge
      row == Reads[m.next]
  IN /\ Active({"merge"}) /\ m.todo # {} /\ m.next <= Len(Reads)
     /\ \/ Len(row) < 2 /\ run' = [run EXCEPT !.merge = [m EXCEPT !.next = @ + 1]]
        \/ Len(row) = 2 /\ run' = [run EXCEPT !.merge = [Merge(m, row) EXCEPT !.next = @ + 1]]
        \/ Len(row) > 2 /\ Ends("failure")
     /\ UNCHANGED <<script, doc, folder, remote, pending, prepVars>>

(* A file has been read, or it cannot be.                                   *)
MergeSource ==
  LET m == run.merge IN
  /\ Active({"merge"}) /\ m.todo # {}
  /\ \/ /\ m.next > Len(Reads)
        /\ run' = [run EXCEPT !.merge = [m EXCEPT !.todo = @ \ {Foremost(@)}, !.next = 1]]
     \/ Ends("failure")
  /\ UNCHANGED <<script, doc, folder, remote, pending, prepVars>>

MergeEnds ==
  /\ Active({"merge"}) /\ run.merge.todo = {}
  /\ \/ Puts(Merged, run.merge.out) /\ Ends("success")
     \/ UNCHANGED folder /\ Ends("failure")
  /\ UNCHANGED <<script, doc, remote, pending, prepVars>>

--------------------------------------------------------------------------------
(* notebook cleanup --all: one after another, until one cannot be deleted.  *)

CleanupBegins ==
  /\ Given("cleanup")
  /\ Begun([NoCommand EXCEPT !.name = "cleanup", !.listed = remote, !.todo = SetToSeq(remote)])
  /\ UNCHANGED <<doc, folder, remote, pending, prepVars>>

DeleteNext ==
  /\ Active({"cleanup"}) /\ run.todo # << >>
  /\ \/ remote' = remote \ {Head(run.todo)} /\ run' = [run EXCEPT !.todo = Tail(@)]
     \/ remote' \in {remote, remote \ {Head(run.todo)}} /\ Ends("failure")
  /\ UNCHANGED <<script, doc, folder, pending, prepVars>>

CleanupEnds ==
  /\ Active({"cleanup"}) /\ run.todo = << >>
  /\ Ends("success")
  /\ UNCHANGED <<script, doc, folder, remote, pending, prepVars>>

(* External: someone makes a notebook after they were listed.               *)
OthersCreate ==
  /\ Active({"cleanup"})
  /\ \E n \in Notebook \ (remote \cup run.listed) : remote' = remote \cup {n}
  /\ UNCHANGED <<script, run, doc, folder, pending, prepVars>>

--------------------------------------------------------------------------------
Next ==
  \/ Refused \/ NextCommand
  \/ GenerateBegins("generate") \/ GenerateBegins("job")
  \/ PrepareNext \/ Prepares \/ Prepared
  \/ ChunkGenerated \/ ChunkFails \/ Combined \/ Exported \/ Stopped \/ Finish
  \/ MergeBegins \/ MergeRecord \/ MergeSource \/ MergeEnds
  \/ CleanupBegins \/ DeleteNext \/ CleanupEnds \/ OthersCreate

Spec == Init /\ [][Next]_commandVars

--------------------------------------------------------------------------------
(* A deck is what its answers come to: every deletion of it hides something *)
(* that matters, and is the only one if that was asked for; no two cards    *)
(* are alike unless it is said that the search was cut short; and a card is *)
(* missing only because it says nothing or repeats an earlier one           *)
(* (convert, deduplicate_standard, filter).                                 *)
DeckIsSound ==
  doc.pc = "export" =>
    LET all == FlattenSeq(doc.parts)
        kept == doc.kept
        left == doc.quality.cards
        Paired(a, b) == \E p \in doc.quality.pairs : left[p[1]] = b /\ left[p[2]] = a
    IN /\ \A i \in DOMAIN kept :
            /\ QualityValid(kept[i].front)
            /\ run.single => Cardinality(Clozes(kept[i].front)) = 1
            /\ \A j \in 1 .. i - 1 :
                 /\ kept[j].front \notin Twins[kept[i].front]
                 /\ doc.quality.truncated \/ ~ Paired(kept[i], kept[j])
       /\ \A i \in DOMAIN all :
            \/ \E j \in DOMAIN kept : kept[j] = all[i]
            \/ doc.total > 1 /\ TrivialCard(all[i])
            \/ \E j \in 1 .. i - 1 : all[j].front \in Twins[all[i].front] \/ Paired(all[i], all[j])

(* The merged file has the rows of two columns of all the other files, in   *)
(* their order, or the first of those that differ in more than blanks; it   *)
(* is no source of itself (LocalCsvMerger::merge).                          *)
MergeIsUnion ==
  run.name = "merge" /\ run.exit = "success" =>
    LET out == folder[Merged].rows
        RowAt(spot) == folder[spot[1]].rows[spot[2]]
        spots == {spot \in Others \X UNION {DOMAIN folder[n].rows : n \in Others} :
                    spot[2] \in DOMAIN folder[spot[1]].rows /\ Len(RowAt(spot)) = 2}
        Ahead(s, t) == Comes(s[1], t[1]) \/ (s[1] = t[1] /\ s[2] < t[2])
        Repeats(s, t) == \A c \in {1, 2} : RowAt(s)[c].text = RowAt(t)[c].text
        wanted == {t \in spots : run.merge.distinct =>
                     \A s \in spots : Ahead(s, t) => ~ Repeats(s, t)}
    IN /\ run.merge.before = Cardinality(spots)
       /\ Len(out) = Cardinality(wanted)
       /\ \A t \in wanted : out[Cardinality({s \in wanted : Ahead(s, t)}) + 1] = RowAt(t)

(* A command that says it has succeeded has: the decks of its documents are *)
(* there, unless there was nothing in them, and no notebook is left of      *)
(* those it used or was to delete; and no command ends while a deletion is  *)
(* under way (run, generate, cleanup and finish_cleanup).                   *)
ExitIsHonest ==
  run.exit # "none" =>
    /\ pending = {}
    /\ run.exit = "success" =>
         /\ run.listed \cap remote = {}
         /\ \A d \in DOMAIN run.reports :
              /\ run.reports[d].artifacts \subseteq DOMAIN folder
              /\ \/ run.reports[d].outcome = "skipped"
                 \/ run.reports[d].outcome = "completed" /\ <<d, 0>> \in run.reports[d].artifacts
================================================================================
