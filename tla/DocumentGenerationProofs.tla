------------------------ MODULE DocumentGenerationProofs -----------------------
(***************************************************************************)
(* The safety of a batch's notebooks and reports, for every set of         *)
(* notebooks, every batch and any number of attempts: no chunk has two     *)
(* notebooks, none is abandoned, and what is reported is so.               *)
(***************************************************************************)
EXTENDS DocumentGeneration, TLAPS

NoteState == [state : NotebookState, title : Title]
TaskList  == [running : SUBSET Task, failed : BOOLEAN]
DrainState == [pc : {"idle", "take", "await", "clean", "unconfirmed"},
               tasks : TaskList, late : BOOLEAN, interrupts : 0 .. MaxInterrupts]
Progress == [total : {0} \cup Chunk, chunk : Chunk, attempt : 0 .. MaxRetries,
             cards : SUBSET Chunk, dirty : {0} \cup Chunk, decks : SUBSET Chunk,
             lost : BOOLEAN]
Scoped == {"register", "transfer", "unload", "generate", "close"}
RunState == [pc : Scoped \cup {"prepare", "ask", "create", "pause", "cleanup"},
             doc : Doc, notebook : Notebook \cup {NoNotebook},
             result : {"none", "cards", "empty", "transient", "permanent", "dropped"},
             progress : Progress]
ReportState == [outcome : {"none", "completed", "skipped", "failed"},
                error : {"none", "preparation", "creation", "generation", "no cards"},
                issues : {0} \cup Chunk, decks : SUBSET (Chunk \cup {Whole}), lost : BOOLEAN]

ClientTyped == /\ remote \in [Notebook -> NoteState]
               /\ holder \in [Notebook -> {"nobody", "asked", "sent", "refused", "scope"}]
               /\ registry \in TaskList
               /\ drain \in DrainState

RunTyped == run \in RunState /\ report \in [Doc -> ReportState]

--------------------------------------------------------------------------------
(* The inductive invariant.  The notebooks: who has one in hand and which   *)
(* tasks run for it follow from its state; all others are failures kept.    *)
State(n) == remote[n].state

Gone(n) == State(n) \in {"none", "lost"}

NoteOK(n) ==
  /\ holder[n] # "nobody" => ~ Running(<<"delete", n>>) /\ ~ Running(<<"source", n>>)
  /\ holder[n] = "asked" => State(n) = "requested"
  /\ holder[n] \in {"sent", "scope"} => State(n) = "alive"
  /\ holder[n] = "refused" => Gone(n)
  /\ Running(<<"create", n>>) <=> State(n) = "requested"
  /\ Running(<<"delete", n>>) => State(n) \in {"none", "alive"}
  /\ State(n) = "requested" => ~ Running(<<"delete", n>>) /\ ~ Running(<<"source", n>>)
  /\ State(n) = "alive" => holder[n] \in {"sent", "scope"} \/ Running(<<"delete", n>>)
  /\ State(n) = "stray" => registry.failed \/ drain.tasks.failed
  /\ State(n) # "none" => remote[n].title \in Doc \X Chunk
  /\ State(n) = "none" => remote[n].title = NoTitle

(* The two lists of tasks are apart; the drain has its own only while it    *)
(* awaits them, and has an answer when there is nothing left.               *)
DrainOK ==
  /\ registry.running \cap drain.tasks.running = {}
  /\ drain.pc = "idle" => drain.tasks.running = {} /\ ~ drain.tasks.failed
  /\ Drained => registry.running = {} /\ drain.tasks.running = {} /\ ~ registry.failed
  /\ drain.pc = "clean" => ~ drain.tasks.failed

ClientOK == ClientTyped /\ DrainOK /\ \A n \in Notebook : NoteOK(n)

(* The future: what it has in hand, how far it is, and who may drain.       *)
HandsOK ==
  /\ \A n \in Notebook : holder[n] # "nobody" => run.notebook = n
  /\ run.pc = "create" =>
       run.notebook \in Notebook /\ holder[run.notebook] \in {"asked", "sent", "refused"}
  /\ run.pc \in Scoped => run.notebook \in Notebook /\ holder[run.notebook] = "scope"
  /\ run.pc \notin Scoped \cup {"create"} => run.notebook = NoNotebook
  /\ run.pc # "cleanup" => drain.pc = "idle"

ProgressOK ==
  /\ run.progress.dirty < run.progress.chunk
  /\ run.pc = "prepare" => run.progress = NoProgress
  /\ run.pc \notin {"prepare", "cleanup"} =>
       /\ run.progress.chunk <= run.progress.total
       /\ run.progress.total \in 1 .. MaxChunks[run.doc]

(* What exists at the provider, besides the notebook in hand, is of earlier *)
(* chunks; of this document only if a failed clean-up is counted.           *)
Past(title) == \/ title[1] < run.doc
               \/ title[1] = run.doc /\ title[2] < run.progress.chunk

TitlesOK ==
  run.pc # "cleanup" =>
    \A n \in Notebook : State(n) # "none" =>
      \/ n = run.notebook /\ remote[n].title = <<run.doc, run.progress.chunk>>
      \/ n # run.notebook /\ Past(remote[n].title)

IssuesOK ==
  /\ QuietIsClean
  /\ run.pc # "cleanup" =>
       /\ \A d \in Doc : d >= run.doc => report[d].outcome = "none"
       /\ run.progress.dirty = 0 =>
            \A n \in Notebook : n # run.notebook /\ remote[n].title[1] = run.doc => Gone(n)

GenerationInv ==
  /\ ClientOK /\ RunTyped
  /\ HandsOK /\ ProgressOK
  /\ TitlesOK /\ NoTwins
  /\ IssuesOK /\ CompletedIsWhole

--------------------------------------------------------------------------------
(* The client, one operation at a time.  At the provider a notebook may     *)
(* only fade: nothing comes up again, no title changes, what is gone stays. *)
Kind == {"create", "delete", "source"}

Failures == registry.failed \/ drain.tasks.failed

FadesTo(n, now) ==
  /\ now.state # "none" => State(n) # "none" /\ now.title = remote[n].title
  /\ Gone(n) => now.state \in {"none", "lost"}

Fading == \A n \in Notebook : FadesTo(n, remote'[n])

(* The notebooks a step is not about.                                       *)
RestOf(n) ==
  \A m \in Notebook \ {n} :
    /\ remote'[m] = remote[m] /\ holder'[m] = holder[m]
    /\ \A kind \in Kind : Running(<<kind, m>>)' <=> Running(<<kind, m>>)

LEMMA RestKeeps ==
  ASSUME ClientOK, NEW n, RestOf(n), Failures => Failures', NEW m \in Notebook \ {n}
  PROVE  NoteOK(m)' /\ FadesTo(m, remote'[m])
<1>1. /\ NoteOK(m) /\ remote'[m] = remote[m] /\ holder'[m] = holder[m]
      /\ Running(<<"create", m>>)' <=> Running(<<"create", m>>)
      /\ Running(<<"delete", m>>)' <=> Running(<<"delete", m>>)
      /\ Running(<<"source", m>>)' <=> Running(<<"source", m>>)
  BY DEF ClientOK, RestOf, Kind
<1>2. registry.failed \/ drain.tasks.failed => registry'.failed \/ drain'.tasks.failed
  BY DEF Failures
<1>3. State(m)' = State(m) /\ (Gone(m)' <=> Gone(m))
  BY <1>1 DEF State, Gone
<1>. QED
  BY <1>1, <1>2, <1>3 DEF NoteOK, FadesTo, Gone, State

LEMMA NoNoticeTyped == NoNotice \in NoteState /\ NoNotice.state = "none" /\ NoNotice.title = NoTitle
BY DEF NoNotice, NoteState, NotebookState, Title

LEMMA SetStateFacts ==
  ASSUME ClientTyped, NEW n \in Notebook, NEW state \in NotebookState, SetState(n, state)
  PROVE  /\ remote' \in [Notebook -> NoteState] /\ remote'[n].state = state
         /\ state = "none" => remote'[n].title = NoTitle
         /\ state # "none" => remote'[n].title = remote[n].title
         /\ \A m \in Notebook \ {n} : remote'[m] = remote[m]
<1>. DEFINE set == [remote[n] EXCEPT !.state = state]
            new == IF state = "none" THEN NoNotice ELSE set
<1>1. set \in NoteState /\ set.state = state /\ set.title = remote[n].title
  BY DEF ClientTyped, NoteState
<1>2. remote' = [remote EXCEPT ![n] = new]
  BY DEF SetState
<1>. HIDE DEF set
<1>3. /\ new \in NoteState /\ new.state = state
      /\ state = "none" => new.title = NoTitle
      /\ state # "none" => new.title = remote[n].title
  BY <1>1, NoNoticeTyped
<1>. HIDE DEF new
<1>. QED
  BY <1>2, <1>3 DEF ClientTyped

LEMMA UnconfirmedFacts ==
  ASSUME ClientTyped, NEW n \in Notebook, NEW state \in NotebookState \ {"none"},
         Unconfirmed(n, state)
  PROVE  /\ remote' \in [Notebook -> NoteState]
         /\ remote'[n].state \in {"none", state}
         /\ remote'[n].state = "none" => remote'[n].title = NoTitle
         /\ remote'[n].state # "none" => remote'[n].title = remote[n].title /\ State(n) # "none"
         /\ \A m \in Notebook \ {n} : remote'[m] = remote[m]
<1>1. "none" \in NotebookState
  BY DEF NotebookState
<1>. QED
  BY <1>1, SetStateFacts DEF Unconfirmed, State

LEMMA TaskEndsFacts ==
  ASSUME ClientTyped, DrainOK, NEW task \in Task, NEW ok \in BOOLEAN, NEW spawned \in SUBSET Task,
         TaskEnds(task, ok, spawned), Running(task), \A other \in spawned : ~ Running(other)
  PROVE  /\ registry' \in TaskList /\ drain' \in DrainState /\ DrainOK'
         /\ \A other : Running(other)' <=> other \in spawned \/ (Running(other) /\ other # task)
         /\ Failures => Failures'
         /\ ~ ok => Failures'
<1>1. registry \in TaskList /\ drain \in DrainState /\ drain.tasks \in TaskList
  BY DEF ClientTyped, DrainState
<1>. DEFINE mine == [running |-> (registry.running \ {task}) \cup spawned,
                     failed  |-> registry.failed \/ (~ ok /\ task \in registry.running)]
            taken == [running |-> drain.tasks.running \ {task},
                      failed  |-> drain.tasks.failed \/ (~ ok /\ task \in drain.tasks.running)]
<1>2. mine \in TaskList /\ taken \in TaskList
  BY <1>1 DEF TaskList
<1>3. registry' = mine /\ drain' = [drain EXCEPT !.tasks = taken]
  BY DEF TaskEnds
<1>4. /\ mine.running = (registry.running \ {task}) \cup spawned
      /\ mine.failed <=> registry.failed \/ (~ ok /\ task \in registry.running)
      /\ taken.running = drain.tasks.running \ {task}
      /\ taken.failed <=> drain.tasks.failed \/ (~ ok /\ task \in drain.tasks.running)
  OBVIOUS
<1>. HIDE DEF mine, taken
<1>5. registry' \in TaskList /\ drain' \in DrainState /\ drain'.tasks = taken /\ drain'.pc = drain.pc
  BY <1>1, <1>2, <1>3 DEF DrainState
<1>6. ~ Drained
  BY DEF DrainOK, Running
<1>7. DrainOK'
  BY <1>3, <1>4, <1>5, <1>6 DEF DrainOK, Running, Drained
<1>8. \A other : Running(other)' <=> other \in spawned \/ (Running(other) /\ other # task)
  BY <1>3, <1>4, <1>5 DEF Running
<1>. QED
  BY <1>3, <1>4, <1>5, <1>7, <1>8 DEF Failures, Running

LEMMA SpawnFacts ==
  ASSUME ClientTyped, DrainOK, NEW spawned \in SUBSET Task, Spawn(spawned), drain.pc = "idle"
  PROVE  /\ registry' \in TaskList /\ drain' = drain /\ DrainOK'
         /\ \A other : Running(other)' <=> other \in spawned \/ Running(other)
         /\ Failures' <=> Failures
<1>1. /\ registry \in TaskList
      /\ registry' = [registry EXCEPT !.running = registry.running \cup spawned] /\ drain' = drain
  BY DEF ClientTyped, Spawn
<1>2. /\ registry' \in TaskList /\ registry'.running = registry.running \cup spawned
      /\ registry'.failed = registry.failed
  BY <1>1 DEF TaskList
<1>3. DrainOK'
  BY <1>1, <1>2 DEF DrainOK, Drained
<1>. QED
  BY <1>1, <1>2, <1>3 DEF Running, Failures

(* The notebook a step is about, and the others.                            *)
LEMMA ClientMoves ==
  ASSUME ClientOK, NEW n \in Notebook, ClientTyped', DrainOK', RestOf(n), Failures => Failures',
         NoteOK(n)'
  PROVE  ClientOK' /\ (FadesTo(n, remote'[n]) => Fading)
BY RestKeeps DEF ClientOK, Fading

LEMMA TaskFacts ==
  ASSUME NEW n \in Notebook
  PROVE  /\ \A kind \in Kind : <<kind, n>> \in Task
         /\ \A kind, other \in Kind, m \in Notebook \ {n} : <<kind, m>> # <<other, n>>
BY DEF Task, Kind

LEMMA KindsDiffer ==
  ASSUME NEW n
  PROVE  /\ <<"create", n>> # <<"delete", n>> /\ <<"create", n>> # <<"source", n>>
         /\ <<"delete", n>> # <<"source", n>>
         /\ {"create", "delete", "source"} = Kind
BY DEF Kind

LEMMA CreateAnsweredKeeps ==
  ASSUME ClientOK, NEW n \in Notebook, CreateAnswered(n)
  PROVE  /\ ClientOK' /\ Fading
         /\ \A m \in Notebook : holder'[m] # holder[m] => holder[m] = "asked" /\ holder'[m] = "sent"
<1>1. /\ ClientTyped /\ DrainOK /\ NoteOK(n)
      /\ Running(<<"create", n>>) /\ SetState(n, "alive") /\ State(n) = "requested"
      /\ ~ Running(<<"delete", n>>) /\ ~ Running(<<"source", n>>)
      /\ holder \in [Notebook -> {"nobody", "asked", "sent", "refused", "scope"}]
  BY DEF ClientOK, CreateAnswered, NoteOK, ClientTyped
<1>2. "alive" \in NotebookState \ {"none"}
  BY DEF NotebookState
<1>3. /\ remote' \in [Notebook -> NoteState] /\ remote'[n].state = "alive"
      /\ remote'[n].title = remote[n].title
      /\ \A m \in Notebook \ {n} : remote'[m] = remote[m]
  BY <1>1, <1>2, SetStateFacts
<1>4. PICK spawned \in SUBSET Task :
        /\ TaskEnds(<<"create", n>>, TRUE, spawned) /\ spawned \subseteq {<<"delete", n>>}
        /\ \/ holder[n] = "asked" /\ holder' = [holder EXCEPT ![n] = "sent"] /\ spawned = {}
           \/ holder[n] # "asked" /\ holder' = holder /\ spawned = {<<"delete", n>>}
  <2>1. {} \in SUBSET Task /\ {<<"delete", n>>} \in SUBSET Task
    BY TaskFacts DEF Kind
  <2>. QED
    BY <2>1 DEF CreateAnswered
<1>5. <<"create", n>> \in Task /\ \A other \in spawned : ~ Running(other)
  BY <1>1, <1>4, TaskFacts DEF Kind
<1>6. /\ registry' \in TaskList /\ drain' \in DrainState /\ DrainOK' /\ (Failures => Failures')
      /\ \A other : Running(other)' <=> other \in spawned \/ (Running(other) /\ other # <<"create", n>>)
  BY <1>1, <1>4, <1>5, TaskEndsFacts
<1>7. /\ holder' \in [Notebook -> {"nobody", "asked", "sent", "refused", "scope"}]
      /\ \A m \in Notebook \ {n} : holder'[m] = holder[m]
      /\ holder[n] = "asked" => holder'[n] = "sent"
      /\ holder[n] # "asked" => holder'[n] = holder[n]
  BY <1>1, <1>4
<1>8. RestOf(n)
  BY <1>3, <1>4, <1>6, <1>7, TaskFacts DEF RestOf, Kind
<1>9. /\ ~ Running(<<"create", n>>)' /\ ~ Running(<<"source", n>>)'
      /\ Running(<<"delete", n>>)' <=> holder[n] # "asked"
  BY <1>1, <1>4, <1>6, KindsDiffer
<1>10. NoteOK(n)' /\ FadesTo(n, remote'[n])
  BY <1>1, <1>3, <1>7, <1>9 DEF NoteOK, FadesTo, State, Gone, ClientTyped
<1>. QED
  BY <1>3, <1>6, <1>7, <1>8, <1>10, ClientMoves DEF ClientTyped

LEMMA CreateFailsKeeps ==
  ASSUME ClientOK, NEW n \in Notebook, CreateFails(n)
  PROVE  /\ ClientOK' /\ Fading
         /\ \A m \in Notebook : holder'[m] # holder[m] => holder[m] = "asked" /\ holder'[m] = "refused"
<1>1. /\ ClientTyped /\ DrainOK /\ NoteOK(n)
      /\ Running(<<"create", n>>) /\ Unconfirmed(n, "lost") /\ State(n) = "requested"
      /\ ~ Running(<<"delete", n>>) /\ ~ Running(<<"source", n>>)
      /\ TaskEnds(<<"create", n>>, TRUE, {})
      /\ holder \in [Notebook -> {"nobody", "asked", "sent", "refused", "scope"}]
      /\ holder' = [holder EXCEPT ![n] = IF holder[n] = "asked" THEN "refused" ELSE holder[n]]
  BY DEF ClientOK, CreateFails, NoteOK, ClientTyped
<1>2. "lost" \in NotebookState \ {"none"}
  BY DEF NotebookState
<1>3. /\ remote' \in [Notebook -> NoteState] /\ remote'[n].state \in {"none", "lost"}
      /\ remote'[n].state = "none" => remote'[n].title = NoTitle
      /\ remote'[n].state # "none" => remote'[n].title = remote[n].title
      /\ \A m \in Notebook \ {n} : remote'[m] = remote[m]
  BY <1>1, <1>2, UnconfirmedFacts
<1>5. <<"create", n>> \in Task
  BY TaskFacts DEF Kind
<1>6. /\ registry' \in TaskList /\ drain' \in DrainState /\ DrainOK' /\ (Failures => Failures')
      /\ \A other : Running(other)' <=> Running(other) /\ other # <<"create", n>>
  <2>1. \A other \in {} : ~ Running(other)
    OBVIOUS
  <2>2. {} \in SUBSET Task /\ TRUE \in BOOLEAN
    OBVIOUS
  <2>3. /\ registry' \in TaskList /\ drain' \in DrainState /\ DrainOK'
        /\ \A other : Running(other)' <=> other \in {} \/ (Running(other) /\ other # <<"create", n>>)
        /\ Failures => Failures'
    BY <1>1, <1>5, <2>1, <2>2, TaskEndsFacts
  <2>. QED
    BY <2>3
<1>7. /\ holder' \in [Notebook -> {"nobody", "asked", "sent", "refused", "scope"}]
      /\ \A m \in Notebook \ {n} : holder'[m] = holder[m]
      /\ holder[n] = "asked" => holder'[n] = "refused"
      /\ holder[n] # "asked" => holder'[n] = holder[n]
  BY <1>1
<1>8. RestOf(n)
  BY <1>3, <1>6, <1>7, TaskFacts DEF RestOf, Kind
<1>9. ~ Running(<<"create", n>>)' /\ ~ Running(<<"source", n>>)' /\ ~ Running(<<"delete", n>>)'
  BY <1>1, <1>6
<1>10. NoteOK(n)' /\ FadesTo(n, remote'[n])
  BY <1>1, <1>3, <1>7, <1>9 DEF NoteOK, FadesTo, State, Gone, ClientTyped
<1>. QED
  BY <1>3, <1>6, <1>7, <1>8, <1>10, ClientMoves DEF ClientTyped

(* A deletion in a task, or its abortion by the drain.                      *)
LEMMA DeleteKeeps ==
  ASSUME ClientOK, NEW n \in Notebook, Running(<<"delete", n>>), holder' = holder,
         registry' \in TaskList, drain' \in DrainState, DrainOK', Failures => Failures',
         \A other : Running(other)' <=> Running(other) /\ other # <<"delete", n>>,
         SetState(n, "none") \/ (Unconfirmed(n, "stray") /\ Failures')
  PROVE  ClientOK' /\ Fading
<1>1. /\ ClientTyped /\ DrainOK /\ NoteOK(n) /\ State(n) \in {"none", "alive"}
      /\ holder[n] = "nobody" /\ ~ Running(<<"create", n>>)
      /\ holder \in [Notebook -> {"nobody", "asked", "sent", "refused", "scope"}]
  BY DEF ClientOK, NoteOK, ClientTyped
<1>2. {"none", "stray"} \subseteq NotebookState
  BY DEF NotebookState
<1>3. /\ remote' \in [Notebook -> NoteState]
      /\ remote'[n].state = "none" \/ (remote'[n].state = "stray" /\ Failures' /\ State(n) = "alive")
      /\ remote'[n].state = "none" => remote'[n].title = NoTitle
      /\ remote'[n].state # "none" => remote'[n].title = remote[n].title
      /\ \A m \in Notebook \ {n} : remote'[m] = remote[m]
  <2>1. CASE SetState(n, "none")
    BY <1>1, <1>2, <2>1, SetStateFacts
  <2>2. CASE Unconfirmed(n, "stray") /\ Failures'
    BY <1>1, <1>2, <2>2, UnconfirmedFacts
  <2>. QED
    BY <2>1, <2>2
<1>4. RestOf(n)
  BY <1>3, TaskFacts DEF RestOf, Kind
<1>5. ~ Running(<<"create", n>>)' /\ ~ Running(<<"delete", n>>)'
  BY <1>1
<1>6. NoteOK(n)' /\ FadesTo(n, remote'[n])
  BY <1>1, <1>3, <1>5 DEF NoteOK, FadesTo, State, Gone, Failures
<1>. QED
  BY <1>1, <1>3, <1>4, <1>6, ClientMoves DEF ClientTyped

LEMMA TaskStepKeeps ==
  ASSUME ClientOK, NEW n \in Notebook, TaskStep(n)
  PROVE  /\ ClientOK' /\ Fading
         /\ \A m \in Notebook : holder'[m] # holder[m] =>
              holder[m] = "asked" /\ holder'[m] \in {"sent", "refused"}
         /\ drain'.pc = drain.pc
<1>0. ClientTyped /\ DrainOK /\ drain \in DrainState
  BY DEF ClientOK, ClientTyped
<1>1. \A task, ok, spawned : TaskEnds(task, ok, spawned) => drain'.pc = drain.pc
  BY <1>0 DEF TaskEnds, DrainState
<1>2. CASE CreateAnswered(n)
  BY <1>1, <1>2, CreateAnsweredKeeps DEF CreateAnswered
<1>3. CASE CreateFails(n)
  BY <1>1, <1>3, CreateFailsKeeps DEF CreateFails
<1>4. ASSUME NEW ok \in BOOLEAN, NEW kind \in {"delete", "source"},
             TaskEnds(<<kind, n>>, ok, {}), Running(<<kind, n>>)
      PROVE  /\ registry' \in TaskList /\ drain' \in DrainState /\ DrainOK' /\ (Failures => Failures')
             /\ \A other : Running(other)' <=> Running(other) /\ other # <<kind, n>>
             /\ ~ ok => Failures'
  <2>1. <<kind, n>> \in Task
    BY TaskFacts DEF Kind
  <2>. QED
    BY <1>0, <1>4, <2>1, TaskEndsFacts
<1>5. CASE DeleteConfirmed(n)
  BY <1>1, <1>4, <1>5, DeleteKeeps DEF DeleteConfirmed
<1>6. CASE DeleteFails(n)
  BY <1>1, <1>4, <1>6, DeleteKeeps DEF DeleteFails
<1>7. CASE SourceTaskEnds(n)
  <2>1. /\ remote' = remote /\ holder' = holder
        /\ registry' \in TaskList /\ drain' \in DrainState /\ DrainOK' /\ (Failures => Failures')
        /\ \A other : Running(other)' <=> Running(other) /\ other # <<"source", n>>
    BY <1>4, <1>7 DEF SourceTaskEnds
  <2>2. RestOf(n) /\ NoteOK(n)
    BY <2>1, TaskFacts DEF RestOf, Kind, ClientOK
  <2>3. /\ Running(<<"create", n>>)' <=> Running(<<"create", n>>)
        /\ Running(<<"delete", n>>)' <=> Running(<<"delete", n>>)
        /\ ~ Running(<<"source", n>>)'
    BY <2>1
  <2>4. NoteOK(n)' /\ FadesTo(n, remote'[n])
    BY <2>1, <2>2, <2>3 DEF NoteOK, FadesTo, State, Gone, Failures
  <2>. QED
    BY <1>0, <1>1, <1>7, <2>1, <2>2, <2>4, ClientMoves DEF ClientTyped, SourceTaskEnds
<1>. QED
  BY <1>2, <1>3, <1>5, <1>6, <1>7 DEF TaskStep

(* finish_cleanup: tasks change lists, or are aborted, which only happens   *)
(* when nobody has a notebook in hand any more.                             *)
LEMMA ListsMove ==
  ASSUME ClientOK, registry' \in TaskList, drain' \in DrainState, DrainOK',
         remote' = remote, holder' = holder,
         \A other : Running(other)' <=> Running(other), Failures => Failures'
  PROVE  ClientOK' /\ Fading
<1>1. ClientTyped'
  BY DEF ClientOK, ClientTyped
<1>2. ASSUME NEW n \in Notebook
      PROVE  NoteOK(n)' /\ FadesTo(n, remote'[n])
  <2>1. NoteOK(n)
    BY DEF ClientOK
  <2>2. /\ Running(<<"create", n>>)' <=> Running(<<"create", n>>)
        /\ Running(<<"delete", n>>)' <=> Running(<<"delete", n>>)
        /\ Running(<<"source", n>>)' <=> Running(<<"source", n>>)
    OBVIOUS
  <2>. QED
    BY <2>1, <2>2 DEF NoteOK, FadesTo, State, Gone, Failures
<1>. QED
  BY <1>1, <1>2 DEF ClientOK, Fading

LEMMA DrainTakeKeeps ==
  ASSUME ClientOK, DrainTake
  PROVE  ClientOK' /\ Fading
<1>. DEFINE all == [running |-> drain.tasks.running \cup registry.running,
                    failed  |-> drain.tasks.failed \/ registry.failed]
            pc == IF all.running # {} THEN "await"
                  ELSE IF all.failed THEN "unconfirmed" ELSE "clean"
<1>1. /\ ClientTyped /\ DrainOK /\ registry \in TaskList /\ drain \in DrainState
      /\ drain.tasks \in TaskList /\ NoTasks \in TaskList
  BY DEF ClientOK, ClientTyped, DrainState, TaskList, NoTasks
<1>2. /\ drain' = [drain EXCEPT !.pc = pc, !.tasks = all]
      /\ registry' = NoTasks /\ remote' = remote /\ holder' = holder
  BY DEF DrainTake, OnlyDrain
<1>3. /\ all \in TaskList /\ all.running = drain.tasks.running \cup registry.running
      /\ all.failed <=> drain.tasks.failed \/ registry.failed
  BY <1>1 DEF TaskList
<1>4. /\ pc \in {"await", "unconfirmed", "clean"}
      /\ pc = "await" <=> all.running # {}
      /\ pc = "clean" => ~ all.failed
  OBVIOUS
<1>. HIDE DEF all, pc
<1>5. /\ registry' \in TaskList /\ registry'.running = {} /\ (~ registry'.failed)
      /\ drain' \in DrainState /\ drain'.tasks = all /\ drain'.pc = pc
  BY <1>1, <1>2, <1>3, <1>4 DEF DrainState, NoTasks
<1>6. DrainOK'
  BY <1>4, <1>5 DEF DrainOK, Drained
<1>7. (\A other : Running(other)' <=> Running(other)) /\ (Failures => Failures')
  BY <1>3, <1>5 DEF Running, Failures
<1>. QED
  BY <1>2, <1>5, <1>6, <1>7, ListsMove

LEMMA DrainPcKeeps ==
  ASSUME ClientOK, DrainStart \/ DrainAgain \/ DrainLate
  PROVE  ClientOK' /\ Fading
<1>1. ClientTyped /\ DrainOK /\ registry \in TaskList /\ drain \in DrainState
  BY DEF ClientOK, ClientTyped
<1>2. registry' = registry /\ remote' = remote /\ holder' = holder
  BY DEF DrainStart, DrainAgain, DrainLate, OnlyDrain
<1>3. drain' \in DrainState /\ drain'.tasks = drain.tasks /\ drain'.pc \in {"take", "await"}
  <2>1. CASE DrainStart
    BY <1>1, <2>1 DEF DrainStart, DrainState
  <2>2. CASE DrainAgain
    BY <1>1, <2>2 DEF DrainAgain, DrainState
  <2>3. CASE DrainLate
    BY <1>1, <2>3 DEF DrainLate, DrainState
  <2>. QED
    BY <2>1, <2>2, <2>3
<1>4. DrainOK'
  BY <1>1, <1>2, <1>3 DEF DrainOK, Drained
<1>5. (\A other : Running(other)' <=> Running(other)) /\ (Failures => Failures')
  BY <1>2, <1>3 DEF Running, Failures
<1>. QED
  BY <1>1, <1>2, <1>3, <1>4, <1>5, ListsMove

LEMMA DrainDroppedKeeps ==
  ASSUME ClientOK, DrainDropped, MaxInterrupts \in Nat
  PROVE  ClientOK' /\ Fading
<1>. DEFINE all == [running |-> registry.running \cup drain.tasks.running,
                    failed  |-> registry.failed \/ drain.tasks.failed]
<1>1. /\ ClientTyped /\ DrainOK /\ registry \in TaskList /\ drain \in DrainState
      /\ drain.tasks \in TaskList /\ NoTasks \in TaskList
  BY DEF ClientOK, ClientTyped, DrainState, TaskList, NoTasks
<1>2. /\ drain' = [DrainIdle EXCEPT !.interrupts = drain.interrupts + 1]
      /\ registry' = all /\ remote' = remote /\ holder' = holder
      /\ drain.interrupts < MaxInterrupts
  BY DEF DrainDropped, OnlyDrain
<1>3. /\ all \in TaskList /\ all.running = drain.tasks.running \cup registry.running
      /\ all.failed <=> drain.tasks.failed \/ registry.failed
  BY <1>1 DEF TaskList
<1>. HIDE DEF all
<1>4. drain.interrupts + 1 \in 0 .. MaxInterrupts
  BY <1>1, <1>2 DEF DrainState
<1>5. DrainIdle \in DrainState
  BY <1>1 DEF DrainIdle, DrainState
<1>6. /\ drain' \in DrainState /\ drain'.tasks = NoTasks /\ drain'.pc = "idle"
  BY <1>2, <1>4, <1>5 DEF DrainState, DrainIdle
<1>7. NoTasks.running = {} /\ ~ NoTasks.failed
  BY DEF NoTasks
<1>8. DrainOK'
  BY <1>6, <1>7 DEF DrainOK, Drained
<1>9. (\A other : Running(other)' <=> Running(other)) /\ (Failures => Failures')
  BY <1>2, <1>3, <1>6, <1>7 DEF Running, Failures
<1>. QED
  BY <1>2, <1>3, <1>6, <1>8, <1>9, ListsMove

LEMMA DrainAbortsKeeps ==
  ASSUME ClientOK, NEW task \in Task, DrainAborts(task),
         \A n \in Notebook : holder[n] = "nobody"
  PROVE  ClientOK' /\ Fading
<1>. DEFINE rest == [running |-> drain.tasks.running \ {task}, failed |-> TRUE]
<1>1. /\ ClientTyped /\ DrainOK /\ registry \in TaskList /\ drain \in DrainState
      /\ drain.tasks \in TaskList
      /\ holder \in [Notebook -> {"nobody", "asked", "sent", "refused", "scope"}]
  BY DEF ClientOK, ClientTyped, DrainState
<1>2. /\ drain.pc = "await" /\ task \in drain.tasks.running
      /\ drain' = [drain EXCEPT !.tasks = rest] /\ registry' = registry /\ holder' = holder
  BY DEF DrainAborts
<1>3. rest \in TaskList /\ rest.running = drain.tasks.running \ {task} /\ rest.failed
  BY <1>1 DEF TaskList
<1>. HIDE DEF rest
<1>4. drain' \in DrainState /\ drain'.tasks = rest /\ drain'.pc = "await"
  BY <1>1, <1>2, <1>3 DEF DrainState
<1>5. DrainOK'
  BY <1>1, <1>2, <1>3, <1>4 DEF DrainOK, Drained
<1>6. \A other : Running(other)' <=> Running(other) /\ other # task
  BY <1>1, <1>2, <1>3, <1>4 DEF Running, DrainOK
<1>7. Failures' /\ Running(task)
  BY <1>2, <1>3, <1>4 DEF Failures, Running
<1>8. PICK kind \in Kind, n \in Notebook : task = <<kind, n>>
  BY DEF Task, Kind
<1>9. NoteOK(n) /\ holder[n] = "nobody"
  BY DEF ClientOK
<1>10. CASE kind = "create"
  <2>1. /\ Running(<<"create", n>>) /\ Unconfirmed(n, "lost") /\ State(n) = "requested"
        /\ ~ Running(<<"delete", n>>) /\ ~ Running(<<"source", n>>)
    BY <1>7, <1>8, <1>9, <1>10 DEF DrainAborts, NoteOK
  <2>2. "lost" \in NotebookState \ {"none"}
    BY DEF NotebookState
  <2>3. /\ remote' \in [Notebook -> NoteState] /\ remote'[n].state \in {"none", "lost"}
        /\ remote'[n].state = "none" => remote'[n].title = NoTitle
        /\ remote'[n].state # "none" => remote'[n].title = remote[n].title
        /\ \A m \in Notebook \ {n} : remote'[m] = remote[m]
    BY <1>1, <2>1, <2>2, UnconfirmedFacts
  <2>4. RestOf(n)
    BY <1>2, <1>6, <1>8, <2>3, TaskFacts DEF RestOf, Kind
  <2>5. ~ Running(<<"create", n>>)' /\ ~ Running(<<"source", n>>)' /\ ~ Running(<<"delete", n>>)'
    BY <1>6, <1>8, <1>10, <2>1
  <2>6. NoteOK(n)' /\ FadesTo(n, remote'[n])
    BY <1>2, <1>9, <2>1, <2>3, <2>5 DEF NoteOK, FadesTo, State, Gone
  <2>. QED
    BY <1>1, <1>2, <1>4, <1>5, <1>7, <2>3, <2>4, <2>6, ClientMoves DEF ClientTyped
<1>11. CASE kind = "delete"
  BY <1>1, <1>2, <1>4, <1>5, <1>6, <1>7, <1>8, <1>11, DeleteKeeps DEF DrainAborts
<1>12. CASE kind = "source"
  <2>1. remote' = remote
    BY <1>8, <1>12 DEF DrainAborts
  <2>2. RestOf(n)
    BY <1>2, <1>6, <1>8, <2>1, TaskFacts DEF RestOf, Kind
  <2>3. /\ Running(<<"create", n>>)' <=> Running(<<"create", n>>)
        /\ Running(<<"delete", n>>)' <=> Running(<<"delete", n>>)
        /\ ~ Running(<<"source", n>>)'
    BY <1>6, <1>8, <1>12
  <2>4. registry'.failed \/ drain'.tasks.failed
    BY <1>7 DEF Failures
  <2>5. NoteOK(n)' /\ FadesTo(n, remote'[n])
    BY <1>2, <1>9, <2>1, <2>3, <2>4 DEF NoteOK, FadesTo, State, Gone
  <2>. QED
    BY <1>1, <1>2, <1>4, <1>5, <1>7, <2>1, <2>2, <2>5, ClientMoves DEF ClientTyped
<1>. QED
  BY <1>8, <1>10, <1>11, <1>12 DEF Kind

(* The caller's own operations, while nobody drains.                        *)
LEMMA TakeKeeps ==
  ASSUME ClientOK, NEW n \in Notebook, TakeNotebook(n) \/ TakeRefusal(n)
  PROVE  ClientOK' /\ Fading
<1>1. /\ ClientTyped /\ DrainOK /\ NoteOK(n)
      /\ holder \in [Notebook -> {"nobody", "asked", "sent", "refused", "scope"}]
      /\ registry' = registry /\ drain' = drain /\ remote' = remote
  BY DEF ClientOK, ClientTyped, TakeNotebook, TakeRefusal
<1>2. PICK now \in {"scope", "nobody"} : /\ holder' = [holder EXCEPT ![n] = now]
                                         /\ \/ holder[n] = "sent" /\ now = "scope"
                                            \/ holder[n] = "refused" /\ now = "nobody"
  BY DEF TakeNotebook, TakeRefusal
<1>3. /\ holder' \in [Notebook -> {"nobody", "asked", "sent", "refused", "scope"}]
      /\ holder'[n] = now /\ \A m \in Notebook \ {n} : holder'[m] = holder[m]
  BY <1>1, <1>2
<1>4. DrainOK' /\ (Failures => Failures') /\ \A other : Running(other)' <=> Running(other)
  BY <1>1 DEF DrainOK, Drained, Failures, Running
<1>5. RestOf(n)
  BY <1>1, <1>3, <1>4 DEF RestOf
<1>6. /\ Running(<<"create", n>>)' <=> Running(<<"create", n>>)
      /\ Running(<<"delete", n>>)' <=> Running(<<"delete", n>>)
      /\ Running(<<"source", n>>)' <=> Running(<<"source", n>>)
  BY <1>4
<1>7. NoteOK(n)' /\ FadesTo(n, remote'[n])
  BY <1>1, <1>2, <1>3, <1>6 DEF NoteOK, FadesTo, State, Gone
<1>. QED
  BY <1>1, <1>3, <1>4, <1>5, <1>7, ClientMoves DEF ClientTyped

LEMMA CloseConfirmedKeeps ==
  ASSUME ClientOK, NEW n \in Notebook, CloseConfirmed(n)
  PROVE  /\ ClientOK' /\ Fading
         /\ State(n)' = "none" /\ holder'[n] = "nobody"
<1>1. /\ ClientTyped /\ DrainOK /\ NoteOK(n) /\ SetState(n, "none") /\ State(n) = "alive"
      /\ holder[n] = "scope" /\ holder' = [holder EXCEPT ![n] = "nobody"]
      /\ holder \in [Notebook -> {"nobody", "asked", "sent", "refused", "scope"}]
      /\ registry' = registry /\ drain' = drain
  BY DEF ClientOK, ClientTyped, CloseConfirmed, NoteOK
<1>2. "none" \in NotebookState
  BY DEF NotebookState
<1>3. /\ remote' \in [Notebook -> NoteState] /\ remote'[n].state = "none"
      /\ remote'[n].title = NoTitle /\ \A m \in Notebook \ {n} : remote'[m] = remote[m]
  BY <1>1, <1>2, SetStateFacts
<1>4. /\ holder' \in [Notebook -> {"nobody", "asked", "sent", "refused", "scope"}]
      /\ holder'[n] = "nobody" /\ \A m \in Notebook \ {n} : holder'[m] = holder[m]
  BY <1>1
<1>5. DrainOK' /\ (Failures => Failures') /\ \A other : Running(other)' <=> Running(other)
  BY <1>1 DEF DrainOK, Drained, Failures, Running
<1>6. RestOf(n)
  BY <1>3, <1>4, <1>5 DEF RestOf
<1>7. ~ Running(<<"create", n>>)' /\ ~ Running(<<"delete", n>>)' /\ ~ Running(<<"source", n>>)'
  BY <1>1, <1>5 DEF NoteOK
<1>8. NoteOK(n)' /\ FadesTo(n, remote'[n]) /\ State(n)' = "none"
  BY <1>1, <1>3, <1>4, <1>7 DEF NoteOK, FadesTo, State, Gone
<1>. QED
  BY <1>1, <1>3, <1>4, <1>5, <1>6, <1>8, ClientMoves DEF ClientTyped

(* A deletion is spawned for a notebook somebody had in hand.               *)
LEMMA DeleteSpawned ==
  ASSUME ClientOK, NEW n \in Notebook, holder[n] \in {"sent", "scope"}, drain.pc = "idle",
         holder' = [holder EXCEPT ![n] = "nobody"],
         NEW more \in SUBSET {<<"source", n>>}, Spawn({<<"delete", n>>} \cup more),
         SetState(n, "none") \/ SetState(n, "alive") \/ remote' = remote
  PROVE  ClientOK' /\ Fading /\ holder'[n] = "nobody"
<1>1. /\ ClientTyped /\ DrainOK /\ NoteOK(n) /\ State(n) = "alive"
      /\ remote \in [Notebook -> NoteState]
      /\ holder \in [Notebook -> {"nobody", "asked", "sent", "refused", "scope"}]
      /\ drain \in DrainState
  BY DEF ClientOK, ClientTyped, NoteOK
<1>2. {"none", "alive"} \subseteq NotebookState
  BY DEF NotebookState
<1>3. /\ remote' \in [Notebook -> NoteState] /\ remote'[n].state \in {"none", "alive"}
      /\ remote'[n].state = "none" => remote'[n].title = NoTitle
      /\ remote'[n].state # "none" => remote'[n].title = remote[n].title
      /\ \A m \in Notebook \ {n} : remote'[m] = remote[m]
  <2>1. CASE SetState(n, "none")
    BY <1>1, <1>2, <2>1, SetStateFacts
  <2>2. CASE SetState(n, "alive")
    BY <1>1, <1>2, <2>2, SetStateFacts
  <2>3. CASE remote' = remote
    BY <1>1, <2>3 DEF State
  <2>. QED
    BY <2>1, <2>2, <2>3
<1>4. /\ holder' \in [Notebook -> {"nobody", "asked", "sent", "refused", "scope"}]
      /\ holder'[n] = "nobody" /\ \A m \in Notebook \ {n} : holder'[m] = holder[m]
  BY <1>1
<1>5. {<<"delete", n>>} \cup more \in SUBSET Task
  BY TaskFacts DEF Kind
<1>6. /\ registry' \in TaskList /\ drain' = drain /\ DrainOK' /\ (Failures => Failures')
      /\ \A other : Running(other)' <=> other \in {<<"delete", n>>} \cup more \/ Running(other)
  BY <1>1, <1>5, SpawnFacts
<1>7. RestOf(n)
  BY <1>3, <1>4, <1>6, TaskFacts DEF RestOf, Kind
<1>8. ~ Running(<<"create", n>>)' /\ Running(<<"delete", n>>)'
  BY <1>1, <1>6, KindsDiffer DEF NoteOK
<1>9. NoteOK(n)' /\ FadesTo(n, remote'[n])
  BY <1>1, <1>3, <1>4, <1>8 DEF NoteOK, FadesTo, State, Gone
<1>. QED
  BY <1>1, <1>3, <1>4, <1>6, <1>7, <1>9, ClientMoves DEF ClientTyped

LEMMA CloseFailsKeeps ==
  ASSUME ClientOK, NEW n \in Notebook, CloseFails(n), drain.pc = "idle"
  PROVE  ClientOK' /\ Fading /\ holder'[n] = "nobody"
<1>1. /\ holder[n] = "scope" /\ holder' = [holder EXCEPT ![n] = "nobody"]
      /\ Spawn({<<"delete", n>>} \cup {}) /\ (SetState(n, "none") \/ SetState(n, "alive"))
  <2>1. {<<"delete", n>>} \cup {} = {<<"delete", n>>}
    OBVIOUS
  <2>. QED
    BY <2>1 DEF CloseFails, Unconfirmed
<1>2. {} \in SUBSET {<<"source", n>>}
  OBVIOUS
<1>. QED
  BY <1>1, <1>2, DeleteSpawned

LEMMA CallerDroppedKeeps ==
  ASSUME ClientOK, NEW n \in Notebook, NEW uploading \in BOOLEAN, NEW closing \in BOOLEAN,
         CallerDropped(n, uploading, closing), drain.pc = "idle"
  PROVE  ClientOK' /\ Fading /\ holder' = [holder EXCEPT ![n] = "nobody"]
<1>0. holder' = [holder EXCEPT ![n] = "nobody"]
  BY DEF CallerDropped
<1>1. CASE holder[n] \in {"sent", "scope"}
  <2>1. PICK more \in SUBSET {<<"source", n>>} : Spawn({<<"delete", n>>} \cup more)
    <3>1. CASE uploading
      BY <1>1, <3>1 DEF CallerDropped
    <3>2. CASE ~ uploading
      <4>1. Spawn({<<"delete", n>>} \cup {})
        BY <1>1, <3>2 DEF CallerDropped
      <4>. QED
        BY <4>1
    <3>. QED
      BY <3>1, <3>2
  <2>2. SetState(n, "none") \/ remote' = remote
    BY <1>1 DEF CallerDropped
  <2>. QED
    BY <1>0, <1>1, <2>1, <2>2, DeleteSpawned
<1>2. CASE holder[n] \notin {"sent", "scope"}
  <2>1. /\ remote' = remote /\ registry' = registry /\ drain' = drain
    BY <1>2 DEF CallerDropped
  <2>2. /\ ClientTyped /\ DrainOK /\ NoteOK(n)
        /\ holder \in [Notebook -> {"nobody", "asked", "sent", "refused", "scope"}]
    BY DEF ClientOK, ClientTyped
  <2>3. /\ holder' \in [Notebook -> {"nobody", "asked", "sent", "refused", "scope"}]
        /\ holder'[n] = "nobody" /\ \A m \in Notebook \ {n} : holder'[m] = holder[m]
    BY <1>0, <2>2
  <2>4. DrainOK' /\ (Failures => Failures') /\ \A other : Running(other)' <=> Running(other)
    BY <2>1, <2>2 DEF DrainOK, Drained, Failures, Running
  <2>5. RestOf(n)
    BY <2>1, <2>3, <2>4 DEF RestOf
  <2>6. /\ Running(<<"create", n>>)' <=> Running(<<"create", n>>)
        /\ Running(<<"delete", n>>)' <=> Running(<<"delete", n>>)
        /\ Running(<<"source", n>>)' <=> Running(<<"source", n>>)
    BY <2>4
  <2>7. NoteOK(n)' /\ FadesTo(n, remote'[n])
    BY <1>2, <2>1, <2>2, <2>3, <2>6 DEF NoteOK, FadesTo, State, Gone
  <2>. QED
    BY <1>0, <2>1, <2>2, <2>3, <2>4, <2>5, <2>7, ClientMoves DEF ClientTyped
<1>. QED
  BY <1>1, <1>2

LEMMA AskKeeps ==
  ASSUME ClientOK, NEW n \in Notebook, NEW title \in Doc \X Chunk, AskNotebook(n, title),
         drain.pc = "idle"
  PROVE  /\ ClientOK' /\ State(n) = "none"
         /\ State(n)' = "requested" /\ remote'[n].title = title /\ holder'[n] = "asked"
         /\ \A m \in Notebook \ {n} : remote'[m] = remote[m] /\ holder'[m] = holder[m]
<1>. DEFINE new == [state |-> "requested", title |-> title]
<1>1. /\ ClientTyped /\ DrainOK /\ NoteOK(n) /\ Fresh(n)
      /\ remote \in [Notebook -> NoteState]
      /\ holder \in [Notebook -> {"nobody", "asked", "sent", "refused", "scope"}]
      /\ remote' = [remote EXCEPT ![n] = new] /\ holder' = [holder EXCEPT ![n] = "asked"]
      /\ Spawn({<<"create", n>>}) /\ drain \in DrainState
  BY DEF ClientOK, ClientTyped, AskNotebook
<1>2. new \in NoteState /\ new.state = "requested" /\ new.title = title
  BY DEF NoteState, NotebookState, Title
<1>. HIDE DEF new
<1>3. /\ remote' \in [Notebook -> NoteState] /\ remote'[n] = new
      /\ holder' \in [Notebook -> {"nobody", "asked", "sent", "refused", "scope"}]
      /\ holder'[n] = "asked"
      /\ \A m \in Notebook \ {n} : remote'[m] = remote[m] /\ holder'[m] = holder[m]
  BY <1>1, <1>2
<1>4. {<<"create", n>>} \in SUBSET Task
  BY TaskFacts DEF Kind
<1>5. /\ registry' \in TaskList /\ drain' = drain /\ DrainOK' /\ (Failures => Failures')
      /\ \A other : Running(other)' <=> other \in {<<"create", n>>} \/ Running(other)
  BY <1>1, <1>4, SpawnFacts
<1>6. RestOf(n)
  BY <1>3, <1>5, TaskFacts DEF RestOf, Kind
<1>7. /\ State(n) = "none"
      /\ Running(<<"create", n>>)' /\ ~ Running(<<"delete", n>>)' /\ ~ Running(<<"source", n>>)'
  BY <1>1, <1>5, KindsDiffer DEF Fresh, State
<1>8. NoteOK(n)'
  BY <1>1, <1>2, <1>3, <1>7 DEF NoteOK, State, Gone
<1>. QED
  BY <1>1, <1>2, <1>3, <1>5, <1>6, <1>7, <1>8, ClientMoves DEF ClientTyped, State

LEMMA NextIsFresh ==
  ASSUME NEW n \in Notebook, Fresh(n)
  PROVE  NextNotebook \in Notebook /\ Fresh(NextNotebook)
BY DEF NextNotebook

--------------------------------------------------------------------------------
(* The future and its reports.                                              *)
LEMMA ChunkFacts ==
  /\ Documents \in Nat \ {0} /\ 1 \in Doc /\ Doc \subseteq Nat
  /\ 1 \in Chunk /\ Chunk \subseteq Nat \ {0}
  /\ \A d \in Doc : MaxChunks[d] \in Nat \ {0} /\ 1 .. MaxChunks[d] \subseteq Chunk
<1>1. MaxChunks \in Seq(Nat \ {0}) /\ MaxChunks # << >>
  BY GenerationAssumption
<1>2. Documents \in Nat \ {0} /\ 1 \in Doc /\ Doc \subseteq Nat
  BY <1>1 DEF Documents, Doc
<1>3. \A d \in Doc : MaxChunks[d] \in Nat \ {0}
  BY <1>1 DEF Documents, Doc
<1>4. \A d \in Doc : 1 .. MaxChunks[d] \subseteq Chunk
  BY DEF Chunk
<1>5. Chunk \subseteq Nat \ {0}
  BY <1>3 DEF Chunk
<1>6. 1 \in 1 .. MaxChunks[1]
  BY <1>2, <1>3
<1>. QED
  BY <1>2, <1>3, <1>4, <1>5, <1>6

LEMMA TitleFacts ==
  ASSUME ClientOK, NEW n \in Notebook
  PROVE  /\ State(n) \in NotebookState
         /\ State(n) # "none" <=> Exists(n)
         /\ State(n) # "none" => /\ remote[n].title \in Doc \X Chunk
                                 /\ remote[n].title = <<remote[n].title[1], remote[n].title[2]>>
                                 /\ remote[n].title[1] \in Nat /\ remote[n].title[2] \in Nat
<1>1. NoteOK(n) /\ remote[n] \in NoteState
  BY DEF ClientOK, ClientTyped
<1>2. State(n) \in NotebookState
  BY <1>1 DEF State, NoteState
<1>3. State(n) # "none" => remote[n].title \in Doc \X Chunk
  BY <1>1 DEF NoteOK
<1>4. \A title \in Doc \X Chunk : /\ title = <<title[1], title[2]>>
                                  /\ title[1] \in Doc /\ title[2] \in Chunk
  OBVIOUS
<1>5. State(n) # "none" <=> Exists(n)
  BY <1>2 DEF NotebookState, Exists, State
<1>. QED
  BY <1>2, <1>3, <1>4, <1>5, ChunkFacts

LEMMA FadingTitles ==
  ASSUME ClientOK, ClientOK', Fading, NEW n \in Notebook, State(n)' # "none"
  PROVE  State(n) # "none" /\ remote'[n].title = remote[n].title /\ (Gone(n) => Gone(n)')
BY DEF Fading, FadesTo, State, Gone

LEMMA TwinsKeep ==
  ASSUME ClientOK, ClientOK', Fading, NoTwins
  PROVE  NoTwins'
<1>1. \A n \in Notebook : Exists(n)' => Exists(n) /\ remote'[n].title = remote[n].title
  <2>. TAKE n \in Notebook
  <2>1. Exists(n)' => State(n)' # "none"
    BY DEF Exists, State
  <2>. QED
    BY <2>1, FadingTitles, TitleFacts
<1>. QED
  BY <1>1 DEF NoTwins

(* A report stays true of notebooks that fade.                              *)
LEMMA QuietKeeps ==
  ASSUME ClientOK, ClientOK', Fading, QuietIsClean, NEW d \in Doc,
         report'[d] = report[d]
  PROVE  report'[d].outcome # "none" /\ report'[d].issues = 0 =>
           \A n \in Notebook : remote'[n].title[1] = d => Gone(n)'
<1>1. SUFFICES ASSUME report[d].outcome # "none", report[d].issues = 0,
                      NEW n \in Notebook, remote'[n].title[1] = d, State(n)' # "none"
               PROVE  Gone(n)'
  BY DEF Gone
<1>2. remote[n].title[1] = d /\ (Gone(n) => Gone(n)')
  BY <1>1, FadingTitles
<1>. QED
  BY <1>1, <1>2 DEF QuietIsClean, Gone, State

(* The batch is over: only tasks are left.                                  *)
LEMMA BatchEnds ==
  ASSUME GenerationInv, ClientOK', Fading, report' = report, run' \in RunState,
         run'.pc = "cleanup", run'.progress = run.progress,
         run'.notebook = NoNotebook, \A n \in Notebook : holder'[n] = "nobody"
  PROVE  GenerationInv'
<1>1. HandsOK'
  BY DEF HandsOK, Scoped
<1>2. ProgressOK'
  BY DEF GenerationInv, ProgressOK
<1>3. NoTwins'
  BY TwinsKeep DEF GenerationInv
<1>4. QuietIsClean'
  <2>1. \A d \in Doc : report'[d].outcome # "none" /\ report'[d].issues = 0 =>
           \A n \in Notebook : remote'[n].title[1] = d => Gone(n)'
    BY QuietKeeps DEF GenerationInv, IssuesOK
  <2>. QED
    BY <2>1 DEF QuietIsClean, Gone, State
<1>5. IssuesOK' /\ TitlesOK'
  BY <1>4 DEF IssuesOK, TitlesOK
<1>6. CompletedIsWhole' /\ RunTyped'
  BY DEF GenerationInv, CompletedIsWhole, RunTyped
<1>. QED
  BY <1>1, <1>2, <1>3, <1>5, <1>6 DEF GenerationInv

(* The document goes on: with the notebook in hand, or with none, at the    *)
(* next chunk or, once the last notebook is gone, at the same one.          *)
LEMMA DocumentGoesOn ==
  ASSUME GenerationInv, ClientOK', Fading, report' = report, run' \in RunState,
         run.pc # "cleanup", run'.doc = run.doc, HandsOK', ProgressOK',
         run'.progress.dirty = 0 => run.progress.dirty = 0,
         \/ /\ run'.notebook = run.notebook
            /\ run'.progress.chunk = run.progress.chunk
         \/ /\ run'.notebook = NoNotebook /\ run.notebook \in Notebook
            /\ \/ run'.progress.chunk > run.progress.chunk
               \/ /\ run'.progress.chunk = run.progress.chunk
                  /\ remote'[run.notebook].state = "none"
            /\ run'.progress.dirty = 0 => remote'[run.notebook].state \in {"none", "lost"}
  PROVE  GenerationInv'
<1>0. /\ ClientOK /\ RunTyped /\ TitlesOK /\ IssuesOK /\ NoTwins /\ CompletedIsWhole
      /\ run.doc \in Nat /\ run.progress.chunk \in Nat /\ run'.progress.chunk \in Nat
  BY ChunkFacts DEF GenerationInv, RunTyped, RunState, Progress
<1>1. NoTwins'
  BY <1>0, TwinsKeep
<1>2. QuietIsClean'
  <2>1. \A d \in Doc : report'[d].outcome # "none" /\ report'[d].issues = 0 =>
           \A n \in Notebook : remote'[n].title[1] = d => Gone(n)'
    BY <1>0, QuietKeeps DEF IssuesOK
  <2>. QED
    BY <2>1 DEF QuietIsClean, Gone, State
<1>3. ASSUME NEW n \in Notebook, State(n)' # "none"
      PROVE  /\ remote'[n].title = remote[n].title /\ (Gone(n) => Gone(n)')
             /\ \/ n = run.notebook /\ remote[n].title = <<run.doc, run.progress.chunk>>
                \/ n # run.notebook /\ Past(remote[n].title)
             /\ remote[n].title[1] \in Nat /\ remote[n].title[2] \in Nat
  BY <1>0, <1>3, FadingTitles, TitleFacts DEF TitlesOK
<1>4. TitlesOK'
  <2>1. ASSUME NEW n \in Notebook, State(n)' # "none"
        PROVE  \/ n = run'.notebook /\ remote'[n].title = <<run'.doc, run'.progress.chunk>>
               \/ n # run'.notebook /\ Past(remote[n].title)'
    <3>1. CASE run'.notebook = run.notebook /\ run'.progress.chunk = run.progress.chunk
      BY <1>0, <1>3, <2>1, <3>1 DEF Past
    <3>2. CASE /\ run'.notebook = NoNotebook /\ run.notebook \in Notebook
               /\ \/ run'.progress.chunk > run.progress.chunk
                  \/ /\ run'.progress.chunk = run.progress.chunk
                     /\ remote'[run.notebook].state = "none"
      <4>1. n # run'.notebook
        BY <3>2, GenerationAssumption
      <4>2. CASE n = run.notebook
        <5>1. remote'[run.notebook].state # "none"
          BY <2>1, <4>2 DEF State
        <5>2. remote'[n].title = <<run.doc, run.progress.chunk>>
          BY <1>3, <2>1, <4>2
        <5>. QED
          BY <1>0, <3>2, <4>1, <5>1, <5>2 DEF Past
      <4>3. CASE n # run.notebook
        <5>1. Past(remote[n].title) /\ remote'[n].title = remote[n].title
          BY <1>3, <2>1, <4>3
        <5>. QED
          BY <1>0, <1>3, <2>1, <3>2, <4>1, <5>1 DEF Past
      <4>. QED
        BY <4>2, <4>3
    <3>. QED
      BY <3>1, <3>2
  <2>. QED
    BY <2>1 DEF TitlesOK
<1>5. IssuesOK'
  <2>1. ASSUME run'.progress.dirty = 0, NEW n \in Notebook, n # run'.notebook,
               remote'[n].title[1] = run'.doc, State(n)' # "none"
        PROVE  Gone(n)'
    <3>1. remote[n].title[1] = run.doc /\ (Gone(n) => Gone(n)')
      BY <1>3, <2>1
    <3>2. n # run.notebook => Gone(n)
      BY <1>0, <2>1, <3>1 DEF IssuesOK
    <3>. QED
      BY <2>1, <3>1, <3>2 DEF Gone, State
  <2>3. ASSUME run'.progress.dirty = 0, NEW n \in Notebook, n # run'.notebook,
               remote'[n].title[1] = run'.doc
        PROVE  Gone(n)'
    BY <2>1, <2>3 DEF Gone
  <2>. QED
    BY <1>0, <1>2, <2>3 DEF IssuesOK
<1>6. CompletedIsWhole' /\ RunTyped'
  BY <1>0 DEF CompletedIsWhole, RunTyped
<1>. QED
  BY <1>1, <1>4, <1>5, <1>6 DEF GenerationInv

LEMMA NoProgressTyped ==
  /\ NoProgress \in Progress
  /\ NoProgress.dirty = 0 /\ NoProgress.chunk = 1
BY ChunkFacts, GenerationAssumption DEF NoProgress, Progress

(* What may be reported of a document, and that its clean-up failures are   *)
(* counted.                                                                 *)
Reportable(outcome, error, p) ==
  /\ outcome \in {"completed", "skipped", "failed"}
  /\ error \in {"none", "preparation", "creation", "generation", "no cards"}
  /\ p.dirty \in {0} \cup Chunk
  /\ p.decks \in SUBSET (Chunk \cup {Whole})
  /\ p.lost \in BOOLEAN
  /\ outcome = "completed" => Whole \in p.decks /\ (~ p.lost) /\ error = "none"

Counted(p) ==
  p.dirty = 0 =>
    /\ run.progress.dirty = 0
    /\ run.notebook \in Notebook => remote'[run.notebook].state \in {"none", "lost"}

(* A document is reported and the next one, if there is one, begun.         *)
LEMMA ReportedKeeps ==
  ASSUME GenerationInv, ClientOK', Fading, run.pc # "cleanup", drain'.pc = "idle",
         \A n \in Notebook : holder'[n] = "nobody",
         NEW outcome, NEW error, NEW p, Reportable(outcome, error, p), Counted(p),
         Reported(outcome, error, p)
  PROVE  GenerationInv'
<1>. DEFINE entry == [outcome |-> outcome, error |-> error, issues |-> p.dirty,
                      decks |-> p.decks, lost |-> p.lost]
<1>0. /\ run \in RunState /\ run.doc \in Doc /\ Documents \in Nat
  BY ChunkFacts DEF GenerationInv, RunTyped, RunState
<1>1. /\ ClientOK /\ RunTyped /\ TitlesOK /\ IssuesOK /\ NoTwins /\ CompletedIsWhole
      /\ run \in RunState /\ run.doc \in Doc /\ run.doc \in Nat /\ report \in [Doc -> ReportState]
      /\ Documents \in Nat /\ run.doc <= Documents
  BY <1>0 DEF GenerationInv, RunTyped, Doc
<1>2. /\ entry \in ReportState /\ entry.outcome = outcome /\ entry.error = error
      /\ entry.issues = p.dirty /\ entry.decks = p.decks /\ entry.lost = p.lost
  BY DEF ReportState, Reportable
<1>3. /\ report' = [report EXCEPT ![run.doc] = entry]
      /\ run' = [run EXCEPT !.pc = IF run.doc = Documents THEN "cleanup" ELSE "prepare",
                            !.doc = IF run.doc = Documents THEN run.doc ELSE run.doc + 1,
                            !.notebook = NoNotebook,
                            !.result = "none", !.progress = NoProgress]
  BY DEF Reported
<1>. HIDE DEF entry
<1>4. PICK pc \in {"prepare", "cleanup"}, doc \in Doc :
        /\ pc = "prepare" => doc = run.doc + 1
        /\ run' = [run EXCEPT !.pc = pc, !.doc = doc, !.notebook = NoNotebook,
                              !.result = "none", !.progress = NoProgress]
  <2>1. CASE run.doc = Documents
    BY <1>1, <1>3, <2>1
  <2>2. CASE run.doc # Documents
    <3>1. run.doc + 1 \in Doc
      BY <1>1, <2>2 DEF Doc
    <3>. QED
      BY <1>3, <2>2, <3>1
  <2>. QED
    BY <2>1, <2>2
<1>5. /\ run' \in RunState /\ run'.pc = pc /\ run'.doc = doc /\ run'.notebook = NoNotebook
      /\ run'.progress = NoProgress
  <2>1. NoNotebook \in Notebook \cup {NoNotebook}
    OBVIOUS
  <2>. QED
    BY <1>1, <1>4, <2>1, NoProgressTyped DEF RunState
<1>6. /\ report' \in [Doc -> ReportState] /\ report'[run.doc] = entry
      /\ \A d \in Doc \ {run.doc} : report'[d] = report[d]
  BY <1>1, <1>2, <1>3
<1>7. RunTyped'
  BY <1>5, <1>6 DEF RunTyped
<1>8. NoTwins'
  BY <1>1, TwinsKeep
<1>9. CompletedIsWhole'
  <2>1. ASSUME NEW d \in Doc, report'[d].outcome = "completed"
        PROVE  Whole \in report'[d].decks /\ (~ report'[d].lost) /\ report'[d].error = "none"
    <3>1. CASE d = run.doc
      BY <1>2, <1>6, <2>1, <3>1 DEF Reportable
    <3>2. CASE d # run.doc
      BY <1>1, <1>6, <2>1, <3>2 DEF CompletedIsWhole
    <3>. QED
      BY <3>1, <3>2
  <2>. QED
    BY <2>1 DEF CompletedIsWhole
<1>10. HandsOK'
  BY <1>4, <1>5 DEF HandsOK, Scoped
<1>11. ProgressOK'
  BY <1>4, <1>5, NoProgressTyped DEF ProgressOK
<1>12. ASSUME NEW n \in Notebook, State(n)' # "none"
       PROVE  /\ remote'[n].title = remote[n].title /\ (Gone(n) => Gone(n)')
              /\ \/ n = run.notebook /\ remote[n].title = <<run.doc, run.progress.chunk>>
                 \/ n # run.notebook /\ Past(remote[n].title)
              /\ remote[n].title[1] \in Nat /\ remote[n].title[1] <= run.doc
  <2>1. /\ remote'[n].title = remote[n].title /\ (Gone(n) => Gone(n)') /\ State(n) # "none"
    BY <1>1, <1>12, FadingTitles
  <2>2. \/ n = run.notebook /\ remote[n].title = <<run.doc, run.progress.chunk>>
        \/ n # run.notebook /\ Past(remote[n].title)
    BY <1>1, <2>1 DEF TitlesOK
  <2>3. remote[n].title[1] \in Nat
    BY <1>1, <2>1, TitleFacts
  <2>. QED
    BY <1>1, <2>1, <2>2, <2>3 DEF Past
<1>13. QuietIsClean'
  <2>1. ASSUME NEW d \in Doc \ {run.doc}
        PROVE  report'[d].outcome # "none" /\ report'[d].issues = 0 =>
                 \A n \in Notebook : remote'[n].title[1] = d => Gone(n)'
    BY <1>1, <1>6, QuietKeeps DEF IssuesOK
  <2>2. ASSUME p.dirty = 0, NEW n \in Notebook, remote'[n].title[1] = run.doc
        PROVE  Gone(n)'
    <3>1. CASE State(n)' = "none"
      BY <3>1 DEF Gone
    <3>2. CASE State(n)' # "none" /\ n # run.notebook
      <4>1. Gone(n)
        BY <1>1, <1>12, <2>2, <3>2 DEF IssuesOK, Counted
      <4>. QED
        BY <1>12, <3>2, <4>1
    <3>3. CASE n = run.notebook
      BY <2>2, <3>3 DEF Gone, State, Counted
    <3>. QED
      BY <3>1, <3>2, <3>3
  <2>. QED
    BY <1>2, <1>6, <2>1, <2>2 DEF QuietIsClean, Gone, State
<1>14. TitlesOK' /\ IssuesOK'
  <2>1. CASE pc = "cleanup"
    BY <1>5, <1>13, <2>1 DEF TitlesOK, IssuesOK
  <2>2. CASE pc = "prepare"
    <3>1. run'.doc = run.doc + 1
      BY <1>4, <1>5, <2>2
    <3>2. TitlesOK'
      <4>1. ASSUME NEW n \in Notebook, State(n)' # "none"
            PROVE  n # run'.notebook /\ Past(remote[n].title)'
        BY <1>1, <1>5, <1>12, <3>1, <4>1, GenerationAssumption DEF Past
      <4>. QED
        BY <4>1 DEF TitlesOK
    <3>3. ASSUME NEW d \in Doc, d >= run'.doc
          PROVE  report'[d].outcome = "none"
      <4>1. d # run.doc /\ d >= run.doc
        BY <1>1, <3>1, <3>3 DEF Doc
      <4>. QED
        BY <1>1, <1>6, <4>1 DEF IssuesOK
    <3>4. ASSUME NEW n \in Notebook, remote'[n].title[1] = run'.doc
          PROVE  Gone(n)'
      <4>1. State(n)' = "none"
        BY <1>1, <1>12, <3>1, <3>4
      <4>. QED
        BY <4>1 DEF Gone
    <3>. QED
      BY <1>13, <3>2, <3>3, <3>4 DEF IssuesOK
  <2>. QED
    BY <1>4, <2>1, <2>2
<1>. QED
  BY <1>7, <1>8, <1>9, <1>10, <1>11, <1>14 DEF GenerationInv

LEMMA InitKeeps ==
  ASSUME GenerationInit
  PROVE  GenerationInv
<1>1. /\ remote = [n \in Notebook |-> NoNotice] /\ holder = [n \in Notebook |-> "nobody"]
      /\ registry = NoTasks /\ drain = DrainIdle
      /\ report = [d \in Doc |-> NotReported]
      /\ run = [pc |-> "prepare", doc |-> 1, notebook |-> NoNotebook,
                result |-> "none", progress |-> NoProgress]
  BY DEF GenerationInit, CleanupInit
<1>2. /\ NoTasks \in TaskList /\ NoTasks.running = {} /\ (~ NoTasks.failed)
  BY DEF NoTasks, TaskList
<1>3. /\ DrainIdle \in DrainState /\ DrainIdle.tasks = NoTasks /\ DrainIdle.pc = "idle"
  BY <1>2, GenerationAssumption DEF DrainIdle, DrainState
<1>4. ClientTyped /\ DrainOK
  BY <1>1, <1>2, <1>3, NoNoticeTyped DEF ClientTyped, DrainOK, Drained
<1>5. ASSUME NEW n \in Notebook
      PROVE  NoteOK(n) /\ Gone(n) /\ State(n) = "none" /\ holder[n] = "nobody"
  <2>1. \A task : ~ Running(task)
    BY <1>1, <1>2, <1>3 DEF Running
  <2>2. remote[n] = NoNotice /\ holder[n] = "nobody"
    BY <1>1
  <2>. QED
    BY <2>1, <2>2, NoNoticeTyped DEF NoteOK, State, Gone
<1>6. /\ NotReported \in ReportState /\ NotReported.outcome = "none"
  BY DEF NotReported, ReportState
<1>7. run \in RunState /\ report \in [Doc -> ReportState]
  BY <1>1, <1>6, ChunkFacts, NoProgressTyped DEF RunState
<1>8. HandsOK
  BY <1>1, <1>3, <1>5 DEF HandsOK, Scoped
<1>9. /\ run.pc = "prepare" /\ run.progress = NoProgress
  BY <1>1
<1>10. ProgressOK
  BY <1>9, NoProgressTyped DEF ProgressOK
<1>11. \A d \in Doc : report[d].outcome = "none"
  BY <1>1, <1>6
<1>12. TitlesOK /\ NoTwins /\ IssuesOK /\ CompletedIsWhole
  BY <1>5, <1>11 DEF TitlesOK, NoTwins, Exists, IssuesOK, QuietIsClean, CompletedIsWhole, State
<1>. QED
  BY <1>4, <1>5, <1>7, <1>8, <1>10, <1>12 DEF GenerationInv, ClientOK, RunTyped

LEMMA Still ==
  ASSUME ClientOK, UNCHANGED cleanupVars
  PROVE  ClientOK' /\ Fading
<1>1. /\ remote' = remote /\ holder' = holder /\ registry' = registry /\ drain' = drain
      /\ ClientTyped /\ DrainOK
  BY DEF cleanupVars, ClientOK
<1>2. registry' \in TaskList /\ drain' \in DrainState
  BY <1>1 DEF ClientTyped
<1>3. DrainOK' /\ (\A other : Running(other)' <=> Running(other)) /\ (Failures => Failures')
  BY <1>1 DEF DrainOK, Drained, Running, Failures
<1>. QED
  BY <1>1, <1>2, <1>3, ListsMove

LEMMA RunFacts ==
  ASSUME GenerationInv
  PROVE  /\ run \in RunState /\ run.progress \in Progress /\ run.doc \in Doc
         /\ run.progress.chunk \in Nat /\ run.progress.dirty \in Nat
         /\ run.progress.attempt \in Nat /\ run.progress.total \in Nat
         /\ run.progress.dirty < run.progress.chunk
         /\ run.pc # "cleanup" => drain.pc = "idle"
<1>1. /\ run \in RunState /\ run.progress \in Progress /\ run.doc \in Doc
  BY DEF GenerationInv, RunTyped, RunState
<1>3. /\ run.progress.chunk \in Chunk /\ run.progress.dirty \in {0} \cup Chunk
      /\ run.progress.total \in {0} \cup Chunk /\ run.progress.attempt \in 0 .. MaxRetries
  BY <1>1 DEF Progress
<1>4. run.progress.attempt \in Nat
  BY <1>3, GenerationAssumption
<1>5. run.progress.dirty < run.progress.chunk
  BY DEF GenerationInv, ProgressOK
<1>6. run.pc # "cleanup" => drain.pc = "idle"
  BY DEF GenerationInv, HandsOK
<1>7. {0} \cup Chunk \subseteq Nat
  BY ChunkFacts
<1>8. /\ run.progress.chunk \in Nat /\ run.progress.dirty \in Nat /\ run.progress.total \in Nat
  BY <1>3, <1>7
<1>. QED
  BY <1>1, <1>4, <1>5, <1>6, <1>8

LEMMA FailsKeeps ==
  ASSUME GenerationInv, ClientOK', Fading, run.pc # "cleanup", drain'.pc = "idle",
         \A n \in Notebook : holder'[n] = "nobody",
         NEW error \in {"preparation", "creation", "generation"}, NEW dirty \in {0, 1},
         run.progress.dirty + dirty \in {0} \cup Chunk,
         DocumentFails(error, dirty),
         dirty = 0 =>
           (run.notebook \in Notebook => remote'[run.notebook].state \in {"none", "lost"})
  PROVE  GenerationInv'
<1>. DEFINE p == [run.progress EXCEPT !.dirty = run.progress.dirty + dirty]
<1>1. run.progress \in Progress /\ run.progress.dirty \in Nat
  BY RunFacts
<1>2. /\ p.dirty = run.progress.dirty + dirty /\ p.decks \in SUBSET Chunk /\ p.lost \in BOOLEAN
  BY <1>1 DEF Progress
<1>3. Reported("failed", error, p)
  BY DEF DocumentFails
<1>. HIDE DEF p
<1>4. Reportable("failed", error, p)
  BY <1>2 DEF Reportable
<1>5. p.dirty = 0 => run.progress.dirty = 0 /\ dirty = 0
  BY <1>1, <1>2
<1>6. Counted(p)
  BY <1>5 DEF Counted
<1>. QED
  BY <1>3, <1>4, <1>6, ReportedKeeps

(* A dirty attempt more still fits the chunks there are.                    *)
LEMMA DirtyFits ==
  ASSUME GenerationInv, run.pc \notin {"prepare", "cleanup"}, NEW dirty \in {0, 1}
  PROVE  run.progress.dirty + dirty \in {0} \cup Chunk
<1>1. /\ run.progress.dirty < run.progress.chunk /\ run.progress.chunk <= run.progress.total
      /\ run.progress.total \in 1 .. MaxChunks[run.doc]
  BY DEF GenerationInv, ProgressOK
<1>2. /\ run.progress.chunk \in Nat /\ run.progress.dirty \in Nat /\ run.progress.total \in Nat
      /\ run.doc \in Doc
  BY RunFacts
<1>3. MaxChunks[run.doc] \in Nat /\ 1 .. MaxChunks[run.doc] \subseteq Chunk
  BY <1>2, ChunkFacts
<1>4. run.progress.dirty + dirty = 0 \/ run.progress.dirty + dirty \in 1 .. MaxChunks[run.doc]
  BY <1>1, <1>2, <1>3
<1>. QED
  BY <1>3, <1>4

LEMMA PrepareKeeps ==
  ASSUME GenerationInv, Prepare
  PROVE  GenerationInv'
<1>1. /\ run.pc = "prepare" /\ UNCHANGED cleanupVars /\ holder' = holder /\ drain' = drain
      /\ HandsOK /\ ProgressOK /\ run.notebook = NoNotebook /\ run.progress = NoProgress
  BY DEF Prepare, At, cleanupVars, GenerationInv, HandsOK, ProgressOK, Scoped
<1>2. ClientOK' /\ Fading
  BY <1>1, Still DEF GenerationInv
<1>3. drain'.pc = "idle" /\ \A n \in Notebook : holder'[n] = "nobody"
  BY <1>1, GenerationAssumption DEF HandsOK
<1>4. NoNotebook \notin Notebook
  BY GenerationAssumption
<1>5. CASE DocumentFails("preparation", 0)
  <2>1. run.progress.dirty + 0 \in {0} \cup Chunk
    BY <1>1, NoProgressTyped
  <2>. QED
    BY <1>1, <1>2, <1>3, <1>4, <1>5, <2>1, FailsKeeps
<1>6. CASE Reported("skipped", "none", NoProgress)
  <2>1. Reportable("skipped", "none", NoProgress) /\ Counted(NoProgress)
    BY <1>1, <1>4, NoProgressTyped DEF Reportable, Counted, Progress
  <2>. QED
    BY <1>1, <1>2, <1>3, <1>6, <2>1, ReportedKeeps
<1>7. ASSUME NEW total \in 1 .. MaxChunks[run.doc],
             run' = [run EXCEPT !.pc = "ask", !.progress.total = total], report' = report
      PROVE  GenerationInv'
  <2>. DEFINE p == [run.progress EXCEPT !.total = total]
  <2>0. run \in RunState /\ run.progress \in Progress /\ run.doc \in Doc
    BY RunFacts
  <2>1. total \in Chunk /\ total \in Nat /\ 1 <= total
    <3>1. MaxChunks[run.doc] \in Nat /\ 1 .. MaxChunks[run.doc] \subseteq Chunk
      BY <2>0, ChunkFacts
    <3>2. total \in Chunk
      BY <3>1
    <3>. QED
      BY <3>1, <3>2
  <2>2. /\ p \in Progress /\ p.total = total /\ p.chunk = run.progress.chunk
        /\ p.dirty = run.progress.dirty
    BY <2>0, <2>1 DEF Progress
  <2>3. run' = [run EXCEPT !.pc = "ask", !.progress = p]
    BY <1>7, <2>0 DEF RunState
  <2>. HIDE DEF p
  <2>4. /\ run' \in RunState /\ run'.pc = "ask" /\ run'.progress = p
        /\ run'.doc = run.doc /\ run'.notebook = run.notebook
    BY <2>0, <2>2, <2>3 DEF RunState
  <2>5. ProgressOK'
    BY <1>1, <1>7, <2>1, <2>2, <2>4, NoProgressTyped DEF ProgressOK
  <2>6. HandsOK'
    BY <1>1, <1>3, <2>4 DEF HandsOK, Scoped
  <2>. QED
    BY <1>1, <1>2, <1>7, <2>2, <2>4, <2>5, <2>6, DocumentGoesOn
<1>. QED
  BY <1>5, <1>6, <1>7 DEF Prepare

LEMMA InHand ==
  ASSUME GenerationInv, run.pc # "cleanup"
  PROVE  /\ \A n \in Notebook : n # run.notebook => holder[n] = "nobody"
         /\ holder \in [Notebook -> {"nobody", "asked", "sent", "refused", "scope"}]
         /\ drain.pc = "idle" /\ ClientOK
         /\ run.pc \in Scoped => run.notebook \in Notebook /\ holder[run.notebook] = "scope"
         /\ run.pc = "create" => run.notebook \in Notebook
         /\ run.pc \notin Scoped \cup {"create"} => run.notebook = NoNotebook
BY DEF GenerationInv, HandsOK, ClientOK, ClientTyped

LEMMA AskGoesOn ==
  ASSUME GenerationInv, Ask
  PROVE  GenerationInv'
<1>1. /\ run.pc = "ask" /\ run.notebook = NoNotebook /\ drain.pc = "idle" /\ ClientOK
      /\ run \in RunState /\ run.progress \in Progress /\ run.doc \in Doc
      /\ run.progress.chunk \in Chunk /\ report' = report
      /\ \A m \in Notebook : holder[m] = "nobody"
      /\ TitlesOK /\ IssuesOK /\ NoTwins /\ ProgressOK
  BY InHand, RunFacts, GenerationAssumption DEF Ask, At, GenerationInv, Progress, Scoped
<1>2. PICK n \in Notebook : /\ n = NextNotebook /\ AskNotebook(n, <<run.doc, run.progress.chunk>>)
                            /\ run' = [run EXCEPT !.pc = "create", !.notebook = n]
  <2>1. NextNotebook \in Notebook
    BY NextIsFresh DEF Ask
  <2>. QED
    BY <2>1 DEF Ask
<1>3. PICK title \in Doc \X Chunk : title = <<run.doc, run.progress.chunk>>
  BY <1>1
<1>4. /\ ClientOK' /\ State(n) = "none"
      /\ State(n)' = "requested" /\ remote'[n].title = title /\ holder'[n] = "asked"
      /\ \A m \in Notebook \ {n} : remote'[m] = remote[m] /\ holder'[m] = holder[m]
  <2>1. AskNotebook(n, title)
    BY <1>2, <1>3
  <2>. QED
    BY <1>1, <2>1, AskKeeps
<1>5. /\ run' \in RunState /\ run'.pc = "create" /\ run'.notebook = n
      /\ run'.doc = run.doc /\ run'.progress = run.progress /\ run'.result = run.result
  BY <1>1, <1>2 DEF RunState
<1>6. drain' = drain
  BY <1>2 DEF AskNotebook, Spawn
<1>7. HandsOK'
  BY <1>1, <1>4, <1>5, <1>6 DEF HandsOK, Scoped
<1>8. ProgressOK'
  BY <1>1, <1>5 DEF ProgressOK
<1>9. title[1] = run.doc /\ title[2] = run.progress.chunk /\ run.doc \in Nat /\ run.progress.chunk \in Nat
  BY <1>1, <1>3, ChunkFacts
<1>10. \A m \in Notebook \ {n} : State(m) # "none" => Past(remote[m].title)
  BY <1>1, GenerationAssumption DEF TitlesOK
<1>11. \A m \in Notebook \ {n} : State(m)' = State(m) /\ remote'[m].title = remote[m].title
  BY <1>4 DEF State
<1>12. \A t : Past(t)' <=> Past(t)
  BY <1>5 DEF Past
<1>13. TitlesOK'
  <2>1. ASSUME NEW m \in Notebook, State(m)' # "none"
        PROVE  \/ m = run'.notebook /\ remote'[m].title = <<run'.doc, run'.progress.chunk>>
               \/ m # run'.notebook /\ Past(remote[m].title)'
    <3>1. CASE m = n
      BY <1>3, <1>4, <1>5, <3>1
    <3>2. CASE m # n
      <4>1. Past(remote[m].title) /\ remote'[m].title = remote[m].title
        BY <1>10, <1>11, <2>1, <3>2
      <4>. QED
        BY <1>5, <3>2, <4>1 DEF Past
    <3>. QED
      BY <3>1, <3>2
  <2>. QED
    BY <2>1 DEF TitlesOK
<1>14. NoTwins'
  <2>1. \A m \in Notebook \ {n} : Exists(m)' <=> Exists(m)
    BY <1>4 DEF Exists
  <2>2. ASSUME NEW m \in Notebook \ {n}, Exists(m)
        PROVE  remote[m].title # title
    <3>1. State(m) # "none"
      BY <2>2 DEF Exists, State
    <3>. QED
      BY <1>9, <1>10, <3>1 DEF Past
  <2>3. ASSUME NEW n1 \in Notebook, NEW n2 \in Notebook, Exists(n1)', Exists(n2)', n1 # n2
        PROVE  remote'[n1].title # remote'[n2].title
    BY <1>1, <1>4, <1>11, <2>1, <2>2, <2>3 DEF NoTwins
  <2>. QED
    BY <2>3 DEF NoTwins
<1>15. report[run.doc].outcome = "none"
  BY <1>1, <1>9 DEF IssuesOK
<1>16. QuietIsClean'
  <2>1. ASSUME NEW d \in Doc, report[d].outcome # "none", report[d].issues = 0,
               NEW m \in Notebook, remote'[m].title[1] = d
        PROVE  remote'[m].state \in {"none", "lost"}
    <3>1. d # run.doc
      BY <1>15, <2>1
    <3>2. m # n
      BY <1>4, <1>9, <2>1, <3>1
    <3>. QED
      BY <1>1, <1>4, <2>1, <3>2 DEF IssuesOK, QuietIsClean
  <2>. QED
    BY <1>1, <2>1 DEF QuietIsClean
<1>17. IssuesOK'
  <2>1. \A d \in Doc : d >= run'.doc => report'[d].outcome = "none"
    BY <1>1, <1>5 DEF IssuesOK
  <2>2. ASSUME run'.progress.dirty = 0, NEW m \in Notebook, m # run'.notebook,
               remote'[m].title[1] = run'.doc
        PROVE  Gone(m)'
    <3>1. m # n /\ m # run.notebook /\ remote[m].title[1] = run.doc /\ run.progress.dirty = 0
      BY <1>1, <1>4, <1>5, <2>2, GenerationAssumption
    <3>2. Gone(m)
      BY <1>1, <3>1 DEF IssuesOK
    <3>. QED
      BY <1>11, <3>1, <3>2 DEF Gone
  <2>. QED
    BY <1>16, <2>1, <2>2 DEF IssuesOK
<1>18. CompletedIsWhole' /\ RunTyped'
  BY <1>1, <1>5 DEF GenerationInv, CompletedIsWhole, RunTyped
<1>. QED
  BY <1>4, <1>7, <1>8, <1>13, <1>14, <1>17, <1>18 DEF GenerationInv

LEMMA CreatedGoesOn ==
  ASSUME GenerationInv, Created
  PROVE  GenerationInv'
<1>1. /\ run.pc = "create" /\ drain.pc = "idle" /\ ClientOK /\ run \in RunState /\ ProgressOK
      /\ \A m \in Notebook : m # run.notebook => holder[m] = "nobody"
      /\ holder \in [Notebook -> {"nobody", "asked", "sent", "refused", "scope"}]
      /\ run' = [run EXCEPT !.pc = "register"] /\ report' = report
  BY InHand, RunFacts DEF Created, At, GenerationInv
<1>2. PICK n \in Notebook : n = run.notebook /\ TakeNotebook(n)
  BY <1>1, InHand DEF Created
<1>3. ClientOK' /\ Fading
  BY <1>1, <1>2, TakeKeeps
<1>4. drain' = drain /\ holder' = [holder EXCEPT ![n] = "scope"]
  BY <1>2 DEF TakeNotebook
<1>5. /\ run' \in RunState /\ run'.pc = "register" /\ run'.notebook = run.notebook
      /\ run'.doc = run.doc /\ run'.progress = run.progress
  BY <1>1 DEF RunState, Scoped
<1>6. HandsOK'
  BY <1>1, <1>2, <1>4, <1>5 DEF HandsOK, Scoped
<1>7. ProgressOK'
  BY <1>1, <1>5 DEF ProgressOK
<1>. QED
  BY <1>1, <1>3, <1>5, <1>6, <1>7, DocumentGoesOn

LEMMA CreationFailedGoesOn ==
  ASSUME GenerationInv, CreationFailed
  PROVE  GenerationInv'
<1>1. /\ run.pc = "create" /\ drain.pc = "idle" /\ ClientOK
      /\ \A m \in Notebook : m # run.notebook => holder[m] = "nobody"
      /\ holder \in [Notebook -> {"nobody", "asked", "sent", "refused", "scope"}]
      /\ DocumentFails("creation", 0)
  BY InHand DEF CreationFailed, At
<1>2. PICK n \in Notebook : n = run.notebook /\ TakeRefusal(n)
  BY <1>1, InHand DEF CreationFailed
<1>3. ClientOK' /\ Fading
  BY <1>1, <1>2, TakeKeeps
<1>4. /\ drain' = drain /\ remote' = remote /\ holder[n] = "refused"
      /\ holder' = [holder EXCEPT ![n] = "nobody"]
  BY <1>2 DEF TakeRefusal
<1>5. remote'[run.notebook].state \in {"none", "lost"}
  BY <1>1, <1>2, <1>4 DEF ClientOK, NoteOK, Gone, State
<1>6. run.progress.dirty + 0 \in {0} \cup Chunk
  BY <1>1, DirtyFits
<1>7. \A m \in Notebook : holder'[m] = "nobody"
  BY <1>1, <1>2, <1>4
<1>. QED
  BY <1>1, <1>3, <1>4, <1>5, <1>6, <1>7, FailsKeeps

(* Steps between the creation and the end of an attempt, and the pause.     *)
LEMMA OnlyRunGoesOn ==
  ASSUME GenerationInv, Register \/ Transfer \/ Unload \/ Generate \/ Pause
  PROVE  GenerationInv'
<1>1. /\ UNCHANGED cleanupVars /\ report' = report /\ holder' = holder /\ drain' = drain
      /\ run.pc \notin {"prepare", "cleanup", "create"}
  BY DEF Register, Transfer, Unload, Generate, Pause, OnlyRun, At, cleanupVars
<1>2. /\ run \in RunState /\ HandsOK /\ ProgressOK /\ ClientOK
  BY RunFacts DEF GenerationInv
<1>3. ASSUME NEW pc \in Scoped \cup {"ask"},
             \/ run' = [run EXCEPT !.pc = pc]
             \/ \E result \in {run.result, "cards", "empty", "transient", "permanent"} :
                  run' = [run EXCEPT !.pc = pc, !.result = result]
      PROVE  /\ run' \in RunState /\ run'.pc = pc /\ run'.notebook = run.notebook
             /\ run'.doc = run.doc /\ run'.progress = run.progress
  BY <1>2, <1>3 DEF RunState
<1>4. /\ run' \in RunState /\ run'.notebook = run.notebook
      /\ run'.doc = run.doc /\ run'.progress = run.progress
      /\ \/ run.pc \in Scoped /\ run'.pc \in Scoped
         \/ run.pc = "pause" /\ run'.pc = "ask"
  <2>0. {"transfer", "generate", "close", "unload"} \subseteq Scoped
    BY DEF Scoped
  <2>1. CASE Register
    BY <1>3, <2>0, <2>1 DEF Register, Fails, At, Scoped
  <2>2. CASE Transfer
    BY <1>3, <2>0, <2>2 DEF Transfer, Fails, At, Scoped
  <2>3. CASE Unload
    BY <1>3, <2>0, <2>3 DEF Unload, Fails, At, Scoped
  <2>4. CASE Generate
    BY <1>3, <2>0, <2>4 DEF Generate, Fails, At, Scoped
  <2>5. CASE Pause
    BY <1>3, <2>5 DEF Pause, At
  <2>. QED
    BY <2>1, <2>2, <2>3, <2>4, <2>5
<1>5. HandsOK'
  <2>1. CASE run.pc \in Scoped /\ run'.pc \in Scoped
    <3>1. run'.pc # "create" /\ run.pc # "cleanup"
      BY <2>1 DEF Scoped
    <3>. QED
      BY <1>1, <1>2, <1>4, <2>1, <3>1 DEF HandsOK
  <2>2. CASE run.pc = "pause" /\ run'.pc = "ask"
    BY <1>1, <1>2, <1>4, <2>2 DEF HandsOK, Scoped
  <2>. QED
    BY <1>4, <2>1, <2>2
<1>6. ProgressOK'
  <2>1. run'.pc # "prepare"
    BY <1>4 DEF Scoped
  <2>. QED
    BY <1>1, <1>2, <1>4, <2>1 DEF ProgressOK
<1>. QED
  BY <1>1, <1>2, <1>4, <1>5, <1>6, Still, DocumentGoesOn

(* close(): what the attempt comes to.                                      *)
LEMMA ExportedFacts ==
  ASSUME GenerationInv, NEW exported \in BOOLEAN, NEW dirty \in {0, 1},
         run.progress.dirty + dirty \in {0} \cup Chunk
  PROVE  LET p == [ChunkExported(run.progress, exported) EXCEPT !.dirty = @ + dirty] IN
         /\ p \in Progress
         /\ p.dirty = run.progress.dirty + dirty
         /\ p.chunk = run.progress.chunk /\ p.total = run.progress.total
<1>. DEFINE q == ChunkExported(run.progress, exported)
            p == [q EXCEPT !.dirty = q.dirty + dirty]
<1>1. run.progress \in Progress /\ run.progress.chunk \in Chunk
  BY RunFacts DEF Progress
<1>2. PICK decks \in SUBSET Chunk, lost \in BOOLEAN, cards \in SUBSET Chunk :
        q = [run.progress EXCEPT !.decks = decks, !.lost = lost, !.cards = cards]
  <2>. DEFINE wanted == run.progress.total > 1 /\ run.result = "cards"
              decks == run.progress.decks \cup IF wanted /\ exported THEN {run.progress.chunk} ELSE {}
              lost  == run.progress.lost \/ (wanted /\ ~ exported)
              cards == run.progress.cards \cup IF run.result = "cards" THEN {run.progress.chunk} ELSE {}
  <2>1. q = [run.progress EXCEPT !.decks = decks, !.lost = lost, !.cards = cards]
    BY <1>1 DEF ChunkExported, Progress
  <2>2. decks \in SUBSET Chunk /\ lost \in BOOLEAN /\ cards \in SUBSET Chunk
    BY <1>1 DEF Progress
  <2>. QED
    BY <2>1, <2>2
<1>. HIDE DEF q
<1>3. /\ q \in Progress /\ q.dirty = run.progress.dirty /\ q.chunk = run.progress.chunk
      /\ q.total = run.progress.total
  BY <1>1, <1>2 DEF Progress
<1>4. /\ p \in Progress /\ p.dirty = run.progress.dirty + dirty
      /\ p.chunk = run.progress.chunk /\ p.total = run.progress.total
  BY <1>3 DEF Progress
<1>. QED
  BY <1>4 DEF q

LEMMA DoneKeeps ==
  ASSUME GenerationInv, ClientOK', Fading, run.pc # "cleanup", drain'.pc = "idle",
         \A n \in Notebook : holder'[n] = "nobody",
         NEW p \in Progress, Counted(p), DocumentDone(p)
  PROVE  GenerationInv'
<1>1. /\ p.dirty \in {0} \cup Chunk /\ p.decks \in SUBSET Chunk /\ p.lost \in BOOLEAN
  BY DEF Progress
<1>2. CASE Reported("failed", "no cards", p)
  <2>1. Reportable("failed", "no cards", p)
    BY <1>1 DEF Reportable
  <2>. QED
    BY <1>2, <2>1, ReportedKeeps
<1>3. ASSUME NEW exported \in BOOLEAN,
             Reported(FinalOutcome(WholeExported(p, exported)), "none", WholeExported(p, exported))
      PROVE  GenerationInv'
  <2>. DEFINE whole == WholeExported(p, exported)
  <2>1. /\ whole.dirty = p.dirty
        /\ whole.decks = p.decks \cup IF exported THEN {Whole} ELSE {}
        /\ whole.lost <=> p.lost \/ ~ exported
        /\ whole.lost \in BOOLEAN
    BY <1>1 DEF WholeExported, Progress
  <2>. HIDE DEF whole
  <2>2. /\ FinalOutcome(whole) \in {"completed", "failed"}
        /\ FinalOutcome(whole) = "completed" => Whole \in whole.decks /\ ~ whole.lost
    BY <2>1 DEF FinalOutcome
  <2>3. Reportable(FinalOutcome(whole), "none", whole)
    BY <1>1, <2>1, <2>2 DEF Reportable
  <2>4. Counted(whole)
    BY <2>1 DEF Counted
  <2>5. Reported(FinalOutcome(whole), "none", whole)
    BY <1>3 DEF whole
  <2>. QED
    BY <2>3, <2>4, <2>5, ReportedKeeps
<1>. QED
  BY <1>2, <1>3 DEF DocumentDone

(* An attempt is over, with nobody holding a notebook any more.             *)
LEMMA ClosedKeeps ==
  ASSUME GenerationInv, ClientOK', Fading, run.pc = "close", drain'.pc = "idle",
         \A n \in Notebook : holder'[n] = "nobody",
         NEW confirmed \in BOOLEAN, Closed(confirmed),
         confirmed => remote'[run.notebook].state = "none"
  PROVE  GenerationInv'
<1>. DEFINE dirty == IF confirmed THEN 0 ELSE 1
<1>1. /\ dirty \in {0, 1} /\ (dirty = 0 => confirmed)
  OBVIOUS
<1>2. run.progress.dirty + dirty \in {0} \cup Chunk
  BY <1>1, DirtyFits
<1>3. /\ run \in RunState /\ run.progress \in Progress /\ run.doc \in Doc /\ ProgressOK
      /\ run.notebook \in Notebook
      /\ run.progress.chunk \in Nat /\ run.progress.dirty \in Nat
      /\ run.progress.attempt \in Nat /\ run.progress.total \in Nat
      /\ run.progress.dirty < run.progress.chunk
      /\ run.progress.chunk <= run.progress.total
      /\ run.progress.total \in 1 .. MaxChunks[run.doc]
  BY RunFacts, InHand DEF GenerationInv, ProgressOK, Scoped
<1>4. \/ Succeeded /\ ChunkDone(dirty)
      \/ ~ Succeeded /\ Retries(confirmed) /\ TryAgain /\ report' = report
      \/ ~ Succeeded /\ ~ Retries(confirmed) /\ DocumentFails("generation", dirty)
  BY DEF Closed
<1>. HIDE DEF dirty
<1>5. ASSUME run' \in RunState, run'.pc = "pause", run'.doc = run.doc, run'.notebook = NoNotebook,
             report' = report, run'.progress.total = run.progress.total,
             run'.progress.dirty < run'.progress.chunk,
             run'.progress.chunk <= run'.progress.total,
             run'.progress.dirty = 0 => run.progress.dirty = 0 /\ confirmed,
             \/ run'.progress.chunk > run.progress.chunk
             \/ run'.progress.chunk = run.progress.chunk /\ confirmed
      PROVE  GenerationInv'
  <2>1. HandsOK'
    BY <1>5 DEF HandsOK, Scoped
  <2>2. ProgressOK'
    BY <1>3, <1>5 DEF ProgressOK
  <2>. QED
    BY <1>3, <1>5, <2>1, <2>2, DocumentGoesOn
<1>6. CASE Succeeded /\ ChunkDone(dirty)
  <2>1. PICK exported \in BOOLEAN :
          LET p == [ChunkExported(run.progress, exported) EXCEPT !.dirty = @ + dirty] IN
          IF p.chunk < p.total
          THEN /\ run' = [run EXCEPT !.pc = "pause", !.notebook = NoNotebook, !.result = "none",
                                     !.progress = [p EXCEPT !.chunk = @ + 1, !.attempt = 0]]
               /\ UNCHANGED report
          ELSE DocumentDone(p)
    BY <1>6 DEF ChunkDone
  <2>2. PICK p \in Progress :
          /\ p.dirty = run.progress.dirty + dirty
          /\ p.chunk = run.progress.chunk /\ p.total = run.progress.total
          /\ \/ /\ p.chunk < p.total
                /\ run' = [run EXCEPT !.pc = "pause", !.notebook = NoNotebook, !.result = "none",
                                      !.progress = [p EXCEPT !.chunk = p.chunk + 1, !.attempt = 0]]
                /\ report' = report
             \/ DocumentDone(p)
    <3>. DEFINE q == [ChunkExported(run.progress, exported) EXCEPT !.dirty = @ + dirty]
    <3>1. /\ q \in Progress /\ q.dirty = run.progress.dirty + dirty
          /\ q.chunk = run.progress.chunk /\ q.total = run.progress.total
      BY <1>1, <1>2, ExportedFacts
    <3>2. \/ /\ q.chunk < q.total
             /\ run' = [run EXCEPT !.pc = "pause", !.notebook = NoNotebook, !.result = "none",
                                   !.progress = [q EXCEPT !.chunk = q.chunk + 1, !.attempt = 0]]
             /\ report' = report
          \/ DocumentDone(q)
      BY <2>1
    <3>. HIDE DEF q
    <3>. QED
      BY <3>1, <3>2
  <2>3. CASE DocumentDone(p)
    <3>1. Counted(p)
      BY <1>1, <1>3, <2>2 DEF Counted
    <3>. QED
      BY <2>2, <2>3, <3>1, DoneKeeps
  <2>4. CASE /\ p.chunk < p.total
             /\ run' = [run EXCEPT !.pc = "pause", !.notebook = NoNotebook, !.result = "none",
                                   !.progress = [p EXCEPT !.chunk = p.chunk + 1, !.attempt = 0]]
             /\ report' = report
    <3>. DEFINE next == [p EXCEPT !.chunk = p.chunk + 1, !.attempt = 0]
    <3>1. p.chunk + 1 \in Chunk
      <4>1. MaxChunks[run.doc] \in Nat /\ 1 .. MaxChunks[run.doc] \subseteq Chunk
        BY <1>3, ChunkFacts
      <4>2. p.chunk + 1 \in 1 .. MaxChunks[run.doc]
        BY <1>3, <2>2, <2>4, <4>1
      <4>. QED
        BY <4>1, <4>2
    <3>2. 0 \in 0 .. MaxRetries
      BY GenerationAssumption
    <3>3. /\ next \in Progress /\ next.chunk = p.chunk + 1
          /\ next.dirty = p.dirty /\ next.total = p.total
      BY <3>1, <3>2 DEF Progress
    <3>4. run' = [run EXCEPT !.pc = "pause", !.notebook = NoNotebook, !.result = "none",
                             !.progress = next]
      BY <2>4
    <3>. HIDE DEF next
    <3>5. /\ run' \in RunState /\ run'.pc = "pause" /\ run'.doc = run.doc
          /\ run'.notebook = NoNotebook /\ run'.progress = next
      BY <1>3, <3>3, <3>4 DEF RunState
    <3>6. /\ next.dirty < next.chunk /\ next.chunk <= next.total /\ next.chunk > run.progress.chunk
          /\ next.dirty = 0 => run.progress.dirty = 0 /\ confirmed
      BY <1>1, <1>3, <2>2, <2>4, <3>3
    <3>. QED
      BY <1>5, <2>2, <2>4, <3>3, <3>5, <3>6
  <2>. QED
    BY <2>2, <2>3, <2>4
<1>7. CASE ~ Succeeded /\ Retries(confirmed) /\ TryAgain /\ report' = report
  <2>. DEFINE next == [run.progress EXCEPT !.attempt = run.progress.attempt + 1]
  <2>1. run.progress.attempt + 1 \in 0 .. MaxRetries /\ confirmed
    BY <1>3, <1>7, GenerationAssumption DEF Retries
  <2>2. /\ next \in Progress /\ next.chunk = run.progress.chunk
        /\ next.dirty = run.progress.dirty /\ next.total = run.progress.total
    BY <1>3, <2>1 DEF Progress
  <2>3. run' = [run EXCEPT !.pc = "pause", !.notebook = NoNotebook, !.result = "none",
                           !.progress = next]
    BY <1>3, <1>7 DEF TryAgain, RunState
  <2>. HIDE DEF next
  <2>4. /\ run' \in RunState /\ run'.pc = "pause" /\ run'.doc = run.doc
        /\ run'.notebook = NoNotebook /\ run'.progress = next
    BY <1>3, <2>2, <2>3 DEF RunState
  <2>. QED
    BY <1>3, <1>5, <1>7, <2>1, <2>2, <2>4
<1>8. CASE ~ Succeeded /\ ~ Retries(confirmed) /\ DocumentFails("generation", dirty)
  BY <1>1, <1>2, <1>8, FailsKeeps
<1>. QED
  BY <1>4, <1>6, <1>7, <1>8

LEMMA CloseScopeGoesOn ==
  ASSUME GenerationInv, CloseScope
  PROVE  GenerationInv'
<1>1. /\ run.pc = "close" /\ drain.pc = "idle" /\ ClientOK
      /\ \A m \in Notebook : m # run.notebook => holder[m] = "nobody"
      /\ holder \in [Notebook -> {"nobody", "asked", "sent", "refused", "scope"}]
      /\ run.notebook \in Notebook
  BY InHand DEF CloseScope, At, Scoped
<1>2. PICK n \in Notebook : n = run.notebook
  BY <1>1
<1>3. CASE CloseConfirmed(n) /\ Closed(TRUE)
  <2>1. ClientOK' /\ Fading /\ State(n)' = "none"
    BY <1>1, <1>3, CloseConfirmedKeeps
  <2>2. drain' = drain /\ holder' = [holder EXCEPT ![n] = "nobody"]
    BY <1>3 DEF CloseConfirmed
  <2>3. \A m \in Notebook : holder'[m] = "nobody"
    BY <1>1, <1>2, <2>2
  <2>4. remote'[run.notebook].state = "none"
    BY <1>2, <2>1 DEF State
  <2>. QED
    BY <1>1, <1>3, <2>1, <2>2, <2>3, <2>4, ClosedKeeps
<1>4. CASE CloseFails(n) /\ Closed(FALSE)
  <2>1. ClientOK' /\ Fading
    BY <1>1, <1>4, CloseFailsKeeps
  <2>2. drain' = drain /\ holder' = [holder EXCEPT ![n] = "nobody"]
    BY <1>4 DEF CloseFails, Spawn
  <2>3. \A m \in Notebook : holder'[m] = "nobody"
    BY <1>1, <1>2, <2>2
  <2>. QED
    BY <1>1, <1>4, <2>1, <2>2, <2>3, ClosedKeeps
<1>. QED
  BY <1>2, <1>3, <1>4 DEF CloseScope

LEMMA DropKeeps ==
  ASSUME GenerationInv, Drop
  PROVE  GenerationInv'
<1>1. /\ run.pc # "cleanup" /\ drain.pc = "idle" /\ ClientOK /\ run \in RunState
      /\ \A m \in Notebook : m # run.notebook => holder[m] = "nobody"
      /\ holder \in [Notebook -> {"nobody", "asked", "sent", "refused", "scope"}]
      /\ run' = [run EXCEPT !.pc = "cleanup", !.notebook = NoNotebook, !.result = "dropped"]
      /\ report' = report
  BY InHand, RunFacts DEF Drop
<1>2. /\ run' \in RunState /\ run'.pc = "cleanup" /\ run'.notebook = NoNotebook
      /\ run'.progress = run.progress
  BY <1>1 DEF RunState
<1>3. ClientOK' /\ Fading /\ \A n \in Notebook : holder'[n] = "nobody"
  <2>1. CASE run.notebook = NoNotebook
    <3>1. UNCHANGED cleanupVars
      BY <2>1 DEF Drop
    <3>2. ClientOK' /\ Fading
      BY <1>1, <3>1, Still
    <3>. QED
      BY <1>1, <2>1, <3>1, <3>2, GenerationAssumption DEF cleanupVars
  <2>2. CASE run.notebook # NoNotebook
    <3>1. PICK n \in Notebook : n = run.notebook
      BY <1>1, <2>2 DEF RunState
    <3>2. PICK uploading \in BOOLEAN, closing \in BOOLEAN : CallerDropped(n, uploading, closing)
      <4>1. CallerDropped(n, At("transfer") \/ At("unload"), At("close"))
        BY <2>2, <3>1 DEF Drop
      <4>2. (At("transfer") \/ At("unload")) \in BOOLEAN /\ At("close") \in BOOLEAN
        BY DEF At
      <4>. QED
        BY <4>1, <4>2
    <3>3. ClientOK' /\ Fading /\ holder' = [holder EXCEPT ![n] = "nobody"]
      BY <1>1, <3>2, CallerDroppedKeeps
    <3>. QED
      BY <1>1, <3>1, <3>3
  <2>. QED
    BY <2>1, <2>2
<1>. QED
  BY <1>1, <1>2, <1>3, BatchEnds

(* The future takes no step: tasks run, or finish_cleanup does.             *)
LEMMA WaitKeeps ==
  ASSUME GenerationInv, ClientOK', Fading, run' = run, report' = report,
         HandsOK'
  PROVE  GenerationInv'
<1>1. /\ run \in RunState /\ run.progress \in Progress /\ ProgressOK
  BY RunFacts DEF GenerationInv
<1>2. CASE run.pc = "cleanup"
  <2>1. run'.notebook = NoNotebook /\ \A n \in Notebook : holder'[n] = "nobody"
    BY <1>2, GenerationAssumption DEF HandsOK, Scoped
  <2>. QED
    BY <1>1, <1>2, <2>1, BatchEnds
<1>3. CASE run.pc # "cleanup"
  <2>1. ProgressOK'
    BY <1>1 DEF ProgressOK
  <2>. QED
    BY <1>1, <1>3, <2>1, DocumentGoesOn
<1>. QED
  BY <1>2, <1>3

LEMMA FinishCleanupKeeps ==
  ASSUME GenerationInv, FinishCleanup
  PROVE  GenerationInv'
<1>1. /\ run.pc = "cleanup" /\ DrainStart /\ run' = run /\ report' = report /\ holder' = holder
      /\ HandsOK
  BY DEF FinishCleanup, At, DrainStart, OnlyDrain, GenerationInv
<1>2. ClientOK' /\ Fading
  BY <1>1, DrainPcKeeps DEF GenerationInv
<1>3. HandsOK'
  BY <1>1 DEF HandsOK, Scoped
<1>. QED
  BY <1>1, <1>2, <1>3, WaitKeeps

LEMMA TasksKeep ==
  ASSUME GenerationInv, Tasks
  PROVE  GenerationInv'
<1>1. /\ run' = run /\ report' = report /\ HandsOK /\ ClientOK
      /\ holder \in [Notebook -> {"nobody", "asked", "sent", "refused", "scope"}]
  BY DEF Tasks, GenerationInv, ClientOK, ClientTyped
<1>2. ASSUME NEW n \in Notebook, TaskStep(n)
      PROVE  GenerationInv'
  <2>1. /\ ClientOK' /\ Fading /\ drain'.pc = drain.pc
        /\ \A m \in Notebook : holder'[m] # holder[m] =>
             holder[m] = "asked" /\ holder'[m] \in {"sent", "refused"}
    BY <1>1, <1>2, TaskStepKeeps
  <2>2. \A m \in Notebook : holder'[m] # "nobody" => run.notebook = m
    BY <1>1, <2>1 DEF HandsOK
  <2>3. run.pc = "create" =>
          run.notebook \in Notebook /\ holder'[run.notebook] \in {"asked", "sent", "refused"}
    BY <1>1, <2>1 DEF HandsOK
  <2>4. run.pc \in Scoped => run.notebook \in Notebook /\ holder'[run.notebook] = "scope"
    BY <1>1, <2>1 DEF HandsOK
  <2>5. HandsOK'
    BY <1>1, <2>1, <2>2, <2>3, <2>4 DEF HandsOK
  <2>. QED
    BY <1>1, <2>1, <2>5, WaitKeeps
<1>3. CASE DrainStep \/ DrainLate \/ DrainDropped
  <2>1. drain.pc # "idle" /\ holder' = holder
    BY <1>3 DEF DrainStep, DrainTake, DrainAgain, DrainAborts, DrainLate, DrainDropped, OnlyDrain
  <2>2. run.pc = "cleanup" /\ \A n \in Notebook : holder[n] = "nobody"
    BY <1>1, <2>1, GenerationAssumption DEF HandsOK, Scoped
  <2>3. ClientOK' /\ Fading
    BY <1>1, <1>3, <2>2, DrainTakeKeeps, DrainPcKeeps, DrainDroppedKeeps, DrainAbortsKeeps,
       GenerationAssumption DEF DrainStep
  <2>4. HandsOK'
    BY <1>1, <2>1, <2>2 DEF HandsOK, Scoped
  <2>. QED
    BY <1>1, <2>3, <2>4, WaitKeeps
<1>. QED
  BY <1>2, <1>3 DEF Tasks

LEMMA NextKeeps ==
  ASSUME GenerationInv, [GenerationNext]_vars
  PROVE  GenerationInv'
<1>1. CASE RunStep
  BY <1>1, PrepareKeeps, AskGoesOn, CreatedGoesOn, CreationFailedGoesOn, OnlyRunGoesOn,
     CloseScopeGoesOn DEF RunStep
<1>2. CASE Drop
  BY <1>2, DropKeeps
<1>3. CASE FinishCleanup
  BY <1>3, FinishCleanupKeeps
<1>4. CASE Tasks
  BY <1>4, TasksKeep
<1>5. CASE UNCHANGED vars
  <2>1. UNCHANGED cleanupVars /\ run' = run /\ report' = report /\ holder' = holder /\ drain' = drain
    BY <1>5 DEF vars, cleanupVars
  <2>2. ClientOK' /\ Fading
    BY <2>1, Still DEF GenerationInv
  <2>3. HandsOK'
    BY <2>1 DEF GenerationInv, HandsOK
  <2>. QED
    BY <2>1, <2>2, <2>3, WaitKeeps
<1>. QED
  BY <1>1, <1>2, <1>3, <1>4, <1>5 DEF GenerationNext, Ended

(* The invariant the three below rest on: what the client knows of each     *)
(* notebook, how far the batch has come, and what has been reported.        *)
THEOREM GenerationInvariant == GenerationSpec => []GenerationInv
<1>1. GenerationInit => GenerationInv
  BY InitKeeps
<1>2. GenerationInv /\ [GenerationNext]_vars => GenerationInv'
  BY NextKeeps
<1>. QED
  BY <1>1, <1>2, PTL DEF GenerationSpec

(* However often a chunk is retried, whatever answers are lost and whatever *)
(* deletions fail: the provider never has two notebooks of it               *)
(* (generate_chunk retries only after a confirmed close()).                 *)
THEOREM OneNotebookPerChunk == GenerationSpec => []NoTwins
<1>1. GenerationInv => NoTwins
  BY DEF GenerationInv
<1>. QED
  BY <1>1, GenerationInvariant, PTL

(* A notebook the client knows of is in somebody's hands, is being deleted, *)
(* or its failed deletion will be told (temporary.rs).                      *)
THEOREM NothingAbandoned == GenerationSpec => []NoneAbandoned
<1>1. GenerationInv => NoneAbandoned
  BY DEF GenerationInv, ClientOK, NoteOK, NoneAbandoned, State
<1>. QED
  BY <1>1, GenerationInvariant, PTL

(* "Clean" means that nothing known is left at the provider, a document     *)
(* without issues left nothing behind, and a completed one has its deck     *)
(* (finish_cleanup, document_export.rs).                                    *)
THEOREM ReportsTrue == GenerationSpec => []ReportsAreTrue
<1>1. GenerationInv => TypeOK
  <2>1. SUFFICES ASSUME ClientTyped, RunTyped PROVE TypeOK
    BY DEF GenerationInv, ClientOK
  <2>2. /\ remote \in [Notebook -> [state : NotebookState, title : Title]]
        /\ holder \in [Notebook -> {"nobody", "asked", "sent", "refused", "scope"}]
        /\ registry \in [running : SUBSET Task, failed : BOOLEAN]
        /\ drain \in [pc : {"idle", "take", "await", "clean", "unconfirmed"},
                      tasks : [running : SUBSET Task, failed : BOOLEAN],
                      late : BOOLEAN, interrupts : 0 .. MaxInterrupts]
    BY <2>1 DEF ClientTyped, NoteState, TaskList, DrainState
  <2>3. Scoped \cup {"prepare", "ask", "create", "pause", "cleanup"} =
          {"prepare", "ask", "create", "register", "transfer", "unload",
           "generate", "close", "pause", "cleanup"}
    BY DEF Scoped
  <2>. QED
    BY <2>1, <2>2, <2>3 DEF TypeOK, RunTyped, RunState, Progress, ReportState
<1>2. GenerationInv => CleanIsClean
  <2>1. SUFFICES ASSUME GenerationInv, drain.pc = "clean", NEW n \in Notebook
                 PROVE  remote[n].state \in {"none", "lost"}
    BY DEF CleanIsClean
  <2>2. /\ ClientOK /\ registry.running = {} /\ drain.tasks.running = {}
        /\ (~ registry.failed) /\ (~ drain.tasks.failed)
    BY <2>1 DEF GenerationInv, ClientOK, DrainOK, Drained
  <2>3. run.pc = "cleanup" /\ holder[n] = "nobody"
    BY <2>1, GenerationAssumption DEF GenerationInv, HandsOK, Scoped
  <2>4. \A task : ~ Running(task)
    BY <2>2 DEF Running
  <2>5. State(n) \in NotebookState /\ NoteOK(n)
    BY <2>2, TitleFacts DEF ClientOK
  <2>. QED
    BY <2>2, <2>3, <2>4, <2>5 DEF NoteOK, State, NotebookState
<1>3. GenerationInv => ReportsAreTrue
  BY <1>1, <1>2 DEF GenerationInv, IssuesOK, ReportsAreTrue
<1>. QED
  BY <1>3, GenerationInvariant, PTL
================================================================================
