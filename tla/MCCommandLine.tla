----------------------------- MODULE MCCommandLine -----------------------------
(* Instances of the command line for TLC.                                   *)
EXTENDS CommandLine

(* A PDF of six pages, to be cut along up to two bookmarks, which may lead *)
(* to no page; some sources that are cut in one way only or, though longer  *)
(* than a chunk, not at all; and two documents of one command.              *)
Outlines(n)  == UNION {[1 .. k -> [page : 0 .. n, title : {"A", "Index"}]] : k \in 0 .. 2}
Pdf(n, outlines) == [kind |-> "pdf", total |-> n, outlines |-> outlines]
Short        == Pdf(1, << >>)
Presentation == [Pdf(6, << >>) EXCEPT !.kind = "pptx"]
Cut          == {Pdf(6, outlines) : outlines \in Outlines(6)}

SomeBatches == {<< d >> : d \in Cut \cup {Presentation, Pdf(5, << >>)}} \cup {<< Short, Short >>}

Plain(words)   == << [words |-> words, cloze |-> 0] >>
Asks(front, back) == [front |-> front, back |-> back]
Two   == Asks(Hidden(<< "heart" >>, 1) \o Plain(<< "pumps", "blood" >>) \o Hidden(<< "the" >>, 2),
              << << "organ", "works" >> >>)
Asked == Asks(Plain(<< "what", "organ", "pumps", "blood" >>), << << "heart" >> >>)
Alike == Asks(Plain(<< "what", "main", "organ", "pumps", "blood" >>), << << "heart" >> >>)
Named == Asks(Plain(<< "heart" >>), << << "Heart", "is", "the", "main", "organ" >> >>)
Told  == Asks(Plain(<< "organ" >>),
              << << "Organ", "blood", "is", "main", "cause", "works" >> >>)
Said  == Asks(Plain(<< "organ" >>),
              << << "Heart", "main", "cause", "of", "blood", "cause", "main" >> >>)
Parts == Asks(Plain(<< "organ" >>),
              << << "Organ", "is", "main" >>, << "Works" >>, << "The", "blood", "pumps" >> >>)
Other == Asks(Plain(<< "blood", "cause" >>) \o Hidden(<< "organ" >>, 3), << << "main", "heart" >> >>)
Empty == Asks(Plain(<< "organ" >>), << << "the" >> >>)

SomeAnswers == { << >>, << Asked, Two, Alike >>, << Named, Parts, Empty >>, << Told, Said, Other >> }

Row(a, b, padded) == << [text |-> << a >>, padded |-> FALSE], [text |-> << b >>, padded |-> padded] >>
Lone == << [text |-> << "a" >>, padded |-> FALSE] >>
NotRegular == [regular |-> FALSE, rows |-> << >>]
Regular(rows) == [regular |-> TRUE, rows |-> rows]
Foreign(rows) == (<<8, 1>> :> Regular(rows))
Repeats == Foreign(<< Row("a", "b", FALSE), Row("a", "b", TRUE), Lone >>)
Again   == (<<8, 2>> :> Regular(<< Row("a", "c", TRUE), Row("a", "b", FALSE) >>))
Earlier == (Merged :> Regular(<< Row("a", "b", FALSE) >>))
Wide    == Foreign(<< Row("a", "b", FALSE), Lone \o Lone \o Lone >>)

Beginning(commands, files, notebooks) == [script |-> commands, folder |-> files, remote |-> notebooks]
SomeBegins ==
  {Beginning(<< "generate", "merge" >>, << >>, {}), Beginning(<< "job" >>, << >>, {})}
  \cup {Beginning(<< "merge", "merge" >>, files, {}) :
          files \in {Repeats @@ Again, Repeats @@ Again @@ Earlier, Wide @@ Earlier, Earlier,
                     Again @@ (<<8, 1>> :> NotRegular)}}
  \cup {Beginning(<< "cleanup" >>, << >>, notebooks) : notebooks \in SUBSET Notebook}
================================================================================
