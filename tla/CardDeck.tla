-------------------------------- MODULE CardDeck --------------------------------
(***************************************************************************)
(* From the cards of an answer to a deck: cloze deletions                   *)
(* (rust/engines/src/cloze.rs), duplicates (rust/domain/src/lib.rs) and     *)
(* the quality filter (rust/engines/src/quality.rs).                        *)
(*                                                                          *)
(* A front is a sequence of pieces, each some words that are shown or       *)
(* hidden: `cloze` is 0 or the number of the deletion.  A back is a         *)
(* sequence of sentences, each a sequence of words.  A word that matters    *)
(* has five characters or more, so a front of one hidden word is long       *)
(* enough, and a sentence of two words is; a sentence begins with a         *)
(* capital.                                                                 *)
(***************************************************************************)
EXTENDS Naturals, SequencesExt

CONSTANTS
  Answers,     (* the cards of the answers of the provider                  *)
  Trivial,     (* words that are no answer: TRIVIAL                         *)
  Filler,      (* words that say nothing: TRIVIAL_WORDS                     *)
  Asking,      (* words of a question: qual, what, which                    *)
  Keyword,     (* words worth hiding: KEYWORDS                              *)
  Verb,        (* words that define: is, are                                *)
  Subjective,  (* words of an opinion: SUBJECTIVE_WORDS                     *)
  MaxPairs     (* pairs of similar cards the filter looks at                *)

Piece == [words : Seq(STRING), cloze : 0 .. 3]
Card  == [front : Seq(Piece), back : Seq(Seq(STRING))]

ASSUME DeckAssumption == Answers \subseteq Seq(Card) /\ MaxPairs \in Nat \ {0}

(* The items at some places of a sequence, in their order.                  *)
Rank(places, i) == Cardinality({j \in places : j <= i})

Picked(items, places) ==
  [k \in 1 .. Cardinality(places) |-> items[CHOOSE i \in places : Rank(places, i) = k]]

Shown(words)     == IF words = << >> THEN << >> ELSE << [words |-> words, cloze |-> 0] >>
Hidden(words, k) == << [words |-> words, cloze |-> k] >>

WordsOf(front) == FlattenSeq([i \in DOMAIN front |-> front[i].words])
Clozes(front)  == {i \in DOMAIN front : front[i].cloze > 0}

From(words, i) == SubSeq(words, i, Len(words))

Meaningful(words) == \E i \in DOMAIN words : words[i] \notin Trivial

--------------------------------------------------------------------------------
(* A card without deletions gets some (create_cloze).                       *)

ShortAnswer(question, answer) ==
  LET asks == Len(question) > 1 /\ question[1] \in Asking IN
  IF Meaningful(answer) THEN Shown(IF asks THEN Tail(question) ELSE question) \o Hidden(answer, 1)
  ELSE << >>

(* The first word that matters, or the one in the middle if that matters.   *)
ShortSentence(words) ==
  LET matters == {i \in DOMAIN words : words[i] \notin Trivial}
      at == IF matters = {} THEN Len(words) \div 2 + 1 ELSE Min(matters)
  IN FlattenSeq([i \in DOMAIN words |->
       IF i = at /\ i \in matters THEN Hidden(<< words[i] >>, 1) ELSE Shown(<< words[i] >>)])

(* The first three keywords.                                                *)
LongSentence(words) ==
  LET Before(i) == Cardinality({j \in 1 .. i : words[j] \in Keyword}) IN
  FlattenSeq([i \in DOMAIN words |->
    IF words[i] \in Keyword /\ Before(i) <= 3
    THEN Hidden(<< words[i] >>, Before(i)) ELSE Shown(<< words[i] >>)])

(* A definition; what follows a verb; or anything.                          *)
Important(words) ==
  LET verbs == {i \in 1 .. Len(words) - 1 : words[i] \in Verb} IN
  IF verbs # {} /\ Min(verbs) \notin 2 .. 6 /\ Meaningful(From(words, Min(verbs)))
  THEN Min(verbs) ELSE 1

OneOfSeveral(words, k) ==
  Shown(SubSeq(words, 1, Important(words) - 1)) \o Hidden(From(words, Important(words)), k)

CreateCloze(question, back) ==
  LET answer == FlattenSeq(back)
      long == Picked(back, {i \in DOMAIN back : i <= 3 /\ Len(back[i]) > 1})
  IN CASE Len(answer) <= 3 -> ShortAnswer(question, answer)
       [] Len(answer) > 3 /\ Len(back) = 1 ->
            IF Len(answer) <= 5 THEN ShortSentence(answer) ELSE LongSentence(answer)
       [] OTHER -> FlattenSeq([k \in DOMAIN long |-> OneOfSeveral(long[k], k)])

(* limit_to_single_cloze: the first deletion that matters stays.            *)
Limited(front) ==
  LET good == {i \in Clozes(front) : Meaningful(front[i].words)} IN
  [i \in DOMAIN front |->
    [front[i] EXCEPT !.cloze = IF good # {} /\ i = Min(good) THEN 1 ELSE 0]]

QualityValid(front) ==
  Clozes(front) # {} /\ \A i \in Clozes(front) : Meaningful(front[i].words)

(* convert, for every card of an answer; one that is of no use is left out. *)
Converted1(card, single) ==
  LET front == IF Clozes(card.front) # {} THEN card.front
               ELSE CreateCloze(WordsOf(card.front), card.back)
  IN [card EXCEPT !.front = IF single THEN Limited(front) ELSE front]

ConvertedDeck(cards, single) ==
  LET converted == [i \in DOMAIN cards |-> Converted1(cards[i], single)] IN
  Picked(converted, {i \in DOMAIN converted : QualityValid(converted[i].front)})

--------------------------------------------------------------------------------
(* normalized_front, as it is compared: a deletion begins and ends with a   *)
(* mark of its own.                                                         *)
Begin == << "{{c1::", "{{c2::", "{{c3::" >>
End   == "}}"

Text(front) ==
  FlattenSeq([i \in DOMAIN front |->
    IF front[i].cloze = 0 THEN front[i].words
    ELSE << Begin[front[i].cloze] >> \o front[i].words \o << End >>])

(* What is left of two texts to be matched is a range, from a place of each *)
(* up to another.  Within it they agree for some words from i and j on.     *)
Ranges(left, right) ==
  LET lefts == 1 .. Len(left) + 1
      rights == 1 .. Len(right) + 1
  IN lefts \X lefts \X rights \X rights

Agree(left, right, range, i, j, size) ==
  /\ i + size <= range[2] /\ j + size <= range[4]
  /\ \A k \in 0 .. size - 1 : left[i + k] = right[j + k]

(* longest_match: the length of the longest run the two have in common      *)
LongestRun(left, right, range) ==
  Max({0} \cup {size \in 1 .. Len(left) :
        \E i \in range[1] .. range[2] - 1, j \in range[3] .. range[4] - 1 :
          Agree(left, right, range, i, j, size)})

(* and the place of the first of them.                                      *)
FirstLeft(left, right, range, size) ==
  Min({i \in range[1] .. range[2] - 1 :
         \E j \in range[3] .. range[4] - 1 : Agree(left, right, range, i, j, size)})
FirstRight(left, right, range, size, i) ==
  Min({j \in range[3] .. range[4] - 1 : Agree(left, right, range, i, j, size)})

(* matching_ratio: a longest run, then those before and after it.  Words    *)
(* stand for characters here, and a front has less than the 200 from which  *)
(* the frequent ones are passed over.                                       *)
Matches(left, right) ==
  LET matched[range \in Ranges(left, right)] ==
        LET size == LongestRun(left, right, range)
            i == FirstLeft(left, right, range, size)
            j == FirstRight(left, right, range, size, i)
        IN IF size = 0 THEN 0
           ELSE size + matched[<< range[1], i, range[3], j >>]
                     + matched[<< i + size, range[2], j + size, range[4] >>]
  IN matched[<< 1, Len(left) + 1, 1, Len(right) + 1 >>]

(* A ratio of 0.85 or more.                                                 *)
Similar(left, right) == 40 * Matches(left, right) >= 17 * (Len(left) + Len(right))

(* Of the fronts there are, those that each of them is similar to.          *)
Fronts == UNION {{card.front : card \in Range(ConvertedDeck(answer, single))} :
                   answer \in Answers, single \in BOOLEAN}
Twins  == [left \in Fronts |-> {right \in Fronts : Similar(Text(left), Text(right))}]

(* Slip: a card is compared with the last one retained only.                *)
RetainedByLast(cards) ==
  LET retained[n \in 0 .. Len(cards)] ==
        IF n = 0 THEN {}
        ELSE LET before == retained[n - 1] IN
             IF before # {} /\ cards[Max(before)].front \in Twins[cards[n].front] THEN before
             ELSE before \cup {n}
  IN retained[Len(cards)]

(* retain_unique_front, for one card after another                          *)
Retained(cards) ==
  LET retained[n \in 0 .. Len(cards)] ==
        IF n = 0 THEN {}
        ELSE LET before == retained[n - 1] IN
             IF \E i \in before : cards[i].front \in Twins[cards[n].front] THEN before
             ELSE before \cup {n}
  IN retained[Len(cards)]

(* Deck::deduplicate_standard                                               *)
Deduplicated(cards) == Picked(cards, Retained(cards))

--------------------------------------------------------------------------------
(* The quality filter.                                                      *)

(* is_trivial; the first and the last of some hidden words are none of the  *)
(* fillers, for their braces.                                               *)
TrivialCard(card) ==
  LET front == card.front
      said == {w \in (DOMAIN front) \X (DOMAIN WordsOf(front)) :
                 LET piece == front[w[1]] IN
                 /\ w[2] <= Len(piece.words)
                 /\ \/ piece.cloze > 0 /\ w[2] \in {1, Len(piece.words)}
                    \/ piece.words[w[2]] \notin Filler}
  IN \/ Cardinality(said) < 3
     \/ Len(FlattenSeq(card.back)) < 2
     \/ \E i \in DOMAIN WordsOf(front) : WordsOf(front)[i] \in Subjective

Before(p, q) == p[1] < q[1] \/ (p[1] = q[1] /\ p[2] < q[2])
Smallest(n, pairs) == {p \in pairs : Cardinality({q \in pairs : Before(q, p)}) < n}

(* analyze: the pairs of equal fronts, then those that are alike, until     *)
(* there are enough.  `same` and `alike` are sets of pairs; `same` has the  *)
(* first of each front with every other one.  `rows` is the number of cards *)
(* that are compared: none if there is no word to compare them by.          *)
Analyzed(same, alike, rows) ==
  LET first == Smallest(MaxPairs, same)
      cut == Cardinality(same) > MaxPairs
      all == IF cut THEN first ELSE first \cup Smallest(MaxPairs - Cardinality(first), alike \ first)
  IN [pairs |-> all, truncated |-> cut \/ (rows > 1 /\ Cardinality(all) = MaxPairs)]

(* filter: the later card of each pair goes.                                *)
Without(cards, pairs) == Picked(cards, {i \in DOMAIN cards : \A p \in pairs : p[2] # i})
================================================================================
