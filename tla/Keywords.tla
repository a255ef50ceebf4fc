----------------------------- MODULE Keywords -----------------------------
(***************************************************************************)
(* app/nlp/keywords.py: the noun phrases of an article and the ones chosen *)
(* as its keywords.                                                        *)
(***************************************************************************)
EXTENDS Integers, Sequences, FiniteSets, SequencesExt

CONSTANTS MaxPhraseWords,   \* MAX_PHRASE_WORDS
          TopN              \* top_n

ASSUME KeywordsAssumption == MaxPhraseWords \in Nat \ {0} /\ TopN \in Nat \ {0}

IsNoun(token) == token.tag = "NN" /\ Len(token.stem) >= 2

\* flush: a run longer than a phrase is kept word by word.
Flush(state) ==
    [run |-> << >>,
     phrases |-> state.phrases \o
        (IF Len(state.run) <= MaxPhraseWords THEN <<state.run>>
         ELSE [i \in DOMAIN state.run |-> <<state.run[i]>>])]

\* One round of the loop of noun_phrases.
ReadUnclosed(state, token) ==   \* mutant: a case marker does not end the phrase
    IF IsNoun(token) THEN [state EXCEPT !.run = Append(@, token.stem)]
    ELSE IF state.run # << >> THEN Flush(state) ELSE state
Read(state, token) ==
    IF IsNoun(token)
    THEN LET longer == [state EXCEPT !.run = Append(@, token.stem)]
         IN IF token.closes THEN Flush(longer) ELSE longer
    ELSE IF state.run # << >> THEN Flush(state) ELSE state

NounPhrases(tokens) ==
    LET end == FoldLeft(Read, [run |-> << >>, phrases |-> << >>], tokens)
    IN IF end.run # << >> THEN Flush(end).phrases ELSE end.phrases

Occurrences(phrase, phrases) == Cardinality({i \in DOMAIN phrases : phrases[i] = phrase})

\* _contains
Covers(outer, inner) ==
    /\ Len(outer) > Len(inner)
    /\ \E i \in 0..(Len(outer) - Len(inner)) : SubSeq(outer, i + 1, i + Len(inner)) = inner

\* The phrases with their counts; the score is doubled to stay an integer.
Ranked(title, body) ==
    LET inTitle == NounPhrases(title)
        all == inTitle \o NounPhrases(body)
        score(p) == Occurrences(p, all) * (1 + Len(p)) * (IF p \in Range(inTitle) THEN 2 ELSE 1)
    IN {[phrase |-> p, score |-> score(p), count |-> Occurrences(p, all)] : p \in Range(all)}

\* The sort key; equals of one length stand in any one order, that of CHOOSE.
Before(k, l) ==
    \/ k.score > l.score
    \/ k.score = l.score /\ Len(k.phrase) > Len(l.phrase)
LastOf(ranked) == CHOOSE k \in ranked : \A l \in ranked : ~Before(k, l)

\* One round of the loop over the ranked phrases.
Select(selected, k) ==
    IF Len(selected) = TopN THEN selected
    ELSE IF \E kept \in Range(selected) : Covers(kept.phrase, k.phrase) /\ k.count <= kept.count
    THEN selected
    ELSE Append(selected, k)

\* The loop: what is selected before the last phrase, then that phrase.
ExtractKeywords(title, body) ==
    MapThenFoldSet(LAMBDA k, selected : Select(selected, k), << >>, LAMBDA k : k, LastOf, Ranked(title, body))

=============================================================================
