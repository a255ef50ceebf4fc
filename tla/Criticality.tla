---------------------------- MODULE Criticality ----------------------------
(***************************************************************************)
(* app/nlp/criticality.py: what makes a lexicon acceptable, which terms an *)
(* article hits, and the grade that follows.  A word is a tuple of         *)
(* letters; a part of a term is a word and whether a `*` follows it.       *)
(* Numbers are integers: scores in tenths, the dampeners' multiplier in    *)
(* tenths of one.                                                          *)
(***************************************************************************)
EXTENDS Integers, Sequences, FiniteSets, FiniteSetsExt, SequencesExt

CONSTANTS PrefixKey,    \* _PREFIX_KEY
          NoGrade       \* dampeners without max_grade

ASSUME PrefixKeyAssumption == PrefixKey \in Nat \ {0}

GRADES == <<"A", "B", "C", "D", "E", "F">>
Rank(grade) == CHOOSE i \in DOMAIN GRADES : GRADES[i] = grade

-----------------------------------------------------------------------------
(* parse_lexicon.  data has the fields grades (thresholds), tiers (a set   *)
(* of [weight, labels]), dampen ([given, tenths, maxGrade, labels]), cap   *)
(* and titleMultiplier.                                                    *)

\* _parts refuses a `*` inside a word and a prefix shorter than the key.
LegalPart(part) ==
    /\ "*" \notin Range(part.word)
    /\ part.star => Len(part.word) >= PrefixKey
LegalLabels(labels) ==
    labels # {} /\ \A label \in labels : label # << >> /\ \A i \in DOMAIN label : LegalPart(label[i])

Descending(grades) ==
    \A i, j \in DOMAIN GRADES : i < j => grades[GRADES[i]] > grades[GRADES[j]]

LegalDampeners(dampen) ==
    dampen.given => /\ dampen.tenths > 0 /\ dampen.tenths <= 10
                    /\ dampen.maxGrade \in Range(GRADES) \cup {NoGrade}
                    /\ LegalLabels(dampen.labels)

\* Whether parse_lexicon returns a lexicon instead of raising.  (A label that
\* normalize leaves nothing of is not refused: TermIndex raises IndexError on it.)
AcceptedLoosely(data) ==    \* mutant: any positive multiplier
    /\ DOMAIN data.grades = Range(GRADES) /\ Descending(data.grades)
    /\ data.tiers # {}
    /\ \A tier \in data.tiers : tier.weight > 0 /\ LegalLabels(tier.labels)
    /\ data.dampen.given => data.dampen.tenths > 0 /\ LegalLabels(data.dampen.labels)
    /\ data.cap > 0 /\ data.titleMultiplier > 0
Accepted(data) ==
    /\ DOMAIN data.grades = Range(GRADES) /\ Descending(data.grades)
    /\ data.tiers # {}
    /\ \A tier \in data.tiers : tier.weight > 0 /\ LegalLabels(tier.labels)
    /\ LegalDampeners(data.dampen)
    /\ data.cap > 0 /\ data.titleMultiplier > 0

\* The terms and dampeners of the lexicon it returns.
Terms(data) ==
    UNION {{[parts |-> label, weight |-> tier.weight] : label \in tier.labels} : tier \in data.tiers}
Dampeners(data) ==
    IF data.dampen.given THEN {[parts |-> label, weight |-> 0] : label \in data.dampen.labels} ELSE {}

-----------------------------------------------------------------------------
(* TermIndex.                                                              *)

Forms(token) == {token.text, token.stem}

PartMatches(part, token) ==
    IF part.star THEN \E form \in Forms(token) : IsPrefix(part.word, form)
                 ELSE part.word \in Forms(token)

MatchesAt(term, tokens, i) ==
    /\ i + Len(term.parts) - 1 <= Len(tokens)
    /\ \A k \in DOMAIN term.parts : PartMatches(term.parts[k], tokens[i + k - 1])

\* The terms filed under a word: exact by their first word, prefixes by its
\* first letters.
FirstLetters(word) == SubSeq(word, 1, IF Len(word) < PrefixKey THEN Len(word) ELSE PrefixKey)
IndexedByPrefix(terms, token) ==     \* mutant: prefixes filed under the whole prefix
    {term \in terms :
        LET first == term.parts[1] IN
        \E form \in Forms(token) :
            IF first.star THEN first.word = FirstLetters(form) ELSE first.word = form}
Indexed(terms, token) ==
    {term \in terms :
        LET first == term.parts[1] IN
        \E form \in Forms(token) :
            IF first.star THEN FirstLetters(first.word) = FirstLetters(form) ELSE first.word = form}

\* (weight, len(parts)) in the order of tuples
Outranks(t, u) ==
    \/ t.weight > u.weight
    \/ t.weight = u.weight /\ Len(t.parts) > Len(u.parts)
TopOf(terms) == {t \in terms : \A u \in terms : ~Outranks(u, t)}

\* The terms count may choose at position i.  Of several top ones it takes the
\* first it meets, in the order of a set of strings: any of them.
TopMatches(terms, tokens, i) == TopOf({t \in Indexed(terms, tokens[i]) : MatchesAt(t, tokens, i)})

\* Top terms are of one length, so it does not matter which is chosen.
Longest(terms, tokens, i) ==
    IF TopMatches(terms, tokens, i) = {} THEN 0
    ELSE Len((CHOOSE t \in TopMatches(terms, tokens, i) : TRUE).parts)

\* count goes on behind the words of a chosen term, or with the next word.
Moves(terms, tokens) ==
    {<<i, i + (IF Longest(terms, tokens, i) = 0 THEN 1 ELSE Longest(terms, tokens, i))>> : i \in DOMAIN tokens}

\* The positions count stands at: the first, and wherever it moves from one.
Stops(terms, tokens) ==
    LET moves == Moves(terms, tokens)
        closed == {S \in SUBSET (1..(Len(tokens) + 1)) : 1 \in S /\ \A m \in moves : m[1] \in S => m[2] \in S}
    IN {i \in 1..(Len(tokens) + 1) : \A S \in closed : i \in S}

\* count: a chosen term claims its words.  claims[i] is the length of the claim
\* that begins at i, 0 where none does.
Claims(terms, tokens) ==
    LET stops == Stops(terms, tokens)
    IN [i \in DOMAIN tokens |-> IF i \in stops THEN Longest(terms, tokens, i) ELSE 0]

Claimed(terms, tokens) == {i \in DOMAIN tokens : Claims(terms, tokens)[i] > 0}

\* The Counters count may return: a chosen term for each claim.
Counts(terms, tokens) ==
    LET at == Claimed(terms, tokens)
        chosen == {f \in [at -> terms] : \A i \in at : f[i] \in TopMatches(terms, tokens, i)}
    IN {[t \in terms |-> Cardinality({i \in at : f[i] = t})] : f \in chosen}

-----------------------------------------------------------------------------
(* score_criticality and grade_for.                                        *)

\* The first grade whose threshold the score reaches, else the last.
GradeFor(grades, tenths) ==
    LET reached == {i \in DOMAIN GRADES : tenths >= 10 * grades[GRADES[i]]}
    IN IF reached = {} THEN "F" ELSE GRADES[Min(reached)]

Points(data, term, titleHits, bodyHits) ==
    LET hits == bodyHits + data.titleMultiplier * titleHits
    IN term.weight * (IF hits < data.cap THEN hits ELSE data.cap)

Total(data, titleCount, bodyCount) ==
    SumFunction([t \in Terms(data) |-> Points(data, t, titleCount[t], bodyCount[t])])

IsDampened(data, total, title, body) ==
    /\ total > 0
    /\ \/ Claimed(Dampeners(data), title) # {}
       \/ Cardinality(Claimed(Dampeners(data), body)) >= 2

Milder(g, h) == IF Rank(g) >= Rank(h) THEN g ELSE h

\* The results score_criticality may return.
Scores(data, title, body) ==
    {LET total == Total(data, t, b)
         dampened == IsDampened(data, total, title, body)
         tenths == IF dampened THEN total * data.dampen.tenths ELSE total * 10
         grade == GradeFor(data.grades, tenths)
     IN [total |-> total, tenths |-> tenths, dampened |-> dampened,
         grade |-> IF dampened /\ data.dampen.maxGrade # NoGrade
                   THEN Milder(grade, data.dampen.maxGrade) ELSE grade]
     : t \in Counts(Terms(data), title), b \in Counts(Terms(data), body)}

=============================================================================
