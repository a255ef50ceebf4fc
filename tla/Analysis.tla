----------------------------- MODULE Analysis -----------------------------
(***************************************************************************)
(* app/nlp/analysis.py: an article, given word by word, and a lexicon file *)
(* that is edited: the keywords and the grade it would get at each moment. *)
(***************************************************************************)
EXTENDS Criticality, Keywords

CONSTANTS Tokens,       \* the words: [text, stem, tag, closes]
          Files,        \* the contents of criticality.yaml
          MaxTitle, MaxBody

IsSequence(s) == s \in Seq({s[i] : i \in DOMAIN s})

ASSUME TokensAssumption == \A t \in Tokens : IsSequence(t.text) /\ IsSequence(t.stem)
ASSUME FilesAssumption == \A file \in Files :
    /\ file.cap \in Int /\ file.titleMultiplier \in Int /\ file.dampen.given \in BOOLEAN
    /\ file.dampen.tenths \in Int /\ \A g \in DOMAIN file.grades : file.grades[g] \in Int
    /\ IsFiniteSet(Terms(file))
    /\ \A term \in Terms(file) :
          /\ term.weight \in Int /\ IsSequence(term.parts)
          /\ \A k \in DOMAIN term.parts : term.parts[k].star \in BOOLEAN /\ IsSequence(term.parts[k].word)

VARIABLES lexicon, title, body

textVars == <<lexicon, title, body>>

AnalysisInit == lexicon \in Files /\ title = << >> /\ body = << >>

TitleWord(t) ==
    /\ Len(title) < MaxTitle
    /\ title' = Append(title, t)
    /\ UNCHANGED <<lexicon, body>>
BodyWord(t) ==
    /\ Len(body) < MaxBody
    /\ body' = Append(body, t)
    /\ UNCHANGED <<lexicon, title>>

AnalysisNext == \E t \in Tokens : TitleWord(t) \/ BodyWord(t)
AnalysisSpec == AnalysisInit /\ [][AnalysisNext]_textVars

\* The analyses analyse may return.
Analyse ==
    {[keywords |-> ExtractKeywords(title, body), criticality |-> c] : c \in Scores(lexicon, title, body)}

-----------------------------------------------------------------------------
(* Properties.                                                             *)

\* "Candidate terms by a token's first word, so grading does not test every
\* term at every position": the index loses nothing.  Each claim is of a term
\* that no term matching there outranks, and at a word that is not claimed no
\* term of the lexicon matches.  Words inside an earlier claim are left out:
\* the count steps over them, also where a more severe term begins at one.
MissedAt(text, i) ==
    LET claims == Claims(Terms(lexicon), text)
        matching == {t \in Terms(lexicon) : MatchesAt(t, text, i)}
        inside == \E j \in 1..(i - 1) : j + claims[j] > i
    IN ~inside /\ IF claims[i] = 0 THEN matching # {}
                  ELSE TopMatches(Terms(lexicon), text, i) # TopOf(matching)
IndexLosesNothing ==
    Accepted(lexicon) => \A text \in {title, body} : \A i \in DOMAIN text : ~MissedAt(text, i)

\* With an accepted lexicon no analysis is graded more severely for being
\* dampened, nor above the cap, and only what scores is dampened at all.
DampeningOnlyLowers ==
    Accepted(lexicon) => \A a \in Analyse :
        LET c == a.criticality IN
        c.dampened =>
            /\ c.tenths > 0
            /\ Rank(c.grade) >= Rank(GradeFor(lexicon.grades, 10 * c.total))
            /\ lexicon.dampen.maxGrade # NoGrade => Rank(c.grade) >= Rank(lexicon.dampen.maxGrade)

\* Unless top_n cuts the list, every noun of the article is a word of some
\* keyword; and a keyword is nowhere made across a case marker: it occurs in
\* the title or the body with a marker on its last word at most.
OccursUnbroken(phrase, text) ==
    \E i \in 0..(Len(text) - Len(phrase)) : \A k \in DOMAIN phrase :
        /\ IsNoun(text[i + k]) /\ text[i + k].stem = phrase[k]
        /\ k < Len(phrase) => ~text[i + k].closes
KeywordsOfTheText ==
    LET chosen == {k.phrase : k \in Range(ExtractKeywords(title, body))}
        nouns == {t \in Range(title) \cup Range(body) : IsNoun(t)}
    IN /\ Cardinality(chosen) < TopN =>
              \A t \in nouns : \E phrase \in chosen : t.stem \in Range(phrase)
       /\ \A phrase \in chosen : OccursUnbroken(phrase, title) \/ OccursUnbroken(phrase, body)

=============================================================================
