---------------------------- MODULE MCAnalysis ----------------------------
(* A small vocabulary, with an inflected noun and a verb, and the lexicons *)
(* that the validation tells apart.                                        *)
EXTENDS Analysis

ab == <<"a", "b">>
abc == <<"a", "b", "c">>
ba == <<"b", "a">>
ca == <<"c", "a">>

MCTokens == {
    [text |-> ab, stem |-> ab, tag |-> "NN", closes |-> FALSE],
    [text |-> abc, stem |-> ab, tag |-> "NN", closes |-> TRUE],
    [text |-> ba, stem |-> ba, tag |-> "NN", closes |-> FALSE],
    [text |-> ca, stem |-> ca, tag |-> "VB", closes |-> FALSE]}

Word(w) == [word |-> w, star |-> FALSE]
Prefix(w) == [word |-> w, star |-> TRUE]

Thresholds == ("A" :> 12) @@ ("B" :> 9) @@ ("C" :> 6) @@ ("D" :> 4) @@ ("E" :> 2) @@ ("F" :> 0)
Usual == {[weight |-> 3, labels |-> {<<Word(ba)>>, <<Word(ab), Word(ba)>>}],
          [weight |-> 2, labels |-> {<<Prefix(abc)>>, <<Word(ab)>>, <<Prefix(ab), Word(ab)>>}]}
NotGiven == [given |-> FALSE, tenths |-> 10, maxGrade |-> NoGrade, labels |-> {}]
Given(tenths, maxGrade, labels) == [given |-> TRUE, tenths |-> tenths, maxGrade |-> maxGrade, labels |-> labels]
File(grades, tiers, dampen) ==
    [grades |-> grades, tiers |-> tiers, dampen |-> dampen, cap |-> 2, titleMultiplier |-> 2]

MCFiles == {
    File(Thresholds, Usual, NotGiven),
    File(Thresholds, Usual, Given(5, NoGrade, {<<Word(ca)>>})),
    File(Thresholds, Usual, Given(10, "D", {<<Word(ca)>>, <<Prefix(ab)>>})),
    File(Thresholds, Usual, Given(15, NoGrade, {<<Word(ca)>>})),
    File(Thresholds, {[weight |-> 1, labels |-> {<<Prefix(<<"a">>)>>}]}, NotGiven),
    File([Thresholds EXCEPT !["B"] = 12], Usual, NotGiven)}

=============================================================================
