---------------------------- MODULE MCClustering ----------------------------
(* Instances of Clustering for TLC: the worker and a run from the command    *)
(* line; four articles, by two outlets, in two languages.                    *)
EXTENDS Clustering, TLC

CONSTANTS worker, cli, agency, daily, ne, en

MCSource == <<agency, daily, agency, daily>>
MCLang == <<ne, ne, ne, en>>

\* Article 2 is stored with an earlier published_at than 1; 3 is near the
\* window's edge of both; 4 is the same event in the other language.
MCPublished == <<2, 1, 3, 2>>

\* 1 and 2 are versions of one event; 3 resembles 1 only.
Alike == {{1, 2}, {1, 3}, {1, 4}, {2, 4}}
MCScore == [a \in 1..4 |-> [b \in 1..4 |->
    IF {a, b} = {1, 2} THEN 3 ELSE IF {a, b} \in Alike THEN 2
    ELSE IF a # b THEN 1 ELSE 0]]

MCLimit == (worker :> None) @@ (cli :> 1)
=============================================================================
