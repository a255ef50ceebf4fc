------------------------------ MODULE MCIngest ------------------------------
(* Instances of Ingest for TLC: the main feed of an outlet and its economy  *)
(* section, and a second outlet that syndicates.                            *)
EXTENDS Ingest, TLC

CONSTANTS main, econ, wire, a, b, c, t1, t2

\* The three articles: a and b share a term, b's full text has none of its own.
MCTermsOf == [x \in Texts |->
    CASE x[1] = a -> {t1}
      [] x[1] = b -> IF x[2] = "full" THEN {t1, t2} ELSE {t2}
      [] OTHER -> {}]

\* A text is near itself; b and c are two copies of one agency story, whose
\* full texts are near each other, and so are their summaries.
MCNear == {<<x, y>> \in Texts \X Texts :
              x[2] = y[2] /\ (x[1] = y[1] \/ {x[1], y[1]} = {b, c})}

MCCategory == (main :> "news") @@ (econ :> "economic") @@ (wire :> "news")

\* The section lists the main feed's story a, in the other order.
MCPagesPair == (main :> << <<a, b, a>>, <<c>> >>) @@ (econ :> << <<b, a>> >>)
MCPagesTrio ==
    (main :> << <<a, b>> >>) @@ (econ :> << <<b, a>> >>) @@ (wire :> << <<c>> >>)
MCPagesTwins == (main :> << <<a, b>> >>) @@ (wire :> << <<c, a>> >>)
=============================================================================
