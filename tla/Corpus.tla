------------------------------- MODULE Corpus -------------------------------
(***************************************************************************)
(* What ingestion promises, without threads, transactions or failures: a   *)
(* corpus that grows by whole batches.  One step absorbs a batch of new    *)
(* articles of one outlet; the document frequencies and the outlet's       *)
(* validator move with it in the same step, so that whoever reads the      *)
(* database between two steps finds them in agreement: a frequency is that *)
(* of the corpus, and one more for each article of another outlet a batch  *)
(* met again.                                                              *)
(***************************************************************************)
EXTENDS Integers, Sequences, FiniteSets

CONSTANTS Sources, Sections, Category, Urls, Pages, Terms, TermsOf, Near, NoRow

VARIABLES articles, df, etag,
          met   \* what was met again: pairs of an outlet and a text

Present(corpus) == {u \in Urls : corpus[u] # NoRow}
TextOf(corpus, u) == <<u, corpus[u].kind>>
Frequency(corpus, t) ==
    Cardinality({u \in Present(corpus) : t \in TermsOf[TextOf(corpus, u)]})

Repeats(repeats, t) == Cardinality({m \in repeats : t \in TermsOf[m[2]]})

\* Stored, or recognised as a copy of something stored.
Known(corpus, repeats) == {TextOf(corpus, w) : w \in Present(corpus)} \cup {m[2] : m \in repeats}
Handled(corpus, repeats, u) ==
    \/ u \in Present(corpus)
    \/ \E kind \in {"brief", "full"}, y \in Known(corpus, repeats) : <<<<u, kind>>, y>> \in Near

Init ==
    /\ articles = [u \in Urls |-> NoRow]
    /\ df = [t \in Terms |-> 0]
    /\ etag = [s \in Sources |-> 0]
    /\ met = {}

\* A batch of s: rows are added, never replaced, and only rows of s; what it
\* met again were articles of others.  The validator may move to a page all
\* of whose items are handled.
Absorb(s) ==
    /\ \A u \in Urls : articles'[u] # articles[u] =>
           articles[u] = NoRow /\ articles'[u].source = s
    /\ met \subseteq met'
    /\ \A m \in met' \ met : /\ m[1] = s /\ m[2][1] \in Present(articles)
                             /\ articles[m[2][1]].source # s
    /\ df' = [t \in Terms |-> Frequency(articles', t) + Repeats(met', t)]
    /\ \E v \in {etag[s]} \cup DOMAIN Pages[s] :
           /\ etag' = [etag EXCEPT ![s] = v]
           /\ v # 0 => \A i \in DOMAIN Pages[s][v] : Handled(articles', met', Pages[s][v][i])

\* A section takes over stories that are still in the generic category.
Relabel(s) ==
    /\ s \in Sections
    /\ \E moved \in SUBSET {u \in Present(articles) : articles[u].category = "news"} :
           articles' = [u \in Urls |-> IF u \in moved
                                       THEN [articles[u] EXCEPT !.category = Category[s]]
                                       ELSE articles[u]]
    /\ UNCHANGED <<df, etag, met>>

Next == \E s \in Sources : Absorb(s) \/ Relabel(s)
Spec == Init /\ [][Next]_<<articles, df, etag, met>>
=============================================================================
