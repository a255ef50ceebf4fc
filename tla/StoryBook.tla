----------------------------- MODULE StoryBook ------------------------------
(***************************************************************************)
(* What story clustering promises: articles are added to stories by whole  *)
(* batches and never leave or change them, and the row of a story is a     *)
(* summary of its members at every moment.                                 *)
(***************************************************************************)
EXTENDS Integers, FiniteSets

CONSTANTS Articles, Source, Lang, Published, None

VARIABLES member, book

Members(m, story) == {a \in Articles : m[a] = story}
Times(m, story) == {Published[a] : a \in Members(m, story)}

Summary(m, story) ==
    [lang |-> Lang[story],
     first |-> CHOOSE p \in Times(m, story) : \A q \in Times(m, story) : p <= q,
     last |-> CHOOSE p \in Times(m, story) : \A q \in Times(m, story) : p >= q,
     article_count |-> Cardinality(Members(m, story)),
     source_count |-> Cardinality({Source[a] : a \in Members(m, story)}),
     sources |-> {Source[a] : a \in Members(m, story)}]

Summaries(m) ==
    [a \in Articles |-> IF Members(m, a) = {} THEN None ELSE Summary(m, a)]

Init ==
    /\ member = [a \in Articles |-> None]
    /\ book = Summaries(member)

\* Articles without a story get one: that of an article which founds it in the
\* same batch, or founded it before.
Group ==
    /\ \A a \in Articles :
          \/ member'[a] = member[a]
          \/ /\ member[a] = None /\ member'[a] \in Articles
             /\ member'[member'[a]] = member'[a]
             /\ Lang[a] = Lang[member'[a]]
    /\ book' = Summaries(member')

Spec == Init /\ [][Group]_<<member, book>>
=============================================================================
