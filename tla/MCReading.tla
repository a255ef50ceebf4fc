----------------------------- MODULE MCReading -----------------------------
(***************************************************************************)
(* The parts that share no state, one at a time: a client of the service's *)
(* own API, the service as a client of the BIPAD portal, the analysis of   *)
(* an article, and the date of an article.  A behaviour runs one of them.  *)
(***************************************************************************)
EXTENDS ArticlesApi, Bipad, MCAnalysis, MCDating

MCFilters == {{}, {"A"}}
MCLimits == {1, 2}

all == <<vars, portalVars, textVars, datingVars>>
NoFile == CHOOSE file \in Files : TRUE
NothingGiven == CHOOSE g \in [method : {"rss"}, entry : Entries, page : Pages, pack : Packs] : TRUE

ApiUntouched == nextId = 1 /\ walk.pc = "idle"
PortalUntouched == portal = << >> /\ ~stuck /\ crawl.pc = "idle"
TextUntouched == lexicon = NoFile /\ title = << >> /\ body = << >>
DateUntouched == pc = "listed" /\ given = NothingGiven

Init ==
    /\ ApiInit /\ PortalInit /\ AnalysisInit
    /\ \/ DatingInit /\ ~stuck /\ lexicon = NoFile
       \/ /\ given = NothingGiven /\ pc = "listed"
          /\ item = [published |-> NoDate, estimated |-> FALSE] /\ from = NoDate
          /\ ~stuck \/ lexicon = NoFile

ApiStep == ApiNext /\ UNCHANGED <<portalVars, textVars, datingVars>>
PortalStep == PortalNext /\ UNCHANGED <<vars, textVars, datingVars>>
TextStep == AnalysisNext /\ UNCHANGED <<vars, portalVars, datingVars>>
DateStep == DatingNext /\ UNCHANGED <<vars, portalVars, textVars>>

Next ==
    \/ PortalUntouched /\ TextUntouched /\ DateUntouched /\ ApiStep
    \/ ApiUntouched /\ TextUntouched /\ DateUntouched /\ PortalStep
    \/ ApiUntouched /\ PortalUntouched /\ DateUntouched /\ TextStep
    \/ ApiUntouched /\ PortalUntouched /\ TextUntouched /\ DateStep

Fairness ==
    /\ WF_all(NextPage /\ UNCHANGED <<portalVars, textVars, datingVars>>)
    /\ WF_all(Crawl /\ UNCHANGED <<vars, textVars, datingVars>>)
Spec == Init /\ [][Next]_all /\ Fairness

=============================================================================
