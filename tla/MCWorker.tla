------------------------------ MODULE MCWorker ------------------------------
(***************************************************************************)
(* Instances of Worker: a database with at most one article of an older    *)
(* version, batches of one article, a catch-up on every second tick, and   *)
(* the commands whose phases differ: "cluster" recounts as "db" seeds and  *)
(* then groups as "ingest" does, "missing" is "analyse" without --all.     *)
(***************************************************************************)
EXTENDS Worker

MCLexiconStates == {"good", "invalid"}
MCAllLexiconStates == {"good", "invalid", "unreadable"}
MCCommands == {"db", "ingest", "analyse"}
MCNoCommands == {}

=============================================================================
