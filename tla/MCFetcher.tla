----------------------------- MODULE MCFetcher -----------------------------
(***************************************************************************)
(* An instance of Fetcher: two hosts, two delays on each, three calls.     *)
(***************************************************************************)
EXTENDS Fetcher

MCRetryAfters == {-1, 0, 1}

=============================================================================
