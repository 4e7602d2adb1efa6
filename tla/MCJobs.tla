------------------------------- MODULE MCJobs -------------------------------
(***************************************************************************)
(* Instances of Jobs for TLC.                                              *)
(***************************************************************************)
EXTENDS Jobs

\* Two requests repeat one key; a third job fails on purpose.
KeysOfRequests == [r \in Requests |-> IF r = "other" THEN "k2" ELSE "k1"]
Directives == [r \in Requests |-> IF r = "other" THEN "retryable" ELSE "none"]
=============================================================================
