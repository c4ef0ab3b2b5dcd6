------------------------------ MODULE MCBoard ------------------------------
(* Small instances of Board for TLC.                                       *)
EXTENDS Board

\* Two hunts of one territory.
MCTerritory == <<"jobs", "jobs">>
=============================================================================
