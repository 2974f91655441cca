------------------------------- MODULE MCTeams -------------------------------
EXTENDS Teams, TLC
CONSTANTS a1, a2
MCParent == (a1 :> Root) @@ (a2 :> a1)
=============================================================================
