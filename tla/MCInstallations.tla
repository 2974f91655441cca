---------------------------- MODULE MCInstallations ----------------------------
EXTENDS Installations, TLC
CONSTANTS i1, i2, o1, o2, o3
MCHome == o1 :> i1 @@ o2 :> i1 @@ o3 :> i2
=============================================================================
