------------------------------ MODULE MCTeamWait ------------------------------
EXTENDS TeamWait
=============================================================================
