-------------------------------- MODULE MCRoster --------------------------------
EXTENDS Roster
=============================================================================
