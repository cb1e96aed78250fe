---------------------------- MODULE MCDoomThing ----------------------------
EXTENDS DoomThing
AllTypes == DOMAIN mobjinfo
=============================================================================
