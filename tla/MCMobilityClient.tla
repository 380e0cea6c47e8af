-------------------------- MODULE MCMobilityClient --------------------------
EXTENDS MobilityClient, TLC

CONSTANTS home, away, conn, ned

\* Each has a connection of its own, as "secured1 = secured1" (gui.conf:16)
OneEach == home :> conn @@ away :> ned

\* One has an entry, the other none (client_sec.py:610-615)
OnlyHome == home :> conn
=============================================================================
