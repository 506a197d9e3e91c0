---------------------------- MODULE MCLiveSockets ----------------------------
EXTENDS LiveSockets
=============================================================================
