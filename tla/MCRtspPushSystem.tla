--------------------------- MODULE MCRtspPushSystem ---------------------------
(***************************************************************************)
(* The whole program for TLC: one caller, one client, one encoder thread.  *)
(***************************************************************************)
EXTENDS RtspPushSystem

CONSTANTS t1, c1, p1, s1

MCCallers == {t1}

MCClients == {c1}

MCProducers == {p1}

MCSources == {s1}

MCFrames == {<<"slice">>}

===============================================================================
