------------------------- MODULE MCLive555RtspService -------------------------
(***************************************************************************)
(* Live555RtspService for TLC: one or two callers, one encoder thread, one *)
(* source.                                                                 *)
(***************************************************************************)
EXTENDS Live555RtspService, TLC

CONSTANTS t1, t2, p1, s1

OneCaller == {t1}

TwoCallers == {t1, t2}

\* The callers do the same.
CallerSymmetry == Permutations(TwoCallers)

MCProducers == {p1}

MCSources == {s1}

MCFrames == {<<"slice">>}

===============================================================================
