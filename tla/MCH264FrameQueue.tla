--------------------------- MODULE MCH264FrameQueue ---------------------------
(***************************************************************************)
(* H264FrameQueue for TLC: two threads push key frames that carry their    *)
(* parameter sets, and inter frames, into a queue that two key frames      *)
(* overflow.                                                               *)
(***************************************************************************)
EXTENDS H264FrameQueue

CONSTANTS p1, p2, s1, s2

MCProducers == {p1, p2}

MCSources == {s1, s2}

KeyFrame == <<"SPS", "PPS", "IDR">>

MCFrames == {KeyFrame, <<"slice">>}

\* The producers do the same, and so do the sources.
Symmetric == {[x \in MCProducers \cup MCSources |->
                 IF x \in MCProducers THEN f[x] ELSE g[x]] :
              f \in {f \in [MCProducers -> MCProducers] : f[p1] # f[p2]},
              g \in {g \in [MCSources -> MCSources] : g[s1] # g[s2]}}

===============================================================================
