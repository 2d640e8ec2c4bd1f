----------------------------- MODULE MCLiveStream -----------------------------
(***************************************************************************)
(* LiveStream for TLC: two clients, one encoder thread.                    *)
(***************************************************************************)
EXTENDS LiveStream

CONSTANTS c1, c2, s1, s2, s3, p1

MCClients == {c1, c2}

TwoSources == {s1, s2}

ThreeSources == {s1, s2, s3}

MCProducers == {p1}

\* A key frame is as small as one can be that shows what a frame of several NALs
\* does: the reader is woken once for two NALUs.
MCFrames == {<<"SPS", "IDR">>, <<"slice">>}

\* For the run that looks at what a client receives.
WholeKeyFrames == {<<"SPS", "PPS", "IDR">>, <<"slice">>}

===============================================================================
