------------------------------- MODULE LossyFifo -------------------------------
(***************************************************************************)
(* What the rest of the program may rely on from the NALU queue between    *)
(* the encoder and live555: a first-in first-out channel of bounded        *)
(* capacity, which loses its oldest item, and only that one, when an item  *)
(* is put into it while it is full.                                        *)
(*                                                                         *)
(* Items are numbered 1, 2, ... in the order they are put.  The items in   *)
(* the channel are low+1..put.                                             *)
(***************************************************************************)
EXTENDS Integers

CONSTANTS Capacity

VARIABLES put,   \* the number of items put so far
          low,   \* the last item that has left the channel
          taken  \* the last item handed to the consumer

vars == <<put, low, taken>>

Init == put = 0 /\ low = 0 /\ taken = 0

Put == /\ put' = put + 1
       /\ low' = IF put - low = Capacity THEN low + 1 ELSE low
       /\ UNCHANGED taken

Take == /\ low < put
        /\ low' = low + 1
        /\ taken' = low + 1
        /\ UNCHANGED put

Reset == /\ low' = put
         /\ UNCHANGED <<put, taken>>

Next == Put \/ Take \/ Reset

Spec == Init /\ [][Next]_vars

--------------------------------------------------------------------------------
\* The consumer is behind the channel and the channel behind the producer, by
\* no more than its capacity.
InWindow == /\ put \in Nat /\ low \in Nat /\ taken \in Nat
            /\ taken <= low /\ low <= put
            /\ put - low <= Capacity

\* No item is handed over twice or after a later one.
InOrder == [][taken' # taken => taken' > taken]_vars

================================================================================
