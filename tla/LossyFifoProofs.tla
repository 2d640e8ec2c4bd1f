---------------------------- MODULE LossyFifoProofs ----------------------------
(***************************************************************************)
(* What the abstract channel guarantees, for every capacity.               *)
(***************************************************************************)
EXTENDS LossyFifo, TLAPS

\* The three positions keep their order, and the channel its capacity.
LEMMA WindowInductive ==
  ASSUME Capacity \in Nat \ {0}
  PROVE  Spec => []InWindow
<1>1. Init => InWindow
  BY DEF Init, InWindow
<1>2. InWindow /\ [Next]_vars => InWindow'
  <2> SUFFICES ASSUME InWindow, [Next]_vars PROVE InWindow'
    OBVIOUS
  <2>1. CASE Put
    BY <2>1 DEF Put, InWindow
  <2>2. CASE Take
    BY <2>2 DEF Take, InWindow
  <2>3. CASE Reset
    BY <2>3 DEF Reset, InWindow
  <2>4. CASE UNCHANGED vars
    BY <2>4 DEF vars, InWindow
  <2> QED
    BY <2>1, <2>2, <2>3, <2>4 DEF Next
<1> QED
  BY <1>1, <1>2, PTL DEF Spec

\* The channel holds at most Capacity items and its consumer gets every item at
\* most once and in the order the items were put.
THEOREM ChannelDelivers ==
  ASSUME Capacity \in Nat \ {0}
  PROVE  Spec => []InWindow /\ InOrder
<1>1. InWindow /\ [Next]_vars => [taken' # taken => taken' > taken]_vars
  BY DEF InWindow, Next, Put, Take, Reset, vars
<1> QED
  BY <1>1, WindowInductive, PTL DEF Spec, InOrder

================================================================================
