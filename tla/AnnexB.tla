-------------------------------- MODULE AnnexB --------------------------------
(***************************************************************************)
(* H264FrameQueue::splitAnnexB and findStartCode, and what pushAnnexBFrame *)
(* does with their result (src/src/h264FrameQueue.cpp).                    *)
(*                                                                         *)
(* The two nested loops of the code are one scan: offset goes over the     *)
(* buffer, and one step is one iteration of the loop of findStartCode      *)
(* together with what splitAnnexB does when that loop returns.  Offsets    *)
(* are those of the C++ code, counted from 0; a byte is data[offset + 1].  *)
(***************************************************************************)
EXTENDS Integers, Sequences

CONSTANTS Byte,    \* the byte values, 0 and 1 among them
          MaxSize  \* bound on the size of a buffer, for the model checker

ASSUME BytesAssumption == {0, 1} \subseteq Byte

ASSUME SizeAssumption == MaxSize \in Nat \ {0}

VARIABLES data,      \* the buffer given to pushAnnexBFrame
          offset,    \* "i" of findStartCode
          nalStart,  \* "nalStart" of splitAnnexB, NoNal before a start code
          nals,      \* the spans pushed so far
          done       \* splitAnnexB has returned

vars == <<data, offset, nalStart, nals, done>>

NoNal == -1

Size == Len(data)

\* The three-byte and the four-byte start code of Annex B, at an offset.
ShortCodeAt(i) == /\ i + 3 <= Size
                  /\ data[i + 1] = 0 /\ data[i + 2] = 0 /\ data[i + 3] = 1

\* A slip: only the three-byte start code is looked for.
LongCodeAtNever(i) == FALSE

LongCodeAt(i) == /\ i + 4 <= Size
                 /\ data[i + 1] = 0 /\ data[i + 2] = 0
                 /\ data[i + 3] = 0 /\ data[i + 4] = 1

Span(from, to) == [offset |-> from, size |-> to - from]

\* A slip: the empty span between two adjacent start codes is kept.
NalsUntilKeepEmpty(end) ==
  IF nalStart # NoNal THEN Append(nals, Span(nalStart, end)) ELSE nals

\* A slip: a NAL is closed although no start code opened it.
NalsUntilUnopened(end) ==
  IF end > nalStart THEN Append(nals, Span(nalStart, end)) ELSE nals

\* The body of splitAnnexB's loop: the NAL that ends here, unless it is empty.
NalsUntil(end) ==
  IF nalStart # NoNal /\ end > nalStart THEN Append(nals, Span(nalStart, end))
                                        ELSE nals

Init == /\ data \in UNION {[1..n -> Byte] : n \in 1..MaxSize}
        /\ offset = 0
        /\ nalStart = NoNal
        /\ nals = <<>>
        /\ done = FALSE

\* A slip: the next search begins one byte too far into the NAL.
FoundSkipping(k) == /\ nals' = NalsUntil(offset)
                    /\ nalStart' = offset + k
                    /\ offset' = offset + k + 1
                    /\ UNCHANGED <<data, done>>

\* findStartCode returns a start code of k bytes; the next NAL begins after it.
Found(k) == /\ nals' = NalsUntil(offset)
            /\ nalStart' = offset + k
            /\ offset' = offset + k
            /\ UNCHANGED <<data, done>>

FoundShort == /\ ~done
              /\ ShortCodeAt(offset)
              /\ Found(3)

FoundLong == /\ ~done
             /\ ~ShortCodeAt(offset)
             /\ LongCodeAt(offset)
             /\ Found(4)

Advance == /\ ~done
           /\ offset + 3 <= Size
           /\ ~ShortCodeAt(offset)
           /\ ~LongCodeAt(offset)
           /\ offset' = offset + 1
           /\ UNCHANGED <<data, nalStart, nals, done>>

\* findStartCode returns npos: the last NAL reaches to the end of the buffer.
ReachEnd == /\ ~done
            /\ offset + 3 > Size
            /\ nals' = NalsUntil(Size)
            /\ done' = TRUE
            /\ UNCHANGED <<data, offset, nalStart>>

Next == FoundShort \/ FoundLong \/ Advance \/ ReachEnd

Spec == Init /\ [][Next]_vars

\* What pushAnnexBFrame hands to pushPureNaluLocked: the spans, or the whole
\* buffer when splitAnnexB found none.
Enqueued == IF nals = <<>> THEN <<Span(0, Size)>> ELSE nals

-------------------------------------------------------------------------------
TypeOK == /\ data \in Seq(Byte)
          /\ offset \in Nat
          /\ nalStart \in Nat \cup {NoNal}
          /\ nals \in Seq([offset : Nat, size : Nat])
          /\ done \in BOOLEAN

End(span) == span.offset + span.size

\* Every span pushPureNaluLocked copies from is not empty and lies inside the
\* caller's buffer, so "data[0]" and the copy of each NALU read only bytes the
\* caller passed; spans do not overlap and follow each other in the buffer.
SpansInBuffer ==
  /\ \A k \in 1..Len(nals) : nals[k].size > 0 /\ End(nals[k]) <= Size
  /\ \A k \in 1..Len(nals), l \in 1..Len(nals) :
       k < l => End(nals[k]) + 3 <= nals[l].offset

\* No span holds a start code: what H264VideoStreamDiscreteFramer is given is a
\* single NAL, for every buffer in which splitAnnexB found one.
NoStartCodeInside ==
  \A k \in 1..Len(nals) : \A i \in nals[k].offset..End(nals[k]) - 3 : ~ShortCodeAt(i)

-------------------------------------------------------------------------------
\* The reference: the offsets of all start code prefixes 00 00 01, and between
\* two of them the bytes that belong to neither, a zero before the second being
\* part of it.
Prefixes001 == {i \in 0..Size - 3 : ShortCodeAt(i)}

EndOfNal(p) ==
  LET later == {q \in Prefixes001 : q > p} IN
  IF later = {} THEN Size
  ELSE LET q == CHOOSE q \in later : \A r \in later : q <= r IN
       IF q > p + 3 /\ data[q] = 0 THEN q - 1 ELSE q

Reference == {Span(p + 3, EndOfNal(p)) : p \in {p \in Prefixes001 : EndOfNal(p) > p + 3}}

\* What is enqueued are exactly the NALs of the reference, or the whole buffer when
\* there are none: no NAL of the access unit is lost, merged with another or cut,
\* whatever mix of three-byte and four-byte start codes the encoder writes.
SplitsLikeReference ==
  done => {Enqueued[k] : k \in 1..Len(Enqueued)} =
            IF Reference = {} THEN {Span(0, Size)} ELSE Reference

===============================================================================
