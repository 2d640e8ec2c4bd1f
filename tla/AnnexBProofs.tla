----------------------------- MODULE AnnexBProofs -----------------------------
(***************************************************************************)
(* Proofs about the Annex B scan of AnnexB.tla, for buffers of every       *)
(* length and every byte alphabet.                                         *)
(***************************************************************************)
EXTENDS AnnexB, TLAPS

SpanRecord == [offset : Nat, size : Nat]

\* The scan has left no start code behind it in the NAL it is in, and every
\* span it has closed ends before the start code of that NAL.
Progress ==
  /\ offset <= Size
  /\ nalStart # NoNal => nalStart <= offset
  /\ nals # <<>> => nalStart # NoNal
  /\ ~done => \A k \in 1..Len(nals) : End(nals[k]) + 3 <= nalStart
  /\ nalStart # NoNal => \A i \in nalStart..offset - 1 : ~ShortCodeAt(i)

ScanInv == TypeOK /\ Progress /\ SpansInBuffer /\ NoStartCodeInside

\* The invariant holds before the first byte is looked at.
LEMMA ScanInit == Init => ScanInv
<1> SUFFICES ASSUME Init PROVE ScanInv
  OBVIOUS
<1>1. data \in Seq(Byte) /\ Size \in Nat
  BY SizeAssumption, SMT DEF Init, Size
<1>2. Len(nals) = 0 /\ nals \in Seq(SpanRecord) /\ 1..Len(nals) = {}
  BY SMT DEF Init
<1>3. TypeOK
  BY <1>1, <1>2 DEF Init, TypeOK, SpanRecord
<1>4. Progress
  BY <1>1, <1>2 DEF Init, Progress, NoNal
<1> QED
  BY <1>2, <1>3, <1>4, Zenon DEF ScanInv, SpansInBuffer, NoStartCodeInside

\* What a list of spans is once the NAL that ends at "end" has been closed.
ClosedSpans(s, end) ==
  /\ s \in Seq(SpanRecord)
  /\ \A k \in 1..Len(s) :
       /\ s[k].size > 0
       /\ End(s[k]) <= Size
       /\ (k \in 1..Len(nals) /\ s[k] = nals[k]) \/ End(s[k]) = end
       /\ \A i \in s[k].offset..End(s[k]) - 3 : ~ShortCodeAt(i)
  /\ \A k \in 1..Len(s), l \in 1..Len(s) : k < l => End(s[k]) + 3 <= s[l].offset
  /\ s # <<>> => nalStart # NoNal

\* Closing the current NAL at an offset the scan has reached keeps the spans
\* in order, inside the buffer and free of start codes.
LEMMA NalsUntilKeepsSpans ==
  ASSUME ScanInv, ~done, NEW end \in Nat, end <= Size,
         nalStart # NoNal => \A i \in nalStart..end - 3 : ~ShortCodeAt(i)
  PROVE  ClosedSpans(NalsUntil(end), end)
<1> DEFINE s == NalsUntil(end)
<1>1. nals \in Seq(SpanRecord) /\ nalStart \in Nat \cup {NoNal} /\ Size \in Nat
  BY DEF ScanInv, TypeOK, SpanRecord, Size
<1>2. CASE ~(nalStart # NoNal /\ end > nalStart)
  <2>1. s = nals
    BY <1>2 DEF NalsUntil
  <2>2. /\ \A k \in 1..Len(nals) : nals[k].size > 0 /\ End(nals[k]) <= Size
        /\ \A k \in 1..Len(nals), l \in 1..Len(nals) :
             k < l => End(nals[k]) + 3 <= nals[l].offset
        /\ \A k \in 1..Len(nals) :
             \A i \in nals[k].offset..End(nals[k]) - 3 : ~ShortCodeAt(i)
        /\ nals # <<>> => nalStart # NoNal
    BY Zenon DEF ScanInv, Progress, SpansInBuffer, NoStartCodeInside
  <2> QED
    BY <2>1, <2>2, <1>1, Zenon DEF ClosedSpans
<1>3. CASE nalStart # NoNal /\ end > nalStart
  <2> DEFINE e == Span(nalStart, end)
  <2>1. nalStart \in Nat /\ e \in SpanRecord /\ e.offset = nalStart /\ e.size > 0 /\ End(e) = end
    BY <1>1, <1>3 DEF Span, SpanRecord, End, NoNal
  <2>2. s = Append(nals, e)
    BY <1>3 DEF NalsUntil
  <2> HIDE DEF e, s
  <2>3. /\ s \in Seq(SpanRecord) /\ Len(s) = Len(nals) + 1 /\ s # <<>> /\ Len(nals) \in Nat
        /\ \A k \in 1..Len(nals) : s[k] = nals[k]
        /\ s[Len(nals) + 1] = e
    BY <1>1, <2>1, <2>2
  <2>4. \A k \in 1..Len(s) : (k \in 1..Len(nals) /\ s[k] = nals[k]) \/ (k = Len(nals) + 1 /\ s[k] = e)
    BY <2>3
  <2>5. \A k \in 1..Len(nals) : End(nals[k]) + 3 <= nalStart
    BY DEF ScanInv, Progress
  <2>6. \A k \in 1..Len(s) : s[k].size > 0 /\ End(s[k]) <= Size
    BY <2>1, <2>4 DEF ScanInv, SpansInBuffer
  <2>7. \A k \in 1..Len(s) : \A i \in s[k].offset..End(s[k]) - 3 : ~ShortCodeAt(i)
    BY <1>3, <2>1, <2>4, Zenon DEF ScanInv, NoStartCodeInside
  <2>8. ASSUME NEW k \in 1..Len(s), NEW l \in 1..Len(s), k < l
        PROVE  End(s[k]) + 3 <= s[l].offset
    <3>1. k \in 1..Len(nals) /\ s[k] = nals[k]
      BY <2>3, <2>8
    <3>2. CASE l = Len(nals) + 1
      BY <2>1, <2>3, <2>5, <3>1, <3>2
    <3>3. CASE l \in 1..Len(nals)
      BY <2>3, <2>8, <3>1, <3>3 DEF ScanInv, SpansInBuffer
    <3> QED
      BY <2>4, <3>2, <3>3
  <2>9. \A k \in 1..Len(s) : (k \in 1..Len(nals) /\ s[k] = nals[k]) \/ End(s[k]) = end
    BY <2>1, <2>4
  <2>10. ClosedSpans(s, end)
    BY <1>3, <2>3, <2>6, <2>7, <2>8, <2>9, Zenon DEF ClosedSpans
  <2> QED
    BY <2>10 DEF s
<1> QED
  BY <1>2, <1>3 DEF s

\* A start code closes the open NAL in front of it and opens one behind it.
LEMMA FoundKeepsInv ==
  ASSUME ScanInv, ~done, NEW k \in {3, 4}, offset + k <= Size, Found(k)
  PROVE  ScanInv'
<1>1. /\ offset \in Nat /\ Size \in Nat /\ Size' = Size
      /\ offset' = offset + k /\ nalStart' = offset + k /\ offset' \in Nat
      /\ nalStart' # NoNal /\ offset' <= Size /\ ~done' /\ data' = data
  BY DEF ScanInv, TypeOK, Found, Size, NoNal
<1>2. nalStart # NoNal => \A i \in nalStart..offset - 3 : ~ShortCodeAt(i)
  BY <1>1 DEF ScanInv, TypeOK, Progress, NoNal
<1>3. nals' = NalsUntil(offset)
  BY DEF Found
<1>4. ClosedSpans(nals', offset)
  <2>1. offset <= Size
    BY <1>1
  <2>2. ClosedSpans(NalsUntil(offset), offset)
    BY <1>1, <1>2, <2>1, NalsUntilKeepsSpans
  <2> QED
    BY <1>3, <2>2
<1>5. TypeOK'
  <2>1. nals' \in Seq([offset : Nat, size : Nat])
    BY <1>4, Zenon DEF ClosedSpans, SpanRecord
  <2>2. data \in Seq(Byte) /\ offset' \in Nat /\ nalStart' \in Nat
    BY <1>1, Zenon DEF ScanInv, TypeOK
  <2>3. done' \in BOOLEAN
    BY Zenon DEF ScanInv, TypeOK, Found
  <2> QED
    BY <1>1, <2>1, <2>2, <2>3, Zenon DEF TypeOK
<1>6. Progress'
  <2>1. ASSUME NEW j \in 1..Len(nals')
        PROVE  End(nals'[j]) + 3 <= nalStart'
    <3>1. CASE End(nals'[j]) = offset
      BY <1>1, <3>1
    <3>2. CASE j \in 1..Len(nals) /\ nals'[j] = nals[j]
      <4>1. End(nals[j]) + 3 <= nalStart /\ nalStart # NoNal
        BY <1>4, <2>1, <3>2 DEF ScanInv, Progress, ClosedSpans
      <4>2. End(nals[j]) \in Nat
        <5>1. nals \in Seq(SpanRecord)
          BY Zenon DEF ScanInv, TypeOK, SpanRecord
        <5>2. nals[j] \in SpanRecord
          BY <3>2, <5>1
        <5> QED
          BY <5>2 DEF End, SpanRecord
      <4> QED
        BY <1>1, <3>2, <4>1, <4>2 DEF ScanInv, Progress, TypeOK, NoNal
    <3> QED
      BY <1>4, <2>1, <3>1, <3>2 DEF ClosedSpans
  <2>2. \A i \in nalStart'..offset' - 1 : FALSE
    BY <1>1
  <2> QED
    BY <1>1, <2>1, <2>2 DEF Progress, End, ClosedSpans
<1>7. SpansInBuffer'
  BY <1>1, <1>4, Zenon DEF SpansInBuffer, End, ClosedSpans
<1>8. NoStartCodeInside'
  BY <1>1, <1>4, Zenon DEF NoStartCodeInside, End, ShortCodeAt, ClosedSpans
<1> QED
  BY <1>5, <1>6, <1>7, <1>8 DEF ScanInv

\* Moving on one byte leaves no start code behind.
LEMMA AdvanceKeepsInv ==
  ASSUME ScanInv, Advance
  PROVE  ScanInv'
<1>1. /\ offset \in Nat /\ Size \in Nat /\ Size' = Size /\ offset + 3 <= Size
      /\ offset' = offset + 1 /\ ~ShortCodeAt(offset)
      /\ nalStart \in Nat \cup {NoNal}
  BY DEF ScanInv, TypeOK, Advance, Size
<1>2. /\ data' = data /\ nalStart' = nalStart /\ nals' = nals /\ done' = done /\ ~done
  BY DEF Advance
<1>3. TypeOK'
  BY <1>1, <1>2 DEF ScanInv, TypeOK
<1>4. \A i : ShortCodeAt(i)' <=> ShortCodeAt(i)
  BY <1>1, <1>2, Zenon DEF ShortCodeAt
<1>5. Progress'
  <2>1. nalStart # NoNal => \A i \in nalStart..offset' - 1 : ~ShortCodeAt(i)
    <3> SUFFICES ASSUME nalStart # NoNal, NEW i \in nalStart..offset' - 1
                 PROVE  ~ShortCodeAt(i)
      OBVIOUS
    <3>1. i = offset \/ i \in nalStart..offset - 1
      BY <1>1 DEF NoNal
    <3> QED
      BY <1>1, <3>1, Zenon DEF ScanInv, Progress
  <2>2. offset' <= Size' /\ (nalStart # NoNal => nalStart <= offset')
    BY <1>1 DEF ScanInv, Progress, NoNal
  <2>3. /\ nals # <<>> => nalStart # NoNal
        /\ \A k \in 1..Len(nals) : End(nals[k]) + 3 <= nalStart
    BY <1>2, Zenon DEF ScanInv, Progress
  <2> QED
    BY <1>2, <1>4, <2>1, <2>2, <2>3, Zenon DEF Progress, End
<1>6. SpansInBuffer' /\ NoStartCodeInside'
  BY <1>1, <1>2, <1>4, Zenon DEF ScanInv, SpansInBuffer, NoStartCodeInside, End
<1> QED
  BY <1>3, <1>5, <1>6 DEF ScanInv

\* The last NAL reaches to the end of the buffer and holds no start code: the
\* scan has passed every offset at which one could begin.
LEMMA ReachEndKeepsInv ==
  ASSUME ScanInv, ReachEnd
  PROVE  ScanInv'
<1>1. /\ offset \in Nat /\ Size \in Nat /\ Size' = Size /\ offset + 3 > Size
      /\ nalStart \in Nat \cup {NoNal}
  BY DEF ScanInv, TypeOK, ReachEnd, Size
<1>2. /\ data' = data /\ nalStart' = nalStart /\ offset' = offset
      /\ done' = TRUE /\ ~done /\ nals' = NalsUntil(Size)
  BY DEF ReachEnd
<1>3. \A i : ShortCodeAt(i)' <=> ShortCodeAt(i)
  BY <1>1, <1>2, Zenon DEF ShortCodeAt
<1>4. nalStart # NoNal => \A i \in nalStart..Size - 3 : ~ShortCodeAt(i)
  <2> SUFFICES ASSUME nalStart # NoNal, NEW i \in nalStart..Size - 3
               PROVE  ~ShortCodeAt(i)
    OBVIOUS
  <2>1. i \in nalStart..offset - 1
    BY <1>1 DEF NoNal
  <2> QED
    BY <2>1, Zenon DEF ScanInv, Progress
<1>5. ClosedSpans(nals', Size)
  <2>1. Size <= Size
    BY <1>1
  <2>2. ClosedSpans(NalsUntil(Size), Size)
    BY <1>1, <1>2, <1>4, <2>1, NalsUntilKeepsSpans
  <2> QED
    BY <1>2, <2>2
<1>6. TypeOK'
  <2>1. nals' \in Seq([offset : Nat, size : Nat])
    BY <1>5, Zenon DEF ClosedSpans, SpanRecord
  <2> QED
    BY <1>2, <2>1, Zenon DEF ScanInv, TypeOK
<1>7. Progress'
  <2>1. nals' # <<>> => nalStart # NoNal
    BY <1>5, Zenon DEF ClosedSpans
  <2> QED
    BY <1>1, <1>2, <1>3, <2>1, Zenon DEF ScanInv, Progress
<1>8. SpansInBuffer' /\ NoStartCodeInside'
  BY <1>1, <1>3, <1>5, Zenon DEF ClosedSpans, SpansInBuffer, NoStartCodeInside, End
<1> QED
  BY <1>6, <1>7, <1>8 DEF ScanInv

\* The invariant holds throughout the scan of any buffer.
LEMMA ScanInductive == Spec => []ScanInv
<1>1. Init => ScanInv
  BY ScanInit
<1>2. ScanInv /\ [Next]_vars => ScanInv'
  <2> SUFFICES ASSUME ScanInv, [Next]_vars PROVE ScanInv'
    OBVIOUS
  <2>1. CASE FoundShort
    <3>1. ~done /\ offset + 3 <= Size /\ Found(3)
      BY <2>1 DEF FoundShort, ShortCodeAt
    <3> QED
      BY <3>1, FoundKeepsInv
  <2>2. CASE FoundLong
    <3>1. ~done /\ offset + 4 <= Size /\ Found(4)
      BY <2>2 DEF FoundLong, LongCodeAt
    <3> QED
      BY <3>1, FoundKeepsInv
  <2>3. CASE Advance
    BY <2>3, AdvanceKeepsInv
  <2>4. CASE ReachEnd
    BY <2>4, ReachEndKeepsInv
  <2>5. CASE UNCHANGED vars
    BY <2>5, Zenon DEF vars, ScanInv, TypeOK, Progress, SpansInBuffer, NoStartCodeInside,
                End, Size, ShortCodeAt
  <2> QED
    BY <2>1, <2>2, <2>3, <2>4, <2>5 DEF Next
<1> QED
  BY <1>1, <1>2, PTL DEF Spec

\* Whatever the buffer, pushAnnexBFrame copies only bytes the caller passed:
\* every span is inside the buffer, not empty, and behind the one before it.
THEOREM SplitStaysInBuffer == Spec => []SpansInBuffer
<1>1. ScanInv => SpansInBuffer
  BY DEF ScanInv
<1> QED
  BY <1>1, ScanInductive, PTL

\* Whatever the buffer, no span splitAnnexB returns holds a start code, so each
\* is one NAL for the discrete framer.
THEOREM SplitYieldsSingleNals == Spec => []NoStartCodeInside
<1>1. ScanInv => NoStartCodeInside
  BY DEF ScanInv
<1> QED
  BY <1>1, ScanInductive, PTL

\* Every value of the scan stays in its set: the offsets, which are unsigned in the
\* code, never fall below the start of the buffer.
THEOREM ScanTypeCorrect == Spec => []TypeOK
<1>1. ScanInv => TypeOK
  BY DEF ScanInv
<1> QED
  BY <1>1, ScanInductive, PTL

-------------------------------------------------------------------------------
(* The reference *)

\* Where the NAL behind the prefix at p ends, without a choice: e is EndOfNal(p).
IsEnd(p, e) ==
  \/ (\A q \in Prefixes001 : q <= p) /\ e = Size
  \/ \E q \in Prefixes001 : /\ q > p
                            /\ \A r \in Prefixes001 : r > p => q <= r
                            /\ e = IF q > p + 3 /\ data[q] = 0 THEN q - 1 ELSE q

\* A list of spans is that of the NALs behind a set of prefixes, but for the
\* empty ones.
Lists(s, prefixes) ==
  /\ \A k \in 1..Len(s) :
       \E p \in prefixes, e \in Nat : IsEnd(p, e) /\ e > p + 3 /\ s[k] = Span(p + 3, e)
  /\ \A p \in prefixes :
       \E e \in Nat : IsEnd(p, e) /\ (e > p + 3 => \E k \in 1..Len(s) : s[k] = Span(p + 3, e))

\* The prefixes whose NALs the scan has closed.
Closed == IF done THEN Prefixes001 ELSE {p \in Prefixes001 : p + 3 < nalStart}

\* The scan has listed the NALs it has closed, it is in the NAL behind a prefix, and
\* it has passed no start code since.
ReferenceInv ==
  /\ nalStart # NoNal => nalStart - 3 \in Prefixes001
  /\ \A i \in Nat : i < offset /\ (nalStart = NoNal \/ nalStart <= i)
                      => ~ShortCodeAt(i) /\ ~LongCodeAt(i)
  /\ nalStart = NoNal => nals = <<>>
  /\ Lists(nals, Closed)

LEMMA EndIsUnique == \A p \in Nat, e \in Nat : IsEnd(p, e) => EndOfNal(p) = e
<1> SUFFICES ASSUME NEW p \in Nat, NEW e \in Nat, IsEnd(p, e) PROVE EndOfNal(p) = e
  OBVIOUS
<1> DEFINE later == {q \in Prefixes001 : q > p}
<1>0. Prefixes001 \subseteq Int
  BY DEF Prefixes001
<1>1. CASE (\A q \in Prefixes001 : q <= p) /\ e = Size
  <2>1. \A q \in Prefixes001 : ~(q > p)
    BY <1>0, <1>1
  <2>2. later = {}
    BY <2>1, Zenon
  <2> QED
    BY <1>1, <2>2, Zenon DEF EndOfNal
<1>2. ASSUME NEW q \in Prefixes001, q > p, \A r \in Prefixes001 : r > p => q <= r,
             e = IF q > p + 3 /\ data[q] = 0 THEN q - 1 ELSE q
      PROVE  EndOfNal(p) = e
  <2> DEFINE first == CHOOSE x \in later : \A r \in later : x <= r
  <2>1. q \in later /\ \A r \in later : q <= r
    BY <1>2
  <2>2. first \in later /\ \A r \in later : first <= r
    BY <2>1, Zenon
  <2>3. first = q
    <3>1. first <= q /\ q <= first /\ first \in Int /\ q \in Int
      BY <1>0, <2>1, <2>2
    <3> HIDE DEF first
    <3> QED
      BY <3>1
  <2>4. later # {}
    BY <2>1
  <2>5. EndOfNal(p) = IF first > p + 3 /\ data[first] = 0 THEN first - 1 ELSE first
    BY <2>4, Zenon DEF EndOfNal
  <2> QED
    BY <1>2, <2>3, <2>5, Zenon
<1> QED
  BY <1>1, <1>2 DEF IsEnd

\* No two prefixes overlap.
LEMMA PrefixesApart ==
  ASSUME data \in Seq(Byte), NEW p \in Prefixes001, NEW q \in Prefixes001, p < q
  PROVE  p + 3 <= q
  BY DEF Prefixes001, ShortCodeAt, Size

\* Closing the NAL behind a prefix at its end adds it to the list.
LEMMA NalsUntilLists ==
  ASSUME TypeOK, NEW prefixes \in SUBSET Prefixes001, NEW end \in Nat,
         nalStart # NoNal, nalStart - 3 \in Prefixes001, IsEnd(nalStart - 3, end),
         Lists(nals, prefixes)
  PROVE  Lists(NalsUntil(end), prefixes \cup {nalStart - 3})
<1> DEFINE s == NalsUntil(end)
<1>1. nals \in Seq(SpanRecord) /\ nalStart \in Nat /\ prefixes \subseteq Int
  BY DEF TypeOK, SpanRecord, Prefixes001
<1>2. CASE ~(end > nalStart)
  <2>1. s = nals
    BY <1>2 DEF NalsUntil
  <2>2. ~(end > (nalStart - 3) + 3)
    BY <1>1, <1>2
  <2> QED
    BY <2>1, <2>2, Zenon DEF Lists
<1>3. CASE end > nalStart
  <2>1. s = Append(nals, Span(nalStart, end))
    BY <1>3 DEF NalsUntil
  <2>2. Span(nalStart, end) \in SpanRecord /\ (nalStart - 3) + 3 = nalStart
    BY <1>1, <1>3 DEF Span, SpanRecord
  <2>3. /\ Len(s) = Len(nals) + 1 /\ Len(nals) \in Nat
        /\ s[Len(s)] = Span(nalStart, end)
        /\ \A k \in 1..Len(nals) : s[k] = nals[k]
    BY <1>1, <2>1, <2>2
  <2>4. Len(s) \in 1..Len(s) /\ \A k \in 1..Len(nals) : k \in 1..Len(s)
    BY <2>3
  <2>5. \A k \in 1..Len(s) : k \in 1..Len(nals) \/ k = Len(s)
    BY <2>3
  <2> HIDE DEF s
  <2>6. ASSUME NEW k \in 1..Len(s)
        PROVE  \E p \in prefixes \cup {nalStart - 3}, e \in Nat :
                 IsEnd(p, e) /\ e > p + 3 /\ s[k] = Span(p + 3, e)
    <3>1. CASE k \in 1..Len(nals)
      <4>1. PICK p \in prefixes, e \in Nat :
                   IsEnd(p, e) /\ e > p + 3 /\ nals[k] = Span(p + 3, e)
        BY <3>1, Zenon DEF Lists
      <4>2. s[k] = Span(p + 3, e)
        BY <2>3, <3>1, <4>1, Zenon
      <4> QED
        BY <4>1, <4>2, Zenon
    <3>2. CASE k = Len(s)
      <4>1. IsEnd(nalStart - 3, end) /\ end > (nalStart - 3) + 3
              /\ s[k] = Span((nalStart - 3) + 3, end)
        BY <1>3, <2>2, <2>3, <3>2
      <4> QED
        BY <4>1, Zenon
    <3> QED
      BY <2>5, <3>1, <3>2
  <2>7. ASSUME NEW p \in prefixes \cup {nalStart - 3}
        PROVE  \E e \in Nat : IsEnd(p, e)
                 /\ (e > p + 3 => \E k \in 1..Len(s) : s[k] = Span(p + 3, e))
    <3>1. CASE p \in prefixes
      <4>1. PICK e \in Nat : IsEnd(p, e) /\ (e > p + 3 =>
                               \E k \in 1..Len(nals) : nals[k] = Span(p + 3, e))
        BY <3>1, Zenon DEF Lists
      <4>2. e > p + 3 => \E k \in 1..Len(s) : s[k] = Span(p + 3, e)
        BY <2>3, <2>4, <4>1, Zenon
      <4> QED
        BY <4>1, <4>2, Zenon
    <3>2. CASE p = nalStart - 3
      BY <2>2, <2>3, <2>4, <3>2, Zenon
    <3> QED
      BY <3>1, <3>2
  <2> QED
    BY <2>6, <2>7, Zenon DEF Lists, s
<1> QED
  BY <1>2, <1>3

\* What the predicates below say is about data only.
LEMMA DataStays ==
  ASSUME UNCHANGED data
  PROVE  /\ Size' = Size /\ Prefixes001' = Prefixes001
         /\ \A i : ShortCodeAt(i)' <=> ShortCodeAt(i)
         /\ \A i : LongCodeAt(i)' <=> LongCodeAt(i)
         /\ \A p, e : IsEnd(p, e)' <=> IsEnd(p, e)
         /\ \A list, prefixes : Lists(list, prefixes)' <=> Lists(list, prefixes)
<1>1. Size' = Size
  BY DEF Size
<1>2. \A i : (ShortCodeAt(i)' <=> ShortCodeAt(i)) /\ (LongCodeAt(i)' <=> LongCodeAt(i))
  BY <1>1 DEF ShortCodeAt, LongCodeAt
<1>3. Prefixes001' = Prefixes001
  BY <1>1, <1>2 DEF Prefixes001
<1>4. \A p, e : IsEnd(p, e)' <=> IsEnd(p, e)
  BY <1>1, <1>3, Zenon DEF IsEnd
<1>5. \A list, prefixes : Lists(list, prefixes)' <=> Lists(list, prefixes)
  BY <1>4, Zenon DEF Lists
<1> QED
  BY <1>1, <1>2, <1>3, <1>4, <1>5

\* A start code whose prefix is at q: the NAL before it ends at the offset of the
\* scan, and the next one begins behind the prefix.
LEMMA FoundLists ==
  ASSUME ScanInv, ReferenceInv, ~done, NEW k \in {3, 4}, offset + k - 3 \in Prefixes001,
         k = 4 => ~ShortCodeAt(offset) /\ data[offset + 1] = 0, Found(k)
  PROVE  ReferenceInv'
<1> DEFINE q == offset + k - 3
<1>1. /\ data \in Seq(Byte) /\ Size \in Nat /\ offset \in Nat /\ nalStart \in Nat \cup {NoNal}
      /\ nals \in Seq(SpanRecord) /\ (nalStart # NoNal => nalStart <= offset)
  BY DEF ScanInv, TypeOK, Progress, SpanRecord, Size
<1>2. /\ q \in Prefixes001 /\ q \in Nat /\ offset <= q /\ q <= offset + 1
      /\ nalStart' = q + 3 /\ offset' = q + 3 /\ ~done' /\ nals' = NalsUntil(offset)
      /\ UNCHANGED data
  BY <1>1 DEF Found
<1>3. Prefixes001 \subseteq Nat /\ \A r \in Prefixes001 : ShortCodeAt(r)
  BY DEF Prefixes001
<1>4. \A r \in Prefixes001 : r < q => r < offset
  <2> SUFFICES ASSUME NEW r \in Prefixes001, r < q, ~(r < offset) PROVE FALSE
    OBVIOUS
  <2>1. r = offset /\ k = 4
    BY <1>1, <1>2, <1>3
  <2> QED
    BY <1>3, <2>1
<1>5. Closed' = {r \in Prefixes001 : r + 3 < q + 3}
  BY <1>2, DataStays, Zenon DEF Closed
<1>6. Closed = {r \in Prefixes001 : r + 3 < nalStart}
  BY Zenon DEF Closed
<1>7. /\ nalStart' # NoNal /\ nalStart' - 3 \in Prefixes001' /\ UNCHANGED data
      /\ \A i \in Nat : ~(i < offset' /\ (nalStart' = NoNal \/ nalStart' <= i))
  BY <1>2, DataStays DEF NoNal
<1>8. CASE nalStart = NoNal
  <2>1. \A r \in Prefixes001 : ~(r < offset)
    BY <1>3, <1>8 DEF ReferenceInv
  <2>2. \A r \in Prefixes001 : ~(r + 3 < q + 3)
    BY <1>2, <1>3, <1>4, <2>1
  <2>3. Closed' = {}
    BY <1>5, <2>2, Zenon
  <2>4. nals' = <<>>
    BY <1>2, <1>8, Zenon DEF NalsUntil, ReferenceInv
  <2>5. Lists(nals', Closed')
    BY <2>3, <2>4 DEF Lists
  <2> QED
    BY <1>7, <2>5, DataStays, Zenon DEF ReferenceInv
<1>9. CASE nalStart # NoNal
  <2>1. nalStart \in Nat /\ nalStart - 3 \in Prefixes001 /\ nalStart <= offset
    BY <1>1, <1>9 DEF ReferenceInv
  <2>2. \A r \in Prefixes001 : r > nalStart - 3 => q <= r
    <3> SUFFICES ASSUME NEW r \in Prefixes001, r > nalStart - 3, ~(q <= r) PROVE FALSE
      OBVIOUS
    <3>1. nalStart <= r
      BY <1>1, <1>3, <2>1, PrefixesApart
    <3>2. r < offset
      BY <1>2, <1>3, <1>4
    <3> QED
      BY <1>3, <2>1, <3>1, <3>2 DEF ReferenceInv
  <2>3. offset = IF q > (nalStart - 3) + 3 /\ data[q] = 0 THEN q - 1 ELSE q
    <3>1. CASE k = 4
      BY <1>1, <2>1, <3>1
    <3>2. CASE k = 3
      <4>1. q = offset
        BY <1>1, <3>2
      <4>2. ASSUME offset > nalStart, data[offset] = 0 PROVE FALSE
        <5>1. LongCodeAt(offset - 1)
          BY <1>1, <1>3, <3>2, <4>1, <4>2, <2>1 DEF LongCodeAt, ShortCodeAt, Size
        <5>2. offset - 1 \in Nat /\ offset - 1 < offset /\ nalStart <= offset - 1
          BY <1>1, <2>1, <4>2
        <5> QED
          BY <5>1, <5>2 DEF ReferenceInv
      <4> QED
        BY <1>1, <2>1, <4>1, <4>2
    <3> QED
      BY <3>1, <3>2
  <2>4. IsEnd(nalStart - 3, offset)
    <3>1. q > nalStart - 3
      BY <1>1, <1>2, <2>1
    <3> QED
      BY <1>2, <2>2, <2>3, <3>1, Zenon DEF IsEnd
  <2>5. Lists(nals', Closed \cup {nalStart - 3})
    <3>1. Closed \in SUBSET Prefixes001
      BY <1>6
    <3>2. TypeOK /\ Lists(nals, Closed)
      BY DEF ScanInv, ReferenceInv
    <3> QED
      BY <1>1, <1>2, <1>9, <2>1, <2>4, <3>1, <3>2, NalsUntilLists
  <2>6. Closed' = Closed \cup {nalStart - 3}
    <3>1. \A r \in Prefixes001 : r + 3 < q + 3 <=> r + 3 < nalStart \/ r = nalStart - 3
      <4> TAKE r \in Prefixes001
      <4>1. r < q => r <= nalStart - 3
        BY <1>2, <1>3, <2>1, <2>2
      <4> QED
        BY <1>1, <1>2, <1>3, <2>1, <4>1
    <3> QED
      BY <1>5, <1>6, <2>1, <3>1, Zenon
  <2> QED
    BY <1>2, <1>7, <2>5, <2>6, DataStays, Zenon DEF ReferenceInv
<1> QED
  BY <1>8, <1>9

\* The end of the buffer closes the last NAL, since no prefix is left before it.
LEMMA ReachEndLists ==
  ASSUME ScanInv, ReferenceInv, ReachEnd
  PROVE  ReferenceInv'
<1>1. /\ data \in Seq(Byte) /\ Size \in Nat /\ offset \in Nat /\ nalStart \in Nat \cup {NoNal}
      /\ nals \in Seq(SpanRecord)
  BY DEF ScanInv, TypeOK, SpanRecord, Size
<1>2. /\ ~done /\ done' /\ offset + 3 > Size /\ nals' = NalsUntil(Size)
      /\ UNCHANGED <<data, offset, nalStart>>
  BY DEF ReachEnd
<1>3. Prefixes001 \subseteq Nat /\ \A r \in Prefixes001 : ShortCodeAt(r) /\ r < offset
  BY <1>1, <1>2 DEF Prefixes001
<1>4. Closed' = Prefixes001 /\ Closed = {r \in Prefixes001 : r + 3 < nalStart}
  BY <1>2, DataStays, Zenon DEF Closed
<1>5. CASE nalStart = NoNal
  <2>1. Prefixes001 = {}
    BY <1>3, <1>5 DEF ReferenceInv
  <2>2. nals' = <<>>
    BY <1>2, <1>5 DEF NalsUntil, ReferenceInv
  <2>3. Lists(nals', Closed')
    BY <1>4, <2>1, <2>2 DEF Lists
  <2> QED
    BY <1>2, <1>5, <2>2, <2>3, DataStays DEF ReferenceInv
<1>6. CASE nalStart # NoNal
  <2>1. nalStart \in Nat /\ nalStart - 3 \in Prefixes001
    BY <1>1, <1>6 DEF ReferenceInv
  <2>2. \A r \in Prefixes001 : r <= nalStart - 3
    <3> SUFFICES ASSUME NEW r \in Prefixes001, ~(r <= nalStart - 3) PROVE FALSE
      OBVIOUS
    <3>1. nalStart <= r
      BY <1>1, <1>3, <2>1, PrefixesApart
    <3> QED
      BY <1>3, <3>1 DEF ReferenceInv
  <2>3. Lists(nals', Closed \cup {nalStart - 3})
    <3>1. Closed \in SUBSET Prefixes001
      BY <1>4
    <3>2. TypeOK /\ Lists(nals, Closed)
      BY DEF ScanInv, ReferenceInv
    <3>3. IsEnd(nalStart - 3, Size)
      BY <2>2, Zenon DEF IsEnd
    <3> QED
      BY <1>1, <1>2, <1>6, <2>1, <3>1, <3>2, <3>3, NalsUntilLists
  <2>4. Closed' = Closed \cup {nalStart - 3}
    <3>1. \A r \in Prefixes001 : r + 3 < nalStart \/ r = nalStart - 3
      BY <1>3, <2>1, <2>2
    <3> QED
      BY <1>4, <2>1, <3>1, Zenon
  <2> QED
    BY <1>2, <1>6, <2>1, <2>3, <2>4, DataStays DEF ReferenceInv
<1> QED
  BY <1>5, <1>6

\* Whatever mix of three-byte and four-byte start codes the buffer holds, what is
\* enqueued are the NALs between them, none lost, merged with another or cut, and the
\* whole buffer when there are none.
THEOREM SplitMatchesReference == Spec => []SplitsLikeReference
<1>1. Init => ReferenceInv
  <2> SUFFICES ASSUME Init PROVE ReferenceInv
    OBVIOUS
  <2>1. Closed = {}
    BY DEF Init, Closed, NoNal, Prefixes001
  <2> QED
    BY <2>1 DEF Init, ReferenceInv, Lists
<1>2. ScanInv /\ ReferenceInv /\ [Next]_vars => ReferenceInv'
  <2> SUFFICES ASSUME ScanInv, ReferenceInv, [Next]_vars PROVE ReferenceInv'
    OBVIOUS
  <2>0. data \in Seq(Byte) /\ offset \in Nat
    BY DEF ScanInv, TypeOK
  <2>1. CASE FoundShort
    <3>1. offset \in Prefixes001
      BY <2>0, <2>1 DEF FoundShort, ShortCodeAt, Prefixes001, Size
    <3>2. offset + 3 - 3 \in Prefixes001
      BY <2>0, <3>1
    <3> QED
      BY <2>1, <3>2, FoundLists DEF FoundShort
  <2>2. CASE FoundLong
    <3>1. offset + 4 - 3 \in Prefixes001
      BY <2>0, <2>2 DEF FoundLong, LongCodeAt, ShortCodeAt, Prefixes001, Size
    <3>2. data[offset + 1] = 0
      BY <2>2 DEF FoundLong, LongCodeAt
    <3> QED
      BY <2>2, <3>1, <3>2, FoundLists DEF FoundLong
  <2>3. CASE Advance
    <3>1. UNCHANGED <<data, nalStart, nals, done>> /\ offset' = offset + 1
      BY <2>3 DEF Advance
    <3>2. Closed' = Closed
      BY <3>1, DataStays, Zenon DEF Closed
    <3>3. \A i \in Nat : i < offset' /\ (nalStart = NoNal \/ nalStart <= i)
                           => ~ShortCodeAt(i) /\ ~LongCodeAt(i)
      BY <2>0, <2>3, <3>1 DEF Advance, ReferenceInv
    <3> QED
      BY <3>1, <3>2, <3>3, DataStays, Zenon DEF ReferenceInv
  <2>4. CASE ReachEnd
    BY <2>4, ReachEndLists
  <2>5. CASE UNCHANGED vars
    <3>1. UNCHANGED <<data, offset, nalStart, nals, done>>
      BY <2>5 DEF vars
    <3>2. Closed' = Closed
      BY <3>1, DataStays, Zenon DEF Closed
    <3> QED
      BY <3>1, <3>2, DataStays, Zenon DEF ReferenceInv
  <2> QED
    BY <2>1, <2>2, <2>3, <2>4, <2>5 DEF Next
<1>3. ScanInv /\ ReferenceInv => SplitsLikeReference
  <2> SUFFICES ASSUME ScanInv, ReferenceInv, done
               PROVE  {Enqueued[k] : k \in 1..Len(Enqueued)} =
                        IF Reference = {} THEN {Span(0, Size)} ELSE Reference
    BY DEF SplitsLikeReference
  <2>1. Lists(nals, Prefixes001) /\ Prefixes001 \subseteq Nat
    BY DEF ReferenceInv, Closed, Prefixes001
  <2>2. ASSUME NEW k \in 1..Len(nals) PROVE nals[k] \in Reference
    <3>1. PICK p \in Prefixes001, e \in Nat :
                 IsEnd(p, e) /\ e > p + 3 /\ nals[k] = Span(p + 3, e)
      BY <2>1, Zenon DEF Lists
    <3>2. EndOfNal(p) = e
      BY <2>1, <3>1, EndIsUnique
    <3> QED
      BY <3>1, <3>2, Zenon DEF Reference
  <2>3. ASSUME NEW p \in Prefixes001, EndOfNal(p) > p + 3
        PROVE  \E k \in 1..Len(nals) : nals[k] = Span(p + 3, EndOfNal(p))
    <3>1. PICK e \in Nat : /\ IsEnd(p, e)
                           /\ e > p + 3 => \E k \in 1..Len(nals) : nals[k] = Span(p + 3, e)
      BY <2>1, Zenon DEF Lists
    <3>2. EndOfNal(p) = e
      BY <2>1, <3>1, EndIsUnique
    <3> QED
      BY <2>3, <3>1, <3>2, Zenon
  <2>4. {nals[k] : k \in 1..Len(nals)} = Reference
    BY <2>2, <2>3, Zenon DEF Reference
  <2>5. CASE nals = <<>>
    <3>1. Reference = {} /\ Enqueued = <<Span(0, Size)>>
      BY <2>4, <2>5 DEF Enqueued
    <3>2. \A k \in 1..Len(Enqueued) : k = 1
      BY <3>1
    <3>3. 1 \in 1..Len(Enqueued) /\ Enqueued[1] = Span(0, Size)
      BY <3>1
    <3> QED
      BY <3>1, <3>2, <3>3, Zenon
  <2>6. CASE nals # <<>>
    <3>1. 1 \in 1..Len(nals)
      BY <2>6 DEF ScanInv, TypeOK
    <3>2. Reference # {} /\ Enqueued = nals
      BY <2>4, <2>6, <3>1, Zenon DEF Enqueued
    <3> QED
      BY <2>4, <3>2, Zenon
  <2> QED
    BY <2>5, <2>6
<1> QED
  BY <1>1, <1>2, <1>3, ScanInductive, PTL DEF Spec

===============================================================================
