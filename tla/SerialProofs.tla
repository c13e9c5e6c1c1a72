---------------------------- MODULE SerialProofs ----------------------------
(***************************************************************************)
(* Proofs about the serial line: how many wrong readings the bridge can    *)
(* publish, and how many whole frames it can fail to publish, for any      *)
(* readings, any losses and any splits of transfers.                       *)
(***************************************************************************)
EXTENDS SerialBridge, FiniteSetTheorems, SequenceTheorems, TLAPS

-----------------------------------------------------------------------------
(* Streams of bytes, and where they break.                                 *)

Places == [frame : Nat, place : 1 .. FrameLen]

Follows(b, c) ==
  IF b.place < FrameLen THEN c.frame = b.frame /\ c.place = b.place + 1
                        ELSE c.frame = b.frame + 1 /\ c.place = 1

One(P) == IF P THEN 1 ELSE 0

BreaksOf(s) == {i \in 1 .. Len(s) : i < Len(s) /\ ~ Follows(s[i], s[i + 1])}
Breaks(s) == Cardinality(BreaksOf(s))

\* A break where a and b meet.
Broken(a, b) == a # <<>> /\ b # <<>> /\ ~ Follows(a[Len(a)], b[1])

LEMMA BreaksFinite ==
  ASSUME NEW s \in Seq(Places)
  PROVE  IsFiniteSet(BreaksOf(s)) /\ Breaks(s) \in Nat
<1>1. Len(s) \in Int /\ BreaksOf(s) \in SUBSET (1 .. Len(s))
  BY LenProperties DEF BreaksOf
<1>2. IsFiniteSet(BreaksOf(s))
  BY <1>1, FS_Interval, FS_Subset
<1> QED BY <1>2, FS_CardinalityType DEF Breaks

LEMMA NoBreaks ==
  ASSUME NEW s \in Seq(Places)
  PROVE  Breaks(s) = 0 <=> \A i \in 1 .. Len(s) : i < Len(s) => Follows(s[i], s[i + 1])
<1>1. Breaks(s) = 0 <=> BreaksOf(s) = {}
  BY BreaksFinite, FS_EmptySet DEF Breaks
<1> QED BY <1>1 DEF BreaksOf

\* The breaks of a concatenation.
LEMMA BreaksConcat ==
  ASSUME NEW a \in Seq(Places), NEW b \in Seq(Places)
  PROVE  Breaks(a \o b) = Breaks(a) + Breaks(b) + One(Broken(a, b))
<1> DEFINE n == Len(a)
           shifted == {i \in n + 1 .. n + Len(b) : i - n \in BreaksOf(b)}
           seam == IF Broken(a, b) THEN {n} ELSE {}
<1>1. /\ a \o b \in Seq(Places) /\ Len(a \o b) = n + Len(b)
      /\ n \in Nat /\ Len(b) \in Nat
      /\ \A i \in 1 .. n + Len(b) : (a \o b)[i] = IF i <= n THEN a[i] ELSE b[i - n]
  BY ConcatProperties, LenProperties
<1>2. Cardinality(shifted) = Breaks(b) /\ IsFiniteSet(shifted)
  <2> DEFINE shift == [i \in BreaksOf(b) |-> i + n]
  <2>1. BreaksOf(b) \subseteq 1 .. Len(b)
    BY DEF BreaksOf
  <2>2. shift \in [BreaksOf(b) -> shifted]
    BY <2>1, <1>1
  <2>3. \A i, j \in BreaksOf(b) : shift[i] = shift[j] => i = j
    BY <2>1, <1>1
  <2>4. \A k \in shifted : \E i \in BreaksOf(b) : shift[i] = k
    <3> SUFFICES ASSUME NEW k \in shifted PROVE \E i \in BreaksOf(b) : shift[i] = k
      OBVIOUS
    <3>1. k - n \in BreaksOf(b) /\ shift[k - n] = k
      BY <1>1
    <3> QED BY <3>1
  <2>5. shift \in Bijection(BreaksOf(b), shifted)
    BY <2>2, <2>3, <2>4 DEF Bijection, Injection, Surjection, IsInjective
  <2> QED BY <2>5, BreaksFinite, FS_Bijection DEF ExistsBijection, Breaks
<1>3. BreaksOf(a \o b) = (BreaksOf(a) \cup shifted) \cup seam
  <2>1. a # <<>> <=> n > 0
    BY <1>1, EmptySeq
  <2>2. b # <<>> <=> Len(b) > 0
    BY <1>1, EmptySeq
  <2>3. ASSUME NEW i \in 1 .. n + Len(b), i < n
        PROVE  i \in BreaksOf(a \o b) <=> i \in (BreaksOf(a) \cup shifted) \cup seam
    BY <2>3, <1>1 DEF BreaksOf
  <2>4. ASSUME NEW i \in 1 .. n + Len(b), i = n
        PROVE  i \in BreaksOf(a \o b) <=> i \in (BreaksOf(a) \cup shifted) \cup seam
    BY <2>4, <1>1, <2>1, <2>2 DEF BreaksOf, Broken
  <2>5. ASSUME NEW i \in 1 .. n + Len(b), i > n
        PROVE  i \in BreaksOf(a \o b) <=> i \in (BreaksOf(a) \cup shifted) \cup seam
    <3>1. (a \o b)[i] = b[i - n]
      BY <1>1, <2>5
    <3>2. i < n + Len(b) => (a \o b)[i + 1] = b[i - n + 1]
      <4> SUFFICES ASSUME i < n + Len(b) PROVE (a \o b)[i + 1] = b[i - n + 1]
        OBVIOUS
      <4>1. i + 1 \in 1 .. n + Len(b) /\ ~ (i + 1 <= n) /\ i + 1 - n = i - n + 1
        BY <1>1, <2>5
      <4> QED BY <4>1, <1>1
    <3> QED BY <3>1, <3>2, <1>1, <2>5 DEF BreaksOf
  <2>6. /\ BreaksOf(a \o b) \subseteq 1 .. n + Len(b) /\ BreaksOf(a) \subseteq 1 .. n + Len(b)
        /\ shifted \subseteq 1 .. n + Len(b) /\ seam \subseteq 1 .. n + Len(b)
    BY <1>1, <2>1 DEF BreaksOf, Broken
  <2> QED BY <2>3, <2>4, <2>5, <2>6, <1>1
<1>4. Cardinality(BreaksOf(a) \cup shifted) = Breaks(a) + Breaks(b)
      /\ IsFiniteSet(BreaksOf(a) \cup shifted)
  <2>1. BreaksOf(a) \cap shifted = {}
    BY <1>1 DEF BreaksOf
  <2>2. Cardinality(BreaksOf(a) \cap shifted) = 0
    BY <2>1, FS_EmptySet
  <2>3. /\ IsFiniteSet(BreaksOf(a) \cup shifted)
        /\ Cardinality(BreaksOf(a) \cup shifted)
             = Cardinality(BreaksOf(a)) + Cardinality(shifted) - Cardinality(BreaksOf(a) \cap shifted)
    <3> HIDE DEF shifted
    <3> QED BY <1>2, BreaksFinite, FS_Union
  <2>4. Cardinality(BreaksOf(a)) \in Nat
    BY BreaksFinite DEF Breaks
  <2>5. Breaks(b) \in Nat
    BY BreaksFinite
  <2> HIDE DEF shifted
  <2> QED BY <2>2, <2>3, <2>4, <2>5, <1>2 DEF Breaks
<1>5. n \notin BreaksOf(a) \cup shifted
  BY <1>1 DEF BreaksOf
<1>6. Breaks(a) \in Nat /\ Breaks(b) \in Nat
  BY BreaksFinite
<1>7. CASE Broken(a, b)
  BY <1>3, <1>4, <1>5, <1>6, <1>7, FS_AddElement DEF Breaks, One
<1>8. CASE ~ Broken(a, b)
  <2>1. BreaksOf(a \o b) = BreaksOf(a) \cup shifted
    BY <1>3, <1>8
  <2> QED BY <2>1, <1>4, <1>6, <1>8 DEF Breaks, One
<1> QED BY <1>7, <1>8

\* What goes to the reader first takes its breaks with it.
LEMMA BreaksSplit ==
  ASSUME NEW a \in Seq(Places), NEW b \in Seq(Places)
  PROVE  Breaks(a) + Breaks(b) <= Breaks(a \o b) /\ Breaks(a \o b) <= Breaks(a) + Breaks(b) + 1
  BY BreaksConcat, BreaksFinite DEF One

\* What is lost in one place leaves at most one break behind.
LEMMA BreaksCut ==
  ASSUME NEW a \in Seq(Places), NEW b \in Seq(Places), NEW c \in Seq(Places)
  PROVE  Breaks(a \o c) <= Breaks(a \o (b \o c)) + 1
<1>1. b \o c \in Seq(Places)
  BY ConcatProperties
<1>2. /\ Breaks(a \o c) <= Breaks(a) + Breaks(c) + 1
      /\ Breaks(b) + Breaks(c) <= Breaks(b \o c)
      /\ Breaks(a) + Breaks(b \o c) <= Breaks(a \o (b \o c))
  BY <1>1, BreaksSplit
<1>3. Breaks(a) \in Nat /\ Breaks(b) \in Nat /\ Breaks(c) \in Nat /\ Breaks(b \o c) \in Nat
      /\ Breaks(a \o c) \in Nat /\ Breaks(a \o (b \o c)) \in Nat
  BY <1>1, BreaksFinite, ConcatProperties
<1> QED BY <1>2, <1>3, SMTT(40)

\* One byte more at the front.
LEMMA BreaksFront ==
  ASSUME NEW b \in Places, NEW c \in Places, NEW s \in Seq(Places)
  PROVE  /\ Breaks(<<b>>) = 0 /\ <<b>> \in Seq(Places)
         /\ Breaks(<<b>> \o (<<c>> \o s)) = Breaks(<<c>> \o s) + One(~ Follows(b, c))
<1>1. <<b>> \in Seq(Places) /\ Len(<<b>>) = 1 /\ <<b>>[1] = b /\ <<c>> \in Seq(Places)
      /\ <<b>> # <<>>
  OBVIOUS
<1>2. Breaks(<<b>>) = 0
  <2>1. \A i \in 1 .. Len(<<b>>) : ~ (i < Len(<<b>>))
    BY <1>1
  <2> HIDE DEF Places
  <2> QED BY <1>1, <2>1, NoBreaks
<1>3. <<c>> \o s \in Seq(Places) /\ <<c>> \o s # <<>> /\ (<<c>> \o s)[1] = c
  <2>1. Len(<<c>>) = 1 /\ <<c>>[1] = c /\ Len(s) \in Nat
    BY LenProperties
  <2>2. /\ <<c>> \o s \in Seq(Places) /\ Len(<<c>> \o s) = 1 + Len(s)
        /\ (<<c>> \o s)[1] = <<c>>[1]
    BY <1>1, <2>1, ConcatProperties
  <2> QED BY <2>1, <2>2, EmptySeq
<1>4. Breaks(<<b>> \o (<<c>> \o s)) = Breaks(<<b>>) + Breaks(<<c>> \o s) + One(Broken(<<b>>, <<c>> \o s))
  BY <1>1, <1>3, BreaksConcat
<1>5. Broken(<<b>>, <<c>> \o s) = ~ Follows(b, c)
  BY <1>1, <1>3 DEF Broken
<1>6. Breaks(<<c>> \o s) \in Nat
  BY <1>3, BreaksFinite
<1> QED BY <1>1, <1>2, <1>4, <1>5, <1>6

-----------------------------------------------------------------------------
(* The frame.                                                              *)

FrameBytes == [frame : Frames, place : 1 .. FrameLen]

LEMMA FrameTypes ==
  /\ Len(Readings) \in Nat /\ Frames = 1 .. Len(Readings) /\ FrameBytes \subseteq Places
  /\ \A f \in Frames : /\ Readings[f].temp \in Nat /\ Readings[f].temp <= 5000
                      /\ Readings[f].humid \in Nat /\ Readings[f].humid <= 10000
<1> DEFINE Numbers == [temp : Nat, humid : Nat]
<1>1. Readings \in Seq(Numbers)
  BY SerialAssumption
<1>2. Readings \in [1 .. Len(Readings) -> Numbers] /\ Len(Readings) \in Nat
  <2> HIDE DEF Numbers
  <2> QED BY <1>1, LenProperties
<1>3. Frames = 1 .. Len(Readings)
  BY <1>2 DEF Frames
<1>4. FrameBytes \subseteq Places
  BY <1>2, <1>3 DEF FrameBytes, Places
<1>5. ASSUME NEW f \in Frames PROVE Readings[f].temp \in Nat /\ Readings[f].humid \in Nat
  <2>1. Readings[f] \in Numbers
    <3> HIDE DEF Numbers
    <3> QED BY <1>2, <1>3
  <2> QED BY <2>1
<1> QED BY <1>2, <1>3, <1>4, <1>5, SerialAssumption

LEMMA JoinOf ==
  ASSUME NEW s \in Seq(Nat), NEW t \in Seq(Nat)
  PROVE  /\ s \o t \in Seq(Nat) /\ Len(s \o t) = Len(s) + Len(t)
         /\ \A p \in 1 .. Len(s) : (s \o t)[p] = s[p]
         /\ \A p \in Len(s) + 1 .. Len(s) + Len(t) : (s \o t)[p] = t[p - Len(s)]
<1>1. Len(s) \in Nat /\ Len(t) \in Nat
  BY LenProperties
<1>2. /\ s \o t \in Seq(Nat) /\ Len(s \o t) = Len(s) + Len(t)
      /\ \A i \in 1 .. Len(s) + Len(t) : (s \o t)[i] = IF i <= Len(s) THEN s[i] ELSE t[i - Len(s)]
  BY ConcatProperties
<1> QED BY <1>1, <1>2

LEMMA BytesOf == ASSUME NEW n \in Nat PROVE Hi(n) \in Nat /\ Lo(n) \in Nat
  BY DEF Hi, Lo

LEMMA HighOfCount == ASSUME NEW n \in Nat, n < 16384 PROVE Hi(n) <= 63
  BY DEF Hi

LEMMA HighOfReading == ASSUME NEW n \in Nat, n <= 10000 PROVE Hi(n) <= 39
  BY DEF Hi

\* What createPacketAndSend writes at each place that matters.
LEMMA ContentIs ==
  ASSUME NEW f \in Frames
  PROVE  /\ Content(f) \in Seq(Nat) /\ Len(Content(f)) = 18
         /\ Content(f)[1] = 170 /\ Content(f)[2] = 85 /\ Content(f)[3] = 14 /\ Content(f)[4] = 0
         /\ Content(f)[5] = 8 /\ Content(f)[6] = 150
         /\ Content(f)[7] \in Nat /\ Content(f)[7] >= 192
         /\ Content(f)[9] = 0 /\ Content(f)[10] = 7
         /\ \A p \in 11 .. 14 : Content(f)[p] = 0
         /\ Content(f)[15] \in Nat /\ Content(f)[15] <= 39
         /\ Content(f)[17] \in Nat /\ Content(f)[17] <= 39
<1> DEFINE c == (FirstCount + f - 1) % 16384
           head == <<8, 150, 192 + Hi(c), Lo(c), 0, 7>>
           body == <<0, 0, 0, 0, Hi(Readings[f].temp), Lo(Readings[f].temp),
                     Hi(Readings[f].humid), Lo(Readings[f].humid)>>
<1>1. Hi(c) \in Nat /\ Hi(c) <= 63 /\ Lo(c) \in Nat
  <2>1. FirstCount \in Nat /\ f \in 1 .. Len(Readings) /\ Len(Readings) \in Nat
    BY SerialAssumption, FrameTypes
  <2>2. c \in Nat /\ c < 16384
    BY <2>1
  <2> HIDE DEF c
  <2> QED BY <2>2, HighOfCount, BytesOf
<1>2. /\ Hi(Readings[f].temp) \in Nat /\ Hi(Readings[f].temp) <= 39
      /\ Hi(Readings[f].humid) \in Nat /\ Hi(Readings[f].humid) <= 39
      /\ Lo(Readings[f].temp) \in Nat /\ Lo(Readings[f].humid) \in Nat
  <2>1. /\ Readings[f].temp \in Nat /\ Readings[f].temp <= 10000
        /\ Readings[f].humid \in Nat /\ Readings[f].humid <= 10000
    BY FrameTypes
  <2> QED BY <2>1, HighOfReading, BytesOf
<1> HIDE DEF c
<1>3. /\ SYNC \in Seq(Nat) /\ <<14, 0>> \in Seq(Nat) /\ head \in Seq(Nat) /\ body \in Seq(Nat)
      /\ Len(SYNC) = 2 /\ Len(<<14, 0>>) = 2 /\ Len(head) = 6 /\ Len(body) = 8
  BY <1>1, <1>2 DEF SYNC
<1> DEFINE marked == SYNC \o <<14, 0>>
           headed == marked \o head
<1>4. /\ marked \in Seq(Nat) /\ Len(marked) = 4
      /\ marked[1] = 170 /\ marked[2] = 85 /\ marked[3] = 14 /\ marked[4] = 0
  BY <1>3, ConcatProperties DEF SYNC
<1> HIDE DEF marked
<1>5. /\ headed \in Seq(Nat) /\ Len(headed) = 10
      /\ \A p \in 1 .. 4 : headed[p] = marked[p]
      /\ \A p \in 5 .. 10 : headed[p] = head[p - 4]
  <2> HIDE DEF head, body
  <2>1. /\ headed \in Seq(Nat) /\ Len(headed) = Len(marked) + Len(head)
        /\ \A p \in 1 .. Len(marked) : headed[p] = marked[p]
        /\ \A p \in Len(marked) + 1 .. Len(marked) + Len(head) : headed[p] = head[p - Len(marked)]
    <3>1. marked \in Seq(Nat) /\ head \in Seq(Nat)
      BY <1>3, <1>4
    <3> QED BY <3>1, JoinOf
  <2> HIDE DEF headed
  <2>2. Len(marked) = 4 /\ Len(head) = 6
    BY <1>3, <1>4
  <2> QED BY <2>1, <2>2
<1> HIDE DEF headed
<1>6. /\ \A p \in 1 .. 10 : (headed \o body)[p] = headed[p]
      /\ \A p \in 11 .. 18 : (headed \o body)[p] = body[p - 10]
  <2> HIDE DEF head, body
  <2>1. /\ \A p \in 1 .. Len(headed) : (headed \o body)[p] = headed[p]
        /\ \A p \in Len(headed) + 1 .. Len(headed) + Len(body) :
             (headed \o body)[p] = body[p - Len(headed)]
    <3>1. headed \in Seq(Nat) /\ body \in Seq(Nat)
      BY <1>3, <1>5
    <3> QED BY <3>1, JoinOf
  <2>2. Len(headed) = 10 /\ Len(body) = 8
    BY <1>3, <1>5
  <2> DEFINE whole == headed \o body
  <2>3. /\ \A p \in 1 .. Len(headed) : whole[p] = headed[p]
        /\ \A p \in Len(headed) + 1 .. Len(headed) + Len(body) : whole[p] = body[p - Len(headed)]
    BY <2>1
  <2> HIDE DEF whole
  <2>4. /\ \A p \in 1 .. 10 : whole[p] = headed[p]
        /\ \A p \in 11 .. 18 : whole[p] = body[p - 10]
    BY <2>2, <2>3
  <2> QED BY <2>4 DEF whole
<1>7. Content(f) = headed \o body
  BY DEF Content, headed, marked, c
<1>8. \A p \in 1 .. 10 : Content(f)[p] = headed[p]
  BY <1>6, <1>7
<1>9. \A p \in 11 .. 18 : Content(f)[p] = body[p - 10]
  BY <1>6, <1>7
<1>10. /\ head[1] = 8 /\ head[2] = 150 /\ head[3] = 192 + Hi(c) /\ head[5] = 0 /\ head[6] = 7
       /\ body[1] = 0 /\ body[2] = 0 /\ body[3] = 0 /\ body[4] = 0
       /\ body[5] = Hi(Readings[f].temp) /\ body[7] = Hi(Readings[f].humid)
  OBVIOUS
<1> HIDE DEF head
<1> HIDE DEF body
<1> DEFINE C == Content(f)
<1>11. /\ C[1] = 170 /\ C[2] = 85 /\ C[3] = 14 /\ C[4] = 0
  BY <1>4, <1>5, <1>8
<1>12. /\ C[5] = 8 /\ C[6] = 150 /\ C[7] = 192 + Hi(c) /\ C[9] = 0 /\ C[10] = 7
  <2>1. /\ headed[5] = head[1] /\ headed[6] = head[2] /\ headed[7] = head[3]
        /\ headed[9] = head[5] /\ headed[10] = head[6]
    BY <1>5
  <2>2. /\ C[5] = headed[5] /\ C[6] = headed[6] /\ C[7] = headed[7] /\ C[9] = headed[9]
        /\ C[10] = headed[10]
    BY <1>8
  <2> QED BY <2>1, <2>2, <1>10
<1>13. /\ \A p \in 11 .. 14 : C[p] = 0
       /\ C[15] = Hi(Readings[f].temp) /\ C[17] = Hi(Readings[f].humid)
  BY <1>10, <1>9
<1> HIDE DEF C
<1>14. /\ C[7] \in Nat /\ C[7] >= 192
       /\ C[15] \in Nat /\ C[15] <= 39 /\ C[17] \in Nat /\ C[17] <= 39
  BY <1>12, <1>13, <1>1, <1>2
<1>15. C \in Seq(Nat) /\ Len(C) = 18
  <2>1. headed \in Seq(Nat) /\ body \in Seq(Nat) /\ Len(headed) = 10 /\ Len(body) = 8
    BY <1>3, <1>5
  <2>2. headed \o body \in Seq(Nat) /\ Len(headed \o body) = Len(headed) + Len(body)
    BY <2>1, JoinOf
  <2> QED BY <2>1, <2>2, <1>7 DEF C
<1> QED BY <1>11, <1>12, <1>13, <1>14, <1>15 DEF C

LEMMA MarkerWithin ==
  ASSUME NEW f \in Frames, NEW p \in 1 .. 17, Content(f)[p] = 170, Content(f)[p + 1] = 85
  PROVE  p = 1
<1> DEFINE C == Content(f)
<1>1. /\ C[3] = 14 /\ C[4] = 0 /\ C[5] = 8 /\ C[6] = 150 /\ C[9] = 0 /\ C[10] = 7
      /\ \A q \in 11 .. 14 : C[q] = 0
  BY ContentIs
<1>2. C[7] \in Nat /\ C[7] >= 192 /\ C[15] \in Nat /\ C[15] <= 39 /\ C[17] \in Nat /\ C[17] <= 39
  BY ContentIs
<1>3. C[11] = 0 /\ C[12] = 0 /\ C[13] = 0 /\ C[14] = 0
  BY <1>1
<1> HIDE DEF C
<1>4. C[p] = 170 /\ C[p + 1] = 85
  BY DEF C
<1> QED BY <1>1, <1>2, <1>3, <1>4

\* No frame holds a marker but at its head, and none ends in half of one that
\* the next could complete: two bytes in a row that make a marker are one.
LEMMA MarkerIsHead ==
  ASSUME NEW b \in FrameBytes, NEW c \in FrameBytes, Follows(b, c),
         Value(b) = 170, Value(c) = 85
  PROVE  c.place = 2
<1>1. /\ b.frame \in Frames /\ c.frame \in Frames /\ b.place \in 1 .. 18 /\ c.place \in 1 .. 18
      /\ Value(b) = Content(b.frame)[b.place] /\ Value(c) = Content(c.frame)[c.place]
  BY DEF FrameBytes, Value, FrameLen
<1>2. CASE b.place = 18
  <2>1. c.place = 1
    BY <1>2 DEF Follows, FrameLen
  <2>2. Content(c.frame)[1] = 170
    BY <1>1, ContentIs, ZenonT(60)
  <2> QED BY <1>1, <2>1, <2>2
<1>3. CASE b.place < 18
  <2>1. c.frame = b.frame /\ c.place = b.place + 1
    BY <1>3 DEF Follows, FrameLen
  <2>2. Content(b.frame)[b.place] = 170 /\ Content(b.frame)[b.place + 1] = 85
    BY <2>1, <1>1
  <2>3. b.frame \in Frames /\ b.place \in 1 .. 17
    BY <1>1, <1>3
  <2>4. b.place = 1
    BY <2>2, <2>3, MarkerWithin
  <2> QED BY <2>1, <2>4
<1> QED BY <1>1, <1>2, <1>3

-----------------------------------------------------------------------------
(* Types, and what goes with the state of the port.                        *)

TypeInv ==
  /\ sent \in 0 .. Len(Readings)
  /\ line \in Seq(FrameBytes) /\ tty \in Seq(FrameBytes)
  /\ published \in Seq(Seq(FrameBytes))
  /\ gaps \in Nat /\ cuts \in Nat
  /\ fd \in {"open", "hungup", "closed"} /\ pc \in {"scan", "length", "body"}
  /\ pktLen \in Int

\* An open port is plugged in; without one nothing is in the driver, which
\* never holds more than it can.  Between
\* the marker and the end of a frame the window still holds the marker, and
\* the length was accepted.
PortInv ==
  /\ fd = "open" => plugged
  /\ fd # "open" => tty = <<>>
  /\ ~ plugged => line = <<>>
  /\ fd = "closed" => pc = "scan"
  /\ pc # "scan" => window = SYNC
  /\ pc = "body" => pktLen >= MinLen
  /\ Len(tty) <= TtyDepth

Inv == TypeInv /\ PortInv

LEMMA BytesType ==
  ASSUME NEW f \in Frames
  PROVE  /\ Bytes(f) \in Seq(FrameBytes) /\ Len(Bytes(f)) = FrameLen
         /\ \A p \in 1 .. FrameLen : Bytes(f)[p] = [frame |-> f, place |-> p]
  BY DEF Bytes, FrameBytes, FrameLen

LEMMA PartType ==
  ASSUME NEW s \in Seq(FrameBytes), NEW i \in Nat, NEW j \in Nat, i >= 1, j <= Len(s)
  PROVE  SubSeq(s, i, j) \in Seq(FrameBytes)
<1>1. \A k \in i .. j : s[k] \in FrameBytes
  BY LenProperties
<1> QED BY <1>1, SubSeqProperties

LEMMA PlacesPart ==
  ASSUME NEW s \in Seq(Places), NEW i \in Nat, NEW j \in Nat, i >= 1, j <= Len(s)
  PROVE  SubSeq(s, i, j) \in Seq(Places)
<1>1. \A k \in i .. j : s[k] \in Places
  BY LenProperties
<1> QED BY <1>1, SubSeqProperties

LEMMA Assoc ==
  ASSUME NEW a \in Seq(Places), NEW b \in Seq(Places), NEW c \in Seq(Places)
  PROVE  (a \o b) \o c = a \o (b \o c)
  BY ConcatAssociative

LEMMA Joined ==
  ASSUME NEW a \in Seq(Places), NEW b \in Seq(Places)
  PROVE  a \o b \in Seq(Places)
  BY ConcatProperties

LEMMA SplitAt ==
  ASSUME NEW s \in Seq(Places), NEW m \in Nat, NEW k \in Nat, NEW n \in Nat,
         1 <= m, m <= k + 1, k <= n, n <= Len(s)
  PROVE  SubSeq(s, m, k) \o SubSeq(s, k + 1, n) = SubSeq(s, m, n)
<1>1. m \in 1 .. Len(s) + 1 /\ k \in m - 1 .. Len(s) /\ n \in k .. Len(s)
  BY LenProperties
<1> QED BY <1>1, ConcatAdjacentSubSeq

LEMMA HeadAndTail ==
  ASSUME NEW S, NEW s \in Seq(S), s # <<>>
  PROVE  /\ s = <<Head(s)>> \o Tail(s) /\ <<Head(s)>> \in Seq(S) /\ Tail(s) \in Seq(S)
         /\ Head(s) \in S
<1>1. 1 \in 1 .. Len(s) /\ Len(s) \in 1 .. Len(s)
  BY EmptySeq
<1>2. SubSeq(s, 1, Len(s)) = <<s[1]>> \o SubSeq(s, 1 + 1, Len(s))
  BY <1>1, SubSeqRecursiveFirst
<1>3. SubSeq(s, 1, Len(s)) = s /\ Tail(s) = SubSeq(s, 2, Len(s)) /\ Head(s) = s[1]
  BY SubSeqFull, TailIsSubSeq
<1>4. Head(s) \in S /\ Tail(s) \in Seq(S)
  BY HeadTailProperties
<1> QED BY <1>2, <1>3, <1>4

\* A read takes bytes from the front.
LEMMA ReadSplits ==
  ASSUME tty \in Seq(FrameBytes), NEW n \in Nat, Taken(n)
  PROVE  /\ Got(n) \in Seq(FrameBytes) /\ tty' \in Seq(FrameBytes)
         /\ tty = Got(n) \o tty'
         /\ Len(Got(n)) = IF Len(tty) < n THEN Len(tty) ELSE n
         /\ Len(tty') <= Len(tty) /\ Len(tty) \in Nat /\ Len(tty') \in Nat
<1> DEFINE k == IF Len(tty) < n THEN Len(tty) ELSE n
<1>1. Len(tty) \in Nat /\ k \in Nat /\ k <= Len(tty)
  BY LenProperties
<1>2. Got(n) = SubSeq(tty, 1, k)
  BY DEF Got
<1> HIDE DEF k
<1>3. Got(n) \in Seq(FrameBytes)
  BY <1>1, <1>2, PartType
<1>4. Len(Got(n)) = k
  <2>1. \A i \in 1 .. k : tty[i] \in FrameBytes
    BY <1>1, LenProperties
  <2>2. Len(SubSeq(tty, 1, k)) = IF 1 <= k THEN k - 1 + 1 ELSE 0
    BY <2>1, <1>1, SubSeqProperties
  <2> QED BY <1>1, <1>2, <2>2
<1>5. tty' = SubSeq(tty, k + 1, Len(tty))
  BY <1>4 DEF Taken
<1>6. tty' \in Seq(FrameBytes)
  BY <1>1, <1>5, PartType
<1>7. SubSeq(tty, 1, k) \o SubSeq(tty, k + 1, Len(tty)) = SubSeq(tty, 1, Len(tty))
  <2>1. 1 \in 1 .. Len(tty) + 1 /\ k \in 1 - 1 .. Len(tty) /\ Len(tty) \in k .. Len(tty)
    BY <1>1
  <2> QED BY <2>1, ConcatAdjacentSubSeq
<1>8. SubSeq(tty, 1, Len(tty)) = tty
  BY SubSeqFull
<1>9. tty = Got(n) \o tty'
  BY <1>2, <1>5, <1>7, <1>8
<1>10. Len(tty) = Len(Got(n)) + Len(tty') /\ Len(tty') \in Nat
  BY <1>3, <1>6, <1>9, ConcatProperties, LenProperties
<1> QED BY <1>1, <1>3, <1>4, <1>6, <1>9, <1>10 DEF k

\* What a transfer hands over: kept bytes to the driver, of k.
LEMMA DeliverIs ==
  ASSUME Inv, Deliver
  PROVE  \E k \in 1 .. Len(line) : \E kept \in Nat :
           /\ kept <= k /\ (fd # "open" => kept = 0) /\ Len(tty) + kept <= TtyDepth
           /\ tty' = tty \o SubSeq(line, 1, kept)
           /\ line' = SubSeq(line, k + 1, Len(line))
           /\ gaps' = IF fd = "open" /\ kept < k THEN gaps + 1 ELSE gaps
<1> DEFINE room == IF fd = "open" THEN TtyDepth - Len(tty) ELSE 0
           kept(k) == IF k <= room THEN k ELSE room
<1>1. PICK k \in 1 .. Len(line) :
        /\ tty' = tty \o SubSeq(line, 1, kept(k))
        /\ line' = SubSeq(line, k + 1, Len(line))
        /\ gaps' = IF fd = "open" /\ kept(k) < k THEN gaps + 1 ELSE gaps
  BY Zenon DEF Deliver
<1>2. Len(tty) \in Nat /\ Len(line) \in Nat /\ Len(tty) <= TtyDepth /\ TtyDepth \in Nat
  BY LenProperties, SerialAssumption DEF Inv, TypeInv, PortInv
<1>3. /\ kept(k) \in Nat /\ kept(k) <= k /\ (fd # "open" => kept(k) = 0)
      /\ Len(tty) + kept(k) <= TtyDepth
  BY <1>2
<1> HIDE DEF kept
<1> QED BY <1>1, <1>3

LEMMA ValueType == ASSUME NEW b \in FrameBytes PROVE Value(b) \in Nat
<1>1. b.frame \in Frames /\ b.place \in 1 .. 18
  BY DEF FrameBytes, FrameLen
<1>2. Content(b.frame) \in Seq(Nat) /\ Len(Content(b.frame)) = 18
  BY <1>1, ContentIs, ZenonT(60)
<1> QED BY <1>1, <1>2, LenProperties DEF Value

LEMMA InitInv == Init => Inv
<1> SUFFICES ASSUME Init PROVE Inv
  OBVIOUS
<1>1. /\ <<>> \in Seq(FrameBytes) /\ <<>> \in Seq(Seq(FrameBytes)) /\ Len(<<>>) = 0
      /\ Len(Readings) \in Nat /\ TtyDepth \in Nat
  BY EmptySeq, FrameTypes, SerialAssumption
<1>2. TypeInv
  BY <1>1 DEF Init, TypeInv
<1>3. PortInv
  BY <1>1 DEF Init, PortInv
<1> QED BY <1>2, <1>3 DEF Inv

LEMMA LineKeeps == ASSUME Inv, Line PROVE Inv'
<1> USE DEF Inv, TypeInv, PortInv
<1>1. CASE Send
  <2>1. sent + 1 \in Frames /\ sent' = sent + 1 /\ sent' \in 0 .. Len(Readings)
    BY <1>1, FrameTypes DEF Send
  <2>2. line' = IF plugged THEN Bytes(sent + 1) ELSE <<>>
    BY <1>1 DEF Send
  <2>3. line' \in Seq(FrameBytes)
    BY <2>1, <2>2, BytesType, EmptySeq
  <2>4. UNCHANGED <<tty, plugged, published, gaps, cuts, fd, pc, pktLen, window>>
    BY <1>1 DEF Send, bridgeVars
  <2> QED BY <2>1, <2>2, <2>3, <2>4
<1>2. CASE Deliver
  <2>1. PICK k \in 1 .. Len(line) : \E kept \in Nat :
          /\ kept <= k /\ (fd # "open" => kept = 0) /\ Len(tty) + kept <= TtyDepth
          /\ tty' = tty \o SubSeq(line, 1, kept)
          /\ line' = SubSeq(line, k + 1, Len(line))
          /\ gaps' = IF fd = "open" /\ kept < k THEN gaps + 1 ELSE gaps
    BY <1>2, DeliverIs
  <2>2. PICK kept \in Nat : /\ kept <= k /\ (fd # "open" => kept = 0)
                            /\ Len(tty) + kept <= TtyDepth
                            /\ tty' = tty \o SubSeq(line, 1, kept)
                            /\ line' = SubSeq(line, k + 1, Len(line))
                            /\ gaps' = IF fd = "open" /\ kept < k THEN gaps + 1 ELSE gaps
    BY <2>1
  <2>3. Len(line) \in Nat
    BY LenProperties
  <2>4. line' \in Seq(FrameBytes) /\ SubSeq(line, 1, kept) \in Seq(FrameBytes)
    BY <2>2, <2>3, PartType
  <2>5. tty' \in Seq(FrameBytes) /\ Len(tty') <= TtyDepth
    <3>1. \A i \in 1 .. kept : line[i] \in FrameBytes
      BY <2>2, <2>3, LenProperties
    <3>2. Len(SubSeq(line, 1, kept)) = kept
      BY <3>1, <2>2, SubSeqProperties
    <3> QED BY <2>2, <2>4, <3>2, ConcatProperties
  <2>6. fd # "open" => tty' = <<>>
    BY <2>2, SubSeqEmpty
  <2>7. line # <<>>
    BY <1>2 DEF Deliver
  <2>8. UNCHANGED <<sent, plugged, published, cuts, fd, pc, pktLen, window>>
    BY <1>2 DEF Deliver, bridgeVars
  <2> QED BY <2>2, <2>4, <2>5, <2>6, <2>7, <2>8
<1>3. CASE Lose
  <2>1. line # <<>> /\ line' = Tail(line) /\ gaps' = gaps + 1
    BY <1>3 DEF Lose
  <2>2. line' \in Seq(FrameBytes)
    BY <2>1, HeadTailProperties
  <2>3. UNCHANGED <<sent, tty, plugged, published, cuts, fd, pc, pktLen, window>>
    BY <1>3 DEF Lose, bridgeVars
  <2> QED BY <2>1, <2>2, <2>3
<1>4. CASE Unplug
  <2>1. /\ line' = <<>> /\ tty' = <<>> /\ <<>> \in Seq(FrameBytes)
        /\ Len(tty') = 0 /\ TtyDepth \in Nat
    BY <1>4, EmptySeq, SerialAssumption DEF Unplug
  <2>2. /\ cuts' = cuts + 1 /\ plugged' = FALSE /\ fd' = IF fd = "open" THEN "hungup" ELSE fd
        /\ UNCHANGED <<sent, window, pc, pktLen, published, gaps>>
    BY <1>4 DEF Unplug
  <2>3. fd' \in {"open", "hungup", "closed"} /\ fd' # "open" /\ (fd' = "closed" => fd = "closed")
    BY <2>2
  <2>4. TypeInv'
    <3>1. sent' = sent /\ published' = published /\ gaps' = gaps /\ pc' = pc /\ pktLen' = pktLen
      BY <2>2
    <3>2. cuts' = cuts + 1 /\ cuts' \in Nat
      BY <2>2
    <3> QED BY <2>1, <2>3, <3>1, <3>2
  <2>5. PortInv'
    BY <2>1, <2>2, <2>3
  <2> QED BY <2>4, <2>5
<1>5. CASE Plug
  BY <1>5 DEF Plug, bridgeVars
<1> QED BY <1>1, <1>2, <1>3, <1>4, <1>5 DEF Line

LEMMA BridgeKeeps == ASSUME Inv, Bridge PROVE Inv'
<1> USE DEF Inv, TypeInv, PortInv
<1>1. CASE Open
  <2>1. /\ tty' = <<>> /\ <<>> \in Seq(FrameBytes)
        /\ Len(tty') = 0 /\ TtyDepth \in Nat
    BY <1>1, EmptySeq, SerialAssumption DEF Open, Opened
  <2>2. /\ fd' = "open" /\ plugged
        /\ UNCHANGED <<sent, line, plugged, gaps, cuts, window, pc, pktLen, published>>
    BY <1>1 DEF Open, Opened, LineAlone
  <2> QED BY <2>1, <2>2
<1>2. CASE Restart
  <2>1. /\ <<>> \in Seq(FrameBytes) /\ 0 \in Int /\ TtyDepth \in Nat
        /\ Len(<<>>) = 0
    BY EmptySeq, SerialAssumption
  <2>2. /\ cuts' = cuts + 1 /\ window' = <<0, 0>> /\ pc' = "scan" /\ pktLen' = 0
        /\ UNCHANGED <<sent, line, plugged, gaps, published>>
    BY <1>2 DEF Restart
  <2>3. CASE plugged
    <3>1. fd' = "open" /\ tty' = <<>>
      BY <1>2, <2>3 DEF Restart, Opened
    <3> QED BY <2>1, <2>2, <2>3, <3>1
  <2>4. CASE ~ plugged
    <3>1. fd' = "closed" /\ UNCHANGED tty
      BY <1>2, <2>4 DEF Restart
    <3> QED BY <2>1, <2>2, <2>4, <3>1
  <2> QED BY <2>3, <2>4
<1>3. CASE DeviceLost
  BY <1>3 DEF DeviceLost, LineAlone
<1>4. CASE Scan
  <2>1. tty # <<>> /\ tty' = Tail(tty) /\ pc' = IF window' = SYNC THEN "length" ELSE "scan"
    BY <1>4 DEF Scan
  <2>2. tty' \in Seq(FrameBytes) /\ Len(tty') = Len(tty) - 1 /\ Len(tty) \in Nat
        /\ TtyDepth \in Nat
    BY <2>1, HeadTailProperties, LenProperties, SerialAssumption
  <2>3. UNCHANGED <<sent, line, plugged, published, gaps, cuts, fd, pktLen>> /\ fd = "open"
    BY <1>4 DEF Scan, LineAlone
  <2> QED BY <2>1, <2>2, <2>3
<1>5. CASE ReadLength
  <2>1. Taken(2) /\ Ready /\ pc = "length" /\ UNCHANGED <<sent, line, plugged, gaps, cuts, fd>>
    BY <1>5 DEF ReadLength, LineAlone
  <2>2. /\ Got(2) \in Seq(FrameBytes) /\ tty' \in Seq(FrameBytes) /\ tty = Got(2) \o tty'
        /\ Len(Got(2)) = IF Len(tty) < 2 THEN Len(tty) ELSE 2
    BY <2>1, ReadSplits
  <2>6. Len(tty') <= TtyDepth
    <3>1. Len(tty') <= Len(tty) /\ Len(tty) \in Nat /\ Len(tty') \in Nat
      BY <2>1, ReadSplits
    <3>2. TtyDepth \in Nat
      BY SerialAssumption
    <3> QED BY <3>1, <3>2
  <2>3. fd # "open" => tty' = <<>>
    BY <2>2, ConcatSimplifications, EmptySeq
  <2>4. CASE Len(Got(2)) < 2
    <3>1. pc' = "scan" /\ UNCHANGED <<window, pktLen, published>>
      BY <1>5, <2>4 DEF ReadLength, Short
    <3> QED BY <2>1, <2>2, <2>3, <2>6, <3>1
  <2>5. CASE ~ (Len(Got(2)) < 2)
    <3> DEFINE n == Value(Got(2)[1]) + 256 * Value(Got(2)[2])
    <3>1. Got(2)[1] \in FrameBytes /\ Got(2)[2] \in FrameBytes
      <4>1. 1 \in 1 .. Len(Got(2)) /\ 2 \in 1 .. Len(Got(2))
        BY <2>2, <2>5, LenProperties
      <4> QED BY <2>2, <4>1, ElementOfSeq
    <3>2. n \in Int
      BY <3>1, ValueType, SMTT(40)
    <3>3. /\ pktLen' = n /\ UNCHANGED published
          /\ \/ n >= MinLen /\ pc' = "body" /\ UNCHANGED window
             \/ pc' = "scan"
      BY <1>5, <2>5, Zenon DEF ReadLength, ValidLength
    <3> HIDE DEF n
    <3> QED BY <2>1, <2>2, <2>3, <2>6, <3>2, <3>3
  <2> QED BY <2>4, <2>5
<1>6. CASE ReadBody
  <2>1. Taken(pktLen) /\ Ready /\ pc = "body" /\ UNCHANGED <<sent, line, plugged, gaps, cuts, fd>>
    BY <1>6 DEF ReadBody, LineAlone
  <2>2. pktLen \in Nat
    BY <2>1 DEF MinLen
  <2>3. /\ Got(pktLen) \in Seq(FrameBytes) /\ tty' \in Seq(FrameBytes) /\ tty = Got(pktLen) \o tty'
    BY <2>1, <2>2, ReadSplits
  <2>7. Len(tty') <= TtyDepth
    <3>1. Len(tty') <= Len(tty) /\ Len(tty) \in Nat /\ Len(tty') \in Nat
      BY <2>1, <2>2, ReadSplits
    <3>2. TtyDepth \in Nat
      BY SerialAssumption
    <3> QED BY <3>1, <3>2
  <2>4. fd # "open" => tty' = <<>>
    BY <2>3, ConcatSimplifications, EmptySeq
  <2>5. /\ pc' = "scan" /\ UNCHANGED <<window, pktLen>>
        /\ published' \in {published, Append(published, Got(pktLen))}
    BY <1>6, Zenon DEF ReadBody, Short
  <2>6. published' \in Seq(Seq(FrameBytes))
    <3> DEFINE S == Seq(FrameBytes)
    <3>1. published \in Seq(S) /\ Got(pktLen) \in S
      BY <2>3
    <3> HIDE DEF S
    <3>2. Append(published, Got(pktLen)) \in Seq(S)
      BY <3>1, AppendProperties
    <3>3. published' \in Seq(S)
      BY <3>1, <3>2, <2>5
    <3> QED BY <3>3 DEF S
  <2> QED BY <2>1, <2>3, <2>4, <2>5, <2>6, <2>7
<1> QED BY <1>1, <1>2, <1>3, <1>4, <1>5, <1>6 DEF Bridge

-----------------------------------------------------------------------------
(* The bytes that the reader has still to come to, up to the first of the  *)
(* next frame: where they do not follow each other, something was lost.    *)

NextByte == [frame |-> sent + 1, place |-> 1]
Coming == line \o <<NextByte>>
Ahead == tty \o Coming

LEMMA OneMore == ASSUME NEW n \in Nat PROVE n + 1 \in Nat
  OBVIOUS

LEMMA AheadType ==
  ASSUME Inv
  PROVE  /\ NextByte \in Places /\ <<NextByte>> \in Seq(Places)
         /\ tty \in Seq(Places) /\ line \in Seq(Places)
         /\ Coming \in Seq(Places) /\ Ahead \in Seq(Places)
<1>1. tty \in Seq(Places) /\ line \in Seq(Places)
  BY FrameTypes, SeqMonotonic DEF Inv, TypeInv
<1>2. sent \in Nat
  BY FrameTypes DEF Inv, TypeInv
<1>3. NextByte \in Places
  BY <1>2 DEF NextByte, Places, FrameLen
<1>4. <<NextByte>> \in Seq(Places)
  BY <1>3
<1>5. Coming \in Seq(Places)
  BY <1>1, <1>4, ConcatProperties DEF Coming
<1>6. Ahead \in Seq(Places)
  BY <1>1, <1>5, ConcatProperties DEF Ahead
<1> QED BY <1>1, <1>3, <1>4, <1>5, <1>6

LEMMA AheadTypeNext ==
  ASSUME Inv'
  PROVE  /\ NextByte' \in Places /\ <<NextByte'>> \in Seq(Places)
         /\ tty' \in Seq(Places) /\ line' \in Seq(Places)
         /\ Coming' \in Seq(Places) /\ Ahead' \in Seq(Places)
<1>1. tty' \in Seq(Places) /\ line' \in Seq(Places)
  BY FrameTypes, SeqMonotonic DEF Inv, TypeInv
<1>2. sent' \in Nat
  BY FrameTypes DEF Inv, TypeInv
<1>3. NextByte' \in Places
  <2>1. sent' + 1 \in Nat
    BY <1>2, OneMore
  <2>2. 1 \in 1 .. FrameLen
    BY DEF FrameLen
  <2>3. NextByte' = [frame |-> sent' + 1, place |-> 1]
    BY DEF NextByte
  <2> QED BY <2>1, <2>2, <2>3 DEF Places
<1>4. <<NextByte'>> \in Seq(Places)
  BY <1>3
<1>5. Coming' \in Seq(Places)
  BY <1>1, <1>4, ConcatProperties DEF Coming
<1>6. Ahead' \in Seq(Places)
  BY <1>1, <1>5, ConcatProperties DEF Ahead
<1> QED BY <1>1, <1>3, <1>4, <1>5, <1>6

\* A frame carries on where the line ended, and ends where the next begins.
LEMMA FrameIsWhole ==
  ASSUME NEW f \in Frames
  PROVE  LET s == Bytes(f) \o <<[frame |-> f + 1, place |-> 1]>> IN
         /\ s \in Seq(Places) /\ s # <<>> /\ s[1] = [frame |-> f, place |-> 1]
         /\ Breaks(s) = 0
<1> DEFINE n == [frame |-> f + 1, place |-> 1]
           s == Bytes(f) \o <<n>>
<1>1. /\ Bytes(f) \in Seq(Places) /\ Len(Bytes(f)) = 18
      /\ \A p \in 1 .. 18 : Bytes(f)[p] = [frame |-> f, place |-> p]
  <2>1. /\ Bytes(f) \in Seq(FrameBytes) /\ Len(Bytes(f)) = FrameLen
        /\ \A p \in 1 .. FrameLen : Bytes(f)[p] = [frame |-> f, place |-> p]
    BY BytesType
  <2>2. FrameBytes \subseteq Places
    BY FrameTypes
  <2>3. Bytes(f) \in Seq(Places)
    BY <2>1, <2>2, SeqMonotonic
  <2> QED BY <2>1, <2>3 DEF FrameLen
<1>2. f \in Nat
  BY FrameTypes
<1>3. n \in Places
  BY <1>2 DEF Places, FrameLen
<1> HIDE DEF n
<1>4. <<n>> \in Seq(Places) /\ Len(<<n>>) = 1 /\ <<n>>[1] = n
  BY <1>3
<1> DEFINE B == Bytes(f)
           e == <<n>>
<1>11. B \in Seq(Places) /\ e \in Seq(Places) /\ Len(B) = 18 /\ Len(e) = 1 /\ e[1] = n
  BY <1>1, <1>4
<1>12. \A p \in 1 .. 18 : B[p] = [frame |-> f, place |-> p]
  BY <1>1
<1> HIDE DEF B, e
<1>13. s = B \o e
  BY DEF B, e
<1>14. /\ B \o e \in Seq(Places) /\ Len(B \o e) = Len(B) + Len(e)
       /\ \A i \in 1 .. Len(B) + Len(e) : (B \o e)[i] = IF i <= Len(B) THEN B[i] ELSE e[i - Len(B)]
  BY <1>11, ConcatProperties
<1> HIDE DEF s
<1>16. s \in Seq(Places) /\ Len(s) = 19
  BY <1>11, <1>13, <1>14
<1>5. /\ s \in Seq(Places) /\ Len(s) = 19
      /\ \A i \in 1 .. Len(s) : s[i] = IF i <= 18 THEN B[i] ELSE e[i - 18]
  <2>1. \A i \in 1 .. Len(B) + Len(e) : s[i] = IF i <= Len(B) THEN B[i] ELSE e[i - Len(B)]
    BY <1>13, <1>14
  <2>2. Len(B) = 18 /\ Len(e) = 1 /\ 18 + 1 = 19
    BY <1>11
  <2> HIDE DEF B, e, s
  <2> QED BY <2>1, <2>2, <1>16
<1>6. \A i \in 1 .. Len(s) : i <= 18 => s[i] = [frame |-> f, place |-> i]
  BY <1>5, <1>12, SMTT(40)
<1>7. s[19] = n
  <2>1. s[19] = e[19 - 18] /\ 19 - 18 = 1
    BY <1>5
  <2> QED BY <2>1, <1>11
<1>8. ASSUME NEW i \in 1 .. Len(s), i < Len(s)
      PROVE  Follows(s[i], s[i + 1])
  <2>1. i \in Nat /\ 1 <= i /\ i <= 18
    BY <1>5, <1>8
  <2>2. CASE i = 18
    <3>1. s[i] = [frame |-> f, place |-> 18] /\ s[i + 1] = n
      BY <2>2, <1>5, <1>6, <1>7
    <3> QED BY <3>1 DEF Follows, FrameLen, n
  <2>3. CASE i < 18
    <3>1. s[i] = [frame |-> f, place |-> i] /\ s[i + 1] = [frame |-> f, place |-> i + 1]
      <4>1. i + 1 \in 1 .. Len(s) /\ i + 1 <= 18 /\ i <= 18
        BY <2>1, <2>3, <1>5
      <4> QED BY <4>1, <1>6
    <3> QED BY <2>1, <3>1, <2>3 DEF Follows, FrameLen
  <2> QED BY <2>1, <2>2, <2>3
<1>9. Breaks(s) = 0
  BY <1>5, <1>8, NoBreaks
<1>10. s # <<>>
  <2> SUFFICES ASSUME s = <<>> PROVE FALSE
    OBVIOUS
  <2>1. Len(s) = 0
    BY EmptySeq
  <2> QED BY <2>1, <1>16
<1>15. s[1] = [frame |-> f, place |-> 1]
  BY <1>5, <1>6
<1> QED BY <1>5, <1>9, <1>10, <1>15 DEF s, n

\* The line spoils the stream in one more place only by a loss.
LEMMA LineStep ==
  ASSUME Inv, Inv', Send \/ Deliver \/ Lose, NEW P \in Seq(Places), fd = "open" \/ P = <<>>
  PROVE  Breaks(P \o Ahead') + gaps + cuts <= Breaks(P \o Ahead) + gaps' + cuts'
<1> DEFINE A == P \o tty
<1>0. /\ A \in Seq(Places) /\ P \o Ahead = A \o Coming
      /\ gaps \in Nat /\ cuts \in Nat
  <2>1. tty \in Seq(Places) /\ Coming \in Seq(Places)
    BY AheadType
  <2>2. A \in Seq(Places) /\ (P \o tty) \o Coming = P \o (tty \o Coming)
    BY <2>1, Joined, Assoc
  <2> QED BY <2>2 DEF Ahead, Inv, TypeInv
<1>1. CASE Send
  <2>1. /\ line = <<>> /\ sent' = sent + 1 /\ UNCHANGED <<tty, gaps, cuts>>
        /\ line' = IF plugged THEN Bytes(sent + 1) ELSE <<>>
    BY <1>1 DEF Send
  <2>2. Coming = <<NextByte>>
    BY <2>1, AheadType, ConcatEmptySeq DEF Coming
  <2>3. P \o Ahead' = A \o Coming'
    <3>1. tty \in Seq(Places) /\ Coming' \in Seq(Places)
      BY AheadType, AheadTypeNext
    <3>2. (P \o tty) \o Coming' = P \o (tty \o Coming')
      BY <3>1, Assoc
    <3> QED BY <2>1, <3>2 DEF Ahead
  <2>4. CASE plugged
    <3> DEFINE f == sent + 1
    <3>1. f \in Frames
      BY <1>1, FrameTypes DEF Send, Inv, TypeInv
    <3>2. /\ Coming' = Bytes(f) \o <<[frame |-> f + 1, place |-> 1]>>
          /\ NextByte = [frame |-> f, place |-> 1]
      BY <2>1, <2>4 DEF Coming, NextByte
    <3>3. /\ Coming' \in Seq(Places) /\ Coming' # <<>> /\ Coming'[1] = NextByte
          /\ Breaks(Coming') = 0
      BY <3>1, <3>2, FrameIsWhole
    <3>4. /\ <<NextByte>> # <<>> /\ <<NextByte>>[1] = NextByte /\ Breaks(<<NextByte>>) = 0
      <4>1. NextByte \in Places /\ <<>> \in Seq(Places)
        BY AheadType, EmptySeq
      <4> QED BY <4>1, BreaksFront
    <3>5. Broken(A, Coming') <=> Broken(A, <<NextByte>>)
      BY <3>3, <3>4 DEF Broken
    <3>6. /\ Breaks(A \o Coming') = Breaks(A) + 0 + One(Broken(A, Coming'))
          /\ Breaks(A \o <<NextByte>>) = Breaks(A) + 0 + One(Broken(A, <<NextByte>>))
      BY <1>0, <3>3, <3>4, AheadType, BreaksConcat, ZenonT(60)
    <3>7. Breaks(A) \in Nat
      BY <1>0, BreaksFinite
    <3> QED BY <1>0, <2>1, <2>2, <2>3, <3>5, <3>6, <3>7 DEF One
  <2>5. CASE ~ plugged
    <3>1. P = <<>> /\ tty = <<>>
      BY <2>5 DEF Inv, PortInv
    <3>2. A = <<>>
      BY <3>1, AheadType, ConcatEmptySeq
    <3>3. Coming' = <<NextByte'>>
      BY <2>1, <2>5, AheadTypeNext, ConcatEmptySeq DEF Coming
    <3>4. A \o Coming' = <<NextByte'>>
      BY <3>2, <3>3, AheadTypeNext, ConcatEmptySeq
    <3>5. Breaks(<<NextByte'>>) = 0
      <4>1. NextByte' \in Places /\ <<>> \in Seq(Places)
        BY AheadTypeNext, EmptySeq
      <4> QED BY <4>1, BreaksFront
    <3>6. Breaks(A \o Coming) \in Nat
      BY <1>0, AheadType, ConcatProperties, BreaksFinite
    <3> QED BY <1>0, <2>1, <2>3, <3>4, <3>5, <3>6
  <2> QED BY <2>4, <2>5
<1>2. CASE Deliver
  <2>1. PICK k \in 1 .. Len(line) : \E kept \in Nat :
          /\ kept <= k /\ (fd # "open" => kept = 0) /\ Len(tty) + kept <= TtyDepth
          /\ tty' = tty \o SubSeq(line, 1, kept)
          /\ line' = SubSeq(line, k + 1, Len(line))
          /\ gaps' = IF fd = "open" /\ kept < k THEN gaps + 1 ELSE gaps
    BY <1>2, DeliverIs
  <2>2. PICK kept \in Nat : /\ kept <= k /\ (fd # "open" => kept = 0)
                            /\ tty' = tty \o SubSeq(line, 1, kept)
                            /\ line' = SubSeq(line, k + 1, Len(line))
                            /\ gaps' = IF fd = "open" /\ kept < k THEN gaps + 1 ELSE gaps
    BY <2>1
  <2> DEFINE a == SubSeq(line, 1, kept)
             b == SubSeq(line, kept + 1, k)
             c == line' \o <<NextByte>>
  <2>3. UNCHANGED <<sent, cuts>> /\ Len(line) \in Nat /\ line \in Seq(Places)
    BY <1>2, AheadType, LenProperties DEF Deliver
  <2>4. /\ a \in Seq(Places) /\ b \in Seq(Places) /\ line' \in Seq(Places)
    BY <2>2, <2>3, PlacesPart, AheadTypeNext
  <2>5. line = a \o (b \o line')
    <3>1. SubSeq(line, 1, kept) \o SubSeq(line, kept + 1, Len(line)) = SubSeq(line, 1, Len(line))
      <4> DEFINE all == Len(line)
      <4>1. 1 \in Nat /\ 1 <= 1 /\ 1 <= kept + 1 /\ kept <= all /\ all <= Len(line)
            /\ all \in Nat
        BY <2>2, <2>3
      <4> HIDE DEF all
      <4>2. SubSeq(line, 1, kept) \o SubSeq(line, kept + 1, all) = SubSeq(line, 1, all)
        BY <4>1, <2>2, <2>3, SplitAt
      <4> QED BY <4>2 DEF all
    <3>2. SubSeq(line, kept + 1, k) \o SubSeq(line, k + 1, Len(line)) = SubSeq(line, kept + 1, Len(line))
      <4>1. /\ kept + 1 \in Nat /\ 1 <= kept + 1 /\ kept + 1 <= k + 1 /\ k \in Nat
            /\ k <= Len(line) /\ Len(line) <= Len(line)
        BY <2>2, <2>3
      <4> QED BY <4>1, <2>3, SplitAt
    <3>3. SubSeq(line, 1, Len(line)) = line
      BY <2>3, SubSeqFull
    <3> QED BY <3>1, <3>2, <3>3, <2>2
  <2>6. c \in Seq(Places) /\ Coming' = c /\ A \o a \in Seq(Places)
    BY <1>0, <2>3, <2>4, AheadType, ConcatProperties DEF Coming, NextByte
  <2> HIDE DEF a, b
  <2>7. Coming = a \o (b \o c)
    <3>0. <<NextByte>> \in Seq(Places)
      BY AheadType
    <3> DEFINE e == <<NextByte>>
    <3> HIDE DEF e
    <3>1. b \o line' \in Seq(Places) /\ e \in Seq(Places)
      BY <2>4, <3>0, Joined DEF e
    <3> DEFINE t == b \o line'
    <3>4. t \in Seq(Places)
      BY <3>1
    <3> HIDE DEF t
    <3>6. a \in Seq(Places) /\ t \in Seq(Places) /\ e \in Seq(Places)
      BY <2>4, <3>1, <3>4
    <3>5. (a \o t) \o e = a \o (t \o e)
      BY <3>6, Assoc, ZenonT(60)
    <3>2. (a \o (b \o line')) \o e = a \o ((b \o line') \o e)
      BY <3>5 DEF t
    <3>3. (b \o line') \o e = b \o (line' \o e)
      BY <2>4, <3>1, Assoc, ZenonT(60)
    <3> QED BY <2>5, <3>2, <3>3 DEF Coming, e
  <2> HIDE DEF c
  <2>8. P \o Ahead = (A \o a) \o (b \o c)
    <3>1. b \o c \in Seq(Places)
      BY <2>4, <2>6, Joined
    <3> HIDE DEF A
    <3>2. (A \o a) \o (b \o c) = A \o (a \o (b \o c))
      BY <1>0, <2>4, <3>1, Assoc, ZenonT(60)
    <3> QED BY <1>0, <2>7, <3>2
  <2>9. P \o Ahead' = (A \o a) \o c
    <3>1. Ahead' = (tty \o a) \o c /\ tty \o a \in Seq(Places)
      BY <2>2, <2>4, <2>6, AheadType, ConcatProperties DEF Ahead, a
    <3>4. tty \in Seq(Places)
      BY AheadType
    <3> DEFINE d == tty \o a
    <3>5. d \in Seq(Places)
      BY <3>1
    <3> HIDE DEF d
    <3>2. P \o (d \o c) = (P \o d) \o c
      BY <2>6, <3>5, Assoc
    <3>3. P \o (tty \o a) = (P \o tty) \o a
      BY <2>4, <3>4, Assoc, ZenonT(60)
    <3> QED BY <3>1, <3>2, <3>3 DEF d
  <2>10. Breaks((A \o a) \o c) <= Breaks((A \o a) \o (b \o c)) + 1
    BY <2>4, <2>6, BreaksCut
  <2>11. Breaks((A \o a) \o c) \in Nat /\ Breaks((A \o a) \o (b \o c)) \in Nat
    BY <2>4, <2>6, ConcatProperties, BreaksFinite
  <2>12. CASE gaps' = gaps + 1
    BY <1>0, <2>3, <2>8, <2>9, <2>10, <2>11, <2>12
  <2>13. CASE gaps' = gaps
    <3>1. Breaks((A \o a) \o c) <= Breaks((A \o a) \o (b \o c))
      <4>1. CASE kept = k
        <5>1. b = <<>>
          BY <4>1, SubSeqEmpty DEF b
        <5> QED BY <5>1, <2>6, <2>11, ConcatEmptySeq
      <4>2. CASE kept < k
        <5>1. P = <<>> /\ kept = 0 /\ tty = <<>>
          BY <1>0, <2>2, <2>13, <4>2 DEF Inv, PortInv
        <5>2. A = <<>> /\ a = <<>>
          BY <5>1, EmptySeq, ConcatEmptySeq, SubSeqEmpty DEF a
        <5>3. A \o a = <<>>
          BY <5>2, EmptySeq, ConcatEmptySeq
        <5>4. (A \o a) \o c = c /\ (A \o a) \o (b \o c) = b \o c
          <6>1. b \o c \in Seq(Places)
            BY <2>4, <2>6, ConcatProperties
          <6> QED BY <5>3, <6>1, <2>6, ConcatEmptySeq
        <5>5. Breaks(b) + Breaks(c) <= Breaks(b \o c) /\ Breaks(b) \in Nat
          BY <2>4, <2>6, BreaksSplit, BreaksFinite
        <5>6. Breaks(c) \in Nat /\ Breaks(b \o c) \in Nat
          BY <2>11, <5>4
        <5> QED BY <5>4, <5>5, <5>6
      <4> QED BY <2>2, <4>1, <4>2
    <3> QED BY <1>0, <2>3, <2>8, <2>9, <2>11, <2>13, <3>1
  <2> QED BY <2>2, <2>12, <2>13
<1>3. CASE Lose
  <2>1. /\ line # <<>> /\ line' = Tail(line) /\ gaps' = gaps + 1 /\ UNCHANGED <<tty, sent, cuts>>
    BY <1>3 DEF Lose
  <2> DEFINE b == <<Head(line)>>
  <2>2. line = b \o line' /\ b \in Seq(Places) /\ line' \in Seq(Places)
    BY <2>1, AheadType, HeadAndTail
  <2> HIDE DEF b
  <2>3. Coming = b \o Coming' /\ Coming' \in Seq(Places)
    <3> DEFINE e == <<NextByte>>
    <3>1. Coming' = line' \o e
      BY <2>1 DEF Coming, NextByte
    <3>2. Coming = line \o e
      BY DEF Coming
    <3>3. e \in Seq(Places) /\ Coming' \in Seq(Places)
      BY AheadType, AheadTypeNext
    <3> HIDE DEF e
    <3>4. (b \o line') \o e = b \o (line' \o e)
      BY <2>2, <3>3, Assoc, ZenonT(60)
    <3> QED BY <2>2, <3>1, <3>2, <3>3, <3>4
  <2>4. P \o Ahead' = A \o Coming'
    <3>1. tty \in Seq(Places) /\ Coming' \in Seq(Places)
      BY AheadType, AheadTypeNext
    <3>2. (P \o tty) \o Coming' = P \o (tty \o Coming')
      BY <3>1, Assoc
    <3> QED BY <2>1, <3>2 DEF Ahead
  <2> HIDE DEF A
  <2>5. Breaks(A \o Coming') <= Breaks(A \o (b \o Coming')) + 1
    BY <1>0, <2>2, <2>3, BreaksCut
  <2>6. Breaks(A \o Coming') \in Nat /\ Breaks(A \o Coming) \in Nat
    BY <1>0, <2>3, AheadType, ConcatProperties, BreaksFinite
  <2> QED BY <1>0, <2>1, <2>3, <2>4, <2>5, <2>6
<1> QED BY <1>1, <1>2, <1>3

-----------------------------------------------------------------------------
(* Readings that are wrong.                                                *)

Wrongs == Cardinality(Wrong)

LEMMA WrongType ==
  ASSUME NEW S, published \in Seq(S)
  PROVE  IsFiniteSet(Wrong) /\ Wrongs \in Nat /\ Wrong \subseteq 1 .. Len(published)
<1>1. DOMAIN published = 1 .. Len(published) /\ Len(published) \in Nat
  BY LenProperties
<1>2. Wrong \subseteq 1 .. Len(published)
  BY <1>1 DEF Wrong
<1>3. IsFiniteSet(1 .. Len(published))
  BY <1>1, FS_Interval
<1> QED BY <1>2, <1>3, FS_Subset, FS_CardinalityType DEF Wrongs

\* One reading more is at most one wrong reading more.
LEMMA WrongGrows ==
  ASSUME NEW S, published \in Seq(S), NEW got \in S, published' = Append(published, got)
  PROVE  /\ Wrongs' \in Nat /\ Wrongs' <= Wrongs + 1
         /\ Genuine(got) => Wrongs' = Wrongs
<1> DEFINE n == Len(published) + 1
<1>1. /\ Len(published) \in Nat /\ DOMAIN published = 1 .. Len(published)
      /\ DOMAIN published' = 1 .. n /\ published'[n] = got
      /\ \A i \in 1 .. Len(published) : published'[i] = published[i]
  <2>1. /\ Append(published, got) \in Seq(S)
        /\ Len(Append(published, got)) = Len(published) + 1
        /\ \A i \in 1 .. Len(published) : Append(published, got)[i] = published[i]
        /\ Append(published, got)[Len(published) + 1] = got
    BY AppendProperties
  <2> QED BY <2>1, LenProperties
<1>2. IsFiniteSet(Wrong) /\ Wrongs \in Nat /\ Wrong \subseteq 1 .. Len(published)
  BY WrongType
<1>3. n \notin Wrong
  BY <1>1, <1>2
<1>4. CASE Genuine(got)
  <2>1. Wrong' = Wrong
    <3>1. \A i : i \in Wrong' <=> i \in Wrong
      BY <1>1, <1>4 DEF Wrong
    <3> QED BY <3>1
  <2>2. Wrongs' = Wrongs
    BY <2>1 DEF Wrongs
  <2> QED BY <1>2, <2>2
<1>5. CASE ~ Genuine(got)
  <2>1. Wrong' = Wrong \cup {n}
    <3>1. \A i : i \in Wrong' <=> i \in Wrong \cup {n}
      BY <1>1, <1>5 DEF Wrong
    <3> QED BY <3>1
  <2>2. Cardinality(Wrong \cup {n}) = Cardinality(Wrong) + 1
    BY <1>2, <1>3, FS_AddElement
  <2>3. Wrongs' = Wrongs + 1
    BY <2>1, <2>2 DEF Wrongs
  <2> QED BY <1>2, <1>5, <2>3
<1> QED BY <1>4, <1>5

\* Bytes that follow each other from the fourth of a frame are its body.
LEMMA RunOn ==
  ASSUME NEW s \in Seq(Places), NEW f \in Nat, Breaks(s) = 0,
         NEW k \in 1 .. 14, k < Len(s), s[k] = [frame |-> f, place |-> k + 3]
  PROVE  s[k + 1] = [frame |-> f, place |-> k + 4]
<1>6. k \in Nat /\ 1 <= k /\ k <= 14 /\ Len(s) \in Nat
  BY LenProperties
<1>7. k \in 1 .. Len(s) /\ k + 1 \in 1 .. Len(s)
  BY <1>6
<1>1. Follows(s[k], s[k + 1])
  <2>1. \A i \in 1 .. Len(s) : i < Len(s) => Follows(s[i], s[i + 1])
    BY NoBreaks
  <2> QED BY <2>1, <1>7
<1>2. s[k + 1] \in Places
  BY <1>7, ElementOfSeq
<1>3. s[k + 1] = [frame |-> s[k + 1].frame, place |-> s[k + 1].place]
  BY <1>2 DEF Places
<1>4. s[k].frame = f /\ s[k].place = k + 3 /\ k + 3 < 18
  BY <1>6
<1>5. s[k + 1].frame = f /\ s[k + 1].place = k + 4
  BY <1>1, <1>4, <1>6 DEF Follows, FrameLen
<1> QED BY <1>3, <1>5

LEMMA FifteenSteps ==
  ASSUME NEW S, 1 \in S, \A k \in 1 .. 14 : k \in S => k + 1 \in S
  PROVE  \A k \in 1 .. 15 : k \in S
<1>1. 2 \in S /\ 3 \in S /\ 4 \in S /\ 5 \in S
  OBVIOUS
<1>2. 6 \in S /\ 7 \in S /\ 8 \in S /\ 9 \in S
  BY <1>1
<1>3. 10 \in S /\ 11 \in S /\ 12 \in S /\ 13 \in S
  BY <1>2
<1>4. 14 \in S /\ 15 \in S
  BY <1>3
<1> QED BY <1>1, <1>2, <1>3, <1>4

LEMMA RunFromLength ==
  ASSUME NEW s \in Seq(Places), NEW f \in Nat, 1 <= Len(s), Len(s) <= 15, Breaks(s) = 0,
         s[1] = [frame |-> f, place |-> 4]
  PROVE  \A k \in 1 .. Len(s) : s[k] = [frame |-> f, place |-> k + 3]
<1> DEFINE S == {k \in 1 .. 15 : k <= Len(s) => s[k] = [frame |-> f, place |-> k + 3]}
<1>1. 1 \in S
  OBVIOUS
<1>2. ASSUME NEW k \in 1 .. 14, k \in S PROVE k + 1 \in S
  <2>1. k + 1 \in 1 .. 15 /\ k \in Nat /\ Len(s) \in Nat
    BY LenProperties
  <2> SUFFICES ASSUME k + 1 <= Len(s) PROVE s[k + 1] = [frame |-> f, place |-> (k + 1) + 3]
    BY <2>1
  <2>2. k < Len(s) /\ s[k] = [frame |-> f, place |-> k + 3]
    BY <2>1, <1>2
  <2>3. s[k + 1] = [frame |-> f, place |-> k + 4]
    BY <2>2, RunOn
  <2>4. k + 4 = (k + 1) + 3
    BY <2>1
  <2> QED BY <2>3, <2>4
<1> HIDE DEF S
<1>3. \A k \in 1 .. 15 : k \in S
  BY <1>1, <1>2, FifteenSteps
<1>4. \A k \in 1 .. Len(s) : k \in 1 .. 15 /\ k <= Len(s)
  BY LenProperties
<1> QED BY <1>3, <1>4 DEF S

LEMMA OneInFront ==
  ASSUME NEW b \in Places, NEW t \in Seq(Places)
  PROVE  /\ <<b>> \o t \in Seq(Places) /\ Len(<<b>> \o t) = Len(t) + 1 /\ (<<b>> \o t)[1] = b
         /\ \A i \in 1 .. Len(t) : (<<b>> \o t)[i + 1] = t[i]
<1> DEFINE e == <<b>>
           s == e \o t
<1>1. e \in Seq(Places) /\ Len(e) = 1 /\ e[1] = b /\ Len(t) \in Nat
  BY LenProperties
<1> HIDE DEF e
<1>2. /\ s \in Seq(Places) /\ Len(s) = Len(e) + Len(t)
      /\ \A i \in 1 .. Len(e) + Len(t) : s[i] = IF i <= Len(e) THEN e[i] ELSE t[i - Len(e)]
  BY <1>1, ConcatProperties
<1> HIDE DEF s
<1>3. s[1] = b /\ Len(s) = Len(t) + 1
  BY <1>1, <1>2
<1>4. ASSUME NEW i \in 1 .. Len(t) PROVE s[i + 1] = t[i]
  <2>1. /\ i + 1 \in 1 .. Len(e) + Len(t) /\ ~ (i + 1 <= Len(e)) /\ i + 1 - Len(e) = i
    BY <1>1
  <2> QED BY <1>2, <2>1
<1> QED BY <1>2, <1>3, <1>4 DEF s, e

LEMMA BodyOf ==
  ASSUME NEW f \in Frames, NEW got \in Seq(FrameBytes), Len(got) = 14,
         \A i \in 1 .. 14 : got[i] = [frame |-> f, place |-> i + 4]
  PROVE  got = SubSeq(Bytes(f), 5, FrameLen)
<1>1. /\ SubSeq(Bytes(f), 5, FrameLen) \in Seq(FrameBytes)
      /\ Len(SubSeq(Bytes(f), 5, FrameLen)) = 14
      /\ \A i \in 1 .. 14 : SubSeq(Bytes(f), 5, FrameLen)[i] = [frame |-> f, place |-> i + 4]
  <2> DEFINE B == Bytes(f)
  <2>1. B \in Seq(FrameBytes) /\ Len(B) = 18
        /\ \A p \in 1 .. 18 : B[p] = [frame |-> f, place |-> p]
    BY BytesType DEF FrameLen
  <2> HIDE DEF B
  <2>2. \A i \in 5 .. 18 : B[i] \in FrameBytes
    <3>1. \A i \in 1 .. Len(B) : B[i] \in FrameBytes
      BY <2>1, ElementOfSeq
    <3>2. \A i \in 5 .. 18 : i \in 1 .. Len(B)
      BY <2>1
    <3> QED BY <3>1, <3>2
  <2>3. /\ SubSeq(B, 5, 18) \in Seq(FrameBytes)
        /\ Len(SubSeq(B, 5, 18)) = IF 5 <= 18 THEN 18 - 5 + 1 ELSE 0
        /\ \A i \in 1 .. 18 - 5 + 1 : SubSeq(B, 5, 18)[i] = B[5 + i - 1]
    BY <2>2, SubSeqProperties
  <2>4. ASSUME NEW i \in 1 .. 14 PROVE SubSeq(B, 5, 18)[i] = [frame |-> f, place |-> i + 4]
    <3>1. i \in 1 .. 18 - 5 + 1 /\ 5 + i - 1 = i + 4 /\ i + 4 \in 1 .. 18
      OBVIOUS
    <3> QED BY <2>1, <2>3, <3>1, SMTT(40)
  <2> QED BY <2>3, <2>4 DEF B, FrameLen
<1>2. got = SubSeq(Bytes(f), 5, FrameLen)
  <2> DEFINE t == SubSeq(Bytes(f), 5, FrameLen)
  <2>1. t \in Seq(FrameBytes) /\ Len(t) = 14 /\ \A i \in 1 .. 14 : t[i] = got[i]
    BY <1>1
  <2> HIDE DEF t
  <2>2. got = t
    BY <2>1, SeqEqual
  <2> QED BY <2>2 DEF t
<1> QED BY <1>2

\* What is read after the length of a frame, when nothing breaks it off.
LEMMA BodyRun ==
  ASSUME NEW b \in FrameBytes, b.place = 4, NEW got \in Seq(FrameBytes), Len(got) <= 14,
         Breaks(<<b>> \o got) = 0
  PROVE  \A i \in 1 .. Len(got) : got[i] = [frame |-> b.frame, place |-> i + 4]
<1> DEFINE f == b.frame
           s == <<b>> \o got
<1>1. b \in Places /\ got \in Seq(Places) /\ Len(got) \in Nat
  BY FrameTypes, SeqMonotonic, LenProperties
<1>2. f \in Nat /\ b = [frame |-> f, place |-> 4]
  BY FrameTypes DEF FrameBytes
<1>3. /\ s \in Seq(Places) /\ Len(s) = Len(got) + 1 /\ s[1] = b
      /\ \A i \in 1 .. Len(got) : s[i + 1] = got[i]
  BY <1>1, OneInFront
<1>4. Breaks(s) = 0
  OBVIOUS
<1> HIDE DEF f, s
<1>5. 1 <= Len(s) /\ Len(s) <= 15 /\ s[1] = [frame |-> f, place |-> 4]
  BY <1>1, <1>2, <1>3
<1>6. \A k \in 1 .. Len(s) : s[k] = [frame |-> f, place |-> k + 3]
  BY <1>2, <1>3, <1>4, <1>5, RunFromLength
<1> SUFFICES ASSUME NEW i \in 1 .. Len(got) PROVE got[i] = [frame |-> f, place |-> i + 4]
  BY DEF f
<1>7. i + 1 \in 1 .. Len(s) /\ (i + 1) + 3 = i + 4
  BY <1>1, <1>3
<1> QED BY <1>3, <1>6, <1>7

LEMMA BodyIsWhole ==
  ASSUME NEW b \in FrameBytes, b.place = 4, NEW got \in Seq(FrameBytes), Len(got) = 14,
         Breaks(<<b>> \o got) = 0
  PROVE  Genuine(got)
<1>1. b.frame \in Frames
  BY DEF FrameBytes
<1>2. \A i \in 1 .. 14 : got[i] = [frame |-> b.frame, place |-> i + 4]
  <2>1. Len(got) <= 14
    OBVIOUS
  <2>2. \A i \in 1 .. Len(got) : got[i] = [frame |-> b.frame, place |-> i + 4]
    BY <2>1, BodyRun
  <2> QED BY <2>2
<1>3. got = SubSeq(Bytes(b.frame), 5, FrameLen)
  BY <1>1, <1>2, BodyOf
<1> QED BY <1>1, <1>3 DEF Genuine

-----------------------------------------------------------------------------
(* The account.  Every break among the bytes to come was paid for by a     *)
(* loss or a cut, and may still spoil one reading.  What has been read has *)
(* at most one in hand: all is settled with one to spare; or nothing of a  *)
(* marker has been seen; or the reader is on the track of one byte, where  *)
(* a scan, a length or a body should be, and what comes is counted on from *)
(* there.                                                                  *)

Paid(n) == Wrongs + n <= gaps + cuts

Settled == Paid(Breaks(Ahead) + 1)
Clear == fd = "open" /\ pc = "scan" /\ window[2] # 170 /\ Paid(Breaks(Ahead))
Tracked(b) ==
  /\ fd = "open"
  /\ pc = "scan" => window[2] = Value(b)
  /\ pc = "length" => b.place = 2
  /\ pc = "body" => b.place = 4 /\ pktLen = 14
  /\ Paid(Breaks(<<b>> \o Ahead))

AccountInv == Settled \/ Clear \/ \E b \in FrameBytes : Tracked(b)

\* The numbers that the account is about.
LEMMA Numbers ==
  ASSUME Inv
  PROVE  /\ gaps \in Nat /\ cuts \in Nat /\ Wrongs \in Nat /\ Breaks(Ahead) \in Nat
         /\ \A b \in FrameBytes : /\ b \in Places /\ Breaks(<<b>> \o Ahead) \in Nat
                                  /\ Breaks(Ahead) <= Breaks(<<b>> \o Ahead)
<1>1. gaps \in Nat /\ cuts \in Nat
  BY DEF Inv, TypeInv
<1>2. Wrongs \in Nat
  BY WrongType DEF Inv, TypeInv
<1>3. Ahead \in Seq(Places) /\ Breaks(Ahead) \in Nat
  BY AheadType, BreaksFinite
<1>4. ASSUME NEW b \in FrameBytes
      PROVE  /\ b \in Places /\ Breaks(<<b>> \o Ahead) \in Nat
             /\ Breaks(Ahead) <= Breaks(<<b>> \o Ahead)
  <2>1. b \in Places
    BY FrameTypes
  <2>2. <<b>> \in Seq(Places) /\ Breaks(<<b>>) = 0
    BY <1>3, <2>1, BreaksFront
  <2>3. Breaks(<<b>>) + Breaks(Ahead) <= Breaks(<<b>> \o Ahead)
    BY <1>3, <2>2, BreaksSplit
  <2>4. Breaks(<<b>> \o Ahead) \in Nat
    BY <1>3, <2>2, Joined, BreaksFinite
  <2> QED BY <1>3, <2>1, <2>2, <2>3, <2>4
<1> QED BY <1>1, <1>2, <1>3, <1>4

LEMMA AllArePaid ==
  ASSUME Inv, AccountInv
  PROVE  Paid(Breaks(Ahead)) /\ (fd # "open" => Settled)
<1>1. CASE Settled
  BY <1>1, Numbers DEF Settled, Paid
<1>2. CASE Clear
  BY <1>2 DEF Clear
<1>3. CASE \E b \in FrameBytes : Tracked(b)
  <2>1. PICK b \in FrameBytes : Tracked(b)
    BY <1>3
  <2>2. fd = "open" /\ Wrongs + Breaks(<<b>> \o Ahead) <= gaps + cuts
    BY <2>1 DEF Tracked, Paid
  <2>3. Wrongs + Breaks(Ahead) <= gaps + cuts
    BY <2>2, Numbers
  <2> QED BY <2>2, <2>3 DEF Paid
<1> QED BY <1>1, <1>2, <1>3 DEF AccountInv

LEMMA WrongsKept ==
  ASSUME UNCHANGED published
  PROVE  Wrongs' = Wrongs
<1>1. Wrong' = Wrong
  BY DEF Wrong
<1> QED BY <1>1 DEF Wrongs

LEMMA LineAccount ==
  ASSUME Inv, Inv', AccountInv, Send \/ Deliver \/ Lose
  PROVE  AccountInv'
<1>1. UNCHANGED <<published, window, pc, pktLen, fd>>
  BY DEF Send, Deliver, Lose, bridgeVars
<1>2. Wrongs' = Wrongs /\ Wrongs \in Nat
  BY <1>1, WrongsKept, Numbers
<1>3. gaps \in Nat /\ cuts \in Nat /\ gaps' \in Nat /\ cuts' \in Nat
  BY DEF Inv, TypeInv
<1>4. /\ Breaks(Ahead') + gaps + cuts <= Breaks(Ahead) + gaps' + cuts'
      /\ Breaks(Ahead) \in Nat /\ Breaks(Ahead') \in Nat
  <2>1. /\ <<>> \in Seq(Places) /\ <<>> \o Ahead = Ahead /\ <<>> \o Ahead' = Ahead'
        /\ Breaks(Ahead) \in Nat /\ Breaks(Ahead') \in Nat
    BY AheadType, AheadTypeNext, EmptySeq, ConcatEmptySeq, BreaksFinite
  <2> DEFINE P == <<>>
  <2>2. P \in Seq(Places) /\ (fd = "open" \/ P = <<>>)
    BY <2>1
  <2> HIDE DEF P
  <2>3. Breaks(P \o Ahead') + gaps + cuts <= Breaks(P \o Ahead) + gaps' + cuts'
    BY <2>2, LineStep
  <2> QED BY <2>1, <2>3 DEF P
<1>5. CASE Settled
  <2>1. Wrongs' + (Breaks(Ahead') + 1) <= gaps' + cuts'
    BY <1>5, <1>2, <1>3, <1>4 DEF Settled, Paid
  <2> QED BY <2>1 DEF AccountInv, Settled, Paid
<1>6. CASE Clear
  <2>1. Wrongs' + Breaks(Ahead') <= gaps' + cuts'
    BY <1>6, <1>2, <1>3, <1>4 DEF Clear, Paid
  <2>2. Clear'
    BY <1>1, <1>6, <2>1 DEF Clear, Paid
  <2> QED BY <2>2 DEF AccountInv
<1>7. CASE \E b \in FrameBytes : Tracked(b)
  <2>1. PICK b \in FrameBytes : Tracked(b)
    BY <1>7
  <2> DEFINE P == <<b>>
  <2>2. b \in Places /\ P \in Seq(Places) /\ fd = "open"
    BY <2>1, Numbers DEF Tracked
  <2> HIDE DEF P
  <2>3. Breaks(P \o Ahead') + gaps + cuts <= Breaks(P \o Ahead) + gaps' + cuts'
    BY <2>2, LineStep
  <2>4. Breaks(P \o Ahead') \in Nat /\ Breaks(P \o Ahead) \in Nat
    BY <2>2, AheadType, AheadTypeNext, Joined, BreaksFinite
  <2>5. Wrongs + Breaks(P \o Ahead) <= gaps + cuts
    BY <2>1 DEF Tracked, Paid, P
  <2>6. Wrongs' + Breaks(P \o Ahead') <= gaps' + cuts'
    BY <1>2, <1>3, <2>3, <2>4, <2>5
  <2>7. Tracked(b)'
    BY <1>1, <2>1, <2>6 DEF Tracked, Paid, P
  <2> QED BY <2>7 DEF AccountInv
<1> QED BY <1>5, <1>6, <1>7 DEF AccountInv

\* What an unplug or a restart throws away, the cut pays for.
LEMMA CutAccount ==
  ASSUME Inv, Inv', AccountInv, Unplug \/ Restart
  PROVE  AccountInv'
<1>1. UNCHANGED <<published, sent, gaps>> /\ cuts' = cuts + 1
  BY DEF Unplug, Restart
<1>2. Wrongs' = Wrongs /\ Wrongs \in Nat /\ gaps \in Nat /\ cuts \in Nat
  BY <1>1, WrongsKept, Numbers
<1>3. Wrongs + Breaks(Ahead) <= gaps + cuts /\ Breaks(Ahead) \in Nat
  BY AllArePaid, Numbers DEF Paid
<1>4. Breaks(Ahead') <= Breaks(Ahead) /\ Breaks(Ahead') \in Nat
  <2>1. CASE Unplug
    <3>1. line' = <<>> /\ tty' = <<>>
      BY <2>1 DEF Unplug
    <3>2. NextByte' \in Places /\ <<>> \in Seq(Places) /\ <<NextByte'>> \in Seq(Places)
      BY AheadTypeNext, EmptySeq
    <3>3. Ahead' = <<NextByte'>>
      BY <3>1, <3>2, ConcatEmptySeq DEF Ahead, Coming
    <3>4. Breaks(<<NextByte'>>) = 0
      BY <3>2, BreaksFront
    <3> QED BY <3>3, <3>4, <1>3
  <2>2. CASE Restart
    <3>1. Coming' = Coming /\ tty' \in {<<>>, tty}
      BY <2>2 DEF Restart, Opened, Coming, NextByte
    <3>2. Coming \in Seq(Places) /\ tty \in Seq(Places)
      BY AheadType
    <3>3. /\ Breaks(tty) + Breaks(Coming) <= Breaks(Ahead)
          /\ Breaks(tty) \in Nat /\ Breaks(Coming) \in Nat
      BY <3>2, BreaksSplit, BreaksFinite DEF Ahead
    <3>4. CASE tty' = tty
      BY <3>1, <3>4, <1>3 DEF Ahead
    <3>5. CASE tty' = <<>>
      <4>1. Ahead' = Coming
        BY <3>1, <3>2, <3>5, ConcatEmptySeq DEF Ahead
      <4> QED BY <4>1, <3>3, <1>3
    <3> QED BY <3>1, <3>4, <3>5
  <2> QED BY <2>1, <2>2
<1>5. Wrongs' + (Breaks(Ahead') + 1) <= gaps' + cuts'
  BY <1>1, <1>2, <1>3, <1>4
<1> QED BY <1>5 DEF AccountInv, Settled, Paid

\* A port that is not open brings no bytes, and all is settled then.
LEMMA PortAccount ==
  ASSUME Inv, Inv', AccountInv, Open \/ DeviceLost \/ Plug
  PROVE  AccountInv'
<1>1. UNCHANGED <<published, sent, line, gaps, cuts>> /\ fd # "open"
  BY DEF Open, DeviceLost, Plug, LineAlone, bridgeVars, Inv, PortInv
<1>2. tty' = tty
  BY <1>1 DEF Open, Opened, DeviceLost, Plug, Inv, PortInv
<1>3. Settled /\ Wrongs' = Wrongs
  BY <1>1, AllArePaid, WrongsKept
<1>4. Ahead' = Ahead
  BY <1>1, <1>2 DEF Ahead, Coming, NextByte
<1>5. Settled'
  BY <1>1, <1>3, <1>4 DEF Settled, Paid
<1> QED BY <1>5 DEF AccountInv

\* What a read takes leaves the breaks behind it as they are.
LEMMA ReadAhead ==
  ASSUME Inv, Inv', NEW x \in Seq(FrameBytes), tty = x \o tty', UNCHANGED <<sent, line>>
  PROVE  /\ Ahead = x \o Ahead' /\ x \in Seq(Places)
         /\ Ahead' \in Seq(Places) /\ Breaks(Ahead') \in Nat
         /\ Breaks(Ahead') <= Breaks(Ahead) /\ Breaks(Ahead) \in Nat
<1>1. x \in Seq(Places) /\ tty' \in Seq(Places) /\ Coming \in Seq(Places) /\ Coming' = Coming
  BY FrameTypes, SeqMonotonic, AheadType, AheadTypeNext DEF Coming, NextByte
<1>2. Ahead = x \o Ahead'
  <2>1. (x \o tty') \o Coming = x \o (tty' \o Coming)
    BY <1>1, Assoc
  <2> QED BY <1>1, <2>1 DEF Ahead
<1>3. Ahead' \in Seq(Places) /\ Breaks(Ahead') \in Nat /\ Breaks(x) \in Nat
      /\ Breaks(Ahead) \in Nat
  BY <1>1, AheadType, AheadTypeNext, BreaksFinite
<1>4. Breaks(x) + Breaks(Ahead') <= Breaks(x \o Ahead')
  BY <1>1, <1>3, BreaksSplit
<1> QED BY <1>1, <1>2, <1>3, <1>4

\* Once all is settled, only a reading can take what is spare.
LEMMA SettledKept ==
  ASSUME Inv, Inv', Settled, UNCHANGED <<published, sent, line, gaps, cuts>>,
         NEW x \in Seq(FrameBytes), tty = x \o tty'
  PROVE  AccountInv'
<1>1. Wrongs' = Wrongs /\ Wrongs \in Nat /\ gaps \in Nat /\ cuts \in Nat
  BY WrongsKept, Numbers
<1>2. /\ Breaks(Ahead') \in Nat /\ Breaks(Ahead') <= Breaks(Ahead) /\ Breaks(Ahead) \in Nat
  BY ReadAhead
<1>3. Wrongs + (Breaks(Ahead) + 1) <= gaps + cuts
  BY DEF Settled, Paid
<1>4. Wrongs' + (Breaks(Ahead') + 1) <= gaps' + cuts'
  BY <1>1, <1>2, <1>3
<1> QED BY <1>4 DEF AccountInv, Settled, Paid

LEMMA ScanAccount ==
  ASSUME Inv, Inv', AccountInv, Scan
  PROVE  AccountInv'
<1>0. tty # <<>> /\ tty' = Tail(tty)
  BY DEF Scan
<1>2. PICK c \in FrameBytes : c = Head(tty) /\ tty = <<c>> \o tty' /\ <<c>> \in Seq(FrameBytes)
  BY <1>0, HeadAndTail DEF Inv, TypeInv
<1> DEFINE x == <<c>>
<1>1. /\ fd = "open" /\ pc = "scan" /\ fd' = "open"
      /\ window' = <<window[2], Value(c)>> /\ pc' = IF window' = SYNC THEN "length" ELSE "scan"
      /\ UNCHANGED <<published, sent, line, gaps, cuts>>
  BY <1>2 DEF Scan, LineAlone
<1>3. CASE Settled
  BY <1>1, <1>2, <1>3, SettledKept
<1>4. /\ Ahead = <<c>> \o Ahead' /\ c \in Places /\ Ahead' \in Seq(Places)
      /\ Breaks(Ahead') \in Nat /\ Breaks(Ahead') <= Breaks(Ahead) /\ Breaks(Ahead) \in Nat
  BY <1>1, <1>2, ReadAhead, Numbers
<1>5. Wrongs' = Wrongs /\ Wrongs \in Nat /\ gaps \in Nat /\ cuts \in Nat
  BY <1>1, WrongsKept, Numbers
<1>6. Wrongs' + Breaks(<<c>> \o Ahead') <= gaps' + cuts'
  BY <1>1, <1>4, <1>5, AllArePaid DEF Paid
<1>7. window'[2] = Value(c)
  BY <1>1
<1>8. CASE window' # SYNC
  <2>1. pc' = "scan"
    BY <1>1, <1>8
  <2>2. Tracked(c)'
    BY <1>1, <1>6, <1>7, <2>1 DEF Tracked, Paid
  <2> QED BY <1>2, <2>2 DEF AccountInv
<1>9. CASE window' = SYNC /\ ~ Settled
  <2>1. window[2] = 170 /\ Value(c) = 85 /\ pc' = "length"
    BY <1>1, <1>9 DEF SYNC
  <2>2. PICK b \in FrameBytes : Tracked(b)
    BY <1>9, <2>1 DEF AccountInv, Clear
  <2>3. Value(b) = 170 /\ Wrongs + Breaks(<<b>> \o Ahead) <= gaps + cuts /\ b \in Places
    BY <1>1, <2>1, <2>2, Numbers DEF Tracked, Paid
  <2>4. CASE Follows(b, c)
    <3>1. c.place = 2
      BY <1>2, <2>1, <2>3, <2>4, MarkerIsHead
    <3>2. Tracked(c)'
      BY <1>1, <1>6, <2>1, <3>1 DEF Tracked, Paid
    <3> QED BY <1>2, <3>2 DEF AccountInv
  <2>5. CASE ~ Follows(b, c)
    <3>1. Breaks(<<b>> \o (<<c>> \o Ahead')) = Breaks(<<c>> \o Ahead') + One(~ Follows(b, c))
      BY <1>4, <2>3, BreaksFront
    <3>2. Breaks(<<b>> \o Ahead) = Breaks(Ahead) + 1
      BY <1>4, <2>5, <3>1 DEF One
    <3>3. Wrongs' + (Breaks(Ahead') + 1) <= gaps' + cuts'
      BY <1>1, <1>4, <1>5, <2>3, <3>2
    <3> QED BY <3>3 DEF AccountInv, Settled, Paid
  <2> QED BY <2>4, <2>5
<1> QED BY <1>3, <1>8, <1>9

\* The length of a frame on whose track the reader is.
LEMMA LengthIs ==
  ASSUME NEW b \in FrameBytes, NEW g \in FrameBytes, NEW h \in FrameBytes,
         b.place = 2, Follows(b, g), Follows(g, h)
  PROVE  Value(g) + 256 * Value(h) = 14 /\ h.place = 4
<1>1. /\ g.place = 3 /\ h.place = 4 /\ g.frame = b.frame /\ h.frame = b.frame
      /\ b.frame \in Frames
  BY DEF Follows, FrameLen, FrameBytes
<1>2. Value(g) = 14 /\ Value(h) = 0
  BY <1>1, ContentIs DEF Value
<1> QED BY <1>1, <1>2

LEMMA TwoBytes ==
  ASSUME NEW got \in Seq(FrameBytes), Len(got) = 2
  PROVE  /\ got[1] \in FrameBytes /\ got[2] \in FrameBytes
         /\ got = <<got[1]>> \o <<got[2]>>
<1>1. 1 \in 1 .. Len(got) /\ 2 \in 1 .. Len(got)
  OBVIOUS
<1>2. got[1] \in FrameBytes /\ got[2] \in FrameBytes
  BY <1>1, ElementOfSeq
<1>3. got = <<got[1], got[2]>>
  OBVIOUS
<1> QED BY <1>2, <1>3

LEMMA LengthAccount ==
  ASSUME Inv, Inv', AccountInv, ReadLength
  PROVE  AccountInv'
<1>1. /\ pc = "length" /\ Ready /\ Taken(2) /\ fd' = fd
      /\ UNCHANGED <<published, sent, line, gaps, cuts>>
  BY DEF ReadLength, Short, LineAlone
<1>2. PICK got \in Seq(FrameBytes) :
        /\ got = Got(2) /\ tty = got \o tty'
        /\ Len(got) = IF Len(tty) < 2 THEN Len(tty) ELSE 2
  BY <1>1, ReadSplits DEF Inv, TypeInv
<1>3. CASE Settled
  BY <1>1, <1>2, <1>3, SettledKept
<1>4. CASE ~ Settled
  <2>1. fd = "open" /\ fd' = "open"
    BY <1>1, <1>4, AllArePaid
  <2>2. PICK b \in FrameBytes : Tracked(b)
    BY <1>1, <1>4 DEF AccountInv, Clear
  <2>3. /\ b.place = 2 /\ b \in Places /\ Wrongs + Breaks(<<b>> \o Ahead) <= gaps + cuts
        /\ Breaks(<<b>> \o Ahead) \in Nat
    BY <1>1, <2>2, Numbers DEF Tracked, Paid
  <2>4. Wrongs' = Wrongs /\ Wrongs \in Nat /\ gaps \in Nat /\ cuts \in Nat
    BY <1>1, WrongsKept, Numbers
  <2>5. /\ Ahead = got \o Ahead' /\ Ahead' \in Seq(Places) /\ Breaks(Ahead') \in Nat
        /\ Breaks(Ahead') <= Breaks(Ahead) /\ Breaks(Ahead) \in Nat
    BY <1>1, <1>2, ReadAhead
  <2>6. Wrongs' + Breaks(Ahead') <= gaps' + cuts'
    BY <1>1, <2>4, <2>5, AllArePaid DEF Paid
  <2>7. ASSUME pc' = "scan", window' \in {SYNC, <<0, 0>>}
        PROVE  AccountInv'
    <3>1. window'[2] # 170
      BY <2>7 DEF SYNC
    <3>2. Clear'
      BY <2>1, <2>6, <2>7, <3>1 DEF Clear, Paid
    <3> QED BY <3>2 DEF AccountInv
  <2>8. window = SYNC
    BY <1>1 DEF Inv, PortInv
  <2>9. CASE Len(got) < 2
    <3>1. pc' = "scan" /\ window' = window
      BY <1>2, <2>9 DEF ReadLength, Short
    <3> QED BY <2>7, <2>8, <3>1
  <2>10. CASE ~ (Len(got) < 2)
    <3> DEFINE n == Value(got[1]) + 256 * Value(got[2])
    <3>1. /\ pktLen' = n
          /\ IF ValidLength(n) THEN pc' = "body" /\ UNCHANGED window
                               ELSE pc' = "scan" /\ window' = <<0, 0>>
      BY <1>2, <2>10 DEF ReadLength
    <3> HIDE DEF n
    <3>2. CASE ~ ValidLength(n)
      BY <2>7, <3>1, <3>2
    <3>3. CASE ValidLength(n)
      <4>1. Len(got) = 2
        BY <1>2, <2>10, LenProperties DEF Inv, TypeInv
      <4>2. PICK g \in FrameBytes, h \in FrameBytes :
              got[1] = g /\ got[2] = h /\ got = <<g>> \o <<h>>
        BY <4>1, TwoBytes
      <4>3. g \in Places /\ h \in Places /\ <<g>> \in Seq(Places) /\ <<h>> \in Seq(Places)
        BY FrameTypes, Numbers
      <4>4. Ahead = <<g>> \o (<<h>> \o Ahead') /\ <<h>> \o Ahead' \in Seq(Places)
        <5> DEFINE u == <<g>>
                   v == <<h>>
        <5>1. u \in Seq(Places) /\ v \in Seq(Places) /\ got = u \o v
          BY <4>2, <4>3
        <5> HIDE DEF u, v
        <5>2. (u \o v) \o Ahead' = u \o (v \o Ahead')
          BY <2>5, <5>1, Assoc
        <5>3. v \o Ahead' \in Seq(Places)
          BY <2>5, <5>1, Joined
        <5> QED BY <2>5, <5>1, <5>2, <5>3 DEF u, v
      <4>5. Breaks(<<g>> \o (<<h>> \o Ahead')) = Breaks(<<h>> \o Ahead') + One(~ Follows(g, h))
        BY <2>5, <4>3, BreaksFront
      <4>6. Breaks(<<b>> \o Ahead) = Breaks(Ahead) + One(~ Follows(b, g))
        BY <2>3, <4>3, <4>4, BreaksFront
      <4>7. Breaks(Ahead) = Breaks(<<h>> \o Ahead') + One(~ Follows(g, h))
        BY <4>4, <4>5
      <4>8. Breaks(<<h>> \o Ahead') \in Nat /\ Breaks(Ahead') <= Breaks(<<h>> \o Ahead')
        <5>1. Breaks(<<h>>) = 0 /\ Breaks(<<h>>) + Breaks(Ahead') <= Breaks(<<h>> \o Ahead')
          BY <2>5, <4>3, BreaksFront, BreaksSplit
        <5>2. Breaks(<<h>> \o Ahead') \in Nat
          BY <4>4, BreaksFinite
        <5> QED BY <2>5, <5>1, <5>2
      <4>9. CASE Follows(b, g) /\ Follows(g, h)
        <5>1. n = 14 /\ h.place = 4
          BY <2>3, <4>2, <4>9, LengthIs DEF n
        <5>2. pc' = "body" /\ pktLen' = 14
          BY <3>1, <3>3, <5>1
        <5>3. Breaks(<<b>> \o Ahead) = Breaks(<<h>> \o Ahead')
          BY <2>5, <4>6, <4>7, <4>8, <4>9 DEF One
        <5>4. Wrongs' + Breaks(<<h>> \o Ahead') <= gaps' + cuts'
          BY <1>1, <2>3, <2>4, <5>3
        <5>5. Tracked(h)'
          BY <2>1, <5>1, <5>2, <5>4 DEF Tracked, Paid
        <5> QED BY <5>5 DEF AccountInv
      <4>10. CASE ~ (Follows(b, g) /\ Follows(g, h))
        <5>1. Breaks(<<b>> \o Ahead) >= Breaks(<<h>> \o Ahead') + 1
          BY <2>5, <4>6, <4>7, <4>8, <4>10 DEF One
        <5>2. Wrongs' + (Breaks(Ahead') + 1) <= gaps' + cuts'
          BY <1>1, <2>3, <2>4, <2>5, <4>8, <5>1
        <5> QED BY <5>2 DEF AccountInv, Settled, Paid
      <4> QED BY <4>9, <4>10
    <3> QED BY <3>2, <3>3
  <2> QED BY <2>9, <2>10
<1> QED BY <1>3, <1>4

LEMMA BodyAccount ==
  ASSUME Inv, Inv', AccountInv, ReadBody
  PROVE  AccountInv'
<1>1. /\ pc = "body" /\ Ready /\ Taken(pktLen) /\ fd' = fd /\ pc' = "scan"
      /\ UNCHANGED <<sent, line, gaps, cuts, window>>
  BY DEF ReadBody, Short, LineAlone
<1>2. pktLen \in Nat /\ pktLen >= 14 /\ window = SYNC
  BY <1>1 DEF Inv, TypeInv, PortInv, MinLen
<1>3. PICK got \in Seq(FrameBytes) :
        /\ got = Got(pktLen) /\ tty = got \o tty'
        /\ Len(got) = IF Len(tty) < pktLen THEN Len(tty) ELSE pktLen
  BY <1>1, <1>2, ReadSplits DEF Inv, TypeInv
<1>4. /\ Len(got) # pktLen => published' = published
      /\ Len(got) = pktLen => published' = Append(published, got)
  BY <1>3 DEF ReadBody, Short, Complete
<1>5. CASE Settled /\ Len(got) # pktLen
  BY <1>1, <1>3, <1>4, <1>5, SettledKept
<1>6. CASE ~ Settled \/ Len(got) = pktLen
  <2>1. fd = "open"
    <3>1. CASE ~ Settled
      BY <3>1, AllArePaid
    <3>2. CASE Len(got) = pktLen
      <4>1. Len(tty) # 0
        BY <1>2, <1>3, <3>2
      <4> QED BY <4>1, EmptySeq DEF Inv, PortInv
    <3> QED BY <1>6, <3>1, <3>2
  <2>2. /\ Ahead = got \o Ahead' /\ Ahead' \in Seq(Places) /\ Breaks(Ahead') \in Nat
        /\ Breaks(Ahead') <= Breaks(Ahead) /\ Breaks(Ahead) \in Nat /\ got \in Seq(Places)
    BY <1>1, <1>3, ReadAhead
  <2>3. /\ gaps \in Nat /\ cuts \in Nat /\ Wrongs \in Nat
        /\ Wrongs + Breaks(Ahead) <= gaps + cuts
    BY Numbers, AllArePaid DEF Paid
  <2>4. /\ Wrongs' \in Nat /\ Wrongs' <= Wrongs + 1 /\ (Genuine(got) => Wrongs' = Wrongs)
        /\ (Len(got) # pktLen => Wrongs' = Wrongs)
    <3>1. CASE Len(got) # pktLen
      <4>1. Wrongs' = Wrongs
        BY <1>4, <3>1, WrongsKept
      <4> QED BY <4>1, <2>3
    <3>2. CASE Len(got) = pktLen
      <4> DEFINE S == Seq(FrameBytes)
      <4>1. published \in Seq(S) /\ got \in S /\ published' = Append(published, got)
        BY <1>4, <3>2 DEF Inv, TypeInv
      <4> HIDE DEF S
      <4> QED BY <4>1, <3>2, WrongGrows
    <3> QED BY <3>1, <3>2
  <2>5. Wrongs' + Breaks(Ahead') <= gaps' + cuts'
    <3>1. CASE Len(got) # pktLen
      BY <1>1, <2>2, <2>3, <2>4, <3>1
    <3>2. CASE Settled
      <4>1. Wrongs + (Breaks(Ahead) + 1) <= gaps + cuts
        BY <3>2 DEF Settled, Paid
      <4> QED BY <1>1, <2>2, <2>3, <2>4, <4>1
    <3>3. CASE ~ Settled /\ Len(got) = pktLen
      <4>1. PICK b \in FrameBytes : Tracked(b)
        BY <1>1, <3>3 DEF AccountInv, Clear
      <4>2. /\ b.place = 4 /\ pktLen = 14 /\ Wrongs + Breaks(<<b>> \o Ahead) <= gaps + cuts
            /\ b \in Places /\ Breaks(<<b>> \o Ahead) \in Nat
        BY <1>1, <4>1, Numbers DEF Tracked, Paid
      <4> DEFINE u == <<b>>
      <4>3. u \in Seq(Places)
        BY <4>2
      <4> HIDE DEF u
      <4>4. /\ u \o got \in Seq(Places) /\ (u \o got) \o Ahead' = u \o (got \o Ahead')
        BY <2>2, <4>3, Assoc, Joined
      <4>5. /\ Breaks(u \o got) + Breaks(Ahead') <= Breaks(u \o Ahead)
            /\ Breaks(u \o got) \in Nat
        BY <2>2, <4>4, BreaksSplit, BreaksFinite
      <4>6. Breaks(u \o got) = 0 => Wrongs' = Wrongs
        <5> SUFFICES ASSUME Breaks(u \o got) = 0 PROVE Wrongs' = Wrongs
          OBVIOUS
        <5>1. Genuine(got)
          BY <3>3, <4>2, BodyIsWhole DEF u
        <5> QED BY <5>1, <2>4
      <4>7. Wrongs' <= Wrongs + Breaks(u \o got)
        BY <2>3, <2>4, <4>5, <4>6
      <4>8. Wrongs + Breaks(u \o Ahead) <= gaps + cuts /\ Breaks(u \o Ahead) \in Nat
        BY <4>2 DEF u
      <4> QED BY <1>1, <2>2, <2>3, <2>4, <4>5, <4>7, <4>8, SMTT(40)
    <3> QED BY <3>1, <3>2, <3>3
  <2>6. window'[2] # 170
    BY <1>1, <1>2 DEF SYNC
  <2>7. Clear'
    BY <1>1, <2>1, <2>5, <2>6 DEF Clear, Paid
  <2> QED BY <2>7 DEF AccountInv
<1> QED BY <1>5, <1>6

LEMMA InitAccount == ASSUME Init PROVE AccountInv
<1>1. published = <<>> /\ gaps = 0 /\ cuts = 0 /\ fd = "open" /\ pc = "scan"
      /\ window = <<0, 0>> /\ tty = <<>> /\ line = <<>>
  BY DEF Init
<1>2. Wrongs = 0
  <2>1. Wrong = {}
    BY <1>1 DEF Wrong
  <2> QED BY <2>1, FS_EmptySet DEF Wrongs
<1>3. Breaks(Ahead) = 0
  <2>1. NextByte \in Places /\ <<>> \in Seq(Places) /\ <<NextByte>> \in Seq(Places)
    BY InitInv, AheadType, EmptySeq
  <2>2. Ahead = <<NextByte>>
    BY <1>1, <2>1, ConcatEmptySeq DEF Ahead, Coming
  <2> QED BY <2>1, <2>2, BreaksFront
<1>4. Clear
  BY <1>1, <1>2, <1>3 DEF Clear, Paid
<1> QED BY <1>4 DEF AccountInv

LEMMA Accounted == Spec => [](Inv /\ AccountInv)
<1>1. Init => Inv /\ AccountInv
  BY InitInv, InitAccount
<1>2. Inv /\ AccountInv /\ [Next]_vars => Inv' /\ AccountInv'
  <2> SUFFICES ASSUME Inv, AccountInv, [Next]_vars PROVE Inv' /\ AccountInv'
    OBVIOUS
  <2>1. CASE Next
    <3>1. Inv'
      BY <2>1, LineKeeps, BridgeKeeps DEF Next
    <3> QED
      BY <2>1, <3>1, LineAccount, CutAccount, PortAccount, ScanAccount, LengthAccount,
         BodyAccount DEF Next, Line, Bridge
  <2>2. CASE UNCHANGED vars
    <3>1. UNCHANGED <<sent, line, tty, plugged, fd, window, pc, pktLen, published, gaps, cuts>>
      BY <2>2 DEF vars, bridgeVars
    <3>2. Inv'
      BY <3>1 DEF Inv, TypeInv, PortInv
    <3>3. Wrongs' = Wrongs /\ Ahead' = Ahead
      BY <3>1, WrongsKept DEF Ahead, Coming, NextByte
    <3>4. AccountInv'
      BY <3>1, <3>3 DEF AccountInv, Settled, Clear, Tracked, Paid
    <3> QED BY <3>2, <3>4
  <2> QED BY <2>1, <2>2
<1> QED BY <1>1, <1>2, PTL DEF Spec

\* The bridge publishes no more wrong readings than there were losses of bytes
\* and cuts, whatever is sent and however the transfers split it: the marker,
\* length and body that ESP32Bridge_Main looks for make a reading that was
\* never sent only across a place where something was lost, and each such
\* place is crossed by one.
THEOREM WrongReadingsCounted == Spec => []WrongReadingsBounded
<1>1. Inv /\ AccountInv => WrongReadingsBounded
  <2> SUFFICES ASSUME Inv, AccountInv PROVE WrongReadingsBounded
    OBVIOUS
  <2>1. Wrongs + Breaks(Ahead) <= gaps + cuts
    BY AllArePaid DEF Paid
  <2>2. Wrongs <= gaps + cuts
    BY <2>1, Numbers
  <2> QED BY <2>2 DEF WrongReadingsBounded, Wrongs
<1> QED BY <1>1, Accounted, PTL

-----------------------------------------------------------------------------
(* Frames of which nothing was missed: their bytes are together in what is *)
(* still to be read, so that their heads are a frame's length apart and one *)
(* read takes in few of them.                                              *)

\* Every byte of a frame that is not in m is followed by the rest of the frame.
Whole(s, m) ==
  \A i, j \in 1 .. Len(s) :
    s[i].frame \notin m /\ i < j /\ s[i].place + (j - i) <= FrameLen =>
      s[j] = [frame |-> s[i].frame, place |-> s[i].place + (j - i)]

HeadsOf(bytes) == {bytes[i].frame : i \in {k \in 1 .. Len(bytes) : bytes[k].place = 1}}

LEMMA PlaceTypes ==
  ASSUME NEW p \in Places
  PROVE  p.frame \in Nat /\ p.place \in Nat /\ 1 <= p.place /\ p.place <= 18
<1>1. p.frame \in Nat /\ p.place \in 1 .. FrameLen
  BY DEF Places
<1>2. \A k \in 1 .. FrameLen : k \in Nat /\ 1 <= k /\ k <= 18
  BY DEF FrameLen
<1> QED BY <1>1, <1>2

LEMMA ByteTypes ==
  ASSUME NEW s \in Seq(Places), NEW i \in 1 .. Len(s)
  PROVE  s[i] \in Places /\ s[i].frame \in Nat /\ s[i].place \in Nat /\ 1 <= s[i].place
         /\ s[i].place <= 18
<1>1. s[i] \in Places
  BY ElementOfSeq
<1> QED BY <1>1, PlaceTypes

LEMMA Sooner ==
  ASSUME NEW p \in Nat, NEW i \in Nat, NEW j \in Nat, NEW k \in Nat,
         i < k, k <= j, p + (j - i) <= FrameLen
  PROVE  p + (k - i) <= FrameLen
  BY DEF FrameLen

LEMMA FramesAre ==
  ASSUME NEW s \in Seq(Places), NEW i \in 1 .. Len(s)
  PROVE  s[i].frame \in FramesOf(s)
<1>1. DOMAIN s = 1 .. Len(s)
  BY LenProperties
<1> QED BY <1>1 DEF FramesOf

LEMMA HeadsAreFrames ==
  ASSUME NEW s \in Seq(Places)
  PROVE  HeadsOf(s) \subseteq FramesOf(s)
<1>1. DOMAIN s = 1 .. Len(s)
  BY LenProperties
<1> QED BY <1>1 DEF FramesOf, HeadsOf

\* The bytes of a concatenation.
LEMMA JoinIs ==
  ASSUME NEW a \in Seq(Places), NEW b \in Seq(Places)
  PROVE  /\ a \o b \in Seq(Places) /\ Len(a) \in Nat /\ Len(b) \in Nat
         /\ Len(a \o b) = Len(a) + Len(b)
         /\ \A i \in 1 .. Len(a) : (a \o b)[i] = a[i] /\ i \in 1 .. Len(a \o b)
         /\ \A i \in 1 .. Len(b) : (a \o b)[Len(a) + i] = b[i] /\ Len(a) + i \in 1 .. Len(a \o b)
<1>1. Len(a) \in Nat /\ Len(b) \in Nat
  BY LenProperties
<1>2. /\ a \o b \in Seq(Places) /\ Len(a \o b) = Len(a) + Len(b)
      /\ \A i \in 1 .. Len(a) + Len(b) : (a \o b)[i] = IF i <= Len(a) THEN a[i] ELSE b[i - Len(a)]
  BY ConcatProperties
<1>3. ASSUME NEW i \in 1 .. Len(b)
      PROVE  (a \o b)[Len(a) + i] = b[i] /\ Len(a) + i \in 1 .. Len(a \o b)
  <2>1. /\ Len(a) + i \in 1 .. Len(a) + Len(b) /\ ~ (Len(a) + i <= Len(a)) /\ Len(a) + i - Len(a) = i
    BY <1>1
  <2> QED BY <1>2, <2>1
<1>4. ASSUME NEW i \in 1 .. Len(a)
      PROVE  (a \o b)[i] = a[i] /\ i \in 1 .. Len(a \o b)
  <2>1. i \in 1 .. Len(a) + Len(b) /\ i <= Len(a)
    BY <1>1
  <2> QED BY <1>2, <2>1
<1> QED BY <1>1, <1>2, <1>3, <1>4

\* A place in a concatenation is a place in one of its parts.
LEMMA JoinAt ==
  ASSUME NEW a \in Seq(Places), NEW b \in Seq(Places), NEW i \in 1 .. Len(a \o b)
  PROVE  \/ i \in 1 .. Len(a) /\ (a \o b)[i] = a[i]
         \/ i - Len(a) \in 1 .. Len(b) /\ (a \o b)[i] = b[i - Len(a)] /\ i > Len(a)
<1>1. /\ Len(a) \in Nat /\ Len(b) \in Nat /\ Len(a \o b) = Len(a) + Len(b)
  BY JoinIs
<1>2. \A k \in 1 .. Len(a) + Len(b) : (a \o b)[k] = IF k <= Len(a) THEN a[k] ELSE b[k - Len(a)]
  BY ConcatProperties
<1>3. i \in 1 .. Len(a) + Len(b)
  BY <1>1
<1>4. CASE i <= Len(a)
  <2>1. i \in 1 .. Len(a)
    BY <1>1, <1>3, <1>4
  <2> QED BY <1>2, <1>3, <1>4, <2>1
<1>5. CASE ~ (i <= Len(a))
  <2>1. i - Len(a) \in 1 .. Len(b) /\ i > Len(a)
    BY <1>1, <1>3, <1>5
  <2> QED BY <1>2, <1>3, <1>5, <2>1
<1> QED BY <1>4, <1>5

LEMMA FramesJoin ==
  ASSUME NEW a \in Seq(Places), NEW b \in Seq(Places)
  PROVE  /\ FramesOf(a \o b) = FramesOf(a) \cup FramesOf(b)
         /\ HeadsOf(a \o b) = HeadsOf(a) \cup HeadsOf(b)
<1> DEFINE s == a \o b
<1>1. /\ s \in Seq(Places)
      /\ \A i \in 1 .. Len(a) : s[i] = a[i] /\ i \in 1 .. Len(s)
      /\ \A i \in 1 .. Len(b) : s[Len(a) + i] = b[i] /\ Len(a) + i \in 1 .. Len(s)
  BY JoinIs
<1>2. \A i \in 1 .. Len(s) : \/ i \in 1 .. Len(a) /\ s[i] = a[i]
                             \/ i - Len(a) \in 1 .. Len(b) /\ s[i] = b[i - Len(a)]
  BY JoinAt
<1> HIDE DEF s
<1>3. DOMAIN a = 1 .. Len(a) /\ DOMAIN b = 1 .. Len(b) /\ DOMAIN s = 1 .. Len(s)
  BY <1>1, LenProperties
<1>4. FramesOf(s) = FramesOf(a) \cup FramesOf(b)
  <2>1. FramesOf(s) \subseteq FramesOf(a) \cup FramesOf(b)
    <3> SUFFICES ASSUME NEW i \in 1 .. Len(s)
                 PROVE  s[i].frame \in FramesOf(a) \cup FramesOf(b)
      BY <1>3 DEF FramesOf
    <3> QED BY <1>2, FramesAre
  <2>2. FramesOf(a) \subseteq FramesOf(s)
    <3> SUFFICES ASSUME NEW i \in 1 .. Len(a) PROVE a[i].frame \in FramesOf(s)
      BY <1>3 DEF FramesOf
    <3>1. s[i] = a[i] /\ i \in 1 .. Len(s)
      BY <1>1
    <3> QED BY <1>1, <3>1, FramesAre
  <2>3. FramesOf(b) \subseteq FramesOf(s)
    <3> SUFFICES ASSUME NEW i \in 1 .. Len(b) PROVE b[i].frame \in FramesOf(s)
      BY <1>3 DEF FramesOf
    <3>1. s[Len(a) + i] = b[i] /\ Len(a) + i \in 1 .. Len(s)
      BY <1>1
    <3> QED BY <1>1, <3>1, FramesAre
  <2> QED BY <2>1, <2>2, <2>3
<1>5. HeadsOf(s) = HeadsOf(a) \cup HeadsOf(b)
  <2>1. HeadsOf(s) \subseteq HeadsOf(a) \cup HeadsOf(b)
    BY <1>2 DEF HeadsOf
  <2>2. HeadsOf(a) \subseteq HeadsOf(s)
    BY <1>1 DEF HeadsOf
  <2>3. HeadsOf(b) \subseteq HeadsOf(s)
    <3> SUFFICES ASSUME NEW i \in 1 .. Len(b), b[i].place = 1 PROVE b[i].frame \in HeadsOf(s)
      BY DEF HeadsOf
    <3>1. s[Len(a) + i] = b[i] /\ Len(a) + i \in 1 .. Len(s)
      BY <1>1
    <3> QED BY <3>1 DEF HeadsOf
  <2> QED BY <2>1, <2>2, <2>3
<1> QED BY <1>4, <1>5 DEF s

LEMMA WholeGrows ==
  ASSUME NEW s, NEW m, NEW m2, m \subseteq m2, Whole(s, m)
  PROVE  Whole(s, m2)
  BY DEF Whole

\* What stays whole when bytes are taken from the front or the end.
LEMMA WholeParts ==
  ASSUME NEW a \in Seq(Places), NEW b \in Seq(Places), NEW m, Whole(a \o b, m)
  PROVE  Whole(a, m) /\ Whole(b, m)
<1> DEFINE s == a \o b
<1>1. /\ Len(a) \in Nat
      /\ \A i \in 1 .. Len(a) : s[i] = a[i] /\ i \in 1 .. Len(s)
      /\ \A i \in 1 .. Len(b) : s[Len(a) + i] = b[i] /\ Len(a) + i \in 1 .. Len(s)
  BY JoinIs
<1>2. \A i, j \in 1 .. Len(s) :
        s[i].frame \notin m /\ i < j /\ s[i].place + (j - i) <= FrameLen =>
          s[j] = [frame |-> s[i].frame, place |-> s[i].place + (j - i)]
  BY DEF Whole
<1> HIDE DEF s
<1>3. Whole(a, m)
  BY <1>1, <1>2 DEF Whole
<1>4. Whole(b, m)
  <2> SUFFICES ASSUME NEW i \in 1 .. Len(b), NEW j \in 1 .. Len(b),
                      b[i].frame \notin m, i < j, b[i].place + (j - i) <= FrameLen
               PROVE  b[j] = [frame |-> b[i].frame, place |-> b[i].place + (j - i)]
    BY DEF Whole
  <2>1. /\ s[Len(a) + i] = b[i] /\ Len(a) + i \in 1 .. Len(s)
        /\ s[Len(a) + j] = b[j] /\ Len(a) + j \in 1 .. Len(s)
    BY <1>1
  <2>2. Len(a) + i < Len(a) + j /\ (Len(a) + j) - (Len(a) + i) = j - i
    BY <1>1
  <2> QED BY <1>2, <2>1, <2>2
<1> QED BY <1>3, <1>4

\* What is lost in one place spoils no frame but those that it belongs to.
LEMMA WholeCut ==
  ASSUME NEW a \in Seq(Places), NEW b \in Seq(Places), NEW c \in Seq(Places),
         NEW m, NEW m2, m \subseteq m2, FramesOf(b) \subseteq m2, Whole(a \o (b \o c), m)
  PROVE  Whole(a \o c, m2)
<1> DEFINE s == a \o (b \o c)
           t == a \o c
           n == Len(a)
<1>0. b \o c \in Seq(Places) /\ Len(b \o c) = Len(b) + Len(c) /\ n \in Nat /\ Len(b) \in Nat
      /\ Len(c) \in Nat
  BY JoinIs
<1>1. /\ \A i \in 1 .. n : s[i] = a[i] /\ i \in 1 .. Len(s)
      /\ \A i \in 1 .. Len(b \o c) : s[n + i] = (b \o c)[i] /\ n + i \in 1 .. Len(s)
  BY <1>0, JoinIs
<1>2. /\ \A i \in 1 .. Len(b) : (b \o c)[i] = b[i] /\ i \in 1 .. Len(b \o c)
      /\ \A i \in 1 .. Len(c) : (b \o c)[Len(b) + i] = c[i] /\ Len(b) + i \in 1 .. Len(b \o c)
  BY JoinIs
<1>3. \A i \in 1 .. Len(t) : \/ i \in 1 .. n /\ t[i] = a[i]
                             \/ i - n \in 1 .. Len(c) /\ t[i] = c[i - n] /\ i > n
  BY JoinAt
<1>4. \A i, j \in 1 .. Len(s) :
        s[i].frame \notin m /\ i < j /\ s[i].place + (j - i) <= FrameLen =>
          s[j] = [frame |-> s[i].frame, place |-> s[i].place + (j - i)]
  BY DEF Whole
<1>5. Whole(a, m) /\ Whole(c, m)
  <2>1. Whole(a, m) /\ Whole(b \o c, m)
    BY <1>0, WholeParts
  <2> QED BY <2>1, WholeParts
<1>9. \A i \in 1 .. n : a[i].place \in Nat
  BY ByteTypes
<1>11. Len(t) \in Nat
  <2>1. t \in Seq(Places)
    BY Joined
  <2> HIDE DEF t
  <2> QED BY <2>1, LenProperties
<1> HIDE DEF s, t
<1> SUFFICES ASSUME NEW i \in 1 .. Len(t), NEW j \in 1 .. Len(t),
                    t[i].frame \notin m2, i < j, t[i].place + (j - i) <= FrameLen
             PROVE  t[j] = [frame |-> t[i].frame, place |-> t[i].place + (j - i)]
  BY DEF Whole, t
<1>10. i \in Nat /\ j \in Nat
  BY <1>11
<1>12. \A k \in 1 .. Len(t) : k \in 1 .. n => t[k] = a[k]
  <2> SUFFICES ASSUME NEW k \in 1 .. Len(t), k \in 1 .. n PROVE t[k] = a[k]
    OBVIOUS
  <2>1. ~ (k > n)
    BY <1>0
  <2> QED BY <1>3, <2>1
<1>13. \A k \in 1 .. Len(t) : k > n => k - n \in 1 .. Len(c) /\ t[k] = c[k - n]
  <2> SUFFICES ASSUME NEW k \in 1 .. Len(t), k > n
               PROVE  k - n \in 1 .. Len(c) /\ t[k] = c[k - n]
    OBVIOUS
  <2>1. ~ (k \in 1 .. n)
    BY <1>0
  <2> QED BY <1>3, <2>1
<1>6. CASE i \in 1 .. n /\ j \in 1 .. n
  <2>1. t[i] = a[i] /\ t[j] = a[j]
    BY <1>6, <1>12
  <2>2. a[i].frame \notin m /\ a[i].place + (j - i) <= FrameLen
    BY <2>1
  <2>3. a[j] = [frame |-> a[i].frame, place |-> a[i].place + (j - i)]
    BY <1>5, <1>6, <2>2 DEF Whole
  <2> QED BY <2>1, <2>3
<1>7. CASE i > n
  <2>1. /\ i - n \in 1 .. Len(c) /\ t[i] = c[i - n]
        /\ j - n \in 1 .. Len(c) /\ t[j] = c[j - n]
    <3>1. j > n
      BY <1>0, <1>7, <1>10
    <3> QED BY <1>7, <1>13, <3>1
  <2>2. i - n < j - n /\ (j - n) - (i - n) = j - i
    BY <1>0, <1>10
  <2> DEFINE k == i - n
             l == j - n
  <2>3. /\ k \in 1 .. Len(c) /\ l \in 1 .. Len(c) /\ k < l /\ l - k = j - i
        /\ t[i] = c[k] /\ t[j] = c[l]
    BY <2>1, <2>2
  <2> HIDE DEF k, l
  <2>4. c[k].frame \notin m /\ c[k].place + (l - k) <= FrameLen
    BY <2>3
  <2>5. c[l] = [frame |-> c[k].frame, place |-> c[k].place + (l - k)]
    BY <1>5, <2>3, <2>4 DEF Whole
  <2> QED BY <2>3, <2>5
<1>8. CASE i \in 1 .. n /\ ~ (j \in 1 .. n)
  <2>1. t[i] = a[i] /\ s[i] = a[i] /\ i \in 1 .. Len(s) /\ i <= n /\ i \in Nat
    BY <1>0, <1>1, <1>3, <1>8
  <2>2. j - n \in 1 .. Len(c) /\ t[j] = c[j - n] /\ j > n
    BY <1>3, <1>8
  <2>3. CASE Len(b) = 0
    <3>1. /\ s[n + (0 + (j - n))] = c[j - n] /\ n + (0 + (j - n)) \in 1 .. Len(s)
      BY <1>1, <1>2, <2>2, <2>3
    <3>2. n + (0 + (j - n)) = j
      BY <1>0, <2>2
    <3>3. s[j] = t[j] /\ j \in 1 .. Len(s)
      BY <3>1, <3>2, <2>2
    <3> QED BY <1>4, <2>1, <3>3
  <2>4. CASE Len(b) # 0
    <3>1. 1 \in 1 .. Len(b)
      BY <1>0, <2>4
    <3>2. s[n + 1] = b[1] /\ n + 1 \in 1 .. Len(s)
      BY <1>1, <1>2, <3>1
    <3>3. i < n + 1 /\ s[i].place + (n + 1 - i) <= FrameLen
      <4>1. s[i].place \in Nat
        BY <1>9, <2>1, <1>8
      <4>2. n + 1 <= j
        BY <1>0, <1>10, <2>2
      <4>3. s[i].place + (j - i) <= FrameLen
        BY <2>1
      <4>4. i < n + 1 /\ n + 1 \in Nat
        BY <1>0, <2>1
      <4> DEFINE p == s[i].place
                 k == n + 1
      <4>5. p \in Nat /\ k \in Nat /\ i < k /\ k <= j /\ p + (j - i) <= FrameLen
        BY <4>1, <4>2, <4>3, <4>4
      <4> HIDE DEF p, k
      <4>6. p + (k - i) <= FrameLen
        BY <1>10, <4>5, Sooner
      <4> QED BY <4>5, <4>6 DEF p, k
    <3>4. s[n + 1].frame = s[i].frame
      <4>1. s[i].frame \notin m
        BY <2>1
      <4>2. s[n + 1] = [frame |-> s[i].frame, place |-> s[i].place + (n + 1 - i)]
        <5> DEFINE k == n + 1
        <5>1. k \in 1 .. Len(s) /\ i < k /\ s[i].place + (k - i) <= FrameLen
          BY <3>2, <3>3
        <5> HIDE DEF k
        <5>2. s[k] = [frame |-> s[i].frame, place |-> s[i].place + (k - i)]
          BY <1>4, <2>1, <4>1, <5>1
        <5> QED BY <5>2 DEF k
      <4> QED BY <4>2
    <3>5. b[1].frame \in FramesOf(b)
      BY <3>1, FramesAre
    <3> QED BY <2>1, <3>2, <3>4, <3>5
  <2> QED BY <2>3, <2>4
<1> QED BY <1>0, <1>6, <1>7, <1>8

LEMMA WholeOne == ASSUME NEW n \in Places, NEW m PROVE Whole(<<n>>, m)
<1>1. Len(<<n>>) = 1
  OBVIOUS
<1>2. \A i, j \in 1 .. Len(<<n>>) : ~ (i < j)
  BY <1>1
<1> QED BY <1>2 DEF Whole

\* Where a frame starts, those before it are complete.
LEMMA WholeJoin ==
  ASSUME NEW a \in Seq(Places), NEW n \in Places, NEW c \in Seq(Places), NEW m,
         n.place = 1, Whole(a \o <<n>>, m), Whole(c, m)
  PROVE  Whole(a \o c, m)
<1> DEFINE e == <<n>>
           s == a \o e
           t == a \o c
           l == Len(a)
<1>0. e \in Seq(Places) /\ Len(e) = 1 /\ e[1] = n
  OBVIOUS
<1> HIDE DEF e
<1>1. /\ l \in Nat /\ Len(c) \in Nat /\ Len(t) \in Nat
      /\ \A i \in 1 .. l : s[i] = a[i] /\ i \in 1 .. Len(s)
      /\ \A i \in 1 .. Len(e) : s[l + i] = e[i] /\ l + i \in 1 .. Len(s)
  BY <1>0, JoinIs, LenProperties
<1>2. s[l + 1] = n /\ l + 1 \in 1 .. Len(s)
  BY <1>0, <1>1
<1>3. \A i \in 1 .. Len(t) : \/ i \in 1 .. l /\ t[i] = a[i]
                             \/ i - l \in 1 .. Len(c) /\ t[i] = c[i - l] /\ i > l
  BY JoinAt
<1>4. \A i, j \in 1 .. Len(s) :
        s[i].frame \notin m /\ i < j /\ s[i].place + (j - i) <= FrameLen =>
          s[j] = [frame |-> s[i].frame, place |-> s[i].place + (j - i)]
  BY DEF Whole, e
<1>5. Whole(a, m)
  BY <1>0, WholeParts DEF e
<1>6. \A i \in 1 .. l : a[i].place \in Nat /\ 1 <= a[i].place
  BY ByteTypes
<1> HIDE DEF s, t, l
<1> SUFFICES ASSUME NEW i \in 1 .. Len(t), NEW j \in 1 .. Len(t),
                    t[i].frame \notin m, i < j, t[i].place + (j - i) <= FrameLen
             PROVE  t[j] = [frame |-> t[i].frame, place |-> t[i].place + (j - i)]
  BY DEF Whole, t
<1>7. i \in Nat /\ j \in Nat
  BY <1>1
<1>8. CASE i \in 1 .. l /\ j \in 1 .. l
  <2>1. t[i] = a[i] /\ t[j] = a[j]
    BY <1>1, <1>3, <1>8
  <2>2. a[i].frame \notin m /\ a[i].place + (j - i) <= FrameLen
    BY <2>1
  <2>3. i \in 1 .. Len(a) /\ j \in 1 .. Len(a)
    BY <1>8 DEF l
  <2>4. a[j] = [frame |-> a[i].frame, place |-> a[i].place + (j - i)]
    BY <1>5, <2>2, <2>3 DEF Whole
  <2> QED BY <2>1, <2>4
<1>9. CASE i > l
  <2>1. /\ i - l \in 1 .. Len(c) /\ t[i] = c[i - l]
        /\ j - l \in 1 .. Len(c) /\ t[j] = c[j - l]
    BY <1>1, <1>3, <1>7, <1>9
  <2>2. i - l < j - l /\ (j - l) - (i - l) = j - i
    BY <1>1, <1>7
  <2> QED BY <2>1, <2>2 DEF Whole
<1>10. CASE i \in 1 .. l /\ ~ (j \in 1 .. l)
  <2>1. t[i] = a[i] /\ s[i] = a[i] /\ i \in 1 .. Len(s) /\ i <= l
    BY <1>1, <1>3, <1>10
  <2> DEFINE k == l + 1
             p == s[i].place
  <2>2. k \in Nat /\ i < k /\ k <= j
    BY <1>1, <1>3, <1>7, <1>10, <2>1
  <2>3. p \in Nat /\ 1 <= p /\ p + (j - i) <= FrameLen
    BY <1>6, <1>10, <2>1
  <2>4. k \in 1 .. Len(s) /\ s[k] = n
    BY <1>2
  <2> HIDE DEF k
  <2>5. s[i].place + (k - i) <= FrameLen
    <3> HIDE DEF p
    <3>1. p + (k - i) <= FrameLen
      BY <1>7, <2>2, <2>3, Sooner
    <3> QED BY <3>1 DEF p
  <2>6. s[k] = [frame |-> s[i].frame, place |-> s[i].place + (k - i)]
    BY <1>4, <2>1, <2>2, <2>4, <2>5
  <2>7. 1 = p + (k - i)
    BY <2>4, <2>6
  <2> HIDE DEF p
  <2> QED BY <1>7, <2>2, <2>3, <2>7
<1> QED BY <1>1, <1>7, <1>8, <1>9, <1>10

\* A frame is whole, whatever comes after it.
LEMMA WholeFrame ==
  ASSUME NEW f \in Frames, NEW n \in Places, NEW m
  PROVE  Whole(Bytes(f) \o <<n>>, m)
<1> DEFINE B == Bytes(f)
           e == <<n>>
           s == B \o e
<1>1. B \in Seq(Places) /\ Len(B) = 18 /\ \A p \in 1 .. 18 : B[p] = [frame |-> f, place |-> p]
  <2>1. FrameBytes \subseteq Places
    BY FrameTypes
  <2>2. B \in Seq(Places)
    BY <2>1, BytesType, SeqMonotonic
  <2> QED BY <2>2, BytesType DEF FrameLen
<1>2. e \in Seq(Places) /\ Len(e) = 1
  OBVIOUS
<1> HIDE DEF B, e
<1>3. /\ Len(s) = Len(B) + Len(e)
      /\ \A i \in 1 .. Len(B) : s[i] = B[i]
  <2>1. B \in Seq(Places) /\ e \in Seq(Places)
    BY <1>1, <1>2
  <2> QED BY <2>1, JoinIs, ZenonT(60)
<1> HIDE DEF s
<1>4. Len(s) = 19
  BY <1>1, <1>2, <1>3
<1>5. ASSUME NEW i \in 1 .. 18 PROVE s[i] = [frame |-> f, place |-> i]
  <2>1. i \in 1 .. Len(B)
    BY <1>1
  <2> QED BY <1>1, <1>3, <2>1
<1>6. ASSUME NEW i \in 1 .. 19, NEW j \in 1 .. 19,
             s[i].frame \notin m, i < j, s[i].place + (j - i) <= FrameLen
      PROVE  s[j] = [frame |-> s[i].frame, place |-> s[i].place + (j - i)]
  <2>1. i \in Nat /\ j \in Nat /\ 1 <= i /\ 1 <= j /\ i <= 18 /\ j <= 19
    BY <1>6
  <2>2. s[i] = [frame |-> f, place |-> i]
    BY <1>5, <2>1
  <2>3. s[i].frame = f /\ s[i].place = i
    BY <2>2
  <2>4. i + (j - i) = j /\ j <= 18
    BY <1>6, <2>1, <2>3 DEF FrameLen
  <2>5. s[j] = [frame |-> f, place |-> j]
    BY <1>5, <2>1, <2>4
  <2> QED BY <2>3, <2>4, <2>5
<1>7. Whole(s, m)
  BY <1>4, <1>6 DEF Whole
<1> QED BY <1>7 DEF s, B, e

\* Heads of frames that are whole are a frame's length apart.
LEMMA HeadsApart ==
  ASSUME NEW s \in Seq(Places), NEW m, Whole(s, m), NEW i \in 1 .. Len(s), NEW j \in 1 .. Len(s),
         s[i].frame \notin m, s[i].place = 1, s[j].place = 1, i < j
  PROVE  j - i >= 18
<1>1. i \in Nat /\ j \in Nat
  BY LenProperties
<1> SUFFICES ASSUME j - i <= 17 PROVE FALSE
  BY <1>1
<1>2. s[i].place + (j - i) <= FrameLen
  BY <1>1 DEF FrameLen
<1>3. s[j] = [frame |-> s[i].frame, place |-> s[i].place + (j - i)]
  BY <1>2 DEF Whole
<1>4. 1 = 1 + (j - i)
  BY <1>3
<1> QED BY <1>1, <1>4

LEMMA Blocks ==
  ASSUME NEW i \in Nat, NEW j \in Nat, 1 <= i, j - i >= 18
  PROVE  (i + 17) \div 18 < (j + 17) \div 18
  OBVIOUS

LEMMA BlockOf ==
  ASSUME NEW i \in Nat, NEW n \in Nat, 1 <= i, i <= n
  PROVE  (i + 17) \div 18 \in 1 .. (n + 17) \div 18 /\ (n + 17) \div 18 \in Nat
  OBVIOUS

\* How many of them a run of bytes holds.
LEMMA HeadsFew ==
  ASSUME NEW s \in Seq(Places), NEW m, Whole(s, m), NEW n \in Nat, Len(s) <= n
  PROVE  /\ IsFiniteSet(HeadsOf(s) \ m) /\ (n + 17) \div 18 \in Nat
         /\ Cardinality(HeadsOf(s) \ m) <= (n + 17) \div 18
<1> DEFINE H == HeadsOf(s) \ m
           At(f) == CHOOSE i \in 1 .. Len(s) : s[i].place = 1 /\ s[i].frame = f
           k == (n + 17) \div 18
           block == [f \in H |-> (At(f) + 17) \div 18]
<1>1. Len(s) \in Nat
  BY LenProperties
<1>2. \A f \in H : /\ At(f) \in 1 .. Len(s) /\ s[At(f)].place = 1 /\ s[At(f)].frame = f
  BY DEF HeadsOf
<1>3. \A f \in H : At(f) \in Nat /\ 1 <= At(f) /\ At(f) <= n
  BY <1>1, <1>2
<1> HIDE DEF At
<1>4. k \in Nat
  OBVIOUS
<1>5. ASSUME NEW f \in H PROVE (At(f) + 17) \div 18 \in 1 .. k
  <2>1. At(f) \in Nat /\ 1 <= At(f) /\ At(f) <= n
    BY <1>3
  <2> QED BY <2>1, BlockOf
<1>6. ASSUME NEW f \in H, NEW g \in H, At(f) < At(g)
      PROVE  block[f] # block[g]
  <2>1. /\ At(f) \in Nat /\ 1 <= At(f) /\ At(g) \in Nat
    BY <1>3
  <2>2. At(g) - At(f) >= 18
    <3>1. /\ At(f) \in 1 .. Len(s) /\ At(g) \in 1 .. Len(s) /\ s[At(f)].frame \notin m
          /\ s[At(f)].place = 1 /\ s[At(g)].place = 1
      BY <1>2
    <3> QED BY <3>1, <1>6, HeadsApart
  <2>3. (At(f) + 17) \div 18 < (At(g) + 17) \div 18
    BY <2>1, <2>2, Blocks
  <2>4. block[f] \in Nat /\ block[g] \in Nat /\ block[f] < block[g]
    BY <1>4, <1>5, <2>3
  <2> QED BY <2>4
<1>7. \A f, g \in H : block[f] = block[g] => f = g
  <2> SUFFICES ASSUME NEW f \in H, NEW g \in H, block[f] = block[g] PROVE f = g
    OBVIOUS
  <2>1. ~ (At(f) < At(g)) /\ ~ (At(g) < At(f))
    BY <1>6
  <2>2. At(f) = At(g)
    BY <1>3, <2>1
  <2> QED BY <1>2, <2>2
<1>8. block \in [H -> 1 .. k]
  BY <1>5
<1> HIDE DEF block, H, k
<1>9. block \in Injection(H, 1 .. k)
  BY <1>7, <1>8 DEF Injection, IsInjective
<1>10. IsFiniteSet(1 .. k) /\ Cardinality(1 .. k) = k
  BY <1>4, FS_Interval
<1>11. IsFiniteSet(H) /\ Cardinality(H) <= Cardinality(1 .. k)
  BY <1>9, <1>10, FS_Injection
<1> QED BY <1>4, <1>10, <1>11 DEF H, k

Within(lost, s, x) == Cardinality(lost) <= s + TakenIn * x

LEMMA TakenInType ==
  TakenIn \in Nat /\ (TtyDepth >= 1 => TakenIn >= 1)
  BY SerialAssumption DEF TakenIn, BufLen, FrameLen

\* Heads of frames that are whole, among the bytes of one read.
LEMMA HeadsOfRead ==
  ASSUME NEW s \in Seq(Places), NEW m, Whole(s, m), Len(s) <= TtyDepth, Len(s) <= BufLen
  PROVE  IsFiniteSet(HeadsOf(s) \ m) /\ Cardinality(HeadsOf(s) \ m) <= TakenIn
<1> DEFINE n == IF TtyDepth < BufLen THEN TtyDepth ELSE BufLen
<1>1. n \in Nat /\ Len(s) <= n
  BY SerialAssumption DEF BufLen
<1>2. TakenIn = (n + 17) \div 18
  BY <1>1 DEF TakenIn, FrameLen, BufLen
<1> HIDE DEF n
<1> QED BY <1>1, <1>2, HeadsFew

LEMMA Rooms ==
  ASSUME NEW T \in Nat, NEW x \in Int, NEW y \in Int, x <= y
  PROVE  T * x \in Int /\ T * y \in Int /\ T * x <= T * y /\ (x + 1 <= y => T * x + T <= T * y)
<1>1. PICK d \in Nat : y = x + d
  <2>1. y - x \in Nat /\ y = x + (y - x)
    OBVIOUS
  <2> QED BY <2>1
<1>2. T * y = T * x + T * d /\ T * x \in Int /\ T * d \in Nat
  BY <1>1, Z3
<1>3. x + 1 <= y => T * d >= T
  <2> SUFFICES ASSUME x + 1 <= y PROVE T * d >= T
    OBVIOUS
  <2>1. d >= 1
    BY <1>1
  <2>2. PICK e \in Nat : d = e + 1
    <3>1. d - 1 \in Nat /\ d = (d - 1) + 1
      BY <2>1
    <3> QED BY <3>1
  <2>3. T * d = T * e + T /\ T * e \in Nat
    BY <2>2, Z3
  <2> QED BY <2>3
<1> QED BY <1>2, <1>3

\* What more can be lost, against what more is allowed for.
LEMMA WithinMore ==
  ASSUME NEW lost, IsFiniteSet(lost), NEW lost2, NEW extra, IsFiniteSet(extra),
         lost2 \subseteq lost \cup extra,
         NEW s \in Nat, NEW s2 \in Nat, NEW x \in Int, NEW x2 \in Int, Within(lost, s, x),
         \/ s + Cardinality(extra) <= s2 /\ x <= x2
         \/ s + Cardinality(extra) <= s2 + TakenIn /\ x + 1 <= x2
  PROVE  Within(lost2, s2, x2)
<1>1. /\ Cardinality(lost) \in Nat /\ Cardinality(extra) \in Nat /\ Cardinality(lost2) \in Nat
      /\ Cardinality(lost2) <= Cardinality(lost) + Cardinality(extra)
  <2>1. IsFiniteSet(lost \cup extra)
        /\ Cardinality(lost \cup extra)
             = Cardinality(lost) + Cardinality(extra) - Cardinality(lost \cap extra)
    BY FS_Union
  <2>2. IsFiniteSet(lost2) /\ Cardinality(lost2) <= Cardinality(lost \cup extra)
    BY <2>1, FS_Subset
  <2>3. IsFiniteSet(lost \cap extra)
    BY FS_Subset
  <2>4. /\ Cardinality(lost) \in Nat /\ Cardinality(extra) \in Nat /\ Cardinality(lost2) \in Nat
        /\ Cardinality(lost \cap extra) \in Nat
    BY <2>2, <2>3, FS_CardinalityType
  <2> QED BY <2>1, <2>2, <2>4
<1>2. TakenIn \in Nat /\ x <= x2
  BY TakenInType
<1>3. /\ TakenIn * x \in Int /\ TakenIn * x2 \in Int /\ TakenIn * x <= TakenIn * x2
      /\ (x + 1 <= x2 => TakenIn * x + TakenIn <= TakenIn * x2)
  BY <1>2, Rooms
<1> DEFINE p == TakenIn * x
           q == TakenIn * x2
<1>4. Cardinality(lost) <= s + p
  BY DEF Within
<1>5. p \in Int /\ q \in Int /\ p <= q /\ (x + 1 <= x2 => p + TakenIn <= q)
  BY <1>3
<1> HIDE DEF p, q
<1>6. Cardinality(lost2) <= s2 + q
  BY <1>1, <1>2, <1>4, <1>5
<1> QED BY <1>6 DEF Within, q

LEMMA WithinAsWell ==
  ASSUME NEW lost, IsFiniteSet(lost), NEW lost2, lost2 \subseteq lost,
         NEW s \in Nat, NEW s2 \in Nat, NEW x \in Int, NEW x2 \in Int, Within(lost, s, x),
         s <= s2, x <= x2
  PROVE  Within(lost2, s2, x2)
<1>1. IsFiniteSet({}) /\ Cardinality({}) = 0 /\ lost2 \subseteq lost \cup {}
  BY FS_EmptySet
<1>2. s + Cardinality({}) <= s2
  BY <1>1
<1> QED BY <1>1, <1>2, WithinMore, ZenonT(60)

\* One TakenIn more is allowed for, in return for a break or a cut.
LEMMA WithinOneMore ==
  ASSUME NEW lost, IsFiniteSet(lost), NEW lost2, NEW extra, IsFiniteSet(extra),
         lost2 \subseteq lost \cup extra,
         NEW s \in Nat, NEW s2 \in Nat, NEW x \in Int, NEW x2 \in Int, Within(lost, s, x),
         s + Cardinality(extra) <= s2 + TakenIn, x + 1 <= x2
  PROVE  Within(lost2, s2, x2)
  BY WithinMore, ZenonT(60)

LEMMA OneFrame ==
  ASSUME NEW f
  PROVE  IsFiniteSet({f}) /\ Cardinality({f}) = 1
  BY FS_Singleton

-----------------------------------------------------------------------------
(* How many frames can be gone: written, with no byte missed, yet neither  *)
(* published nor with their head still on the way.  Each is accounted for by *)
(* a short read, or one of TakenIn by a break that has been read.  As for  *)
(* wrong readings there is at most one break in hand: one to spare; or     *)
(* nothing of a marker has been seen; or the reader is on the track of one *)
(* byte, whose own frame, as long as that is in hand, is not gone yet.     *)

CountInv == shorts \in Nat /\ (pc = "body" => pktLen <= BufLen)

StreamInv == Whole(Ahead, missed)

Gone == (1 .. sent) \ (((missed \cup Published) \cup HeadsOf(tty)) \cup HeadsOf(line))

Afford(lost, n) == Within(lost, shorts, gaps + cuts - n)

Spare == Afford(Gone, Breaks(Ahead) + 1)
Idle == fd = "open" /\ pc = "scan" /\ window[2] # 170 /\ Afford(Gone, Breaks(Ahead))

InHand(b) == IF pc = "scan" /\ b.place # 1 THEN {} ELSE {b.frame}
OnTrack(b) ==
  /\ fd = "open" /\ TtyDepth >= 1
  /\ pc = "scan" => window[2] = Value(b)
  /\ pc = "length" => b.place = 2
  /\ pc = "body" => b.place = 4 /\ pktLen = 14
  /\ Whole(<<b>> \o Ahead, missed)
  /\ Afford(Gone \ InHand(b), Breaks(<<b>> \o Ahead))

FramesInv == Spare \/ Idle \/ \E b \in FrameBytes : OnTrack(b)

IInv == Inv /\ CountInv /\ StreamInv /\ FramesInv

LEMMA GoneFinite ==
  ASSUME Inv
  PROVE  IsFiniteSet(Gone) /\ \A X : IsFiniteSet(Gone \ X)
<1>1. IsFiniteSet(1 .. sent)
  <2>1. sent \in Int
    BY FrameTypes DEF Inv, TypeInv
  <2> QED BY <2>1, FS_Interval
<1>2. IsFiniteSet(Gone)
  BY <1>1, FS_Subset DEF Gone
<1> QED BY <1>2, FS_Subset

\* What goes on ahead of the byte that is followed.
LEMMA NextOfFrame ==
  ASSUME Inv, NEW b \in FrameBytes, Whole(<<b>> \o Ahead, missed),
         b.frame \notin missed, b.frame <= sent, b.place < 18
  PROVE  b.frame \in FramesOf(tty) \cup FramesOf(line)
<1>1. /\ b \in Places /\ Ahead \in Seq(Places) /\ b.frame \in Nat /\ b.place \in Nat
      /\ tty \in Seq(Places) /\ line \in Seq(Places) /\ <<NextByte>> \in Seq(Places)
      /\ Coming \in Seq(Places)
  <2>1. b.frame \in Nat /\ b.place \in 1 .. FrameLen
    BY FrameTypes DEF FrameBytes
  <2>2. b.place \in Nat
    BY <2>1 DEF FrameLen
  <2> QED BY <2>1, <2>2, AheadType, FrameTypes
<1> DEFINE s == <<b>> \o Ahead
<1>2. s[1] = b /\ Len(s) = Len(Ahead) + 1 /\ \A i \in 1 .. Len(Ahead) : s[i + 1] = Ahead[i]
  BY <1>1, OneInFront
<1>3. /\ Len(Coming) = Len(line) + 1 /\ Len(Ahead) = Len(tty) + Len(Coming)
      /\ Len(line) \in Nat /\ Len(tty) \in Nat
  <2>1. Len(<<NextByte>>) = 1
    OBVIOUS
  <2> DEFINE e == <<NextByte>>
  <2>2. e \in Seq(Places) /\ Coming = line \o e /\ Len(e) = 1
    BY <1>1, <2>1 DEF Coming
  <2> HIDE DEF e
  <2>3. Len(line \o e) = Len(line) + Len(e) /\ Len(tty \o Coming) = Len(tty) + Len(Coming)
        /\ Len(line) \in Nat /\ Len(tty) \in Nat
    BY <1>1, <2>2, JoinIs
  <2> QED BY <2>2, <2>3 DEF Ahead
<1>4. 1 \in 1 .. Len(Ahead) /\ 1 \in 1 .. Len(s) /\ 2 \in 1 .. Len(s)
  BY <1>2, <1>3
<1>5. s[1 + 1] = Ahead[1] /\ 1 + 1 = 2
  BY <1>2, <1>4
<1>6. Whole(s, missed)
  OBVIOUS
<1> HIDE DEF s
<1>7. s[2] = [frame |-> s[1].frame, place |-> s[1].place + (2 - 1)]
  <2>1. s[1].frame \notin missed /\ 1 < 2 /\ s[1].place + (2 - 1) <= FrameLen
    BY <1>1, <1>2 DEF FrameLen
  <2> QED BY <1>4, <1>6, <2>1 DEF Whole
<1>8. Ahead[1].frame = b.frame
  BY <1>2, <1>5, <1>7
<1>9. CASE tty # <<>>
  <2>1. 1 \in 1 .. Len(tty)
    BY <1>1, <1>3, <1>9, EmptySeq
  <2>2. Ahead[1] = tty[1]
    BY <1>1, <2>1, JoinIs DEF Ahead
  <2> QED BY <1>1, <1>8, <2>1, <2>2, FramesAre
<1>10. CASE tty = <<>> /\ line # <<>>
  <2>1. 1 \in 1 .. Len(line)
    BY <1>1, <1>3, <1>10, EmptySeq
  <2>2. Ahead = Coming
    BY <1>1, <1>10, ConcatEmptySeq DEF Ahead
  <2>3. Coming[1] = line[1]
    <3> DEFINE e == <<NextByte>>
    <3>1. e \in Seq(Places)
      BY <1>1
    <3> HIDE DEF e
    <3>2. (line \o e)[1] = line[1]
      BY <1>1, <2>1, <3>1, JoinIs
    <3> QED BY <3>2 DEF Coming, e
  <2> QED BY <1>1, <1>8, <2>1, <2>2, <2>3, FramesAre
<1>11. CASE tty = <<>> /\ line = <<>>
  <2>1. Ahead = <<NextByte>>
    BY <1>1, <1>11, ConcatEmptySeq DEF Ahead, Coming
  <2>2. Ahead[1].frame = sent + 1
    BY <2>1 DEF NextByte
  <2>3. sent \in Nat
    BY FrameTypes DEF Inv, TypeInv
  <2> QED BY <1>1, <1>8, <2>2, <2>3
<1> QED BY <1>9, <1>10, <1>11

-----------------------------------------------------------------------------
(* What the line does to the frames.                                       *)

\* What a transfer or a loss does: a goes to the driver, b is lost.
LEMMA LineCuts ==
  ASSUME Inv, Inv', Deliver \/ Lose
  PROVE  \E a, b \in Seq(Places) :
           /\ line = a \o (b \o line') /\ tty' = tty \o a
           /\ missed' = missed \cup FramesOf(b)
<1>1. line \in Seq(Places) /\ tty \in Seq(Places) /\ line' \in Seq(Places) /\ Len(line) \in Nat
  BY AheadType, AheadTypeNext, LenProperties
<1>2. CASE Deliver
  <2> DEFINE room == IF fd = "open" THEN TtyDepth - Len(tty) ELSE 0
             kept(k) == IF k <= room THEN k ELSE room
  <2>1. PICK k \in 1 .. Len(line) :
          /\ tty' = tty \o SubSeq(line, 1, kept(k))
          /\ line' = SubSeq(line, k + 1, Len(line))
          /\ missed' = missed \cup FramesOf(SubSeq(line, kept(k) + 1, k))
    BY <1>2, Zenon DEF Deliver
  <2>2. Len(tty) \in Nat /\ Len(tty) <= TtyDepth /\ TtyDepth \in Nat
    BY LenProperties, SerialAssumption DEF Inv, TypeInv, PortInv
  <2>3. kept(k) \in Nat /\ kept(k) <= k
    BY <2>2
  <2> HIDE DEF kept
  <2>4. PICK n \in Nat : n = kept(k) /\ n <= k
    BY <2>3
  <2> DEFINE a == SubSeq(line, 1, n)
             b == SubSeq(line, n + 1, k)
  <2>5. a \in Seq(Places) /\ b \in Seq(Places)
    BY <1>1, <2>4, PlacesPart
  <2>6. line = a \o (b \o line')
    <3>1. SubSeq(line, 1, n) \o SubSeq(line, n + 1, Len(line)) = SubSeq(line, 1, Len(line))
      <4> DEFINE all == Len(line)
      <4>1. 1 \in Nat /\ 1 <= 1 /\ 1 <= n + 1 /\ n <= all /\ all <= Len(line) /\ all \in Nat
        BY <1>1, <2>4
      <4> HIDE DEF all
      <4>2. SubSeq(line, 1, n) \o SubSeq(line, n + 1, all) = SubSeq(line, 1, all)
        BY <4>1, <1>1, SplitAt
      <4> QED BY <4>2 DEF all
    <3>2. SubSeq(line, n + 1, k) \o SubSeq(line, k + 1, Len(line)) = SubSeq(line, n + 1, Len(line))
      <4>1. /\ n + 1 \in Nat /\ 1 <= n + 1 /\ n + 1 <= k + 1 /\ k \in Nat
            /\ k <= Len(line) /\ Len(line) <= Len(line)
        BY <1>1, <2>4
      <4> QED BY <4>1, <1>1, SplitAt
    <3>3. SubSeq(line, 1, Len(line)) = line
      BY <1>1, SubSeqFull
    <3> QED BY <3>1, <3>2, <3>3, <2>1
  <2>7. tty' = tty \o a /\ missed' = missed \cup FramesOf(b)
    BY <2>1, <2>4
  <2> HIDE DEF a, b
  <2> QED BY <2>5, <2>6, <2>7
<1>3. CASE Lose
  <2>1. line # <<>> /\ line' = Tail(line) /\ missed' = missed \cup {Head(line).frame} /\ tty' = tty
    BY <1>3 DEF Lose
  <2>2. PICK h \in Places : h = Head(line) /\ line = <<h>> \o line' /\ <<h>> \in Seq(Places)
    BY <1>1, <2>1, HeadAndTail
  <2> DEFINE b == <<h>>
             a == <<>>
  <2>3. a \in Seq(Places) /\ b \in Seq(Places)
    BY <2>2, EmptySeq
  <2>4. FramesOf(b) = {h.frame}
    BY DEF FramesOf
  <2>5. missed' = missed \cup FramesOf(b)
    BY <2>1, <2>2, <2>4
  <2>6. line = b \o line'
    BY <2>2
  <2> HIDE DEF b
  <2>7. tty' = tty \o a /\ line = a \o (b \o line')
    <3>1. b \o line' \in Seq(Places)
      BY <1>1, <2>3, Joined
    <3> QED BY <1>1, <2>1, <2>6, <3>1, ConcatEmptySeq
  <2> QED BY <2>3, <2>5, <2>7
<1> QED BY <1>2, <1>3

LEMMA GoneOnLine ==
  ASSUME Inv, Inv', Send \/ Deliver \/ Lose
  PROVE  Gone' \subseteq Gone
<1>1. UNCHANGED published
  BY DEF Send, Deliver, Lose, bridgeVars
<1>2. Published' = Published
  BY <1>1 DEF Published
<1>3. CASE Send
  <2>1. /\ line = <<>> /\ sent' = sent + 1 /\ UNCHANGED tty
        /\ line' = IF plugged THEN Bytes(sent + 1) ELSE <<>>
        /\ missed' = IF plugged THEN missed ELSE missed \cup {sent + 1}
    BY <1>3 DEF Send
  <2>2. PICK f \in Frames : f = sent + 1 /\ f \in Nat /\ f - 1 = sent /\ sent \in Nat
    BY <1>3, FrameTypes DEF Send, Inv, TypeInv
  <2>3. HeadsOf(line) = {}
    <3>1. Len(line) = 0
      BY <2>1
    <3> QED BY <3>1 DEF HeadsOf
  <2>4. f \in missed' \cup HeadsOf(line')
    <3>1. CASE plugged
      <4>1. line' = Bytes(f) /\ Len(Bytes(f)) = 18 /\ Bytes(f)[1] = [frame |-> f, place |-> 1]
        <5>1. line' = Bytes(f)
          BY <2>1, <2>2, <3>1
        <5>2. Len(Bytes(f)) = 18 /\ \A p \in 1 .. 18 : Bytes(f)[p] = [frame |-> f, place |-> p]
          BY BytesType DEF FrameLen
        <5> QED BY <5>1, <5>2
      <4>2. 1 \in 1 .. Len(line') /\ line'[1].place = 1 /\ line'[1].frame = f
        BY <4>1
      <4> QED BY <4>2 DEF HeadsOf
    <3>2. CASE ~ plugged
      BY <2>1, <2>2, <3>2
    <3> QED BY <3>1, <3>2
  <2>5. missed \subseteq missed'
    BY <2>1
  <2>6. \A x : x \in 1 .. sent' /\ x # f => x \in 1 .. sent
    BY <2>1, <2>2
  <2>7. Gone' = (1 .. sent') \ (((missed' \cup Published) \cup HeadsOf(tty)) \cup HeadsOf(line'))
    BY <1>2, <2>1 DEF Gone
  <2> QED BY <2>3, <2>4, <2>5, <2>6, <2>7 DEF Gone
<1>4. CASE Deliver \/ Lose
  <2>1. PICK a \in Seq(Places), b \in Seq(Places) :
          /\ line = a \o (b \o line') /\ tty' = tty \o a
          /\ missed' = missed \cup FramesOf(b)
    BY <1>4, LineCuts
  <2>2. sent' = sent
    BY <1>4 DEF Deliver, Lose
  <2>3. tty \in Seq(Places) /\ line' \in Seq(Places) /\ b \o line' \in Seq(Places)
    BY <2>1, AheadType, AheadTypeNext, Joined
  <2>4. /\ HeadsOf(line) = HeadsOf(a) \cup (HeadsOf(b) \cup HeadsOf(line'))
        /\ HeadsOf(tty') = HeadsOf(tty) \cup HeadsOf(a) /\ HeadsOf(b) \subseteq FramesOf(b)
    <3>1. HeadsOf(a \o (b \o line')) = HeadsOf(a) \cup HeadsOf(b \o line')
      BY <2>3, FramesJoin
    <3>2. HeadsOf(b \o line') = HeadsOf(b) \cup HeadsOf(line')
      BY <2>3, FramesJoin
    <3>3. HeadsOf(tty \o a) = HeadsOf(tty) \cup HeadsOf(a)
      BY <2>3, FramesJoin
    <3> QED BY <2>1, <3>1, <3>2, <3>3, HeadsAreFrames
  <2>5. Gone' = (1 .. sent) \ (((missed' \cup Published) \cup HeadsOf(tty')) \cup HeadsOf(line'))
    BY <1>2, <2>2 DEF Gone
  <2> QED BY <2>1, <2>4, <2>5 DEF Gone
<1> QED BY <1>3, <1>4

\* (Facts about several sequences are given as one, so that each step sees
\* those that it is about.)
AllStreams(x, t, a, b, l, e) ==
  /\ x \in Seq(Places) /\ t \in Seq(Places) /\ a \in Seq(Places)
  /\ b \in Seq(Places) /\ l \in Seq(Places) /\ e \in Seq(Places)

\* A line of a, b and l behind x and t, when b is lost from it.
LEMMA RegroupCut ==
  ASSUME NEW x, NEW t, NEW a, NEW b, NEW l, NEW e, AllStreams(x, t, a, b, l, e)
  PROVE  /\ x \o (t \o ((a \o (b \o l)) \o e)) = ((x \o t) \o a) \o (b \o (l \o e))
         /\ x \o ((t \o a) \o (l \o e)) = ((x \o t) \o a) \o (l \o e)
         /\ (x \o t) \o a \in Seq(Places) /\ l \o e \in Seq(Places)
<1>1. (b \o l) \o e = b \o (l \o e)
  <2>1. b \in Seq(Places) /\ l \in Seq(Places) /\ e \in Seq(Places)
    BY DEF AllStreams
  <2> QED BY <2>1, Assoc
<1>2. PICK k : k = b \o l /\ k \in Seq(Places)
  BY Joined DEF AllStreams
<1>3. (a \o k) \o e = a \o (k \o e)
  <2>1. a \in Seq(Places) /\ k \in Seq(Places) /\ e \in Seq(Places)
    BY <1>2 DEF AllStreams
  <2> QED BY <2>1, Assoc
<1>4. PICK c : c = l \o e /\ c \in Seq(Places)
  BY Joined DEF AllStreams
<1>5. PICK j : j = b \o c /\ j \in Seq(Places)
  BY <1>4, Joined DEF AllStreams
<1>6. PICK w : w = a \o j /\ w \in Seq(Places)
  BY <1>5, Joined DEF AllStreams
<1>7. PICK q : q = x \o t /\ q \in Seq(Places)
  BY Joined DEF AllStreams
<1>8. PICK h : h = q \o a /\ h \in Seq(Places)
  BY <1>7, Joined DEF AllStreams
<1>9. PICK d : d = t \o a /\ d \in Seq(Places)
  BY Joined DEF AllStreams
<1>10. (x \o t) \o w = x \o (t \o w)
  <2>1. x \in Seq(Places) /\ t \in Seq(Places) /\ w \in Seq(Places)
    BY <1>6 DEF AllStreams
  <2> QED BY <2>1, Assoc
<1>11. (q \o a) \o j = q \o (a \o j)
  <2>1. q \in Seq(Places) /\ a \in Seq(Places) /\ j \in Seq(Places)
    BY <1>5, <1>7 DEF AllStreams
  <2> QED BY <2>1, Assoc
<1>12. (x \o d) \o c = x \o (d \o c)
  <2>1. x \in Seq(Places) /\ d \in Seq(Places) /\ c \in Seq(Places)
    BY <1>4, <1>9 DEF AllStreams
  <2> QED BY <2>1, Assoc
<1>13. (x \o t) \o a = x \o (t \o a)
  <2>1. x \in Seq(Places) /\ t \in Seq(Places) /\ a \in Seq(Places)
    BY DEF AllStreams
  <2> QED BY <2>1, Assoc
<1>14. (a \o (b \o l)) \o e = w
  BY <1>1, <1>2, <1>3, <1>4, <1>5, <1>6, Zenon
<1>15. x \o (t \o ((a \o (b \o l)) \o e)) = h \o j
  BY <1>6, <1>7, <1>8, <1>10, <1>11, <1>14, Zenon
<1>16. x \o ((t \o a) \o c) = h \o c
  BY <1>7, <1>8, <1>9, <1>12, <1>13, Zenon
<1> QED BY <1>4, <1>5, <1>7, <1>8, <1>15, <1>16, Zenon

\* The stream ahead stays whole, behind whatever has been read of it.
LEMMA WholeOnLine ==
  ASSUME Inv, Inv', Send \/ Deliver \/ Lose, NEW P \in Seq(Places), fd = "open" \/ P = <<>>,
         Whole(P \o Ahead, missed)
  PROVE  Whole(P \o Ahead', missed')
<1>0. /\ tty \in Seq(Places) /\ line \in Seq(Places) /\ <<NextByte>> \in Seq(Places)
      /\ tty' \in Seq(Places) /\ line' \in Seq(Places) /\ <<NextByte'>> \in Seq(Places)
      /\ Coming \in Seq(Places) /\ Coming' \in Seq(Places)
      /\ NextByte \in Places /\ NextByte' \in Places
  BY AheadType, AheadTypeNext
<1>1. CASE Send
  <2>1. /\ line = <<>> /\ sent' = sent + 1 /\ UNCHANGED tty
        /\ line' = IF plugged THEN Bytes(sent + 1) ELSE <<>>
        /\ missed \subseteq missed'
    BY <1>1 DEF Send
  <2>2. PICK e \in Places : e = NextByte /\ e.place = 1
    BY <1>0 DEF NextByte
  <2>3. Coming = <<e>>
    BY <1>0, <2>1, <2>2, ConcatEmptySeq DEF Coming
  <2>4. PICK c \in Seq(Places) : c = Coming'
    BY <1>0
  <2>5. PICK A \in Seq(Places) : A = P \o tty
    BY <1>0, Joined
  <2>6. P \o Ahead = A \o <<e>> /\ P \o Ahead' = A \o c
    <3>1. (P \o tty) \o Coming = P \o (tty \o Coming)
      <4>1. tty \in Seq(Places) /\ Coming \in Seq(Places)
        BY <1>0
      <4> QED BY <4>1, Assoc, ZenonT(60)
    <3>2. (P \o tty) \o c = P \o (tty \o c)
      <4>1. tty \in Seq(Places)
        BY <1>0
      <4> QED BY <4>1, Assoc, ZenonT(60)
    <3> QED BY <2>1, <2>3, <2>4, <2>5, <3>1, <3>2 DEF Ahead
  <2>7. CASE plugged
    <3>1. PICK f \in Frames : f = sent + 1
      BY <1>1, FrameTypes DEF Send, Inv, TypeInv
    <3>2. PICK n \in Places : n = NextByte'
      BY <1>0
    <3>3. c = Bytes(f) \o <<n>>
      BY <2>1, <2>4, <2>7, <3>1, <3>2 DEF Coming
    <3>4. Whole(c, missed)
      BY <3>3, WholeFrame
    <3>5. Whole(A \o c, missed)
      BY <2>2, <2>6, <3>4, WholeJoin
    <3> QED BY <2>1, <2>6, <3>5, WholeGrows
  <2>8. CASE ~ plugged
    <3>1. P = <<>> /\ tty = <<>>
      BY <2>8 DEF Inv, PortInv
    <3>2. A = <<>>
      BY <2>5, <3>1, <1>0, ConcatEmptySeq
    <3>3. c = <<NextByte'>>
      BY <1>0, <2>1, <2>4, <2>8, ConcatEmptySeq DEF Coming
    <3>4. A \o c = <<NextByte'>>
      BY <2>4, <3>2, <3>3, ConcatEmptySeq
    <3> QED BY <1>0, <2>6, <3>4, WholeOne
  <2> QED BY <2>7, <2>8
<1>2. CASE Deliver \/ Lose
  <2>1. PICK a \in Seq(Places), b \in Seq(Places) :
          /\ line = a \o (b \o line') /\ tty' = tty \o a
          /\ missed' = missed \cup FramesOf(b)
    BY <1>2, LineCuts
  <2>2. NextByte' = NextByte
    BY <1>2 DEF Deliver, Lose, NextByte
  <2>3. PICK t, l, e : t = tty /\ l = line' /\ e = <<NextByte>> /\ AllStreams(P, t, a, b, l, e)
    BY <1>0 DEF AllStreams
  <2>4. /\ Ahead = t \o ((a \o (b \o l)) \o e)
        /\ Ahead' = (t \o a) \o (l \o e)
    BY <2>1, <2>2, <2>3 DEF Ahead, Coming
  <2>5. PICK h \in Seq(Places), c \in Seq(Places) :
          P \o Ahead = h \o (b \o c) /\ P \o Ahead' = h \o c
    <3>1. /\ P \o (t \o ((a \o (b \o l)) \o e)) = ((P \o t) \o a) \o (b \o (l \o e))
          /\ P \o ((t \o a) \o (l \o e)) = ((P \o t) \o a) \o (l \o e)
          /\ (P \o t) \o a \in Seq(Places) /\ l \o e \in Seq(Places)
      <4>1. AllStreams(P, t, a, b, l, e)
        BY <2>3
      <4> QED BY <4>1, RegroupCut, Zenon
    <3> QED BY <2>4, <3>1, Zenon
  <2>6. missed \subseteq missed' /\ FramesOf(b) \subseteq missed'
    BY <2>1
  <2>7. Whole(h \o (b \o c), missed)
    BY <2>5
  <2>8. Whole(h \o c, missed')
    BY <2>6, <2>7, WholeCut
  <2> QED BY <2>5, <2>8
<1> QED BY <1>1, <1>2

LEMMA Amounts ==
  ASSUME Inv, CountInv
  PROVE  /\ gaps \in Nat /\ cuts \in Nat /\ shorts \in Nat /\ Breaks(Ahead) \in Nat
         /\ \A b \in FrameBytes : /\ b \in Places /\ <<b>> \in Seq(Places)
                                  /\ Breaks(<<b>> \o Ahead) \in Nat
                                  /\ Breaks(Ahead) <= Breaks(<<b>> \o Ahead)
<1>1. \A b \in FrameBytes : <<b>> \in Seq(Places)
  BY FrameTypes
<1> QED BY <1>1, Numbers DEF CountInv

LEMMA AmountsNext ==
  ASSUME Inv', CountInv'
  PROVE  /\ gaps' \in Nat /\ cuts' \in Nat /\ shorts' \in Nat /\ Breaks(Ahead') \in Nat
<1>1. Ahead' \in Seq(Places)
  BY AheadTypeNext
<1>2. Breaks(Ahead') \in Nat
  BY <1>1, BreaksFinite
<1> QED BY <1>2 DEF Inv, TypeInv, CountInv

LEMMA LineFrames ==
  ASSUME Inv, Inv', CountInv, CountInv', FramesInv, Send \/ Deliver \/ Lose
  PROVE  FramesInv'
<1>1. UNCHANGED <<window, pc, pktLen, fd, shorts>>
  BY DEF Send, Deliver, Lose, bridgeVars
<1>2. Gone' \subseteq Gone /\ IsFiniteSet(Gone) /\ \A X : IsFiniteSet(Gone \ X)
  BY GoneOnLine, GoneFinite
<1>3. /\ gaps \in Nat /\ cuts \in Nat /\ gaps' \in Nat /\ cuts' \in Nat /\ shorts \in Nat
      /\ shorts' = shorts
  BY <1>1, Amounts, AmountsNext
<1>4. /\ Breaks(Ahead') + gaps + cuts <= Breaks(Ahead) + gaps' + cuts'
      /\ Breaks(Ahead) \in Nat /\ Breaks(Ahead') \in Nat
  <2>1. /\ <<>> \in Seq(Places) /\ <<>> \o Ahead = Ahead /\ <<>> \o Ahead' = Ahead'
    BY AheadType, AheadTypeNext, EmptySeq, ConcatEmptySeq
  <2>2. PICK P : P = <<>> /\ P \in Seq(Places)
    BY <2>1
  <2>3. Breaks(P \o Ahead') + gaps + cuts <= Breaks(P \o Ahead) + gaps' + cuts'
    BY <2>2, LineStep
  <2> QED BY <2>1, <2>2, <2>3, Amounts, AmountsNext
<1>5. CASE Spare
  <2>1. Within(Gone, shorts, gaps + cuts - (Breaks(Ahead) + 1))
    BY <1>5 DEF Spare, Afford
  <2>2. gaps + cuts - (Breaks(Ahead) + 1) <= gaps' + cuts' - (Breaks(Ahead') + 1)
    BY <1>3, <1>4
  <2>3. gaps + cuts - (Breaks(Ahead) + 1) \in Int /\ gaps' + cuts' - (Breaks(Ahead') + 1) \in Int
    BY <1>3, <1>4
  <2>4. Within(Gone', shorts', gaps' + cuts' - (Breaks(Ahead') + 1))
    BY <1>2, <1>3, <2>1, <2>2, <2>3, WithinAsWell
  <2> QED BY <2>4 DEF FramesInv, Spare, Afford
<1>6. CASE Idle
  <2>1. Within(Gone, shorts, gaps + cuts - Breaks(Ahead))
    BY <1>6 DEF Idle, Afford
  <2>2. gaps + cuts - Breaks(Ahead) <= gaps' + cuts' - Breaks(Ahead')
    BY <1>3, <1>4
  <2>3. gaps + cuts - Breaks(Ahead) \in Int /\ gaps' + cuts' - Breaks(Ahead') \in Int
    BY <1>3, <1>4
  <2>4. Within(Gone', shorts', gaps' + cuts' - Breaks(Ahead'))
    BY <1>2, <1>3, <2>1, <2>2, <2>3, WithinAsWell
  <2> QED BY <1>1, <1>6, <2>4 DEF FramesInv, Idle, Afford
<1>7. CASE \E b \in FrameBytes : OnTrack(b)
  <2>1. PICK b \in FrameBytes : OnTrack(b)
    BY <1>7
  <2>2. PICK P : P = <<b>> /\ P \in Seq(Places) /\ fd = "open"
    BY <2>1, Amounts DEF OnTrack
  <2>3. /\ Breaks(P \o Ahead') + gaps + cuts <= Breaks(P \o Ahead) + gaps' + cuts'
        /\ Breaks(P \o Ahead') \in Nat /\ Breaks(P \o Ahead) \in Nat
    <3>1. Breaks(P \o Ahead') + gaps + cuts <= Breaks(P \o Ahead) + gaps' + cuts'
      BY <2>2, LineStep
    <3>2. Breaks(P \o Ahead') \in Nat /\ Breaks(P \o Ahead) \in Nat
      BY <2>2, AheadType, AheadTypeNext, Joined, BreaksFinite
    <3> QED BY <3>1, <3>2
  <2>4. Whole(P \o Ahead', missed')
    <3>1. Whole(P \o Ahead, missed)
      BY <2>1, <2>2 DEF OnTrack
    <3> QED BY <2>2, <3>1, WholeOnLine
  <2>5. Within(Gone \ InHand(b), shorts, gaps + cuts - Breaks(P \o Ahead))
    BY <2>1, <2>2 DEF OnTrack, Afford
  <2>6. InHand(b)' = InHand(b)
    BY <1>1 DEF InHand
  <2>7. gaps + cuts - Breaks(P \o Ahead) <= gaps' + cuts' - Breaks(P \o Ahead')
    BY <1>3, <2>3
  <2>8. gaps + cuts - Breaks(P \o Ahead) \in Int /\ gaps' + cuts' - Breaks(P \o Ahead') \in Int
    BY <1>3, <2>3
  <2>9. Gone' \ InHand(b)' \subseteq Gone \ InHand(b) /\ IsFiniteSet(Gone \ InHand(b))
    BY <1>2, <2>6
  <2>10. Within(Gone' \ InHand(b)', shorts', gaps' + cuts' - Breaks(P \o Ahead'))
    BY <1>3, <2>5, <2>7, <2>8, <2>9, WithinAsWell
  <2>11. OnTrack(b)'
    BY <1>1, <2>1, <2>2, <2>4, <2>10 DEF OnTrack, Afford
  <2> QED BY <2>11 DEF FramesInv
<1> QED BY <1>5, <1>6, <1>7 DEF FramesInv

\* What an unplug or a restart loses: nothing that is not counted as missed,
\* but for the frame that the reader was in the middle of.
LEMMA CutFrames ==
  ASSUME Inv, Inv', CountInv, CountInv', FramesInv, Unplug \/ Restart
  PROVE  FramesInv'
<1>1. UNCHANGED <<published, sent, gaps, shorts>> /\ cuts' = cuts + 1
  BY DEF Unplug, Restart
<1>2. /\ gaps \in Nat /\ cuts \in Nat /\ shorts \in Nat /\ Breaks(Ahead) \in Nat
      /\ Breaks(Ahead') \in Nat
  BY Amounts, AmountsNext
<1>3. /\ tty \in Seq(Places) /\ line \in Seq(Places)
      /\ HeadsOf(tty) \subseteq FramesOf(tty) /\ HeadsOf(line) \subseteq FramesOf(line)
  BY AheadType, HeadsAreFrames
<1>4. Published' = Published
  BY <1>1 DEF Published
<1>5. IsFiniteSet(Gone) /\ \A X : IsFiniteSet(Gone \ X)
  BY GoneFinite
<1>6. Breaks(Ahead') <= Breaks(Ahead)
  <2>1. CASE Unplug
    <3>1. line' = <<>> /\ tty' = <<>>
      BY <2>1 DEF Unplug
    <3>2. NextByte' \in Places /\ <<>> \in Seq(Places) /\ <<NextByte'>> \in Seq(Places)
      BY AheadTypeNext, EmptySeq
    <3>3. Ahead' = <<NextByte'>>
      BY <3>1, <3>2, ConcatEmptySeq DEF Ahead, Coming
    <3>4. Breaks(<<NextByte'>>) = 0
      BY <3>2, BreaksFront
    <3> QED BY <1>2, <3>3, <3>4
  <2>2. CASE Restart
    <3>1. Coming' = Coming /\ tty' \in {<<>>, tty}
      BY <2>2 DEF Restart, Opened, Coming, NextByte
    <3>2. Coming \in Seq(Places) /\ tty \in Seq(Places)
      BY AheadType
    <3>3. /\ Breaks(tty) + Breaks(Coming) <= Breaks(Ahead)
          /\ Breaks(tty) \in Nat /\ Breaks(Coming) \in Nat
      BY <3>2, BreaksSplit, BreaksFinite DEF Ahead
    <3>4. CASE tty' = tty
      BY <3>1, <3>4, <1>2 DEF Ahead
    <3>5. CASE tty' = <<>>
      <4>1. Ahead' = Coming
        BY <3>1, <3>2, <3>5, ConcatEmptySeq DEF Ahead
      <4> QED BY <4>1, <3>3, <1>2
    <3> QED BY <3>1, <3>4, <3>5
  <2> QED BY <2>1, <2>2
<1>7. Gone' \subseteq Gone
  <2>1. CASE Unplug
    <3>1. missed' = (missed \cup FramesOf(line)) \cup FramesOf(tty)
      BY <2>1 DEF Unplug
    <3>2. Gone' \subseteq (1 .. sent) \ (missed' \cup Published)
      BY <1>1, <1>4 DEF Gone
    <3> QED BY <1>3, <3>1, <3>2 DEF Gone
  <2>2. CASE Restart
    <3>1. line' = line /\ missed \subseteq missed'
      BY <2>2 DEF Restart, Opened
    <3>2. HeadsOf(tty) \subseteq missed' \cup HeadsOf(tty')
      BY <1>3, <2>2 DEF Restart, Opened
    <3>3. Gone' = (1 .. sent) \ (((missed' \cup Published) \cup HeadsOf(tty')) \cup HeadsOf(line))
      BY <1>1, <1>4, <3>1 DEF Gone
    <3> QED BY <3>1, <3>2, <3>3 DEF Gone
  <2> QED BY <2>1, <2>2
<1>8. ASSUME NEW lost, IsFiniteSet(lost), NEW n \in Nat, Within(lost, shorts, gaps + cuts - n),
             Breaks(Ahead) <= n, Gone' \subseteq lost
      PROVE  FramesInv'
  <2>1. gaps + cuts - n <= gaps' + cuts' - (Breaks(Ahead') + 1)
    BY <1>1, <1>2, <1>6, <1>8
  <2>2. gaps + cuts - n \in Int /\ gaps' + cuts' - (Breaks(Ahead') + 1) \in Int
    BY <1>1, <1>2
  <2>3. shorts' \in Nat /\ shorts <= shorts'
    BY <1>1, <1>2
  <2>4. Within(Gone', shorts', gaps' + cuts' - (Breaks(Ahead') + 1))
    BY <1>2, <1>8, <2>1, <2>2, <2>3, WithinAsWell
  <2> QED BY <2>4 DEF FramesInv, Spare, Afford
<1>9. CASE Spare
  <2>1. Within(Gone, shorts, gaps + cuts - (Breaks(Ahead) + 1))
    BY <1>9 DEF Spare, Afford
  <2>2. Breaks(Ahead) + 1 \in Nat /\ Breaks(Ahead) <= Breaks(Ahead) + 1
    BY <1>2
  <2> QED BY <1>5, <1>7, <1>8, <2>1, <2>2
<1>10. CASE Idle
  <2>1. Within(Gone, shorts, gaps + cuts - Breaks(Ahead))
    BY <1>10 DEF Idle, Afford
  <2>2. Breaks(Ahead) <= Breaks(Ahead)
    BY <1>2
  <2> QED BY <1>2, <1>5, <1>7, <1>8, <2>1, <2>2
<1>11. CASE \E b \in FrameBytes : OnTrack(b)
  <2>1. PICK b \in FrameBytes : OnTrack(b)
    BY <1>11
  <2>2. PICK n \in Nat : n = Breaks(<<b>> \o Ahead) /\ Breaks(Ahead) <= n
    BY Amounts
  <2>3. Within(Gone \ InHand(b), shorts, gaps + cuts - n) /\ fd = "open" /\ TtyDepth >= 1
    BY <2>1, <2>2 DEF OnTrack, Afford
  <2>4. CASE Unplug
    <3>1. Gone' \subseteq Gone \ InHand(b)
      <4> SUFFICES ASSUME NEW f \in Gone', f \in InHand(b) PROVE FALSE
        BY <1>7
      <4>1. f = b.frame /\ InHand(b) = {b.frame} /\ (pc # "scan" \/ b.place = 1)
        BY DEF InHand
      <4>2. b.place < 18
        BY <2>1, <4>1 DEF OnTrack, Inv, TypeInv
      <4>3. f \notin missed' /\ f <= sent
        BY <1>1 DEF Gone
      <4>4. missed' = (missed \cup FramesOf(line)) \cup FramesOf(tty)
        BY <2>4 DEF Unplug
      <4>5. Whole(<<b>> \o Ahead, missed)
        BY <2>1 DEF OnTrack
      <4>6. b.frame \notin missed /\ b.frame <= sent
        BY <4>1, <4>3, <4>4
      <4>7. b.frame \in FramesOf(tty) \cup FramesOf(line)
        BY <4>2, <4>5, <4>6, NextOfFrame
      <4> QED BY <4>1, <4>3, <4>4, <4>7
    <3> QED BY <1>5, <1>8, <2>2, <2>3, <3>1
  <2>5. CASE Restart
    <3>1. fd' = "open" /\ pc' = "scan" /\ window' = <<0, 0>>
      BY <2>3, <2>5 DEF Restart, Opened, Inv, PortInv
    <3>2. IsFiniteSet({b.frame}) /\ Cardinality({b.frame}) = 1
      BY OneFrame
    <3>3. Gone' \subseteq (Gone \ InHand(b)) \cup {b.frame}
      BY <1>7 DEF InHand
    <3>4. PICK x \in Int, y \in Int : x = gaps + cuts - n /\ y = gaps' + cuts' - Breaks(Ahead')
                                      /\ x + 1 <= y
      <4>1. gaps + cuts - n \in Int /\ gaps' + cuts' - Breaks(Ahead') \in Int
        BY <1>1, <1>2
      <4>2. gaps + cuts - n + 1 <= gaps' + cuts' - Breaks(Ahead')
        BY <1>1, <1>2, <1>6, <2>2
      <4> QED BY <4>1, <4>2
    <3>5. shorts + 1 <= shorts' + TakenIn /\ shorts' \in Nat
      BY <1>1, <1>2, <2>3, TakenInType
    <3>6. Within(Gone \ InHand(b), shorts, x)
      BY <2>3, <3>4
    <3>7. IsFiniteSet(Gone \ InHand(b))
      BY <1>5
    <3>8. shorts + Cardinality({b.frame}) <= shorts' + TakenIn
      BY <3>2, <3>5
    <3>9. Within(Gone', shorts', y)
      BY <1>2, <3>2, <3>3, <3>4, <3>5, <3>6, <3>7, <3>8, WithinOneMore
    <3>10. window'[2] # 170
      BY <3>1
    <3>11. Idle'
      BY <3>1, <3>4, <3>9, <3>10 DEF Idle, Afford
    <3> QED BY <3>11 DEF FramesInv
  <2> QED BY <2>4, <2>5
<1> QED BY <1>9, <1>10, <1>11 DEF FramesInv

-----------------------------------------------------------------------------
(* What the reader does to them.                                           *)

LEMMA WithinExtra ==
  ASSUME NEW lost, IsFiniteSet(lost), NEW lost2, NEW extra, IsFiniteSet(extra),
         lost2 \subseteq lost \cup extra,
         NEW s \in Nat, NEW s2 \in Nat, NEW x \in Int, NEW x2 \in Int, Within(lost, s, x),
         s + Cardinality(extra) <= s2, x <= x2
  PROVE  Within(lost2, s2, x2)
  BY WithinMore, ZenonT(60)

LEMMA OnePaid ==
  ASSUME NEW lost, IsFiniteSet(lost), NEW lost2, NEW f, lost2 \subseteq lost \cup {f},
         NEW s \in Nat, NEW s2 \in Nat, s <= s2, TtyDepth >= 1,
         NEW x \in Int, NEW x2 \in Int, Within(lost, s, x), x + 1 <= x2
  PROVE  Within(lost2, s2, x2)
<1>1. PICK extra : extra = {f} /\ IsFiniteSet(extra) /\ Cardinality(extra) = 1
  BY OneFrame
<1>2. TakenIn \in Nat /\ TakenIn >= 1
  BY TakenInType
<1>3. s + Cardinality(extra) <= s2 + TakenIn
  BY <1>1, <1>2
<1>4. lost2 \subseteq lost \cup extra
  BY <1>1
<1> QED BY <1>1, <1>3, <1>4, WithinOneMore

\* From what can be afforded before a step to what can be afforded after it.
LEMMA ToSpare ==
  ASSUME Inv, Inv', CountInv, CountInv', UNCHANGED <<gaps, cuts>>, shorts <= shorts',
         NEW lost, IsFiniteSet(lost), NEW n \in Nat, Within(lost, shorts, gaps + cuts - n),
         Gone' \subseteq lost, Breaks(Ahead') + 1 <= n
  PROVE  FramesInv'
<1>1. /\ gaps \in Nat /\ cuts \in Nat /\ shorts \in Nat /\ gaps' = gaps /\ cuts' = cuts
      /\ shorts' \in Nat /\ Breaks(Ahead') \in Nat
  BY Amounts, AmountsNext
<1>2. PICK x \in Int, y \in Int :
        x = gaps + cuts - n /\ y = gaps' + cuts' - (Breaks(Ahead') + 1) /\ x <= y
  <2>1. gaps + cuts - n \in Int /\ gaps' + cuts' - (Breaks(Ahead') + 1) \in Int
        /\ gaps + cuts - n <= gaps' + cuts' - (Breaks(Ahead') + 1)
    BY <1>1
  <2> QED BY <2>1
<1>3. Within(lost, shorts, x)
  BY <1>2
<1>4. Within(Gone', shorts', y)
  BY <1>1, <1>2, <1>3, WithinAsWell
<1> QED BY <1>2, <1>4 DEF FramesInv, Spare, Afford

LEMMA ToIdle ==
  ASSUME Inv, Inv', CountInv, CountInv', UNCHANGED <<gaps, cuts>>,
         NEW lost, IsFiniteSet(lost), NEW n \in Nat, Within(lost, shorts, gaps + cuts - n),
         NEW extra, IsFiniteSet(extra), Gone' \subseteq lost \cup extra,
         shorts + Cardinality(extra) <= shorts', Breaks(Ahead') <= n,
         fd' = "open", pc' = "scan", window'[2] # 170
  PROVE  FramesInv'
<1>1. /\ gaps \in Nat /\ cuts \in Nat /\ shorts \in Nat /\ gaps' = gaps /\ cuts' = cuts
      /\ shorts' \in Nat /\ Breaks(Ahead') \in Nat
  BY Amounts, AmountsNext
<1>2. PICK x \in Int, y \in Int :
        x = gaps + cuts - n /\ y = gaps' + cuts' - Breaks(Ahead') /\ x <= y
  <2>1. gaps + cuts - n \in Int /\ gaps' + cuts' - Breaks(Ahead') \in Int
        /\ gaps + cuts - n <= gaps' + cuts' - Breaks(Ahead')
    BY <1>1
  <2> QED BY <2>1
<1>3. Within(lost, shorts, x)
  BY <1>2
<1>4. Within(Gone', shorts', y)
  BY <1>1, <1>2, <1>3, WithinExtra
<1> QED BY <1>2, <1>4 DEF FramesInv, Idle, Afford

\* A break that has been read pays for what the read took in.
LEMMA ToIdlePaid ==
  ASSUME Inv, Inv', CountInv, CountInv', UNCHANGED <<gaps, cuts>>, shorts <= shorts',
         NEW lost, IsFiniteSet(lost), NEW n \in Nat, Within(lost, shorts, gaps + cuts - n),
         NEW extra, IsFiniteSet(extra), Gone' \subseteq lost \cup extra,
         Cardinality(extra) <= TakenIn, Breaks(Ahead') + 1 <= n,
         fd' = "open", pc' = "scan", window'[2] # 170
  PROVE  FramesInv'
<1>1. /\ gaps \in Nat /\ cuts \in Nat /\ shorts \in Nat /\ gaps' = gaps /\ cuts' = cuts
      /\ shorts' \in Nat /\ Breaks(Ahead') \in Nat
  BY Amounts, AmountsNext
<1>2. PICK x \in Int, y \in Int :
        x = gaps + cuts - n /\ y = gaps' + cuts' - Breaks(Ahead') /\ x + 1 <= y
  <2>1. gaps + cuts - n \in Int /\ gaps' + cuts' - Breaks(Ahead') \in Int
        /\ gaps + cuts - n + 1 <= gaps' + cuts' - Breaks(Ahead')
    BY <1>1
  <2> QED BY <2>1
<1>3. Within(lost, shorts, x)
  BY <1>2
<1>4. shorts + Cardinality(extra) <= shorts' + TakenIn
  <2>1. Cardinality(extra) \in Nat /\ TakenIn \in Nat
    BY FS_CardinalityType, TakenInType
  <2> QED BY <1>1, <2>1
<1>5. Within(Gone', shorts', y)
  BY <1>1, <1>2, <1>3, <1>4, WithinOneMore
<1> QED BY <1>2, <1>5 DEF FramesInv, Idle, Afford

\* The same for the track of a byte.
LEMMA ToTrack ==
  ASSUME Inv, Inv', CountInv, CountInv', UNCHANGED <<gaps, cuts>>, shorts <= shorts',
         NEW lost, IsFiniteSet(lost), NEW n \in Nat, Within(lost, shorts, gaps + cuts - n),
         NEW c \in FrameBytes, Gone' \ InHand(c)' \subseteq lost,
         Breaks(<<c>> \o Ahead') <= n, Whole(<<c>> \o Ahead', missed'),
         fd' = "open", TtyDepth >= 1,
         pc' = "scan" => window'[2] = Value(c), pc' = "length" => c.place = 2,
         pc' = "body" => c.place = 4 /\ pktLen' = 14
  PROVE  FramesInv'
<1>1. /\ gaps \in Nat /\ cuts \in Nat /\ shorts \in Nat /\ gaps' = gaps /\ cuts' = cuts
      /\ shorts' \in Nat
  BY Amounts, AmountsNext
<1>2. PICK k \in Nat : k = Breaks(<<c>> \o Ahead')
  <2>1. <<c>> \in Seq(Places) /\ Ahead' \in Seq(Places)
    BY Amounts, AheadTypeNext
  <2> QED BY <2>1, Joined, BreaksFinite
<1>3. PICK x \in Int, y \in Int : x = gaps + cuts - n /\ y = gaps' + cuts' - k /\ x <= y
  <2>1. gaps + cuts - n \in Int /\ gaps' + cuts' - k \in Int
        /\ gaps + cuts - n <= gaps' + cuts' - k
    BY <1>1, <1>2
  <2> QED BY <2>1
<1>4. Within(lost, shorts, x)
  BY <1>3
<1>5. PICK lost2 : lost2 = Gone' \ InHand(c)' /\ lost2 \subseteq lost
  OBVIOUS
<1>6. Within(lost2, shorts', y)
  BY <1>1, <1>3, <1>4, <1>5, WithinAsWell
<1>7. OnTrack(c)'
  BY <1>2, <1>3, <1>5, <1>6 DEF OnTrack, Afford
<1> QED BY <1>7 DEF FramesInv

LEMMA ToTrackPaid ==
  ASSUME Inv, Inv', CountInv, CountInv', UNCHANGED <<gaps, cuts>>, shorts <= shorts',
         NEW lost, IsFiniteSet(lost), NEW n \in Nat, Within(lost, shorts, gaps + cuts - n),
         NEW f, NEW c \in FrameBytes, Gone' \ InHand(c)' \subseteq lost \cup {f},
         Breaks(<<c>> \o Ahead') + 1 <= n, Whole(<<c>> \o Ahead', missed'),
         fd' = "open", TtyDepth >= 1,
         pc' = "scan" => window'[2] = Value(c), pc' = "length" => c.place = 2,
         pc' = "body" => c.place = 4 /\ pktLen' = 14
  PROVE  FramesInv'
<1>1. /\ gaps \in Nat /\ cuts \in Nat /\ shorts \in Nat /\ gaps' = gaps /\ cuts' = cuts
      /\ shorts' \in Nat
  BY Amounts, AmountsNext
<1>2. PICK k \in Nat : k = Breaks(<<c>> \o Ahead')
  <2>1. <<c>> \in Seq(Places) /\ Ahead' \in Seq(Places)
    BY Amounts, AheadTypeNext
  <2> QED BY <2>1, Joined, BreaksFinite
<1>3. PICK x \in Int, y \in Int : x = gaps + cuts - n /\ y = gaps' + cuts' - k /\ x + 1 <= y
  <2>1. gaps + cuts - n \in Int /\ gaps' + cuts' - k \in Int
        /\ gaps + cuts - n + 1 <= gaps' + cuts' - k
    BY <1>1, <1>2
  <2> QED BY <2>1
<1>4. Within(lost, shorts, x)
  BY <1>3
<1>5. PICK lost2 : lost2 = Gone' \ InHand(c)' /\ lost2 \subseteq lost \cup {f}
  OBVIOUS
<1>8. Within(lost2, shorts', y)
  <2>1. PICK s \in Nat, t \in Nat : s = shorts /\ t = shorts' /\ s <= t
    BY <1>1
  <2>2. Within(lost, s, x) /\ x + 1 <= y /\ lost2 \subseteq lost \cup {f}
    BY <1>3, <1>4, <1>5, <2>1
  <2>3. Within(lost2, t, y)
    BY <2>1, <2>2, OnePaid
  <2> QED BY <2>1, <2>3
<1>9. OnTrack(c)'
  BY <1>2, <1>3, <1>5, <1>8 DEF OnTrack, Afford
<1> QED BY <1>9 DEF FramesInv

\* Opening the port, finding the device gone, and plugging it in.
LEMMA PortFrames ==
  ASSUME Inv, Inv', CountInv, CountInv', FramesInv, Open \/ DeviceLost \/ Plug
  PROVE  FramesInv'
<1>1. /\ UNCHANGED <<published, sent, line, gaps, cuts, shorts>> /\ fd # "open"
      /\ tty = <<>> /\ tty' = <<>> /\ missed \subseteq missed'
  BY DEF Open, DeviceLost, Plug, Opened, LineAlone, bridgeVars, Inv, PortInv
<1>2. Spare
  BY <1>1 DEF FramesInv, Idle, OnTrack
<1>3. PICK n \in Nat : n = Breaks(Ahead) + 1 /\ Within(Gone, shorts, gaps + cuts - n)
  BY <1>2, Amounts DEF Spare, Afford
<1>4. Ahead' = Ahead
  BY <1>1 DEF Ahead, Coming, NextByte
<1>5. Gone' \subseteq Gone
  BY <1>1 DEF Gone, Published
<1>6. IsFiniteSet(Gone) /\ Breaks(Ahead') + 1 <= n /\ shorts <= shorts'
  BY <1>1, <1>3, <1>4, GoneFinite, Amounts
<1> QED BY <1>1, <1>3, <1>5, <1>6, ToSpare

LEMMA CountKept ==
  ASSUME Inv, CountInv, Next
  PROVE  CountInv'
<1>1. CASE ReadLength
  <2>1. \/ shorts' = shorts + 1 /\ pc' = "scan"
        \/ shorts' = shorts /\ pc' = "scan"
        \/ shorts' = shorts /\ ValidLength(pktLen')
    BY <1>1, Zenon DEF ReadLength, Short
  <2> QED BY <2>1 DEF CountInv, ValidLength
<1>2. CASE ReadBody
  BY <1>2 DEF ReadBody, Short, CountInv
<1>3. CASE Scan
  <2>1. shorts' = shorts /\ pc' \in {"scan", "length"}
    BY <1>3 DEF Scan
  <2> QED BY <2>1 DEF CountInv
<1>4. CASE Restart \/ Open \/ DeviceLost
  BY <1>4 DEF Restart, Open, DeviceLost, CountInv
<1>5. CASE Line
  BY <1>5 DEF Line, Send, Deliver, Lose, Unplug, Plug, bridgeVars, CountInv
<1> QED BY <1>1, <1>2, <1>3, <1>4, <1>5 DEF Next, Bridge

\* What a step of the reader takes: x, from the front of what the driver holds.
Reads(x) == /\ x \in Seq(FrameBytes) /\ tty = x \o tty'
            /\ UNCHANGED <<sent, line, gaps, cuts, missed, fd>>

LEMMA ReadIs ==
  ASSUME Inv, Scan \/ ReadLength \/ ReadBody
  PROVE  \E x : Reads(x)
<1>1. CASE Scan
  <2>1. PICK c \in FrameBytes : c = Head(tty) /\ tty = <<c>> \o tty' /\ <<c>> \in Seq(FrameBytes)
    BY <1>1, HeadAndTail DEF Scan, Inv, TypeInv
  <2>2. Reads(<<c>>)
    BY <1>1, <2>1 DEF Scan, LineAlone, Reads
  <2> QED BY <2>2
<1>2. CASE ReadLength
  <2>1. Got(2) \in Seq(FrameBytes) /\ tty = Got(2) \o tty'
    BY <1>2, ReadSplits DEF ReadLength, Inv, TypeInv
  <2>2. Reads(Got(2))
    BY <1>2, <2>1 DEF ReadLength, LineAlone, Reads
  <2> QED BY <2>2
<1>3. CASE ReadBody
  <2>1. pktLen \in Nat /\ Taken(pktLen)
    BY <1>3 DEF ReadBody, Inv, TypeInv, PortInv, MinLen
  <2>2. Got(pktLen) \in Seq(FrameBytes) /\ tty = Got(pktLen) \o tty'
    BY <2>1, ReadSplits DEF Inv, TypeInv
  <2>3. Reads(Got(pktLen))
    BY <1>3, <2>2 DEF ReadBody, LineAlone, Reads
  <2> QED BY <2>3
<1> QED BY <1>1, <1>2, <1>3

LEMMA ReadStream ==
  ASSUME Inv, Inv', StreamInv, NEW x, Reads(x)
  PROVE  /\ StreamInv' /\ Whole(x, missed) /\ x \in Seq(Places) /\ Ahead = x \o Ahead'
         /\ Ahead' \in Seq(Places) /\ Breaks(Ahead') \in Nat /\ Breaks(Ahead) \in Nat
         /\ Breaks(Ahead') <= Breaks(Ahead)
<1>1. /\ Ahead = x \o Ahead' /\ x \in Seq(Places) /\ Ahead' \in Seq(Places)
      /\ Breaks(Ahead') \in Nat /\ Breaks(Ahead) \in Nat /\ Breaks(Ahead') <= Breaks(Ahead)
  BY ReadAhead DEF Reads
<1>2. PICK a \in Seq(Places) : a = Ahead'
  BY <1>1
<1>3. Whole(x \o a, missed)
  BY <1>1, <1>2 DEF StreamInv
<1>4. Whole(x, missed) /\ Whole(a, missed)
  BY <1>1, <1>3, WholeParts
<1>5. missed' = missed
  BY DEF Reads
<1> QED BY <1>1, <1>2, <1>4, <1>5 DEF StreamInv

LEMMA StreamKept ==
  ASSUME Inv, Inv', StreamInv, Next
  PROVE  StreamInv'
<1>0. /\ NextByte' \in Places /\ <<NextByte'>> \in Seq(Places) /\ <<>> \in Seq(Places)
      /\ Ahead \in Seq(Places) /\ Ahead' \in Seq(Places) /\ Coming \in Seq(Places)
      /\ tty \in Seq(Places) /\ Coming' \in Seq(Places)
  BY AheadType, AheadTypeNext, EmptySeq
<1>1. CASE Send \/ Deliver \/ Lose
  <2>1. PICK P \in Seq(Places) : P = <<>>
    BY <1>0
  <2>2. P \o Ahead = Ahead /\ P \o Ahead' = Ahead'
    BY <1>0, <2>1, ConcatEmptySeq
  <2>3. Whole(P \o Ahead, missed)
    BY <2>2 DEF StreamInv
  <2>4. Whole(P \o Ahead', missed')
    BY <1>1, <2>1, <2>3, WholeOnLine
  <2> QED BY <2>2, <2>4 DEF StreamInv
<1>2. CASE Unplug
  <2>1. Ahead' = <<NextByte'>>
    BY <1>0, <1>2, ConcatEmptySeq DEF Unplug, Ahead, Coming
  <2> QED BY <1>0, <2>1, WholeOne DEF StreamInv
<1>3. CASE Restart \/ Open \/ DeviceLost \/ Plug
  <2>1. /\ missed \subseteq missed' /\ UNCHANGED <<sent, line>>
        /\ tty' = tty \/ tty' = <<>>
    BY <1>3 DEF Restart, Open, DeviceLost, Plug, Opened, LineAlone
  <2>2. Coming' = Coming
    BY <2>1 DEF Coming, NextByte
  <2>3. Whole(Ahead', missed)
    <3>1. CASE tty' = tty
      BY <2>2, <3>1 DEF StreamInv, Ahead
    <3>2. CASE tty' = <<>>
      <4>1. Ahead' = Coming
        BY <1>0, <2>2, <3>2, ConcatEmptySeq DEF Ahead
      <4>2. Whole(tty \o Coming, missed)
        BY DEF StreamInv, Ahead
      <4>3. Whole(Coming, missed)
        BY <1>0, <4>2, WholeParts
      <4> QED BY <4>1, <4>3
    <3> QED BY <2>1, <3>1, <3>2
  <2>4. Whole(Ahead', missed')
    BY <2>1, <2>3, WholeGrows
  <2> QED BY <2>4 DEF StreamInv
<1>4. CASE Scan \/ ReadLength \/ ReadBody
  BY <1>4, ReadIs, ReadStream
<1> QED BY <1>1, <1>2, <1>3, <1>4 DEF Next, Line, Bridge

\* What is gone after a read: what was, and frames that it took in.
LEMMA PublishedGrows ==
  ASSUME Inv, NEW got \in Seq(FrameBytes), published' \in {published, Append(published, got)}
  PROVE  Published \subseteq Published'
<1> DEFINE S == Seq(FrameBytes)
<1>1. published \in Seq(S) /\ got \in S
  BY DEF Inv, TypeInv
<1> HIDE DEF S
<1>2. /\ Len(Append(published, got)) = Len(published) + 1 /\ Append(published, got) \in Seq(S)
      /\ \A i \in 1 .. Len(published) : Append(published, got)[i] = published[i]
      /\ DOMAIN published = 1 .. Len(published) /\ Len(published) \in Nat
  BY <1>1, AppendProperties, LenProperties
<1>3. DOMAIN Append(published, got) = 1 .. Len(published) + 1
  BY <1>2, LenProperties
<1>4. \A i \in DOMAIN published : i \in DOMAIN published' /\ published'[i] = published[i]
  BY <1>2, <1>3
<1> QED BY <1>4 DEF Published

LEMMA GoneOnRead ==
  ASSUME Inv, Inv', NEW x, Reads(x), Published \subseteq Published'
  PROVE  Gone' \subseteq Gone \cup (HeadsOf(x) \ missed)
<1>1. x \in Seq(Places) /\ tty' \in Seq(Places)
  BY FrameTypes, SeqMonotonic, AheadTypeNext DEF Reads
<1>2. HeadsOf(tty) = HeadsOf(x) \cup HeadsOf(tty')
  BY <1>1, FramesJoin DEF Reads
<1>3. sent' = sent /\ line' = line /\ missed' = missed
  BY DEF Reads
<1>4. Gone' = (1 .. sent) \ (((missed \cup Published') \cup HeadsOf(tty')) \cup HeadsOf(line))
  BY <1>3 DEF Gone
<1> QED BY <1>2, <1>4 DEF Gone

\* A byte of a frame that is not missed is followed by the next.
LEMMA NextWhole ==
  ASSUME NEW b \in Places, NEW c \in Places, NEW s \in Seq(Places), NEW m,
         Whole(<<b>> \o (<<c>> \o s), m), b.frame \notin m, b.place < 18
  PROVE  Follows(b, c) /\ c.place = b.place + 1 /\ c.frame = b.frame
<1> DEFINE t == <<c>> \o s
           u == <<b>> \o t
<1>1. t \in Seq(Places) /\ Len(t) = Len(s) + 1 /\ t[1] = c /\ Len(s) \in Nat
  BY OneInFront, LenProperties
<1> HIDE DEF t
<1>2. Len(u) = Len(t) + 1 /\ u[1] = b /\ \A i \in 1 .. Len(t) : u[i + 1] = t[i]
  BY <1>1, OneInFront
<1>3. Whole(u, m)
  BY DEF t
<1> HIDE DEF u
<1>4. 1 \in 1 .. Len(u) /\ 2 \in 1 .. Len(u) /\ 1 \in 1 .. Len(t) /\ 1 + 1 = 2
  BY <1>1, <1>2
<1>5. u[2] = c
  BY <1>1, <1>2, <1>4
<1>6. b.place \in Nat
  BY PlaceTypes
<1>7. u[1].frame \notin m /\ 1 < 2 /\ u[1].place + (2 - 1) <= FrameLen
  BY <1>2, <1>6 DEF FrameLen
<1>8. c = [frame |-> b.frame, place |-> b.place + (2 - 1)]
  BY <1>2, <1>3, <1>4, <1>5, <1>7 DEF Whole
<1>9. c.frame = b.frame /\ c.place = b.place + 1
  BY <1>6, <1>8
<1> QED BY <1>9 DEF Follows, FrameLen

LEMMA HeadsOfOne ==
  ASSUME NEW c
  PROVE  HeadsOf(<<c>>) = IF c.place = 1 THEN {c.frame} ELSE {}
<1>1. Len(<<c>>) = 1 /\ <<c>>[1] = c /\ 1 .. 1 = {1}
  OBVIOUS
<1> QED BY <1>1 DEF HeadsOf

LEMMA HeadValue ==
  ASSUME NEW c \in FrameBytes, c.place = 1
  PROVE  Value(c) = 170
<1>1. c.frame \in Frames
  BY DEF FrameBytes
<1> QED BY <1>1, ContentIs DEF Value

LEMMA SecondValue ==
  ASSUME NEW c \in FrameBytes, c.place = 2
  PROVE  Value(c) = 85
<1>1. c.frame \in Frames
  BY DEF FrameBytes
<1> QED BY <1>1, ContentIs DEF Value

\* What the account of frames is before a step of the reader.
LEMMA FramesBefore ==
  ASSUME Inv, CountInv, FramesInv
  PROVE  \/ Within(Gone, shorts, gaps + cuts - (Breaks(Ahead) + 1))
         \/ /\ fd = "open" /\ pc = "scan" /\ window[2] # 170
            /\ Within(Gone, shorts, gaps + cuts - Breaks(Ahead))
         \/ fd = "open" /\ \E b \in FrameBytes : OnTrack(b)
  BY DEF FramesInv, Spare, Idle, OnTrack, Afford

LEMMA ScanFrames ==
  ASSUME Inv, Inv', CountInv, CountInv', StreamInv, FramesInv, Scan
  PROVE  FramesInv'
<1>1. PICK c \in FrameBytes : c = Head(tty) /\ tty = <<c>> \o tty' /\ <<c>> \in Seq(FrameBytes)
  BY HeadAndTail DEF Scan, Inv, TypeInv
<1>2. /\ fd = "open" /\ pc = "scan" /\ fd' = "open" /\ tty # <<>>
      /\ window' = <<window[2], Value(c)>> /\ pc' = IF window' = SYNC THEN "length" ELSE "scan"
      /\ UNCHANGED <<published, sent, line, gaps, cuts, missed, shorts>>
  BY <1>1 DEF Scan, LineAlone
<1>3. Reads(<<c>>)
  BY <1>1, <1>2 DEF Reads
<1>4. PICK a \in Seq(Places) : a = Ahead' /\ Ahead = <<c>> \o a
  BY <1>3, ReadStream
<1>5. PICK k \in Nat, k2 \in Nat : k = Breaks(Ahead) /\ k2 = Breaks(Ahead') /\ k2 <= k
  BY <1>3, ReadStream
<1>6. c \in Places /\ c.place \in Nat
  BY FrameTypes, PlaceTypes
<1>7. Gone' \subseteq Gone \cup HeadsOf(<<c>>)
  <2>1. Published' = Published
    BY <1>2 DEF Published
  <2> QED BY <1>3, <2>1, GoneOnRead
<1>8. IsFiniteSet(Gone) /\ \A X : IsFiniteSet(Gone \ X)
  BY GoneFinite
<1>9. TtyDepth >= 1
  <2>1. Len(tty) \in Nat /\ Len(tty) # 0 /\ Len(tty) <= TtyDepth /\ TtyDepth \in Nat
    BY <1>2, LenProperties, EmptySeq, SerialAssumption DEF Inv, TypeInv, PortInv
  <2> QED BY <2>1
<1>10. /\ Whole(<<c>> \o Ahead', missed') /\ Breaks(<<c>> \o Ahead') = k
  BY <1>2, <1>4, <1>5 DEF StreamInv
<1>11. shorts <= shorts' /\ shorts \in Nat /\ UNCHANGED <<gaps, cuts>>
  BY <1>2, Amounts
<1>12. window'[2] = Value(c) /\ window'[1] = window[2]
  BY <1>2
<1>13. ASSUME NEW b \in FrameBytes, OnTrack(b)
       PROVE  /\ b \in Places /\ window[2] = Value(b)
              /\ Whole(<<b>> \o (<<c>> \o a), missed)
              /\ Breaks(<<b>> \o Ahead) = k + One(~ Follows(b, c))
              /\ Within(Gone \ InHand(b), shorts, gaps + cuts - Breaks(<<b>> \o Ahead))
              /\ InHand(b) = IF b.place = 1 THEN {b.frame} ELSE {}
  <2>1. b \in Places
    BY FrameTypes
  <2>2. Breaks(<<b>> \o (<<c>> \o a)) = Breaks(<<c>> \o a) + One(~ Follows(b, c))
    BY <1>6, <2>1, BreaksFront
  <2> QED BY <1>2, <1>4, <1>5, <1>13, <2>1, <2>2 DEF OnTrack, Afford, InHand
<1>14. CASE window' # SYNC
  <2>1. pc' = "scan"
    BY <1>2, <1>14
  <2>2. Gone' \ InHand(c)' \subseteq Gone
    <3>1. InHand(c)' = IF c.place # 1 THEN {} ELSE {c.frame}
      BY <2>1 DEF InHand
    <3> QED BY <1>7, <3>1, HeadsOfOne
  <2>3. CASE Within(Gone, shorts, gaps + cuts - (Breaks(Ahead) + 1))
    <3>1. PICK n \in Nat : n = Breaks(Ahead) + 1 /\ Breaks(<<c>> \o Ahead') <= n
      BY <1>5, <1>10
    <3>2. Within(Gone, shorts, gaps + cuts - n)
      BY <2>3, <3>1
    <3> QED BY <1>2, <1>8, <1>9, <1>10, <1>11, <1>12, <2>1, <2>2, <3>1, <3>2, ToTrack
  <2>4. CASE Within(Gone, shorts, gaps + cuts - Breaks(Ahead))
    <3>1. Within(Gone, shorts, gaps + cuts - k) /\ Breaks(<<c>> \o Ahead') <= k
      BY <1>5, <1>10, <2>4
    <3> QED BY <1>2, <1>8, <1>9, <1>10, <1>11, <1>12, <2>1, <2>2, <3>1, ToTrack
  <2>5. CASE \E b \in FrameBytes : OnTrack(b)
    <3>1. PICK b \in FrameBytes : OnTrack(b)
      BY <2>5
    <3>2. PICK n \in Nat : n = Breaks(<<b>> \o Ahead)
      BY Amounts, <3>1
    <3>3. PICK lost : lost = Gone \ InHand(b) /\ IsFiniteSet(lost)
      BY <1>8
    <3>4. Within(lost, shorts, gaps + cuts - n) /\ n = k + One(~ Follows(b, c))
      BY <1>13, <3>1, <3>2, <3>3
    <3>5. CASE Follows(b, c)
      <4>1. InHand(b) = {}
        <5> SUFFICES ASSUME b.place = 1 PROVE FALSE
          BY <1>13, <3>1
        <5>1. c.place = 2
          BY <3>5 DEF Follows, FrameLen
        <5>2. Value(b) = 170 /\ Value(c) = 85
          BY <5>1, HeadValue, SecondValue
        <5>3. window' = SYNC
          BY <1>2, <1>13, <3>1, <5>2 DEF SYNC
        <5> QED BY <1>14, <5>3
      <4>2. Gone' \ InHand(c)' \subseteq lost
        BY <2>2, <3>3, <4>1
      <4>3. Breaks(<<c>> \o Ahead') <= n
        BY <1>10, <3>4, <3>5 DEF One
      <4> QED BY <1>2, <1>9, <1>10, <1>11, <1>12, <2>1, <3>3, <3>4, <4>2, <4>3, ToTrack
    <3>6. CASE ~ Follows(b, c)
      <4>1. Gone' \ InHand(c)' \subseteq lost \cup {b.frame}
        BY <2>2, <3>3 DEF InHand
      <4>2. Breaks(<<c>> \o Ahead') + 1 <= n
        BY <1>10, <3>4, <3>6 DEF One
      <4> QED BY <1>2, <1>9, <1>10, <1>11, <1>12, <2>1, <3>3, <3>4, <4>1, <4>2, ToTrackPaid
    <3> QED BY <3>5, <3>6
  <2> QED BY <2>3, <2>4, <2>5, FramesBefore
<1>15. CASE window' = SYNC
  <2>1. window[2] = 170 /\ Value(c) = 85 /\ pc' = "length"
    BY <1>2, <1>12, <1>15 DEF SYNC
  <2>2. Gone' \subseteq Gone
    <3>1. c.place # 1
      BY <2>1, HeadValue
    <3> QED BY <1>7, <3>1, HeadsOfOne
  <2>3. CASE Within(Gone, shorts, gaps + cuts - (Breaks(Ahead) + 1))
    <3>1. PICK n \in Nat : n = Breaks(Ahead) + 1 /\ Breaks(Ahead') + 1 <= n
      BY <1>5
    <3>2. Within(Gone, shorts, gaps + cuts - n)
      BY <2>3, <3>1
    <3> QED BY <1>8, <1>11, <2>2, <3>1, <3>2, ToSpare
  <2>4. CASE \E b \in FrameBytes : OnTrack(b)
    <3>1. PICK b \in FrameBytes : OnTrack(b)
      BY <2>4
    <3>2. PICK n \in Nat : n = Breaks(<<b>> \o Ahead)
      BY Amounts, <3>1
    <3>3. PICK lost : lost = Gone \ InHand(b) /\ IsFiniteSet(lost)
      BY <1>8
    <3>4. Within(lost, shorts, gaps + cuts - n) /\ n = k + One(~ Follows(b, c))
      BY <1>13, <3>1, <3>2, <3>3
    <3>5. Value(b) = 170
      <4>1. window[2] = Value(b)
        BY <1>13, <3>1
      <4> QED BY <2>1, <4>1
    <3>6. CASE Follows(b, c)
      <4>1. c.place = 2
        BY <2>1, <3>5, <3>6, MarkerIsHead
      <4>2. b.frame = c.frame
        BY <3>6, <4>1 DEF Follows
      <4>3. Gone' \ InHand(c)' \subseteq lost
        <5>1. InHand(c)' = {c.frame} /\ InHand(b) \subseteq {b.frame}
          BY <2>1 DEF InHand
        <5> QED BY <2>2, <3>3, <4>2, <5>1
      <4>4. Breaks(<<c>> \o Ahead') <= n
        BY <1>10, <3>4, <3>6 DEF One
      <4> QED BY <1>2, <1>9, <1>10, <1>11, <2>1, <3>3, <3>4, <4>1, <4>3, <4>4, ToTrack
    <3>7. CASE ~ Follows(b, c)
      <4>1. Gone' \subseteq lost
        <5> SUFFICES ASSUME b.place = 1, b.frame \notin missed PROVE FALSE
          BY <1>2, <1>13, <2>2, <3>1, <3>3 DEF Gone
        <5>1. b \in Places /\ Whole(<<b>> \o (<<c>> \o a), missed)
          BY <1>13, <3>1
        <5>3. b.place < 18
          OBVIOUS
        <5>2. Follows(b, c)
          BY <1>6, <5>1, <5>3, NextWhole
        <5> QED BY <3>7, <5>2
      <4>2. Breaks(Ahead') + 1 <= n
        BY <1>5, <3>4, <3>7 DEF One
      <4> QED BY <1>11, <3>3, <3>4, <4>1, <4>2, ToSpare
    <3> QED BY <3>6, <3>7
  <2> QED BY <2>1, <2>3, <2>4, FramesBefore
<1> QED BY <1>14, <1>15

\* A read that had to give what was there: no more than was asked for.
LEMMA NoHeads == HeadsOf(<<>>) = {}
<1>1. Len(<<>>) = 0
  OBVIOUS
<1> QED BY <1>1 DEF HeadsOf

LEMMA NoHeadOf ==
  ASSUME NEW c, c.place # 1
  PROVE  HeadsOf(<<c>>) = {}
  BY HeadsOfOne

\* The first bytes of a frame have values that no length has.
LEMMA HeadsAreLong ==
  ASSUME NEW g \in FrameBytes, NEW h \in FrameBytes, ValidLength(Value(g) + 256 * Value(h))
  PROVE  HeadsOf(<<g>> \o <<h>>) = {}
<1>1. Value(g) \in Nat /\ Value(h) \in Nat
  BY ValueType
<1>2. Value(g) # 170 /\ Value(h) # 170
  BY <1>1 DEF ValidLength, BufLen
<1>3. g.place # 1 /\ h.place # 1
  BY <1>2, HeadValue
<1>4. <<g>> \in Seq(Places) /\ <<h>> \in Seq(Places)
  <2>1. g \in Places /\ h \in Places
    BY FrameTypes
  <2> QED BY <2>1
<1>5. HeadsOf(<<g>>) = {} /\ HeadsOf(<<h>>) = {}
  BY <1>3, NoHeadOf
<1>6. HeadsOf(<<g>> \o <<h>>) = HeadsOf(<<g>>) \cup HeadsOf(<<h>>)
  BY <1>4, FramesJoin
<1> QED BY <1>5, <1>6

\* What a read of a frame's length does when the reader is on the frame's track.
LEMMA LengthPair ==
  ASSUME Inv, Inv', CountInv, NEW b \in FrameBytes, b.place = 2,
         NEW g \in FrameBytes, NEW h \in FrameBytes,
         Whole(<<b>> \o Ahead, missed), Reads(<<g>> \o <<h>>), StreamInv
  PROVE  /\ Follows(b, g) /\ Follows(g, h) =>
              /\ Value(g) + 256 * Value(h) = 14 /\ h.place = 4 /\ h.frame = b.frame
              /\ Breaks(<<h>> \o Ahead') <= Breaks(<<b>> \o Ahead)
         /\ ~ (Follows(b, g) /\ Follows(g, h)) =>
              b.frame \in missed /\ Breaks(Ahead') + 1 <= Breaks(<<b>> \o Ahead)
         /\ Whole(<<h>> \o Ahead', missed)
<1>1. /\ b \in Places /\ g \in Places /\ h \in Places
      /\ <<b>> \in Seq(Places) /\ <<g>> \in Seq(Places) /\ <<h>> \in Seq(Places)
  BY FrameTypes, Amounts
<1>2. PICK a \in Seq(Places) : a = Ahead' /\ Ahead = (<<g>> \o <<h>>) \o a
  BY ReadStream
<1>3. PICK u \in Seq(Places), v \in Seq(Places) : u = <<g>> /\ v = <<h>>
  BY <1>1
<1>4. PICK w \in Seq(Places) : w = v \o a
  BY Joined
<1>5. Ahead = u \o w
  BY <1>2, <1>3, <1>4, Assoc
<1>6. Whole(<<b>> \o (<<g>> \o w), missed)
  BY <1>3, <1>5
<1>7. Whole(w, missed)
  <2>1. Whole(u \o w, missed)
    BY <1>5 DEF StreamInv
  <2> QED BY <2>1, WholeParts
<1>8. Whole(<<g>> \o (<<h>> \o a), missed)
  BY <1>3, <1>4, <1>5 DEF StreamInv
<1>9. Breaks(<<b>> \o (<<g>> \o w)) = Breaks(<<g>> \o w) + One(~ Follows(b, g))
  BY <1>1, BreaksFront
<1>10. Breaks(<<g>> \o (<<h>> \o a)) = Breaks(<<h>> \o a) + One(~ Follows(g, h))
  BY <1>1, BreaksFront
<1>11. /\ Breaks(a) \in Nat /\ Breaks(w) \in Nat /\ Breaks(a) <= Breaks(w)
  <2>1. Breaks(v) + Breaks(a) <= Breaks(v \o a) /\ Breaks(v) \in Nat /\ Breaks(a) \in Nat
    BY BreaksSplit, BreaksFinite
  <2>2. Breaks(w) \in Nat
    BY BreaksFinite
  <2> QED BY <1>4, <2>1, <2>2
<1>12. Breaks(<<b>> \o Ahead) = Breaks(w) + One(~ Follows(g, h)) + One(~ Follows(b, g))
  BY <1>3, <1>4, <1>5, <1>9, <1>10
<1>13. Follows(b, g) /\ Follows(g, h) =>
         /\ Value(g) + 256 * Value(h) = 14 /\ h.place = 4 /\ h.frame = b.frame
         /\ Breaks(w) <= Breaks(<<b>> \o Ahead)
  <2> SUFFICES ASSUME Follows(b, g), Follows(g, h)
               PROVE  /\ Value(g) + 256 * Value(h) = 14 /\ h.place = 4 /\ h.frame = b.frame
                      /\ Breaks(w) <= Breaks(<<b>> \o Ahead)
    OBVIOUS
  <2>1. Value(g) + 256 * Value(h) = 14 /\ h.place = 4
    BY LengthIs
  <2>2. h.frame = b.frame
    BY DEF Follows, FrameLen
  <2> QED BY <1>11, <1>12, <2>1, <2>2 DEF One
<1>14. ~ (Follows(b, g) /\ Follows(g, h)) =>
         b.frame \in missed /\ Breaks(a) + 1 <= Breaks(<<b>> \o Ahead)
  <2> SUFFICES ASSUME ~ (Follows(b, g) /\ Follows(g, h))
               PROVE  b.frame \in missed /\ Breaks(a) + 1 <= Breaks(<<b>> \o Ahead)
    OBVIOUS
  <2>1. b.frame \in missed
    <3> SUFFICES ASSUME b.frame \notin missed PROVE FALSE
      OBVIOUS
    <3>1. Follows(b, g) /\ g.place = 3 /\ g.frame = b.frame
      <4>1. b.place < 18
        OBVIOUS
      <4>2. Follows(b, g) /\ g.place = b.place + 1 /\ g.frame = b.frame
        BY <1>1, <1>6, <4>1, NextWhole
      <4> QED BY <4>2
    <3>2. g.frame \notin missed /\ g.place < 18
      BY <3>1
    <3>3. Follows(g, h)
      BY <1>1, <1>8, <3>2, NextWhole
    <3> QED BY <3>1, <3>3
  <2> QED BY <1>11, <1>12, <2>1 DEF One
<1> QED BY <1>2, <1>3, <1>4, <1>7, <1>13, <1>14

LEMMA LengthFrames ==
  ASSUME Inv, Inv', CountInv, CountInv', StreamInv, FramesInv, ReadLength
  PROVE  FramesInv'
<1>1. /\ pc = "length" /\ Ready /\ Taken(2) /\ window = SYNC
      /\ UNCHANGED <<published, sent, line, gaps, cuts, missed, fd>>
  BY DEF ReadLength, Short, LineAlone, Inv, PortInv
<1>2. PICK got \in Seq(FrameBytes) :
        /\ got = Got(2) /\ tty = got \o tty'
        /\ Len(got) = IF Len(tty) < 2 THEN Len(tty) ELSE 2
        /\ Len(tty) \in Nat
  BY <1>1, ReadSplits DEF Inv, TypeInv
<1>12. Len(got) < 2 /\ Len(tty) # 0 => Len(got) = 1
  <2>1. PICK k \in Nat : k = Len(tty)
    BY <1>2
  <2>2. Len(got) = IF k < 2 THEN k ELSE 2
    BY <1>2, <2>1
  <2> QED BY <2>1, <2>2
<1>3. Reads(got)
  BY <1>1, <1>2 DEF Reads
<1>4. /\ Whole(got, missed) /\ got \in Seq(Places) /\ Breaks(Ahead) \in Nat
      /\ Breaks(Ahead') \in Nat /\ Breaks(Ahead') <= Breaks(Ahead)
  BY <1>3, ReadStream
<1>5. Gone' \subseteq Gone \cup (HeadsOf(got) \ missed)
  <2>1. Published' = Published
    BY <1>1 DEF Published
  <2> QED BY <1>3, <2>1, GoneOnRead
<1>6. IsFiniteSet(Gone) /\ \A X : IsFiniteSet(Gone \ X)
  BY GoneFinite
<1>7. PICK extra : /\ extra = HeadsOf(got) \ missed /\ IsFiniteSet(extra)
                   /\ Cardinality(extra) <= TakenIn
  <2>1. Len(got) <= TtyDepth /\ Len(got) <= BufLen
    <3>1. Len(tty) <= TtyDepth /\ TtyDepth \in Nat
      BY SerialAssumption DEF Inv, PortInv
    <3> QED BY <1>2, <3>1 DEF BufLen
  <2> QED BY <1>4, <2>1, HeadsOfRead
<1>8. UNCHANGED <<gaps, cuts>> /\ shorts \in Nat
  BY <1>1, Amounts
<1>9. ASSUME ~ Within(Gone, shorts, gaps + cuts - (Breaks(Ahead) + 1))
      PROVE  \E b \in FrameBytes, n \in Nat :
               /\ fd = "open" /\ TtyDepth >= 1 /\ b.place = 2 /\ n = Breaks(<<b>> \o Ahead)
               /\ Whole(<<b>> \o Ahead, missed)
               /\ Within(Gone \ {b.frame}, shorts, gaps + cuts - n)
  <2>1. PICK b \in FrameBytes : OnTrack(b)
    BY <1>1, <1>9, FramesBefore
  <2>2. PICK n \in Nat : n = Breaks(<<b>> \o Ahead)
    BY Amounts
  <2>3. InHand(b) = {b.frame}
    BY <1>1 DEF InHand
  <2> QED BY <1>1, <2>1, <2>2, <2>3 DEF OnTrack, Afford
<1>10. CASE Len(got) < 2
  <2>1. pc' = "scan" /\ window' = window /\ shorts' = shorts + 1
    BY <1>2, <1>10 DEF ReadLength, Short
  <2>2. window'[2] # 170 /\ shorts <= shorts'
    BY <1>1, <1>8, <2>1 DEF SYNC
  <2>3. CASE Within(Gone, shorts, gaps + cuts - (Breaks(Ahead) + 1))
    <3>1. PICK n \in Nat : n = Breaks(Ahead) + 1 /\ Breaks(Ahead') + 1 <= n
      BY <1>4
    <3>2. Within(Gone, shorts, gaps + cuts - n)
      BY <2>3, <3>1
    <3>3. CASE fd = "open"
      BY <1>1, <1>5, <1>6, <1>7, <1>8, <2>1, <2>2, <3>1, <3>2, <3>3, ToIdlePaid
    <3>4. CASE fd # "open"
      <4>1. got = <<>>
        <5>1. Len(tty) = 0
          BY <3>4 DEF Inv, PortInv
        <5>2. Len(got) = 0
          BY <1>2, <5>1
        <5> QED BY <5>2, EmptySeq
      <4>2. Gone' \subseteq Gone
        BY <1>5, <4>1, NoHeads
      <4> QED BY <1>6, <1>8, <2>2, <3>1, <3>2, <4>2, ToSpare
    <3> QED BY <3>3, <3>4
  <2>4. CASE ~ Within(Gone, shorts, gaps + cuts - (Breaks(Ahead) + 1))
    <3>1. PICK b \in FrameBytes, n \in Nat :
            /\ fd = "open" /\ TtyDepth >= 1 /\ b.place = 2 /\ n = Breaks(<<b>> \o Ahead)
            /\ Whole(<<b>> \o Ahead, missed)
            /\ Within(Gone \ {b.frame}, shorts, gaps + cuts - n)
      BY <1>9, <2>4
    <3>2. PICK lost : lost = Gone \ {b.frame} /\ IsFiniteSet(lost)
      BY <1>6
    <3>3. Within(lost, shorts, gaps + cuts - n)
      BY <3>1, <3>2
    <3>4. PICK g \in FrameBytes : got = <<g>>
      <4>1. Len(got) = 1
        <5>1. tty # <<>>
          BY <1>1, <3>1 DEF Ready
        <5>2. Len(tty) # 0
          BY <5>1, EmptySeq DEF Inv, TypeInv
        <5> QED BY <1>10, <1>12, <5>2
      <4>2. got[1] \in FrameBytes /\ got = <<got[1]>>
        <5>1. 1 \in 1 .. Len(got)
          BY <4>1
        <5>2. got[1] \in FrameBytes
          BY <5>1, ElementOfSeq
        <5> QED BY <4>1, <5>2
      <4> QED BY <4>2
    <3>5. b \in Places /\ g \in Places
      BY FrameTypes
    <3>6. PICK a \in Seq(Places) : a = Ahead' /\ Ahead = <<g>> \o a
      BY <1>3, <3>4, ReadStream
    <3>7. Breaks(<<b>> \o (<<g>> \o a)) = Breaks(<<g>> \o a) + One(~ Follows(b, g))
      BY <3>5, BreaksFront
    <3>8. n = Breaks(Ahead) + One(~ Follows(b, g))
      BY <3>1, <3>6, <3>7
    <3>9. CASE Follows(b, g)
      <4>1. g.place = 3
        BY <3>1, <3>9 DEF Follows, FrameLen
      <4>2. HeadsOf(got) = {}
        BY <3>4, <4>1, NoHeadOf
      <4>3. PICK one : one = {b.frame} /\ IsFiniteSet(one) /\ Cardinality(one) = 1
        BY OneFrame
      <4>4. Gone' \subseteq lost \cup one
        BY <1>5, <3>2, <4>2, <4>3
      <4>5. shorts + Cardinality(one) <= shorts' /\ Breaks(Ahead') <= n
        BY <1>4, <1>8, <2>1, <3>8, <3>9, <4>3 DEF One
      <4> QED BY <1>1, <1>8, <2>1, <2>2, <3>1, <3>2, <3>3, <4>3, <4>4, <4>5, ToIdle
    <3>10. CASE ~ Follows(b, g)
      <4>1. b.frame \in missed
        <5> SUFFICES ASSUME b.frame \notin missed PROVE FALSE
          OBVIOUS
        <5>1. Whole(<<b>> \o (<<g>> \o a), missed) /\ b.place < 18
          BY <3>1, <3>6
        <5>2. Follows(b, g)
          BY <3>5, <5>1, NextWhole
        <5> QED BY <3>10, <5>2
      <4>2. Gone' \subseteq lost \cup extra
        BY <1>1, <1>5, <1>7, <3>2, <4>1 DEF Gone
      <4>3. Breaks(Ahead') + 1 <= n
        BY <1>4, <3>8, <3>10 DEF One
      <4> QED BY <1>1, <1>7, <1>8, <2>1, <2>2, <3>1, <3>2, <3>3, <4>2, <4>3, ToIdlePaid
    <3> QED BY <3>9, <3>10
  <2> QED BY <2>3, <2>4
<1>11. CASE ~ (Len(got) < 2)
  <2>1. Len(got) = 2
    BY <1>2, <1>11
  <2>2. PICK g \in FrameBytes, h \in FrameBytes :
          got[1] = g /\ got[2] = h /\ got = <<g>> \o <<h>>
    BY <2>1, TwoBytes
  <2>3. PICK v \in Int : v = Value(g) + 256 * Value(h)
    BY ValueType, SMTT(40)
  <2>4. /\ pktLen' = v /\ shorts' = shorts
        /\ IF ValidLength(v) THEN pc' = "body" /\ UNCHANGED window
                             ELSE pc' = "scan" /\ window' = <<0, 0>>
    BY <1>2, <1>11, <2>2, <2>3 DEF ReadLength
  <2>5. shorts <= shorts' /\ fd = "open"
    <3>1. tty # <<>>
      <4>1. Len(tty) # 0
        BY <1>2, <2>1
      <4> QED BY <4>1, EmptySeq
    <3> QED BY <1>8, <2>4, <3>1 DEF Inv, PortInv
  <2>6. CASE ValidLength(v)
    <3>1. pc' = "body" /\ Gone' \subseteq Gone
      BY <1>5, <2>2, <2>3, <2>4, <2>6, HeadsAreLong
    <3>2. CASE Within(Gone, shorts, gaps + cuts - (Breaks(Ahead) + 1))
      <4>1. PICK n \in Nat : n = Breaks(Ahead) + 1 /\ Breaks(Ahead') + 1 <= n
        BY <1>4
      <4>2. Within(Gone, shorts, gaps + cuts - n)
        BY <3>2, <4>1
      <4> QED BY <1>6, <1>8, <2>5, <3>1, <4>1, <4>2, ToSpare
    <3>3. CASE ~ Within(Gone, shorts, gaps + cuts - (Breaks(Ahead) + 1))
      <4>1. PICK b \in FrameBytes, n \in Nat :
              /\ fd = "open" /\ TtyDepth >= 1 /\ b.place = 2 /\ n = Breaks(<<b>> \o Ahead)
              /\ Whole(<<b>> \o Ahead, missed)
              /\ Within(Gone \ {b.frame}, shorts, gaps + cuts - n)
        BY <1>9, <3>3
      <4>2. PICK lost : lost = Gone \ {b.frame} /\ IsFiniteSet(lost)
        BY <1>6
      <4>3. Within(lost, shorts, gaps + cuts - n)
        BY <4>1, <4>2
      <4>4. Reads(<<g>> \o <<h>>)
        BY <1>3, <2>2
      <4>5. CASE Follows(b, g) /\ Follows(g, h)
        <5>1. /\ Value(g) + 256 * Value(h) = 14 /\ h.place = 4 /\ h.frame = b.frame
              /\ Breaks(<<h>> \o Ahead') <= n /\ Whole(<<h>> \o Ahead', missed)
          BY <4>1, <4>4, <4>5, LengthPair
        <5>2. Gone' \ InHand(h)' \subseteq lost
          BY <3>1, <4>2, <5>1 DEF InHand
        <5>3. /\ Whole(<<h>> \o Ahead', missed') /\ fd' = "open" /\ pktLen' = 14
          BY <1>1, <2>3, <2>4, <2>5, <5>1
        <5> QED BY <1>8, <2>5, <3>1, <4>1, <4>2, <4>3, <5>1, <5>2, <5>3, ToTrack
      <4>6. CASE ~ (Follows(b, g) /\ Follows(g, h))
        <5>1. b.frame \in missed /\ Breaks(Ahead') + 1 <= n
          BY <4>1, <4>4, <4>6, LengthPair
        <5>2. Gone' \subseteq lost
          BY <1>1, <3>1, <4>2, <5>1 DEF Gone
        <5> QED BY <1>8, <2>5, <4>2, <4>3, <5>1, <5>2, ToSpare
      <4> QED BY <4>5, <4>6
    <3> QED BY <3>2, <3>3
  <2>7. CASE ~ ValidLength(v)
    <3>1. pc' = "scan" /\ window'[2] # 170
      BY <2>4, <2>7
    <3>2. CASE Within(Gone, shorts, gaps + cuts - (Breaks(Ahead) + 1))
      <4>1. PICK n \in Nat : n = Breaks(Ahead) + 1 /\ Breaks(Ahead') + 1 <= n
        BY <1>4
      <4>2. Within(Gone, shorts, gaps + cuts - n)
        BY <3>2, <4>1
      <4> QED BY <1>1, <1>5, <1>6, <1>7, <1>8, <2>5, <3>1, <4>1, <4>2, ToIdlePaid
    <3>3. CASE ~ Within(Gone, shorts, gaps + cuts - (Breaks(Ahead) + 1))
      <4>1. PICK b \in FrameBytes, n \in Nat :
              /\ fd = "open" /\ TtyDepth >= 1 /\ b.place = 2 /\ n = Breaks(<<b>> \o Ahead)
              /\ Whole(<<b>> \o Ahead, missed)
              /\ Within(Gone \ {b.frame}, shorts, gaps + cuts - n)
        BY <1>9, <3>3
      <4>2. PICK lost : lost = Gone \ {b.frame} /\ IsFiniteSet(lost)
        BY <1>6
      <4>3. Within(lost, shorts, gaps + cuts - n)
        BY <4>1, <4>2
      <4>4. Reads(<<g>> \o <<h>>)
        BY <1>3, <2>2
      <4>5. ~ (Follows(b, g) /\ Follows(g, h))
        <5> SUFFICES ASSUME Follows(b, g), Follows(g, h) PROVE FALSE
          OBVIOUS
        <5>1. v = 14
          BY <2>3, <4>1, LengthIs
        <5> QED BY <2>7, <5>1 DEF ValidLength, MinLen, BufLen
      <4>6. b.frame \in missed /\ Breaks(Ahead') + 1 <= n
        BY <4>1, <4>4, <4>5, LengthPair
      <4>7. Gone' \subseteq lost \cup extra
        BY <1>1, <1>5, <1>7, <4>2, <4>6 DEF Gone
      <4> QED BY <1>1, <1>7, <1>8, <2>5, <3>1, <4>2, <4>3, <4>6, <4>7, ToIdlePaid
    <3> QED BY <3>2, <3>3
  <2> QED BY <2>6, <2>7
<1> QED BY <1>10, <1>11

LEMMA NoHeadsOf ==
  ASSUME NEW s, NEW f, \A i \in 1 .. Len(s) : s[i] = [frame |-> f, place |-> i + 4], Len(s) \in Nat
  PROVE  HeadsOf(s) = {}
<1>1. \A i \in 1 .. Len(s) : s[i].place # 1
  <2> SUFFICES ASSUME NEW i \in 1 .. Len(s) PROVE s[i].place # 1
    OBVIOUS
  <2>1. s[i] = [frame |-> f, place |-> i + 4] /\ i \in Nat
    OBVIOUS
  <2> QED BY <2>1
<1> QED BY <1>1 DEF HeadsOf

\* The body of a frame that is not missed, as far as the read got.
LEMMA WholeBody ==
  ASSUME NEW b \in FrameBytes, b.place = 4, NEW got \in Seq(Places), Len(got) <= 14,
         NEW m, Whole(<<b>> \o got, m), b.frame \notin m
  PROVE  \A i \in 1 .. Len(got) : got[i] = [frame |-> b.frame, place |-> i + 4]
<1>1. b \in Places /\ Len(got) \in Nat
  BY FrameTypes, LenProperties
<1> DEFINE s == <<b>> \o got
<1>2. /\ Len(s) = Len(got) + 1 /\ s[1] = b /\ \A i \in 1 .. Len(got) : s[i + 1] = got[i]
  BY <1>1, OneInFront
<1>3. Whole(s, m)
  OBVIOUS
<1> HIDE DEF s
<1> SUFFICES ASSUME NEW i \in 1 .. Len(got)
             PROVE  got[i] = [frame |-> b.frame, place |-> i + 4]
  OBVIOUS
<1>4. i \in Nat /\ i + 1 \in 1 .. Len(s) /\ 1 \in 1 .. Len(s) /\ 1 < i + 1 /\ i <= 14
  BY <1>1, <1>2
<1> DEFINE j == i + 1
<1>5. j \in 1 .. Len(s) /\ 1 < j /\ j - 1 = i /\ s[j] = got[i]
  BY <1>2, <1>4
<1> HIDE DEF j
<1>6. s[1].frame \notin m /\ s[1].place + (j - 1) <= FrameLen
  BY <1>2, <1>4, <1>5 DEF FrameLen
<1>7. s[j] = [frame |-> s[1].frame, place |-> s[1].place + (j - 1)]
  BY <1>3, <1>4, <1>5, <1>6 DEF Whole
<1>8. s[1].place + (j - 1) = i + 4
  BY <1>2, <1>4, <1>5
<1> QED BY <1>2, <1>5, <1>7, <1>8

LEMMA BodyFrames ==
  ASSUME Inv, Inv', CountInv, CountInv', StreamInv, FramesInv, ReadBody
  PROVE  FramesInv'
<1>1. /\ pc = "body" /\ Ready /\ Taken(pktLen) /\ window = SYNC /\ pc' = "scan"
      /\ UNCHANGED <<sent, line, gaps, cuts, missed, fd, window>>
  BY DEF ReadBody, Short, LineAlone, Inv, PortInv
<1>2. pktLen \in Nat /\ pktLen <= BufLen /\ pktLen >= 14
  BY <1>1 DEF Inv, TypeInv, PortInv, MinLen, CountInv
<1>3. PICK got \in Seq(FrameBytes) :
        /\ got = Got(pktLen) /\ tty = got \o tty'
        /\ Len(got) = IF Len(tty) < pktLen THEN Len(tty) ELSE pktLen
        /\ Len(tty) \in Nat
  BY <1>1, <1>2, ReadSplits DEF Inv, TypeInv
<1>4. /\ Len(got) \in Nat /\ Len(got) <= pktLen /\ Len(got) <= Len(tty)
      /\ Len(got) <= BufLen /\ Len(got) <= TtyDepth
  <2>1. Len(tty) <= TtyDepth /\ TtyDepth \in Nat
    BY SerialAssumption DEF Inv, PortInv
  <2>2. PICK k \in Nat, p \in Nat : k = Len(tty) /\ p = pktLen
    BY <1>2, <1>3
  <2>3. Len(got) = IF k < p THEN k ELSE p
    BY <1>3, <2>2
  <2> QED BY <1>2, <2>1, <2>2, <2>3 DEF BufLen
<1>5. Reads(got)
  BY <1>1, <1>3 DEF Reads
<1>6. /\ Whole(got, missed) /\ got \in Seq(Places) /\ Breaks(Ahead) \in Nat
      /\ Breaks(Ahead') \in Nat /\ Breaks(Ahead') <= Breaks(Ahead)
  BY <1>5, ReadStream
<1>7. \/ Len(got) # pktLen /\ published' = published /\ shorts' = shorts + 1
      \/ Len(got) = pktLen /\ published' = Append(published, got) /\ shorts' = shorts
  BY <1>3 DEF ReadBody, Short, Complete
<1>8. Gone' \subseteq Gone \cup (HeadsOf(got) \ missed)
  <2>1. Published \subseteq Published'
    BY <1>7, PublishedGrows
  <2> QED BY <1>5, <2>1, GoneOnRead
<1>9. IsFiniteSet(Gone) /\ \A X : IsFiniteSet(Gone \ X)
  BY GoneFinite
<1>10. PICK extra : /\ extra = HeadsOf(got) \ missed /\ IsFiniteSet(extra)
                    /\ Cardinality(extra) <= TakenIn
  BY <1>4, <1>6, HeadsOfRead
<1>11. /\ UNCHANGED <<gaps, cuts>> /\ shorts \in Nat /\ shorts <= shorts' /\ window'[2] # 170
  BY <1>1, <1>7, Amounts DEF SYNC
<1>12. CASE Within(Gone, shorts, gaps + cuts - (Breaks(Ahead) + 1))
  <2>1. PICK n \in Nat : n = Breaks(Ahead) + 1 /\ Breaks(Ahead') + 1 <= n
    BY <1>6
  <2>2. Within(Gone, shorts, gaps + cuts - n)
    BY <1>12, <2>1
  <2>3. CASE fd = "open"
    <3>1. fd' = "open" /\ Gone' \subseteq Gone \cup extra
      BY <1>1, <1>8, <1>10, <2>3
    <3> QED BY <1>1, <1>9, <1>10, <1>11, <2>1, <2>2, <3>1, ToIdlePaid
  <2>4. CASE fd # "open"
    <3>1. got = <<>>
      <4>1. Len(tty) = 0
        BY <2>4 DEF Inv, PortInv
      <4>2. Len(got) = 0
        BY <1>4, <4>1
      <4> QED BY <4>2, EmptySeq
    <3>2. Gone' \subseteq Gone
      BY <1>8, <3>1, NoHeads
    <3> QED BY <1>9, <1>11, <2>1, <2>2, <3>2, ToSpare
  <2> QED BY <2>3, <2>4
<1>13. CASE ~ Within(Gone, shorts, gaps + cuts - (Breaks(Ahead) + 1))
  <2>1. PICK b \in FrameBytes : OnTrack(b) /\ fd = "open"
    BY <1>1, <1>13, FramesBefore
  <2>2. PICK n \in Nat : n = Breaks(<<b>> \o Ahead)
    BY Amounts
  <2>3. PICK lost : lost = Gone \ {b.frame} /\ IsFiniteSet(lost)
    BY <1>9
  <2>4. /\ b.place = 4 /\ pktLen = 14 /\ Whole(<<b>> \o Ahead, missed)
        /\ Within(lost, shorts, gaps + cuts - n)
    <3>1. InHand(b) = {b.frame}
      BY <1>1 DEF InHand
    <3> QED BY <1>1, <2>1, <2>2, <2>3, <3>1 DEF OnTrack, Afford
  <2>5. fd' = "open" /\ b \in Places /\ b.frame \in Frames /\ Len(got) <= 14
    BY <1>1, <1>4, <2>1, <2>4, FrameTypes DEF FrameBytes
  <2>6. PICK u \in Seq(Places), a \in Seq(Places) :
          u = <<b>> /\ a = Ahead' /\ u \o Ahead = (u \o got) \o a /\ u \o got \in Seq(Places)
    <3>1. PICK u \in Seq(Places), a \in Seq(Places) :
            u = <<b>> /\ a = Ahead' /\ Ahead = got \o a
      <4>1. <<b>> \in Seq(Places) /\ Ahead = got \o Ahead' /\ Ahead' \in Seq(Places)
        BY <1>5, <2>5, ReadStream
      <4> QED BY <4>1
    <3>2. u \o (got \o a) = (u \o got) \o a /\ u \o got \in Seq(Places)
      BY <1>6, Assoc, Joined, ZenonT(60)
    <3> QED BY <3>1, <3>2
  <2>7. /\ Breaks(u \o got) \in Nat /\ Breaks(u \o got) + Breaks(Ahead') <= n
    <3>1. Breaks(u \o got) + Breaks(a) <= Breaks((u \o got) \o a)
      BY <2>6, BreaksSplit
    <3>2. Breaks(u \o got) \in Nat
      BY <2>6, BreaksFinite
    <3> QED BY <2>2, <2>6, <3>1, <3>2
  <2>8. Whole(u \o got, missed)
    <3>1. Whole((u \o got) \o a, missed)
      BY <2>4, <2>6
    <3> QED BY <2>6, <3>1, WholeParts
  <2>9. CASE b.frame \notin missed
    <3>1. \A i \in 1 .. Len(got) : got[i] = [frame |-> b.frame, place |-> i + 4]
      <4>1. Whole(<<b>> \o got, missed)
        BY <2>6, <2>8
      <4> QED BY <1>6, <2>4, <2>5, <2>9, <4>1, WholeBody
    <3>2. HeadsOf(got) = {}
      BY <1>4, <3>1, NoHeadsOf
    <3>3. CASE Len(got) = pktLen
      <4>1. got = SubSeq(Bytes(b.frame), 5, FrameLen)
        <5>1. Len(got) = 14 /\ \A i \in 1 .. 14 : got[i] = [frame |-> b.frame, place |-> i + 4]
          BY <2>4, <3>1, <3>3
        <5> QED BY <2>5, <5>1, BodyOf
      <4>2. b.frame \in Published'
        <5> DEFINE S == Seq(FrameBytes)
        <5>1. published \in Seq(S) /\ got \in S
          BY DEF Inv, TypeInv
        <5> HIDE DEF S
        <5>2. /\ Append(published, got) \in Seq(S)
              /\ Len(Append(published, got)) = Len(published) + 1
              /\ Append(published, got)[Len(published) + 1] = got
              /\ Len(published) \in Nat
          BY <5>1, AppendProperties, LenProperties
        <5>3. published' = Append(published, got)
          BY <1>7, <3>3
        <5>4. Len(published) + 1 \in DOMAIN published'
          BY <5>2, <5>3, LenProperties
        <5>5. published'[Len(published) + 1] = SubSeq(Bytes(b.frame), 5, FrameLen)
          BY <4>1, <5>2, <5>3
        <5> QED BY <2>5, <5>4, <5>5 DEF Published
      <4>3. PICK none : none = {} /\ IsFiniteSet(none) /\ Cardinality(none) = 0
        BY FS_EmptySet
      <4>4. Gone' \subseteq lost \cup none
        BY <1>8, <2>3, <3>2, <4>2, <4>3 DEF Gone
      <4>5. shorts + Cardinality(none) <= shorts' /\ Breaks(Ahead') <= n
        BY <1>6, <1>11, <2>7, <4>3
      <4> QED BY <1>1, <1>11, <2>3, <2>4, <2>5, <4>3, <4>4, <4>5, ToIdle
    <3>4. CASE Len(got) # pktLen
      <4>1. PICK one : one = {b.frame} /\ IsFiniteSet(one) /\ Cardinality(one) = 1
        BY OneFrame
      <4>2. Gone' \subseteq lost \cup one
        BY <1>8, <2>3, <3>2, <4>1
      <4>3. shorts + Cardinality(one) <= shorts' /\ Breaks(Ahead') <= n
        BY <1>6, <1>7, <1>11, <2>7, <3>4, <4>1
      <4> QED BY <1>1, <1>11, <2>3, <2>4, <2>5, <4>1, <4>2, <4>3, ToIdle
    <3> QED BY <3>3, <3>4
  <2>10. CASE b.frame \in missed
    <3>1. Gone' \subseteq lost \cup extra
      BY <1>1, <1>8, <1>10, <2>3, <2>10 DEF Gone
    <3>2. CASE Breaks(u \o got) = 0
      <4>1. HeadsOf(got) = {}
        <5>1. \A i \in 1 .. Len(got) : got[i] = [frame |-> b.frame, place |-> i + 4]
          BY <2>4, <2>5, <2>6, <3>2, BodyRun
        <5> QED BY <1>4, <5>1, NoHeadsOf
      <4>2. extra = {} /\ Cardinality(extra) = 0
        BY <1>10, <4>1, FS_EmptySet
      <4>3. shorts + Cardinality(extra) <= shorts' /\ Breaks(Ahead') <= n
        BY <1>6, <1>11, <2>7, <4>2
      <4> QED BY <1>1, <1>10, <1>11, <2>3, <2>4, <2>5, <3>1, <4>3, ToIdle
    <3>3. CASE Breaks(u \o got) # 0
      <4>1. Breaks(Ahead') + 1 <= n
        BY <1>6, <2>7, <3>3
      <4> QED BY <1>1, <1>10, <1>11, <2>3, <2>4, <2>5, <3>1, <4>1, ToIdlePaid
    <3> QED BY <3>2, <3>3
  <2> QED BY <2>9, <2>10
<1> QED BY <1>12, <1>13

LEMMA InitFrames == ASSUME Init PROVE IInv
<1>1. /\ sent = 0 /\ line = <<>> /\ tty = <<>> /\ fd = "open" /\ window = <<0, 0>> /\ pc = "scan"
      /\ gaps = 0 /\ cuts = 0 /\ shorts = 0 /\ missed = {}
  BY DEF Init
<1>2. Inv /\ CountInv
  BY <1>1, InitInv DEF CountInv
<1>3. NextByte \in Places /\ <<NextByte>> \in Seq(Places) /\ Ahead = <<NextByte>>
  <2>1. NextByte \in Places /\ <<>> \in Seq(Places) /\ <<NextByte>> \in Seq(Places)
    BY <1>2, AheadType, EmptySeq
  <2> QED BY <1>1, <2>1, ConcatEmptySeq DEF Ahead, Coming
<1>4. StreamInv
  BY <1>3, WholeOne DEF StreamInv
<1>5. Breaks(Ahead) = 0
  <2>1. <<>> \in Seq(Places)
    BY EmptySeq
  <2> QED BY <1>3, <2>1, BreaksFront
<1>6. Gone = {}
  BY <1>1 DEF Gone
<1>7. Idle
  <2>1. Cardinality(Gone) = 0 /\ gaps + cuts - Breaks(Ahead) = 0
    BY <1>1, <1>5, <1>6, FS_EmptySet
  <2>2. TakenIn \in Nat
    BY TakenInType
  <2>3. TakenIn * 0 = 0
    BY <2>2
  <2>4. Within(Gone, shorts, gaps + cuts - Breaks(Ahead))
    BY <1>1, <2>1, <2>3 DEF Within
  <2> QED BY <1>1, <2>4 DEF Idle, Afford
<1> QED BY <1>2, <1>4, <1>7 DEF IInv, FramesInv

LEMMA FramesCounted == Spec => []IInv
<1>1. Init => IInv
  BY InitFrames
<1>2. IInv /\ [Next]_vars => IInv'
  <2> SUFFICES ASSUME IInv, [Next]_vars PROVE IInv'
    OBVIOUS
  <2>0. Inv /\ CountInv /\ StreamInv /\ FramesInv
    BY DEF IInv
  <2>1. CASE Next
    <3>1. Inv'
      BY <2>0, <2>1, LineKeeps, BridgeKeeps DEF Next
    <3>2. CountInv' /\ StreamInv'
      BY <2>0, <2>1, <3>1, CountKept, StreamKept
    <3>3. FramesInv'
      BY <2>0, <2>1, <3>1, <3>2, LineFrames, CutFrames, PortFrames, ScanFrames, LengthFrames,
         BodyFrames DEF Next, Line, Bridge
    <3> QED BY <3>1, <3>2, <3>3 DEF IInv
  <2>2. CASE UNCHANGED vars
    <3>1. UNCHANGED <<sent, line, tty, plugged, fd, window, pc, pktLen, published, gaps, cuts,
                      shorts, missed>>
      BY <2>2 DEF vars, bridgeVars
    <3>2. Inv' /\ CountInv'
      BY <2>0, <3>1 DEF Inv, TypeInv, PortInv, CountInv
    <3>3. Ahead' = Ahead /\ Gone' = Gone
      BY <3>1 DEF Ahead, Coming, NextByte, Gone, Published
    <3>4. StreamInv'
      BY <2>0, <3>1, <3>3 DEF StreamInv
    <3>5. FramesInv'
      BY <2>0, <3>1, <3>3 DEF FramesInv, Spare, Idle, OnTrack, InHand, Afford
    <3> QED BY <3>2, <3>4, <3>5 DEF IInv
  <2> QED BY <2>1, <2>2
<1> QED BY <1>1, <1>2, PTL DEF Spec

\* A frame of which every byte reached the reader has been published by the
\* time that ESP32Bridge_Main scans for a marker again, whatever is sent and
\* however it arrives: all but one for each read that came up short, and for
\* each loss of bytes or cut as many as the body after a false marker takes in.
THEOREM WholeFramesArePublished == Spec => []WholeFramesPublished
<1>1. IInv => WholeFramesPublished
  <2> SUFFICES ASSUME IInv, pc = "scan"
               PROVE  Cardinality(PassedBy \ Published) <= shorts + TakenIn * (gaps + cuts)
    BY DEF WholeFramesPublished
  <2>0. Inv /\ CountInv /\ StreamInv /\ FramesInv
    BY DEF IInv
  <2>1. /\ gaps \in Nat /\ cuts \in Nat /\ shorts \in Nat /\ Breaks(Ahead) \in Nat
        /\ tty \in Seq(Places) /\ line \in Seq(Places)
    BY <2>0, Amounts, AheadType
  <2>2. IsFiniteSet(Gone) /\ \A X : IsFiniteSet(Gone \ X)
    BY <2>0, GoneFinite
  <2>3. FramesOf(line \o tty) = FramesOf(line) \cup FramesOf(tty)
    BY <2>1, FramesJoin
  <2>4. PassedBy \ Published \subseteq Gone
    <3>1. HeadsOf(tty) \subseteq FramesOf(tty) /\ HeadsOf(line) \subseteq FramesOf(line)
      BY <2>1, HeadsAreFrames
    <3> QED BY <2>3, <3>1 DEF PassedBy, Gone
  <2>5. ASSUME NEW lost, IsFiniteSet(lost), NEW n \in Nat, Within(lost, shorts, gaps + cuts - n),
               PassedBy \ Published \subseteq lost
        PROVE  Within(PassedBy \ Published, shorts, gaps + cuts)
    <3>1. PICK x \in Int, y \in Int : x = gaps + cuts - n /\ y = gaps + cuts /\ x <= y
      <4>1. gaps + cuts - n \in Int /\ gaps + cuts \in Int /\ gaps + cuts - n <= gaps + cuts
        BY <2>1
      <4> QED BY <4>1
    <3>2. Within(lost, shorts, x) /\ shorts <= shorts
      BY <2>1, <2>5, <3>1
    <3>3. Within(PassedBy \ Published, shorts, y)
      BY <2>1, <2>5, <3>1, <3>2, WithinAsWell
    <3> QED BY <3>1, <3>3
  <2>6. CASE Within(Gone, shorts, gaps + cuts - (Breaks(Ahead) + 1))
    <3>1. PICK n \in Nat : n = Breaks(Ahead) + 1
      BY <2>1
    <3> QED BY <2>2, <2>4, <2>5, <2>6, <3>1 DEF Within
  <2>7. CASE Within(Gone, shorts, gaps + cuts - Breaks(Ahead))
    BY <2>1, <2>2, <2>4, <2>5, <2>7 DEF Within
  <2>8. CASE \E b \in FrameBytes : OnTrack(b)
    <3>1. PICK b \in FrameBytes : OnTrack(b)
      BY <2>8
    <3>2. PICK n \in Nat : n = Breaks(<<b>> \o Ahead)
      BY <2>0, Amounts
    <3>3. PICK lost : lost = Gone \ InHand(b) /\ IsFiniteSet(lost)
      BY <2>2
    <3>4. Within(lost, shorts, gaps + cuts - n) /\ Whole(<<b>> \o Ahead, missed)
      BY <3>1, <3>2, <3>3 DEF OnTrack, Afford
    <3>5. PassedBy \ Published \subseteq lost
      <4> SUFFICES ASSUME NEW f \in PassedBy, f \in InHand(b) PROVE FALSE
        BY <2>4, <3>3
      <4>1. f = b.frame /\ b.place = 1
        BY DEF InHand
      <4>2. b.frame \notin missed /\ b.frame <= sent
        BY <4>1 DEF PassedBy
      <4>3. b.place < 18
        BY <4>1
      <4>4. b.frame \in FramesOf(tty) \cup FramesOf(line)
        BY <2>0, <3>4, <4>2, <4>3, NextOfFrame
      <4> QED BY <2>3, <4>1, <4>4 DEF PassedBy
    <3> QED BY <2>5, <3>3, <3>4, <3>5 DEF Within
  <2> QED BY <2>0, <2>6, <2>7, <2>8, FramesBefore DEF Within
<1> QED BY <1>1, FramesCounted, PTL

=============================================================================
