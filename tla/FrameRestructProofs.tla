------------------------- MODULE FrameRestructProofs -------------------------
(***************************************************************************)
(* However read() cuts a stream of bytes, RestructFrame finds what Parse    *)
(* finds in the uncut stream, for streams of any length and any limits of   *)
(* the frames.  Loop and Parse are recursive functions; what they compute   *)
(* is proved from their last index down to the first (lemma Descend).       *)
(***************************************************************************)
EXTENDS FrameRestruct, NaturalsInduction, WellFoundedInduction, SequenceTheorems, TLAPS

USE FrameAssumption DEF FRAME_LEN_MIN

Byte == 0 .. 255
Found == [saved : Seq(Seq(Byte)), rest : Seq(Byte)]
Nothing == [saved |-> <<>>, rest |-> <<>>]

\* The sequences of frames, under a name: the provers do not match nested Seqs.
FrameSeq == Seq(Seq(Byte))

LEMMA FramesAssociative == \A r, s, u \in FrameSeq : (r \o s) \o u = r \o (s \o u)
BY DEF FrameSeq

-----------------------------------------------------------------------------
(* Induction over an interval, as a fact about sets                         *)

\* A set of numbers has a least one.
LEMMA Lowest ==
  ASSUME NEW S, S \subseteq Nat, S # {}
  PROVE  \E f \in S : \A g \in S : f <= g
<1> DEFINE below == {ss \in Nat \X Nat : ss[1] < ss[2]}
<1>1. IsWellFoundedOn(below, Nat)
  BY NatLessThanWellFounded DEF OpToRel
<1> HIDE DEF below
<1>2. PICK f \in S : \A g \in S : ~ (<<g, f>> \in below)
  BY <1>1, WFMin
<1>3. ASSUME NEW g \in S
      PROVE  f <= g
  <2>1. f \in Nat /\ g \in Nat
    OBVIOUS
  <2>2. g < f => <<g, f>> \in below
    BY <2>1 DEF below
  <2> QED
    BY <1>2, <2>1, <2>2
<1> QED
  BY <1>3

\* A set with an interval's last number, and with each number of it whose successor is
\* there, has them all.
LEMMA Descend ==
  ASSUME NEW S, NEW lo \in Int, NEW hi \in Int, hi \in S,
         \A k \in lo .. hi - 1 : k + 1 \in S => k \in S
  PROVE  \A k \in lo .. hi : k \in S
<1> DEFINE out == {d \in Nat : d <= hi - lo /\ hi - d \notin S}
<1>1. CASE out = {}
  <2>1. ASSUME NEW k \in lo .. hi
        PROVE  k \in S
    <3>1. hi - k \in Nat /\ hi - k <= hi - lo /\ hi - (hi - k) = k
      OBVIOUS
    <3>2. hi - k \notin out
      BY <1>1
    <3> QED
      BY <3>1, <3>2
  <2> QED
    BY <2>1
<1>2. CASE out # {}
  <2>1. PICK d \in out : \A e \in out : d <= e
    BY <1>2, Lowest
  <2>2. d \in Nat /\ d <= hi - lo /\ hi - d \notin S
    OBVIOUS
  <2>3. d # 0
    BY <2>2
  <2>4. d - 1 \in Nat /\ d - 1 <= hi - lo /\ d - 1 \notin out
    BY SMTT(30), <2>1, <2>2, <2>3
  <2>5. hi - (d - 1) \in S /\ hi - (d - 1) = (hi - d) + 1
    BY <2>2, <2>4
  <2>6. hi - d \in lo .. hi - 1
    BY <2>2, <2>3
  <2> QED
    BY <2>2, <2>5, <2>6
<1> QED
  BY <1>1, <1>2

\* A set with each number of an interval above which the interval is in it has them all.
LEMMA DescendAll ==
  ASSUME NEW S, NEW lo \in Int, NEW hi \in Int,
         \A k \in lo .. hi : (\A q \in k + 1 .. hi : q \in S) => k \in S
  PROVE  \A k \in lo .. hi : k \in S
<1> DEFINE T == {k \in Int : \A q \in k .. hi : q \in lo .. hi => q \in S}
<1>1. hi + 1 \in T
  OBVIOUS
<1>2. ASSUME NEW k \in lo .. hi, k + 1 \in T
      PROVE  k \in T
  <2>1. \A q \in k + 1 .. hi : q \in lo .. hi
    OBVIOUS
  <2>2. k \in S
    BY <1>2, <2>1
  <2>3. \A q \in k .. hi : q = k \/ q \in k + 1 .. hi
    OBVIOUS
  <2> QED
    BY <1>2, <2>2, <2>3
<1>3. \A k \in lo .. hi + 1 : k \in T
  <2>1. \A k \in lo .. (hi + 1) - 1 : k + 1 \in T => k \in T
    BY <1>2
  <2>2. hi + 1 \in Int
    OBVIOUS
  <2> HIDE DEF T
  <2> QED
    BY ONLY <1>1, <2>1, <2>2, lo \in Int, Descend, Zenon
<1>4. ASSUME NEW k \in lo .. hi
      PROVE  k \in S
  <2>1. k \in T /\ k \in k .. hi
    BY <1>3
  <2> QED
    BY <2>1
<1> QED
  BY <1>4

\* Upwards.
LEMMA Ascend ==
  ASSUME NEW S, NEW lo \in Int, NEW hi \in Int, lo \in S,
         \A k \in lo .. hi - 1 : k \in S => k + 1 \in S
  PROVE  \A k \in lo .. hi : k \in S
<1> DEFINE T == {k \in Int : lo + hi - k \in S}
<1>1. hi \in T
  OBVIOUS
<1>2. ASSUME NEW k \in lo .. hi - 1, k + 1 \in T
      PROVE  k \in T
  <2>1. lo + hi - (k + 1) \in lo .. hi - 1 /\ lo + hi - (k + 1) \in S
    BY <1>2
  <2>2. (lo + hi - (k + 1)) + 1 = lo + hi - k
    OBVIOUS
  <2> QED
    BY <2>1, <2>2
<1>3. \A k \in lo .. hi : k \in T
  <2> HIDE DEF T
  <2> QED
    BY <1>1, <1>2, Descend
<1>4. ASSUME NEW k \in lo .. hi
      PROVE  k \in S
  <2>1. lo + hi - k \in lo .. hi /\ lo + hi - (lo + hi - k) = k
    OBVIOUS
  <2> QED
    BY <1>3, <2>1
<1> QED
  BY <1>4

-----------------------------------------------------------------------------
(* The parser: Parser(s) is the recursive function of Parse                 *)

Parser(s) == CHOOSE at : at = [p \in 1 .. Len(s) + 1 |-> ParseAt(s, p, at)]

\* A length that has been read is a number of two bytes.
LEMMA ClaimedType ==
  ASSUME NEW s \in Seq(Byte), NEW p \in 1 .. Len(s), p + 2 <= Len(s)
  PROVE  Claimed(s, p) \in Nat
<1>1. s[p + 1] \in Byte /\ s[p + 2] \in Byte
  OBVIOUS
<1>2. \A a, b \in Byte : 256 * a + b \in Nat
  BY DEF Byte
<1> QED
  BY <1>1, <1>2 DEF Claimed

\* A stretch of a stream of bytes.
LEMMA Stretch ==
  ASSUME NEW s \in Seq(Byte), NEW p \in 1 .. Len(s) + 1, NEW q \in p - 1 .. Len(s)
  PROVE  /\ SubSeq(s, p, q) \in Seq(Byte)
         /\ Len(SubSeq(s, p, q)) = q - p + 1
         /\ \A i \in 1 .. q - p + 1 : SubSeq(s, p, q)[i] = s[p + i - 1]
<1>1. \A i \in p .. q : s[i] \in Byte
  OBVIOUS
<1> QED
  BY <1>1, SubSeqProperties

\* Of a plausible frame that is all there, only the last byte is left to look at.
LEMMA FrameThere ==
  ASSUME NEW s \in Seq(Byte), NEW p \in 1 .. Len(s), s[p] = FRAME_HEAD, ~ Incomplete(s, p), Plausible(s, p)
  PROVE  /\ Claimed(s, p) \in Nat /\ p + Claimed(s, p) \in p + 1 .. Len(s) + 1
         /\ LET f == SubSeq(s, p, p + Claimed(s, p) - 1)
            IN f \in Seq(Byte) /\ (IsFrame(f) <=> s[p + Claimed(s, p) - 1] = FRAME_END)
<1> DEFINE n == Claimed(s, p)
           f == SubSeq(s, p, p + n - 1)
<1>1. /\ p + 2 <= Len(s) /\ n \in FRAME_LEN_MIN .. FRAME_LEN_MAX /\ p + n - 1 <= Len(s)
  <2>1. p + 4 <= Len(s)
    BY LenProperties DEF Incomplete
  <2>2. n \in Nat
    BY <2>1, ClaimedType
  <2> QED
    BY <2>1, <2>2, LenProperties DEF Incomplete, Plausible
<1> HIDE DEF n
<1>2. n \in Nat /\ p + n \in p + 1 .. Len(s) + 1
  BY <1>1, LenProperties
<1>3. f \in Seq(Byte) /\ Len(f) = n /\ \A i \in 1 .. n : f[i] = s[p + i - 1]
  <2>1. p + n - 1 \in p - 1 .. Len(s) /\ (p + n - 1) - p + 1 = n /\ p \in 1 .. Len(s) + 1
    BY <1>1, <1>2, LenProperties
  <2> QED
    BY <2>1, Stretch
<1> HIDE DEF f
<1>4. f[1] = s[p] /\ f[2] = s[p + 1] /\ f[3] = s[p + 2] /\ f[n] = s[p + n - 1]
  <2>1. 1 \in 1 .. n /\ 2 \in 1 .. n /\ 3 \in 1 .. n /\ n \in 1 .. n
    BY <1>1, <1>2
  <2>2. p + 1 - 1 = p /\ p + 2 - 1 = p + 1 /\ p + 3 - 1 = p + 2
    OBVIOUS
  <2> QED
    BY <1>3, <2>1, <2>2
<1>5. Claimed(f, 1) = n
  BY <1>4 DEF Claimed, n
<1>6. IsFrame(f) <=> s[p + n - 1] = FRAME_END
  BY <1>1, <1>3, <1>4, <1>5 DEF IsFrame
<1> QED
  BY <1>2, <1>3, <1>6 DEF n, f

\* What ParseAt looks at lies further on, and what it gives has the type of what it is
\* given.
LEMMA ParseAtLocal ==
  ASSUME NEW s \in Seq(Byte), NEW p \in 1 .. Len(s) + 1, NEW at, NEW bt,
         \A q \in p + 1 .. Len(s) + 1 : at[q] = bt[q] /\ at[q] \in Found
  PROVE  ParseAt(s, p, at) = ParseAt(s, p, bt) /\ ParseAt(s, p, at) \in Found
<1>1. CASE p > Len(s)
  <2>1. Nothing \in Found
    BY EmptySeq DEF Nothing, Found
  <2>2. ParseAt(s, p, at) = Nothing /\ ParseAt(s, p, bt) = Nothing
    BY <1>1 DEF ParseAt, Nothing
  <2> QED
    BY <2>1, <2>2
<1>2. CASE p \in 1 .. Len(s) /\ s[p] # FRAME_HEAD
  <2>1. p + 1 \in p + 1 .. Len(s) + 1 /\ ~ (p > Len(s))
    BY <1>2, LenProperties
  <2>2. ParseAt(s, p, at) = at[p + 1] /\ ParseAt(s, p, bt) = bt[p + 1]
    BY <1>2, <2>1 DEF ParseAt
  <2> QED
    BY <2>1, <2>2
<1>3. CASE p \in 1 .. Len(s) /\ s[p] = FRAME_HEAD /\ Incomplete(s, p)
  <2>1. ~ (p > Len(s)) /\ SubSeq(s, p, Len(s)) \in Seq(Byte)
    BY <1>3, LenProperties, Stretch
  <2>2. /\ ParseAt(s, p, at) = [saved |-> <<>>, rest |-> SubSeq(s, p, Len(s))]
        /\ ParseAt(s, p, bt) = [saved |-> <<>>, rest |-> SubSeq(s, p, Len(s))]
    BY <1>3, <2>1 DEF ParseAt
  <2>3. <<>> \in Seq(Seq(Byte))
    BY EmptySeq
  <2> DEFINE r == SubSeq(s, p, Len(s))
             empty == <<>>
  <2>4. r \in Seq(Byte) /\ empty \in Seq(Seq(Byte))
    BY <2>1, <2>3
  <2>5. ParseAt(s, p, at) = [saved |-> empty, rest |-> r] /\ ParseAt(s, p, bt) = [saved |-> empty, rest |-> r]
    BY <2>2
  <2> HIDE DEF r, empty
  <2> QED
    BY <2>4, <2>5 DEF Found
<1>4. CASE p \in 1 .. Len(s) /\ s[p] = FRAME_HEAD /\ ~ Incomplete(s, p)
  <2> DEFINE n == Claimed(s, p)
             f == SubSeq(s, p, p + n - 1)
  <2>1. ~ (p > Len(s)) /\ p + 1 \in p + 1 .. Len(s) + 1
    BY <1>4, LenProperties
  <2>2. CASE Plausible(s, p) /\ IsFrame(f)
    <3>1. p + n \in p + 1 .. Len(s) + 1 /\ f \in Seq(Byte)
      BY <1>4, <2>2, FrameThere
    <3>2. /\ ParseAt(s, p, at) = [saved |-> <<f>> \o at[p + n].saved, rest |-> at[p + n].rest]
          /\ ParseAt(s, p, bt) = [saved |-> <<f>> \o bt[p + n].saved, rest |-> bt[p + n].rest]
      BY <1>4, <2>1, <2>2 DEF ParseAt
    <3> HIDE DEF n, f
    <3>3. at[p + n] = bt[p + n] /\ at[p + n].saved \in Seq(Seq(Byte)) /\ at[p + n].rest \in Seq(Byte)
      BY <3>1 DEF Found
    <3>4. <<f>> \o at[p + n].saved \in Seq(Seq(Byte))
      <4>1. <<f>> \in Seq(Seq(Byte))
        BY <3>1
      <4> QED
        BY <3>3, <4>1, ConcatProperties
    <3> QED
      BY <3>2, <3>3, <3>4 DEF Found
  <2>3. CASE ~ (Plausible(s, p) /\ IsFrame(f))
    <3>1. ParseAt(s, p, at) = at[p + 1] /\ ParseAt(s, p, bt) = bt[p + 1]
      BY <1>4, <2>1, <2>3 DEF ParseAt
    <3> QED
      BY <2>1, <3>1
  <2> QED
    BY <2>2, <2>3
<1> QED
  BY <1>1, <1>2, <1>3, <1>4, LenProperties

\* Every stream has its parser: the functions on k .. Len(s) + 1, from the last k down.
LEMMA ParserIs ==
  ASSUME NEW s \in Seq(Byte)
  PROVE  /\ Parser(s) \in [1 .. Len(s) + 1 -> Found]
         /\ \A p \in 1 .. Len(s) + 1 : Parser(s)[p] = ParseAt(s, p, Parser(s))
         /\ Parse(s) = Parser(s)[1]
<1> DEFINE hi == Len(s) + 1
           Fits(f, k) == \A p \in k .. hi : f[p] = ParseAt(s, p, f) /\ f[p] \in Found
           S == {k \in 1 .. hi : \E f \in [k .. hi -> Found] : Fits(f, k)}
<1>1. hi \in Int /\ hi >= 1 /\ hi = Len(s) + 1
  BY LenProperties
<1>2. ASSUME NEW f, NEW g, NEW p \in 1 .. hi, \A q \in p + 1 .. hi : f[q] = g[q] /\ f[q] \in Found
      PROVE  ParseAt(s, p, f) = ParseAt(s, p, g) /\ ParseAt(s, p, f) \in Found
  BY <1>2, ParseAtLocal
<1> HIDE DEF hi
<1>3. hi \in S
  <2> DEFINE f == [p \in hi .. hi |-> ParseAt(s, hi, <<>>)]
  <2>1. \A q \in hi + 1 .. hi : FALSE
    BY <1>1
  <2>2. ParseAt(s, hi, <<>>) \in Found /\ ParseAt(s, hi, <<>>) = ParseAt(s, hi, f)
    <3> HIDE DEF f
    <3> QED
      BY <1>1, <1>2, <2>1
  <2>3. f \in [hi .. hi -> Found] /\ f[hi] = ParseAt(s, hi, f) /\ f[hi] \in Found
    <3>1. hi \in hi .. hi
      BY <1>1
    <3> QED
      BY <2>2, <3>1
  <2> HIDE DEF f
  <2>4. Fits(f, hi)
    <3>1. \A p \in hi .. hi : p = hi
      BY <1>1
    <3> QED
      BY <2>3, <3>1
  <2>5. hi \in 1 .. hi
    BY <1>1
  <2> QED
    BY <2>3, <2>4, <2>5
<1>4. ASSUME NEW k \in 1 .. hi - 1, k + 1 \in S
      PROVE  k \in S
  <2>1. PICK f \in [k + 1 .. hi -> Found] : Fits(f, k + 1)
    BY <1>4
  <2> DEFINE g == [p \in k .. hi |-> IF p = k THEN ParseAt(s, k, f) ELSE f[p]]
  <2>2. k \in 1 .. hi /\ k \in k .. hi /\ \A p \in k .. hi : p = k \/ p \in k + 1 .. hi
    BY <1>1
  <2>3. g[k] = ParseAt(s, k, f) /\ \A p \in k + 1 .. hi : g[p] = f[p]
    <3>1. \A p \in k + 1 .. hi : p \in k .. hi /\ p # k
      BY <1>1
    <3> QED
      BY <2>2, <3>1
  <2>4. g = [p \in k .. hi |-> g[p]]
    OBVIOUS
  <2> HIDE DEF g
  <2>5. g[k] = ParseAt(s, k, g) /\ g[k] \in Found
    <3>1. \A q \in k + 1 .. hi : f[q] = g[q] /\ f[q] \in Found
      BY <2>3
    <3> QED
      BY ZenonT(40), <1>2, <2>2, <2>3, <3>1
  <2>6. ASSUME NEW p \in k + 1 .. hi
        PROVE  g[p] = ParseAt(s, p, g) /\ g[p] \in Found
    <3>1. p \in 1 .. hi /\ \A q \in p + 1 .. hi : q \in k + 1 .. hi
      BY <1>1
    <3>2. \A q \in p + 1 .. hi : f[q] = g[q] /\ f[q] \in Found
      BY <2>3, <3>1
    <3>3. ParseAt(s, p, f) = ParseAt(s, p, g)
      BY <1>2, <3>1, <3>2
    <3>4. f[p] = ParseAt(s, p, f) /\ f[p] \in Found /\ g[p] = f[p]
      BY <2>1, <2>3
    <3> QED
      BY <3>3, <3>4
  <2>7. Fits(g, k)
    BY <2>2, <2>5, <2>6
  <2>8. g \in [k .. hi -> Found]
    BY <2>2, <2>4, <2>5, <2>6
  <2> QED
    BY <2>2, <2>7, <2>8
<1>5. 1 \in S
  <2>0. \A k \in 1 .. hi - 1 : k + 1 \in S => k \in S
    BY <1>4
  <2> HIDE DEF S
  <2>1. \A k \in 1 .. hi : k \in S
    BY ONLY <1>1, <1>3, <2>0, 1 \in Int, Descend, Zenon
  <2> QED
    BY <1>1, <2>1
<1>6. PICK f \in [1 .. hi -> Found] : Fits(f, 1)
  BY <1>5
<1>7. f = [p \in 1 .. hi |-> ParseAt(s, p, f)]
  <2>1. \A p \in 1 .. hi : f[p] = ParseAt(s, p, f)
    BY <1>6
  <2> QED
    BY <2>1
<1>8. Parser(s) = [p \in 1 .. hi |-> ParseAt(s, p, Parser(s))]
  BY <1>7 DEF Parser, hi
<1>9. Parse(s) = Parser(s)[1]
  BY DEF Parse, Parser
<1> DEFINE P == Parser(s)
<1>10. P = [p \in 1 .. hi |-> ParseAt(s, p, P)] /\ \A p \in 1 .. hi : P[p] = ParseAt(s, p, P)
  BY <1>8
<1> HIDE DEF P
<1> DEFINE T == {k \in 1 .. hi : \A p \in k .. hi : P[p] \in Found}
<1>11. 1 \in T
  <2>1. hi \in T
    <3>1. \A q \in hi + 1 .. hi : FALSE
      BY <1>1
    <3>2. hi \in 1 .. hi /\ \A p \in hi .. hi : p = hi
      BY <1>1
    <3>3. P[hi] \in Found
      BY <1>2, <1>10, <3>1, <3>2
    <3> QED
      BY <3>2, <3>3
  <2>2. ASSUME NEW k \in 1 .. hi - 1, k + 1 \in T
        PROVE  k \in T
    <3>1. k \in 1 .. hi /\ \A p \in k .. hi : p = k \/ p \in k + 1 .. hi
      BY <1>1
    <3>2. P[k] \in Found
      BY <1>2, <1>10, <2>2, <3>1
    <3> QED
      BY <2>2, <3>1, <3>2
  <2>3. \A k \in 1 .. hi - 1 : k + 1 \in T => k \in T
    BY <2>2
  <2> HIDE DEF T
  <2>4. \A k \in 1 .. hi : k \in T
    BY ONLY <1>1, <2>1, <2>3, 1 \in Int, Descend, Zenon
  <2> QED
    BY <1>1, <2>4
<1>12. P \in [1 .. hi -> Found]
  BY <1>10, <1>11
<1> QED
  BY <1>9, <1>10, <1>12 DEF P, hi

\* A frame ends where the length at p says.
Ends(s, p) == Plausible(s, p) /\ s[p + Claimed(s, p) - 1] = FRAME_END

\* What the parser finds from p on, case by case.
StepAt(s, P, p) ==
  /\ P[p].saved \in Seq(Seq(Byte)) /\ P[p].rest \in Seq(Byte)
  /\ p = Len(s) + 1 => P[p].saved = <<>> /\ P[p].rest = <<>>
  /\ p \in 1 .. Len(s) /\ s[p] # FRAME_HEAD => P[p] = P[p + 1]
  /\ p \in 1 .. Len(s) /\ s[p] = FRAME_HEAD /\ Incomplete(s, p) =>
       P[p].saved = <<>> /\ P[p].rest = SubSeq(s, p, Len(s))
  /\ p \in 1 .. Len(s) /\ s[p] = FRAME_HEAD /\ ~ Incomplete(s, p) /\ Ends(s, p) =>
       /\ p + Claimed(s, p) \in p + 1 .. Len(s) + 1
       /\ SubSeq(s, p, p + Claimed(s, p) - 1) \in Seq(Byte)
       /\ P[p].saved = <<SubSeq(s, p, p + Claimed(s, p) - 1)>> \o P[p + Claimed(s, p)].saved
       /\ P[p].rest = P[p + Claimed(s, p)].rest
  /\ p \in 1 .. Len(s) /\ s[p] = FRAME_HEAD /\ ~ Incomplete(s, p) /\ ~ Ends(s, p) => P[p] = P[p + 1]

LEMMA ParserStep ==
  ASSUME NEW s \in Seq(Byte), NEW p \in 1 .. Len(s) + 1
  PROVE  StepAt(s, Parser(s), p)
<1> DEFINE P == Parser(s)
<1>1. P[p] \in Found /\ P[p] = ParseAt(s, p, P)
  BY ParserIs
<1>2. p \in 1 .. Len(s) => ~ (p > Len(s))
  BY LenProperties
<1> HIDE DEF P
<1>3. p = Len(s) + 1 => P[p].saved = <<>> /\ P[p].rest = <<>>
  <2>1. p = Len(s) + 1 => P[p] = [saved |-> <<>>, rest |-> <<>>]
    BY <1>1, LenProperties DEF ParseAt
  <2> QED
    BY <2>1
<1>4. p \in 1 .. Len(s) /\ s[p] # FRAME_HEAD => P[p] = P[p + 1]
  BY <1>1, <1>2 DEF ParseAt
<1>5. p \in 1 .. Len(s) /\ s[p] = FRAME_HEAD /\ Incomplete(s, p) =>
        P[p].saved = <<>> /\ P[p].rest = SubSeq(s, p, Len(s))
  <2>1. p \in 1 .. Len(s) /\ s[p] = FRAME_HEAD /\ Incomplete(s, p) =>
          P[p] = [saved |-> <<>>, rest |-> SubSeq(s, p, Len(s))]
    BY <1>1, <1>2 DEF ParseAt
  <2> QED
    BY <2>1
<1>6. ASSUME p \in 1 .. Len(s), s[p] = FRAME_HEAD, ~ Incomplete(s, p), Plausible(s, p)
      PROVE  IsFrame(SubSeq(s, p, p + Claimed(s, p) - 1)) <=> Ends(s, p)
  BY <1>6, FrameThere DEF Ends
<1>7. ASSUME p \in 1 .. Len(s), s[p] = FRAME_HEAD, ~ Incomplete(s, p), Ends(s, p)
      PROVE  /\ p + Claimed(s, p) \in p + 1 .. Len(s) + 1
             /\ SubSeq(s, p, p + Claimed(s, p) - 1) \in Seq(Byte)
             /\ P[p].saved = <<SubSeq(s, p, p + Claimed(s, p) - 1)>> \o P[p + Claimed(s, p)].saved
             /\ P[p].rest = P[p + Claimed(s, p)].rest
  <2>1. Plausible(s, p)
    BY <1>7 DEF Ends
  <2>2. IsFrame(SubSeq(s, p, p + Claimed(s, p) - 1))
    BY <1>6, <1>7, <2>1
  <2>3. /\ p + Claimed(s, p) \in p + 1 .. Len(s) + 1
        /\ SubSeq(s, p, p + Claimed(s, p) - 1) \in Seq(Byte)
    BY <1>7, <2>1, FrameThere
  <2>4. P[p] = [saved |-> <<SubSeq(s, p, p + Claimed(s, p) - 1)>> \o P[p + Claimed(s, p)].saved,
                rest |-> P[p + Claimed(s, p)].rest]
    BY <1>1, <1>2, <1>7, <2>1, <2>2 DEF ParseAt
  <2>5. /\ P[p].saved = <<SubSeq(s, p, p + Claimed(s, p) - 1)>> \o P[p + Claimed(s, p)].saved
        /\ P[p].rest = P[p + Claimed(s, p)].rest
    BY ONLY SMTT(30), <2>4
  <2> QED
    BY ONLY <2>3, <2>5, Zenon
<1>8. ASSUME p \in 1 .. Len(s), s[p] = FRAME_HEAD, ~ Incomplete(s, p), ~ Ends(s, p)
      PROVE  P[p] = P[p + 1]
  <2>1. ~ (Plausible(s, p) /\ IsFrame(SubSeq(s, p, p + Claimed(s, p) - 1)))
    BY <1>6, <1>8 DEF Ends
  <2> QED
    BY <1>1, <1>2, <1>8, <2>1 DEF ParseAt
<1>9. P[p].saved \in Seq(Seq(Byte)) /\ P[p].rest \in Seq(Byte)
  BY <1>1 DEF Found
<1>10. StepAt(s, P, p)
  BY <1>3, <1>4, <1>5, <1>7, <1>8, <1>9 DEF StepAt
<1> QED
  BY <1>10 DEF P

\* What is kept is the end of the stream, and shorter than a frame may be.
Short(s, r) ==
  /\ Len(r) \in 0 .. Len(s) /\ Len(r) < FRAME_LEN_MAX
  /\ r = SubSeq(s, Len(s) + 1 - Len(r), Len(s))

LEMMA RestIsShort ==
  ASSUME NEW s \in Seq(Byte), NEW p \in 1 .. Len(s) + 1
  PROVE  Short(s, Parser(s)[p].rest) /\ Len(Parser(s)[p].rest) <= Len(s) + 1 - p
<1> DEFINE P == Parser(s)
           L == Len(s)
           Good(q) == Short(s, P[q].rest) /\ Len(P[q].rest) <= L + 1 - q
           S == {q \in 1 .. L + 1 : Good(q)}
<1>1. L \in Nat /\ L = Len(s)
  BY LenProperties
<1>2. \A q \in 1 .. L + 1 : StepAt(s, P, q)
  BY ParserStep
<1>6. \A r : Short(s, r) <=> /\ Len(r) \in 0 .. L /\ Len(r) < FRAME_LEN_MAX
                             /\ r = SubSeq(s, L + 1 - Len(r), L)
  BY DEF Short
<1> HIDE DEF P, L
<1>3. ASSUME NEW k \in 1 .. L + 1, \A q \in k + 1 .. L + 1 : q \in S
      PROVE  k \in S
  <2>0. StepAt(s, P, k)
    BY <1>2
  <2>1. CASE k = L + 1
    <3>1. P[k].rest = <<>>
      BY <1>1, <2>0, <2>1 DEF StepAt
    <3>2. SubSeq(s, L + 1, L) = <<>> /\ Len(P[k].rest) = 0
      BY <1>1, <3>1, SubSeqEmpty, EmptySeq
    <3>3. L + 1 - Len(P[k].rest) = L + 1
      BY <1>1, <3>2
    <3>4. SubSeq(s, L + 1 - Len(P[k].rest), L) = P[k].rest
      BY <3>1, <3>2, <3>3
    <3> QED
      BY <1>1, <1>6, <2>1, <3>2, <3>4
  <2>2. CASE k \in 1 .. L /\ P[k] = P[k + 1]
    <3>1. k + 1 \in S
      BY <1>1, <1>3, <2>2
    <3>2. Good(k + 1) /\ k + 1 \in Int
      BY <3>1
    <3>3. Short(s, P[k].rest) /\ Len(P[k].rest) <= L + 1 - (k + 1) /\ Len(P[k].rest) \in Nat
      BY <1>6, <2>2, <3>2
    <3> QED
      BY <1>1, <2>2, <3>3
  <2>3. CASE k \in 1 .. L /\ s[k] = FRAME_HEAD /\ Incomplete(s, k)
    <3>1. P[k].rest = SubSeq(s, k, L)
      BY <1>1, <2>0, <2>3 DEF StepAt
    <3>2. Len(P[k].rest) = L - k + 1
      BY <1>1, <2>3, <3>1, Stretch
    <3>3. L - k + 1 < FRAME_LEN_MAX
      <4>1. CASE k + FRAME_LEN_MIN - 1 > L
        BY <1>1, <4>1
      <4>2. CASE ~ (k + FRAME_LEN_MIN - 1 > L)
        <5>1. Plausible(s, k) /\ k + Claimed(s, k) - 1 > L
          BY <1>1, <2>3, <4>2 DEF Incomplete
        <5>2. Claimed(s, k) \in 5 .. FRAME_LEN_MAX
          BY <5>1 DEF Plausible
        <5> QED
          BY <1>1, <5>1, <5>2
      <4> QED
        BY <4>1, <4>2
    <3>4. L + 1 - Len(P[k].rest) = k
      BY <1>1, <3>2
    <3>5. P[k].rest = SubSeq(s, L + 1 - Len(P[k].rest), L)
      BY <3>1, <3>4
    <3>6. Len(P[k].rest) \in 0 .. L /\ Len(P[k].rest) < FRAME_LEN_MAX /\ Len(P[k].rest) <= L + 1 - k
      BY ONLY <1>1, <2>3, <3>2, <3>3, SMT
    <3>7. Short(s, P[k].rest)
      BY ONLY <1>6, <3>5, <3>6, Zenon
    <3> QED
      BY <3>6, <3>7
  <2>4. CASE k \in 1 .. L /\ s[k] = FRAME_HEAD /\ ~ Incomplete(s, k) /\ Ends(s, k)
    <3> DEFINE q == k + Claimed(s, k)
    <3>1. q \in k + 1 .. L + 1 /\ P[k].rest = P[q].rest
      BY <1>1, <2>0, <2>4 DEF StepAt
    <3> HIDE DEF q
    <3>2. Good(q)
      BY <1>3, <3>1
    <3>3. Short(s, P[k].rest) /\ Len(P[k].rest) <= L + 1 - q /\ Len(P[k].rest) \in Nat
      BY <1>6, <3>1, <3>2
    <3> QED
      BY <1>1, <3>1, <3>3
  <2>5. k \in 1 .. L /\ (s[k] # FRAME_HEAD \/ (~ Incomplete(s, k) /\ ~ Ends(s, k))) => P[k] = P[k + 1]
    BY <1>1, <2>0 DEF StepAt
  <2>6. k = L + 1 \/ k \in 1 .. L
    BY <1>1
  <2> QED
    BY <2>1, <2>2, <2>3, <2>4, <2>5, <2>6
<1>4. \A k \in 1 .. L + 1 : k \in S
  <2>1. \A k \in 1 .. L + 1 : (\A q \in k + 1 .. L + 1 : q \in S) => k \in S
    BY <1>3
  <2>2. L + 1 \in Int
    BY <1>1
  <2> HIDE DEF S
  <2> QED
    BY ONLY <2>1, <2>2, 1 \in Int, DescendAll, Zenon
<1>5. p \in S
  BY <1>4 DEF L
<1> QED
  BY <1>5 DEF P, L

-----------------------------------------------------------------------------
(* A stream inside another: v is what w has from d + 1 on                   *)

Inside(v, w, d) == d + Len(v) <= Len(w) /\ \A i \in 1 .. Len(v) : v[i] = w[i + d]

LEMMA SameStretch ==
  ASSUME NEW v \in Seq(Byte), NEW w \in Seq(Byte), NEW d \in Nat, Inside(v, w, d),
         NEW p \in 1 .. Len(v) + 1, NEW q \in p - 1 .. Len(v)
  PROVE  SubSeq(v, p, q) = SubSeq(w, p + d, q + d)
<1>1. Len(v) \in Nat /\ Len(w) \in Nat /\ d + Len(v) <= Len(w)
  BY LenProperties DEF Inside
<1>2. p + d \in 1 .. Len(w) + 1 /\ q + d \in (p + d) - 1 .. Len(w) /\ (q + d) - (p + d) + 1 = q - p + 1
  BY <1>1
<1> DEFINE a == SubSeq(v, p, q)
           b == SubSeq(w, p + d, q + d)
<1>3. a \in Seq(Byte) /\ Len(a) = q - p + 1 /\ \A i \in 1 .. q - p + 1 : a[i] = v[p + i - 1]
  BY Stretch
<1>4. b \in Seq(Byte) /\ Len(b) = q - p + 1 /\ \A i \in 1 .. q - p + 1 : b[i] = w[p + d + i - 1]
  <2> DEFINE pp == p + d
             qq == q + d
  <2>1. pp \in 1 .. Len(w) + 1 /\ qq \in pp - 1 .. Len(w) /\ qq - pp + 1 = q - p + 1 /\ b = SubSeq(w, pp, qq)
    BY <1>2
  <2> HIDE DEF pp, qq, b
  <2>2. b \in Seq(Byte) /\ Len(b) = qq - pp + 1 /\ \A i \in 1 .. qq - pp + 1 : b[i] = w[pp + i - 1]
    BY <2>1, Stretch
  <2> QED
    BY <2>1, <2>2 DEF pp
<1> HIDE DEF a, b
<1>5. ASSUME NEW i \in 1 .. Len(a)
      PROVE  a[i] = b[i]
  <2>1. i \in 1 .. q - p + 1 /\ p + i - 1 \in 1 .. Len(v) /\ (p + i - 1) + d = p + d + i - 1
    BY <1>1, <1>3
  <2>2. v[p + i - 1] = w[(p + i - 1) + d]
    BY <2>1 DEF Inside
  <2> QED
    BY <1>3, <1>4, <2>1, <2>2
<1>6. a = b
  BY <1>3, <1>4, <1>5, SeqEqual
<1> QED
  BY <1>6 DEF a, b

\* What the parser sees at p of v is what it sees at p + d of w, unless v ends before
\* the frame does; if w ends where v does, that too.
LEMMA SameFrame ==
  ASSUME NEW v \in Seq(Byte), NEW w \in Seq(Byte), NEW d \in Nat, Inside(v, w, d),
         NEW p \in 1 .. Len(v)
  PROVE  /\ v[p] = w[p + d] /\ p + d \in 1 .. Len(w)
         /\ ~ Incomplete(v, p) =>
              /\ ~ Incomplete(w, p + d)
              /\ Claimed(v, p) = Claimed(w, p + d)
              /\ Ends(v, p) <=> Ends(w, p + d)
              /\ v[p] = FRAME_HEAD /\ Ends(v, p) =>
                   SubSeq(v, p, p + Claimed(v, p) - 1) = SubSeq(w, p + d, p + d + Claimed(v, p) - 1)
         /\ d + Len(v) = Len(w) => /\ Incomplete(v, p) => Incomplete(w, p + d)
                                   /\ SubSeq(v, p, Len(v)) = SubSeq(w, p + d, Len(w))
<1>1. Len(v) \in Nat /\ Len(w) \in Nat /\ d + Len(v) <= Len(w)
  BY LenProperties DEF Inside
<1>2. v[p] = w[p + d] /\ p + d \in 1 .. Len(w)
  BY <1>1 DEF Inside
<1>3. ASSUME p + 2 <= Len(v)
      PROVE  /\ Claimed(v, p) = Claimed(w, p + d) /\ Claimed(v, p) \in Nat
             /\ Plausible(v, p) <=> Plausible(w, p + d)
  <2>1. p + 1 \in 1 .. Len(v) /\ p + 2 \in 1 .. Len(v)
        /\ (p + 1) + d = (p + d) + 1 /\ (p + 2) + d = (p + d) + 2
    BY <1>1, <1>3
  <2>2. v[p + 1] = w[(p + 1) + d] /\ v[p + 2] = w[(p + 2) + d]
    BY <2>1 DEF Inside
  <2>3. v[p + 1] = w[(p + d) + 1] /\ v[p + 2] = w[(p + d) + 2]
    BY <2>1, <2>2
  <2>4. Claimed(v, p) = Claimed(w, p + d)
    BY <2>3 DEF Claimed
  <2> QED
    BY <1>3, <2>4, ClaimedType DEF Plausible
<1>4. ASSUME ~ Incomplete(v, p)
      PROVE  /\ ~ Incomplete(w, p + d)
             /\ Claimed(v, p) = Claimed(w, p + d)
             /\ Ends(v, p) <=> Ends(w, p + d)
             /\ v[p] = FRAME_HEAD /\ Ends(v, p) =>
                  SubSeq(v, p, p + Claimed(v, p) - 1) = SubSeq(w, p + d, p + d + Claimed(v, p) - 1)
  <2>1. p + 4 <= Len(v) /\ (Plausible(v, p) => p + Claimed(v, p) - 1 <= Len(v))
    <3>1. p + 4 <= Len(v)
      BY <1>1, <1>4 DEF Incomplete
    <3>2. Claimed(v, p) \in Nat
      BY <1>1, <1>3, <3>1
    <3> QED
      BY <1>1, <1>4, <3>1, <3>2 DEF Incomplete
  <2> DEFINE n == Claimed(v, p)
  <2>2. n = Claimed(w, p + d) /\ n \in Nat /\ (Plausible(v, p) <=> Plausible(w, p + d))
    BY <1>1, <1>3, <2>1
  <2> HIDE DEF n
  <2>3. Plausible(v, p) => n \in 5 .. FRAME_LEN_MAX /\ p + n - 1 \in p .. Len(v)
    BY <1>1, <2>1, <2>2 DEF Plausible, n
  <2>4. ~ Incomplete(w, p + d)
    <3>1. ~ (p + d + FRAME_LEN_MIN - 1 > Len(w))
      BY <1>1, <2>1
    <3>2. Plausible(v, p) => ~ ((p + d) + n - 1 > Len(w))
      BY <1>1, <2>2, <2>3
    <3> QED
      BY <2>2, <3>1, <3>2 DEF Incomplete
  <2>5. Plausible(v, p) => v[p + n - 1] = w[(p + d) + n - 1]
    <3>1. Plausible(v, p) => p + n - 1 \in 1 .. Len(v)
      BY <1>1, <2>3
    <3>2. (p + n - 1) + d = (p + d) + n - 1
      BY <1>1, <2>2
    <3> QED
      BY <3>1, <3>2 DEF Inside
  <2>6. Ends(v, p) <=> Ends(w, p + d)
    BY <2>2, <2>5 DEF Ends, n
  <2>7. Plausible(v, p) => SubSeq(v, p, p + n - 1) = SubSeq(w, p + d, p + d + n - 1)
    <3>1. ASSUME Plausible(v, p)
          PROVE  SubSeq(v, p, p + n - 1) = SubSeq(w, p + d, p + d + n - 1)
      <4>0. n \in Nat /\ p + n - 1 \in p .. Len(v)
        BY <2>2, <2>3, <3>1
      <4>1. p \in 1 .. Len(v) + 1 /\ p + n - 1 \in p - 1 .. Len(v) /\ (p + n - 1) + d = p + d + n - 1
        BY <1>1, <4>0
      <4>2. SubSeq(v, p, p + n - 1) = SubSeq(w, p + d, (p + n - 1) + d)
        BY <4>1, SameStretch
      <4> QED
        BY <4>1, <4>2
    <3> QED
      BY <3>1
  <2> QED
    BY <2>2, <2>4, <2>6, <2>7 DEF n, Ends
<1>5. ASSUME d + Len(v) = Len(w)
      PROVE  /\ Incomplete(v, p) => Incomplete(w, p + d)
             /\ SubSeq(v, p, Len(v)) = SubSeq(w, p + d, Len(w))
  <2>1. ASSUME Incomplete(v, p)
        PROVE  Incomplete(w, p + d)
    <3>1. CASE p + FRAME_LEN_MIN - 1 > Len(v)
      <4>1. p + d + FRAME_LEN_MIN - 1 > Len(w)
        BY <1>1, <1>5, <3>1
      <4> QED
        BY <4>1 DEF Incomplete
    <3>2. CASE ~ (p + FRAME_LEN_MIN - 1 > Len(v))
      <4>1. Plausible(v, p) /\ p + Claimed(v, p) - 1 > Len(v)
        BY <2>1, <3>2 DEF Incomplete
      <4>2. Plausible(w, p + d) /\ Claimed(w, p + d) = Claimed(v, p) /\ Claimed(v, p) \in Nat
        BY <1>1, <1>3, <3>2, <4>1
      <4>3. (p + d) + Claimed(w, p + d) - 1 > Len(w)
        BY <1>1, <1>5, <4>1, <4>2
      <4> QED
        BY <4>2, <4>3 DEF Incomplete
    <3> QED
      BY <3>1, <3>2
  <2>2. SubSeq(v, p, Len(v)) = SubSeq(w, p + d, Len(w))
    <3>1. p \in 1 .. Len(v) + 1 /\ Len(v) \in p - 1 .. Len(v) /\ Len(v) + d = Len(w)
      BY <1>1, <1>5
    <3>2. SubSeq(v, p, Len(v)) = SubSeq(w, p + d, Len(v) + d)
      BY <3>1, SameStretch
    <3> QED
      BY <3>1, <3>2
  <2> QED
    BY <2>1, <2>2
<1> QED
  BY <1>2, <1>4, <1>5

\* At p of v and at p + d of w the parser goes on alike, or the frame is not all in v.
Alike(v, w, d, p, A, B) ==
  \/ A[p] = A[p + 1] /\ B[p + d] = B[(p + 1) + d]
  \/ /\ A[p].saved = <<>> /\ A[p].rest = SubSeq(v, p, Len(v))
     /\ d + Len(v) = Len(w) => B[p + d].saved = A[p].saved /\ B[p + d].rest = A[p].rest
  \/ \E q \in p + 1 .. Len(v) + 1 : \E f \in Seq(Byte) :
       /\ A[p].saved = <<f>> \o A[q].saved /\ A[p].rest = A[q].rest
       /\ B[p + d].saved = <<f>> \o B[q + d].saved /\ B[p + d].rest = B[q + d].rest

LEMMA GoOnAlike ==
  ASSUME NEW v \in Seq(Byte), NEW w \in Seq(Byte), NEW d \in Nat, Inside(v, w, d),
         NEW p \in 1 .. Len(v), NEW A, NEW B, StepAt(v, A, p), StepAt(w, B, p + d)
  PROVE  Alike(v, w, d, p, A, B)
<1> USE DEF Alike
<1>1. v[p] = w[p + d] /\ p + d \in 1 .. Len(w) /\ (p + d) + 1 = (p + 1) + d
  BY SameFrame
<1>2. CASE v[p] # FRAME_HEAD
  BY <1>1, <1>2 DEF StepAt
<1>3. CASE v[p] = FRAME_HEAD /\ Incomplete(v, p)
  <2>1. A[p].saved = <<>> /\ A[p].rest = SubSeq(v, p, Len(v))
    BY <1>3 DEF StepAt
  <2>2. ASSUME d + Len(v) = Len(w)
        PROVE  B[p + d].saved = A[p].saved /\ B[p + d].rest = A[p].rest
    <3>1. Incomplete(w, p + d) /\ SubSeq(v, p, Len(v)) = SubSeq(w, p + d, Len(w))
      BY <1>3, <2>2, SameFrame
    <3>2. B[p + d].saved = <<>> /\ B[p + d].rest = SubSeq(w, p + d, Len(w))
      BY <1>1, <1>3, <3>1 DEF StepAt
    <3> QED
      BY <2>1, <3>1, <3>2
  <2> QED
    BY <2>1, <2>2
<1>4. CASE v[p] = FRAME_HEAD /\ ~ Incomplete(v, p) /\ Ends(v, p)
  <2> DEFINE n == Claimed(v, p)
             f == SubSeq(v, p, p + n - 1)
  <2>1. ~ Incomplete(w, p + d) /\ n = Claimed(w, p + d) /\ Ends(w, p + d) /\ f = SubSeq(w, p + d, p + d + n - 1)
    BY <1>4, SameFrame
  <2>2. /\ p + n \in p + 1 .. Len(v) + 1 /\ f \in Seq(Byte)
        /\ A[p].saved = <<f>> \o A[p + n].saved /\ A[p].rest = A[p + n].rest
    BY <1>4 DEF StepAt
  <2>3. /\ B[p + d].saved = <<SubSeq(w, p + d, p + d + n - 1)>> \o B[p + d + n].saved
        /\ B[p + d].rest = B[p + d + n].rest
    BY <1>1, <1>4, <2>1 DEF StepAt
  <2>4. n \in Nat /\ p + d + n = (p + n) + d
    <3>1. p + 4 <= Len(v)
      BY <1>4, LenProperties DEF Incomplete
    <3>2. n \in Nat
      BY <3>1, LenProperties, ClaimedType
    <3> HIDE DEF n
    <3> QED
      BY <3>2
  <2> HIDE DEF n, f
  <2> QED
    BY ZenonT(40), <2>1, <2>2, <2>3, <2>4
<1>5. CASE v[p] = FRAME_HEAD /\ ~ Incomplete(v, p) /\ ~ Ends(v, p)
  <2>1. ~ Incomplete(w, p + d) /\ ~ Ends(w, p + d)
    BY <1>5, SameFrame
  <2> QED
    BY <1>1, <1>5, <2>1 DEF StepAt
<1> QED
  BY <1>2, <1>3, <1>4, <1>5

\* The parser finds in the end of a stream what it finds from there on.
LEMMA ParserOfEnd ==
  ASSUME NEW v \in Seq(Byte), NEW w \in Seq(Byte), NEW d \in Nat, Inside(v, w, d), d + Len(v) = Len(w)
  PROVE  Parse(v).saved = Parser(w)[1 + d].saved /\ Parse(v).rest = Parser(w)[1 + d].rest
<1> DEFINE A == Parser(v)
           B == Parser(w)
           L == Len(v)
           S == {p \in 1 .. L + 1 : A[p].saved = B[p + d].saved /\ A[p].rest = B[p + d].rest}
<1>1. L \in Nat /\ L = Len(v) /\ d + L = Len(w) /\ Parse(v) = A[1]
  BY LenProperties, ParserIs
<1>2. \A p \in 1 .. L + 1 : StepAt(v, A, p)
  BY ParserStep
<1>3. \A p \in 1 .. Len(w) + 1 : StepAt(w, B, p)
  BY ParserStep
<1> HIDE DEF A, B, L
<1>4. ASSUME NEW p \in 1 .. L + 1, \A q \in p + 1 .. L + 1 : q \in S
      PROVE  p \in S
  <2>1. p + d \in 1 .. Len(w) + 1
    BY <1>1
  <2>2. StepAt(v, A, p) /\ StepAt(w, B, p + d)
    BY <1>2, <1>3, <2>1
  <2>3. CASE p = L + 1
    <3>1. p + d = Len(w) + 1 /\ p = Len(v) + 1
      BY <1>1, <2>3
    <3> QED
      BY <2>2, <3>1 DEF StepAt
  <2>4. CASE p \in 1 .. L
    <3>1. \/ A[p] = A[p + 1] /\ B[p + d] = B[(p + 1) + d]
          \/ B[p + d].saved = A[p].saved /\ B[p + d].rest = A[p].rest
          \/ \E q \in p + 1 .. L + 1 : \E f \in Seq(Byte) :
               /\ A[p].saved = <<f>> \o A[q].saved /\ A[p].rest = A[q].rest
               /\ B[p + d].saved = <<f>> \o B[q + d].saved /\ B[p + d].rest = B[q + d].rest
      <4>1. p \in 1 .. Len(v)
        BY <1>1, <2>4
      <4>2. Alike(v, w, d, p, A, B)
        BY <2>2, <4>1, GoOnAlike
      <4> QED
        BY <1>1, <4>2 DEF Alike
    <3>2. p + 1 \in p + 1 .. L + 1
      BY <1>1, <2>4
    <3> QED
      BY <1>4, <3>1, <3>2
  <2>5. p = L + 1 \/ p \in 1 .. L
    BY <1>1
  <2> QED
    BY <2>3, <2>4, <2>5
<1>5. \A p \in 1 .. L + 1 : p \in S
  <2>1. \A p \in 1 .. L + 1 : (\A q \in p + 1 .. L + 1 : q \in S) => p \in S
    BY <1>4
  <2>2. L + 1 \in Int
    BY <1>1
  <2> HIDE DEF S
  <2> QED
    BY ONLY <2>1, <2>2, 1 \in Int, DescendAll, Zenon
<1>6. 1 \in S
  BY <1>1, <1>5
<1> QED
  BY <1>1, <1>6 DEF B

\* What the parser finds in a longer stream is what it finds in the beginning of it, and
\* then what it finds where it stopped to wait there.
LEMMA ParserOfBeginning ==
  ASSUME NEW v \in Seq(Byte), NEW w \in Seq(Byte), NEW d \in Nat, Inside(v, w, d)
  PROVE  LET q == Len(v) + 1 - Len(Parse(v).rest)
         IN /\ Parser(w)[1 + d].saved = Parse(v).saved \o Parser(w)[q + d].saved
            /\ Parser(w)[1 + d].rest = Parser(w)[q + d].rest
<1> DEFINE A == Parser(v)
           B == Parser(w)
           L == Len(v)
           Q(p) == L + 1 - Len(A[p].rest)
           S == {p \in 1 .. L + 1 : /\ B[p + d].saved = A[p].saved \o B[Q(p) + d].saved
                                    /\ B[p + d].rest = B[Q(p) + d].rest}
<1>1. L \in Nat /\ L = Len(v) /\ Len(w) \in Nat /\ d + L <= Len(w) /\ Parse(v) = A[1]
  BY LenProperties, ParserIs DEF Inside
<1>2. \A p \in 1 .. L + 1 : StepAt(v, A, p)
  BY ParserStep
<1>3. \A p \in 1 .. Len(w) + 1 : StepAt(w, B, p)
  BY ParserStep
<1>4. \A p \in 1 .. L + 1 : Len(A[p].rest) \in 0 .. L
  BY RestIsShort DEF Short
<1> HIDE DEF A, B, L
<1>5. \A p \in 1 .. L + 1 : Q(p) \in 1 .. L + 1 /\ A[p].saved \in Seq(Seq(Byte))
                            /\ B[p + d].saved \in Seq(Seq(Byte))
  <2>1. ASSUME NEW p \in 1 .. L + 1
        PROVE  Q(p) \in 1 .. L + 1 /\ p + d \in 1 .. Len(w) + 1
    <3>1. \A r \in 0 .. L : L + 1 - r \in 1 .. L + 1
      BY <1>1
    <3>2. Q(p) \in 1 .. L + 1
      BY <1>4, <3>1
    <3> HIDE DEF Q
    <3> QED
      BY <1>1, <3>2
  <2> HIDE DEF Q
  <2> QED
    BY <1>2, <1>3, <2>1 DEF StepAt
<1>6. ASSUME NEW p \in 1 .. L + 1, Q(p) = p, A[p].saved = <<>>
      PROVE  p \in S
  <2> HIDE DEF Q
  <2>1. B[p + d].saved \in Seq(Seq(Byte))
    BY <1>5
  <2>2. B[p + d].saved = <<>> \o B[p + d].saved
    BY <2>1, ConcatEmptySeq
  <2> QED
    BY <1>6, <2>2
<1>7. ASSUME NEW p \in 1 .. L + 1, \A q \in p + 1 .. L + 1 : q \in S
      PROVE  p \in S
  <2>1. p + d \in 1 .. Len(w) + 1
    BY <1>1
  <2>2. StepAt(v, A, p) /\ StepAt(w, B, p + d)
    BY <1>2, <1>3, <2>1
  <2>3. CASE p = L + 1
    <3>1. A[p].saved = <<>> /\ A[p].rest = <<>>
      BY <1>1, <2>2, <2>3 DEF StepAt
    <3>2. Len(A[p].rest) = 0
      BY <3>1, EmptySeq
    <3>3. Q(p) = p
      BY <1>1, <2>3, <3>2
    <3> QED
      BY <1>6, <3>1, <3>3
  <2>4. CASE p \in 1 .. L
    <3>1. \/ A[p] = A[p + 1] /\ B[p + d] = B[(p + 1) + d]
          \/ A[p].saved = <<>> /\ A[p].rest = SubSeq(v, p, L)
          \/ \E q \in p + 1 .. L + 1 : \E f \in Seq(Byte) :
               /\ A[p].saved = <<f>> \o A[q].saved /\ A[p].rest = A[q].rest
               /\ B[p + d].saved = <<f>> \o B[q + d].saved /\ B[p + d].rest = B[q + d].rest
      <4>1. p \in 1 .. Len(v)
        BY <1>1, <2>4
      <4>2. Alike(v, w, d, p, A, B)
        BY <2>2, <4>1, GoOnAlike
      <4> QED
        BY <1>1, <4>2 DEF Alike
    <3>2. CASE A[p] = A[p + 1] /\ B[p + d] = B[(p + 1) + d]
      <4>1. p + 1 \in p + 1 .. L + 1
        BY <1>1, <2>4
      <4>2. p + 1 \in S /\ Q(p) = Q(p + 1)
        BY <1>7, <3>2, <4>1
      <4> HIDE DEF Q
      <4> QED
        BY <3>2, <4>2
    <3>3. CASE A[p].saved = <<>> /\ A[p].rest = SubSeq(v, p, L)
      <4>1. Len(A[p].rest) = L - p + 1
        BY <1>1, <2>4, <3>3, Stretch
      <4>2. Q(p) = p
        BY <1>1, <4>1
      <4> QED
        BY <1>6, <3>3, <4>2
    <3>4. ASSUME NEW q \in p + 1 .. L + 1, NEW f \in Seq(Byte),
                 A[p].saved = <<f>> \o A[q].saved, A[p].rest = A[q].rest,
                 B[p + d].saved = <<f>> \o B[q + d].saved, B[p + d].rest = B[q + d].rest
          PROVE  p \in S
      <4>1. q \in S /\ Q(p) = Q(q) /\ q \in 1 .. L + 1
        BY <1>1, <1>7, <3>4
      <4> HIDE DEF Q
      <4>2. /\ B[q + d].saved = A[q].saved \o B[Q(q) + d].saved /\ B[q + d].rest = B[Q(q) + d].rest
        BY <4>1
      <4>3. <<f>> \in FrameSeq /\ A[q].saved \in FrameSeq /\ B[Q(q) + d].saved \in FrameSeq
        BY SMTT(30), <1>5, <4>1 DEF FrameSeq
      <4>4. (<<f>> \o A[q].saved) \o B[Q(q) + d].saved = <<f>> \o (A[q].saved \o B[Q(q) + d].saved)
        BY ONLY <4>3, FramesAssociative, Zenon
      <4> QED
        BY <3>4, <4>1, <4>2, <4>4
    <3> QED
      BY <3>1, <3>2, <3>3, <3>4
  <2>5. p = L + 1 \/ p \in 1 .. L
    BY <1>1
  <2> QED
    BY <2>3, <2>4, <2>5
<1>8. \A p \in 1 .. L + 1 : p \in S
  <2>1. \A p \in 1 .. L + 1 : (\A q \in p + 1 .. L + 1 : q \in S) => p \in S
    BY <1>7
  <2>2. L + 1 \in Int
    BY <1>1
  <2> HIDE DEF S
  <2> QED
    BY ONLY <2>1, <2>2, 1 \in Int, DescendAll, Zenon
<1>9. 1 \in S
  <2> HIDE DEF S
  <2> QED
    BY <1>1, <1>8
<1> QED
  BY <1>1, <1>9 DEF B, L

-----------------------------------------------------------------------------
(* The code's accesses, over the rest and the new bytes, are to one stream  *)

\* The rest is the beginning of the stream, the new bytes are its end.
LEMMA TwoBuffers ==
  ASSUME NEW exit \in Seq(Byte), NEW recv \in Seq(Byte)
  PROVE  /\ exit \o recv \in Seq(Byte) /\ Len(exit \o recv) = Total(exit, recv)
         /\ Inside(exit, exit \o recv, 0) /\ Inside(recv, exit \o recv, Len(exit))
<1> DEFINE w == exit \o recv
<1>1. w \in Seq(Byte) /\ Len(w) = Len(exit) + Len(recv) /\ Len(exit) \in Nat /\ Len(recv) \in Nat
  BY ConcatProperties, LenProperties
<1>2. \A i \in 1 .. Len(exit) + Len(recv) : w[i] = IF i <= Len(exit) THEN exit[i] ELSE recv[i - Len(exit)]
  BY ConcatProperties
<1> HIDE DEF w
<1>3. ASSUME NEW i \in 1 .. Len(exit)
      PROVE  exit[i] = w[i + 0]
  <2>1. i \in 1 .. Len(exit) + Len(recv) /\ i <= Len(exit) /\ i + 0 = i
    BY <1>1
  <2> QED
    BY <1>2, <2>1
<1>4. ASSUME NEW i \in 1 .. Len(recv)
      PROVE  recv[i] = w[i + Len(exit)]
  <2>1. /\ i + Len(exit) \in 1 .. Len(exit) + Len(recv) /\ ~ (i + Len(exit) <= Len(exit))
        /\ (i + Len(exit)) - Len(exit) = i
    BY <1>1
  <2> QED
    BY <1>2, <2>1
<1>5. Inside(exit, w, 0) /\ Inside(recv, w, Len(exit))
  BY <1>1, <1>3, <1>4 DEF Inside
<1> QED
  BY <1>1, <1>5 DEF w, Total

\* A byte of the stream, by the code's index.
LEMMA ByteOf ==
  ASSUME NEW exit \in Seq(Byte), NEW recv \in Seq(Byte), NEW i \in 0 .. Total(exit, recv) - 1
  PROVE  (exit \o recv)[i + 1] = IF i < Len(exit) THEN exit[i + 1] ELSE recv[i - Len(exit) + 1]
<1> DEFINE w == exit \o recv
<1>1. Len(exit) \in Nat /\ Len(recv) \in Nat /\ i + 1 \in 1 .. Len(exit) + Len(recv)
  BY LenProperties DEF Total
<1>2. w[i + 1] = IF i + 1 <= Len(exit) THEN exit[i + 1] ELSE recv[(i + 1) - Len(exit)]
  BY <1>1, ConcatProperties
<1>3. (i + 1) - Len(exit) = i - Len(exit) + 1 /\ (i + 1 <= Len(exit) <=> i < Len(exit))
  BY <1>1
<1> HIDE DEF w
<1>4. w[i + 1] = IF i < Len(exit) THEN exit[i + 1] ELSE recv[i - Len(exit) + 1]
  BY <1>2, <1>3
<1> QED
  BY <1>4 DEF w

\* A stretch of the stream, by where it lies.
LEMMA StretchOf ==
  ASSUME NEW exit \in Seq(Byte), NEW recv \in Seq(Byte), NEW a \in 1 .. Total(exit, recv), NEW b \in a .. Total(exit, recv)
  PROVE  SubSeq(exit \o recv, a, b) =
           IF b <= Len(exit) THEN SubSeq(exit, a, b)
           ELSE IF a <= Len(exit) THEN SubSeq(exit, a, Len(exit)) \o SubSeq(recv, 1, b - Len(exit))
           ELSE SubSeq(recv, a - Len(exit), b - Len(exit))
<1> DEFINE w == exit \o recv
           X == Len(exit)
           R == Len(recv)
<1>1. /\ X \in Nat /\ R \in Nat /\ w \in Seq(Byte) /\ Len(w) = X + R
      /\ Inside(exit, w, 0) /\ Inside(recv, w, X) /\ X = Len(exit) /\ R = Len(recv)
      /\ a \in 1 .. X + R /\ b \in a .. X + R
  BY LenProperties, TwoBuffers DEF Total
<1> HIDE DEF w, X, R
<1>2. ASSUME NEW p \in 1 .. X + 1, NEW q \in p - 1 .. X
      PROVE  SubSeq(exit, p, q) = SubSeq(w, p, q)
  <2> DEFINE zero == 0
  <2>1. zero \in Nat /\ Inside(exit, w, zero) /\ p + zero = p /\ q + zero = q
    BY <1>1
  <2>2. p \in 1 .. Len(exit) + 1 /\ q \in p - 1 .. Len(exit)
    BY <1>1
  <2> HIDE DEF zero
  <2>3. SubSeq(exit, p, q) = SubSeq(w, p + zero, q + zero)
    BY SMTT(30), <1>1, <2>1, <2>2, SameStretch
  <2> QED
    BY <2>1, <2>3
<1>3. ASSUME NEW p \in 1 .. R + 1, NEW q \in p - 1 .. R
      PROVE  SubSeq(recv, p, q) = SubSeq(w, p + X, q + X)
  BY <1>1, SameStretch
<1>4. CASE b <= X
  <2>1. a \in 1 .. X + 1 /\ b \in a - 1 .. X
    BY <1>1, <1>4
  <2> QED
    BY <1>2, <1>4, <2>1 DEF X, w
<1>5. CASE ~ (b <= X) /\ a <= X
  <2>1. SubSeq(exit, a, X) = SubSeq(w, a, X)
    <3>1. a \in 1 .. X + 1 /\ X \in a - 1 .. X
      BY <1>1, <1>5
    <3> QED
      BY <1>2, <3>1
  <2>2. SubSeq(recv, 1, b - X) = SubSeq(w, X + 1, b)
    <3>1. 1 \in 1 .. R + 1 /\ b - X \in 1 - 1 .. R /\ 1 + X = X + 1 /\ (b - X) + X = b
      BY <1>1, <1>5
    <3>2. SubSeq(recv, 1, b - X) = SubSeq(w, 1 + X, (b - X) + X)
      BY <1>3, <3>1
    <3> QED
      BY <3>1, <3>2
  <2>3. SubSeq(w, a, X) \o SubSeq(w, X + 1, b) = SubSeq(w, a, b)
    <3>1. a \in 1 .. Len(w) + 1 /\ X \in a - 1 .. Len(w) /\ b \in X .. Len(w)
      BY <1>1, <1>5
    <3> QED
      BY <1>1, <3>1, ConcatAdjacentSubSeq
  <2> QED
    BY <1>5, <2>1, <2>2, <2>3 DEF X, w
<1>6. CASE ~ (b <= X) /\ ~ (a <= X)
  <2>1. /\ a - X \in 1 .. R + 1 /\ b - X \in (a - X) - 1 .. R
        /\ (a - X) + X = a /\ (b - X) + X = b
    BY <1>1, <1>6
  <2> DEFINE p == a - X
             q == b - X
  <2>2. p \in 1 .. R + 1 /\ q \in p - 1 .. R /\ p + X = a /\ q + X = b
    BY <2>1
  <2> HIDE DEF p, q
  <2>3. SubSeq(recv, p, q) = SubSeq(w, a, b)
    BY <1>3, <2>2
  <2> QED
    BY <1>6, <2>3 DEF p, q, X, w
<1> QED
  BY <1>4, <1>5, <1>6

\* GetHeadIndex gives the next head, or -1 when there is none.
LEMMA HeadIndexIs ==
  ASSUME NEW exit \in Seq(Byte), NEW recv \in Seq(Byte), NEW cur \in 0 .. Total(exit, recv)
  PROVE  LET w == exit \o recv
             h == GetHeadIndex(cur, exit, recv)
         IN \/ h = -1 /\ \A i \in cur + 1 .. Len(w) : w[i] # FRAME_HEAD
            \/ /\ h \in cur .. Total(exit, recv) - 1 /\ w[h + 1] = FRAME_HEAD
               /\ \A i \in cur + 1 .. h : w[i] # FRAME_HEAD
<1> DEFINE w == exit \o recv
           n == Total(exit, recv)
           heads == {i \in cur .. n - 1 :
                       FRAME_HEAD = IF i < Len(exit) THEN exit[i + 1] ELSE recv[i - Len(exit) + 1]}
           h == GetHeadIndex(cur, exit, recv)
<1>1. n \in Nat /\ Len(w) = n
  BY TwoBuffers, LenProperties DEF Total
<1>2. \A i \in cur .. n - 1 : i \in heads <=> w[i + 1] = FRAME_HEAD
  BY SMTT(30), <1>1, ByteOf
<1>3. h = IF heads = {} THEN -1 ELSE CHOOSE i \in heads : \A j \in heads : i <= j
  BY DEF GetHeadIndex
<1>4. heads \subseteq cur .. n - 1
  OBVIOUS
<1> HIDE DEF heads, h, w, n
<1>5. CASE heads = {}
  <2>1. ASSUME NEW i \in cur + 1 .. Len(w)
        PROVE  w[i] # FRAME_HEAD
    <3>1. i - 1 \in cur .. n - 1 /\ (i - 1) + 1 = i
      BY <1>1
    <3> QED
      BY <1>2, <1>5, <3>1
  <2> QED
    BY <1>3, <1>5, <2>1 DEF h, w
<1>6. CASE heads # {}
  <2>1. heads \subseteq Nat
    BY <1>1, <1>4
  <2>2. \E i \in heads : \A j \in heads : i <= j
    BY <1>6, <2>1, Lowest
  <2>3. h \in heads /\ \A j \in heads : h <= j
    BY <1>3, <1>6, <2>2
  <2>4. h \in cur .. n - 1 /\ w[h + 1] = FRAME_HEAD
    BY <1>2, <1>4, <2>3
  <2>5. ASSUME NEW i \in cur + 1 .. h
        PROVE  w[i] # FRAME_HEAD
    <3>1. i - 1 \in cur .. n - 1 /\ (i - 1) + 1 = i /\ ~ (h <= i - 1)
      BY <1>1, <2>4
    <3> QED
      BY <1>2, <2>3, <3>1
  <2> QED
    BY <2>4, <2>5 DEF h, w, n
<1> QED
  BY <1>5, <1>6

\* Where there is no head the parser goes on.
LEMMA NoHead ==
  ASSUME NEW w \in Seq(Byte), NEW p \in 1 .. Len(w) + 1, NEW h \in p .. Len(w) + 1,
         \A i \in p .. h - 1 : w[i] # FRAME_HEAD
  PROVE  Parser(w)[p] = Parser(w)[h]
<1> DEFINE P == Parser(w)
           S == {k \in p .. h : P[k] = P[h]}
<1>1. Len(w) \in Nat
  BY LenProperties
<1>2. \A k \in 1 .. Len(w) : w[k] # FRAME_HEAD => P[k] = P[k + 1]
  <2>1. \A k \in 1 .. Len(w) : k \in 1 .. Len(w) + 1
    BY <1>1
  <2> QED
    BY <2>1, ParserStep DEF StepAt
<1> HIDE DEF P
<1>3. ASSUME NEW k \in p .. h, \A q \in k + 1 .. h : q \in S
      PROVE  k \in S
  <2>1. CASE k = h
    BY <1>1, <2>1
  <2>2. CASE k # h
    <3>1. k \in 1 .. Len(w) /\ k \in p .. h - 1 /\ k + 1 \in k + 1 .. h
      BY <1>1, <2>2
    <3>2. P[k] = P[k + 1] /\ P[k + 1] = P[h]
      BY <1>2, <1>3, <3>1
    <3> QED
      BY <3>2
  <2> QED
    BY <2>1, <2>2
<1>4. \A k \in p .. h : k \in S
  <2>1. \A k \in p .. h : (\A q \in k + 1 .. h : q \in S) => k \in S
    BY <1>3
  <2>2. p \in Int /\ h \in Int
    BY <1>1
  <2> HIDE DEF S
  <2> QED
    BY ONLY <2>1, <2>2, DescendAll, Zenon
<1>5. p \in S
  <2> HIDE DEF S
  <2> QED
    BY <1>1, <1>4
<1> QED
  BY <1>5 DEF P

\* GetFrameLen gives the length that is claimed, if it is plausible, wherever its two
\* bytes lie.
LEMMA FrameLenIs ==
  ASSUME NEW exit \in Seq(Byte), NEW recv \in Seq(Byte), NEW h \in Nat, h + 3 <= Total(exit, recv)
  PROVE  LET w == exit \o recv
         IN /\ Claimed(w, h + 1) \in Nat
            /\ GetFrameLen(h, exit, recv) = IF Plausible(w, h + 1) THEN Claimed(w, h + 1) ELSE -1
<1> DEFINE w == exit \o recv
           X == Len(exit)
<1>1. X \in Nat /\ X = Len(exit) /\ Len(recv) \in Nat /\ w \in Seq(Byte) /\ Len(w) = X + Len(recv) /\ h + 3 <= Len(w)
  BY TwoBuffers, LenProperties DEF Total
<1>2. Claimed(w, h + 1) \in Nat
  <2>1. h + 1 \in 1 .. Len(w) /\ (h + 1) + 2 <= Len(w)
    BY <1>1
  <2> HIDE DEF w
  <2> QED
    BY <1>1, <2>1, ClaimedType
<1>3. /\ w[h + 2] = IF h + 1 < X THEN exit[h + 2] ELSE recv[h + 2 - X]
      /\ w[h + 3] = IF h + 2 < X THEN exit[h + 3] ELSE recv[h + 3 - X]
  <2> DEFINE i == h + 1
             j == h + 2
  <2>1. i \in 0 .. Total(exit, recv) - 1 /\ j \in 0 .. Total(exit, recv) - 1
    BY <1>1 DEF Total
  <2>2. i + 1 = h + 2 /\ j + 1 = h + 3 /\ i - X + 1 = h + 2 - X /\ j - X + 1 = h + 3 - X
    BY <1>1
  <2> HIDE DEF i, j
  <2>3. /\ w[i + 1] = IF i < X THEN exit[i + 1] ELSE recv[i - X + 1]
        /\ w[j + 1] = IF j < X THEN exit[j + 1] ELSE recv[j - X + 1]
    BY <2>1, ByteOf
  <2> HIDE DEF w, X
  <2> QED
    BY <2>2, <2>3 DEF i, j
<1> HIDE DEF w, X
<1>4. Claimed(w, h + 1) = 256 * w[h + 2] + w[h + 3]
  <2>1. (h + 1) + 1 = h + 2 /\ (h + 1) + 2 = h + 3
    OBVIOUS
  <2> QED
    BY <2>1 DEF Claimed
<1>5. LengthBytes(h, exit, recv) = 256 * w[h + 2] + w[h + 3]
  <2>1. CASE h < X - 2
    <3>1. h + 1 < X /\ h + 2 < X
      BY <1>1, <2>1
    <3> QED
      BY <1>1, <1>3, <2>1, <3>1 DEF LengthBytes
  <2>2. CASE h = X - 2
    <3>1. h + 1 < X /\ ~ (h + 2 < X) /\ h + 3 - X = 1 /\ ~ (h < X - 2)
      BY <1>1, <2>2
    <3> QED
      BY <1>1, <1>3, <2>2, <3>1 DEF LengthBytes
  <2>3. CASE ~ (h < X - 2) /\ h # X - 2
    <3>1. ~ (h + 1 < X) /\ ~ (h + 2 < X)
      BY <1>1, <2>3
    <3> QED
      BY <1>1, <1>3, <2>3, <3>1 DEF LengthBytes
  <2> QED
    BY <2>1, <2>2, <2>3
<1>6. LengthBytes(h, exit, recv) = Claimed(w, h + 1)
  BY <1>4, <1>5
<1>7. GetFrameLen(h, exit, recv) = IF Plausible(w, h + 1) THEN Claimed(w, h + 1) ELSE -1
  <2> DEFINE n == Claimed(w, h + 1)
  <2>1. n \in Nat /\ LengthBytes(h, exit, recv) = n
    BY <1>2, <1>6
  <2>2. Plausible(w, h + 1) <=> n \in FRAME_LEN_MIN .. FRAME_LEN_MAX
    BY DEF Plausible
  <2> HIDE DEF n
  <2>3. GetFrameLen(h, exit, recv) = IF n < FRAME_LEN_MIN \/ n > FRAME_LEN_MAX THEN -1 ELSE n
    BY <2>1 DEF GetFrameLen
  <2> QED
    BY <2>1, <2>2, <2>3 DEF n
<1> QED
  BY <1>2, <1>7 DEF w

\* CopyRestToExitBuff keeps the stream from its index on.
LEMMA CopyIs ==
  ASSUME NEW exit \in Seq(Byte), NEW recv \in Seq(Byte), NEW h \in 0 .. Total(exit, recv) - 1
  PROVE  CopyRestToExitBuff(h, exit, recv) = SubSeq(exit \o recv, h + 1, Total(exit, recv))
<1> DEFINE X == Len(exit)
           R == Len(recv)
           n == Total(exit, recv)
           a == h + 1
           r == SubSeq(exit \o recv, a, n)
<1>1. X \in Nat /\ R \in Nat /\ n = X + R /\ X = Len(exit) /\ R = Len(recv) /\ a \in 1 .. n /\ n \in a .. n
  BY LenProperties DEF Total
<1>2. r = IF n <= X THEN SubSeq(exit, a, n)
          ELSE IF a <= X THEN SubSeq(exit, a, X) \o SubSeq(recv, 1, n - X)
          ELSE SubSeq(recv, a - X, n - X)
  <2> HIDE DEF a
  <2> QED
    BY <1>1, StretchOf
<1>3. SubSeq(recv, 1, R) = recv
  BY SubSeqFull
<1>4. CopyRestToExitBuff(h, exit, recv) = IF h < X THEN SubSeq(exit, a, X) \o recv ELSE SubSeq(recv, h - X + 1, R)
  BY DEF CopyRestToExitBuff
<1>5. (h < X <=> a <= X) /\ h - X + 1 = a - X /\ n - X = R
  BY <1>1
<1> HIDE DEF r, a, X, R, n
<1>6. CopyRestToExitBuff(h, exit, recv) = r
  <2>1. CASE n <= X
    <3>1. n = X /\ R = 0 /\ a <= X
      BY <1>1, <2>1
    <3>2. recv = <<>>
      BY <1>1, <3>1, EmptySeq
    <3>3. SubSeq(exit, a, X) \in Seq(Byte)
      <4>1. a \in 1 .. Len(exit) + 1 /\ X \in a - 1 .. Len(exit)
        BY <1>1, <3>1
      <4> QED
        BY <4>1, Stretch
    <3>4. SubSeq(exit, a, X) \o recv = SubSeq(exit, a, X)
      BY <3>2, <3>3, ConcatEmptySeq
    <3> QED
      BY <1>2, <1>4, <1>5, <2>1, <3>1, <3>4
  <2>2. CASE ~ (n <= X)
    BY <1>2, <1>3, <1>4, <1>5, <2>2
  <2> QED
    BY <2>1, <2>2
<1> QED
  BY <1>6 DEF r, a, n

\* SaveFrame copies the bytes of the frame, and CheckSum looks at its last.
LEMMA SaveIs ==
  ASSUME NEW exit \in Seq(Byte), NEW recv \in Seq(Byte),
         NEW h \in Nat, NEW n \in Nat \ {0}, h + n <= Total(exit, recv)
  PROVE  /\ SaveFrame(h, exit, recv, n) = SubSeq(exit \o recv, h + 1, h + n)
         /\ CheckSum(h, exit, recv, n) <=> (exit \o recv)[h + n] = FRAME_END
<1> DEFINE X == Len(exit)
           a == h + 1
           b == h + n
           i == (h + n) - 1
           w == exit \o recv
<1>1. X \in Nat /\ Len(recv) \in Nat /\ Total(exit, recv) = X + Len(recv) /\ X = Len(exit)
  BY LenProperties DEF Total
<1>2. a \in 1 .. Total(exit, recv) /\ b \in a .. Total(exit, recv) /\ i \in 0 .. Total(exit, recv) - 1
  BY <1>1
<1>3. /\ SubSeq(w, a, b) = IF b <= X THEN SubSeq(exit, a, b)
                           ELSE IF a <= X THEN SubSeq(exit, a, X) \o SubSeq(recv, 1, b - X)
                           ELSE SubSeq(recv, a - X, b - X)
      /\ w[i + 1] = IF i < X THEN exit[i + 1] ELSE recv[i - X + 1]
  <2> HIDE DEF a, b, i
  <2> QED
    BY <1>2, StretchOf, ByteOf
<1>4. /\ (h < X <=> a <= X) /\ n - (X - h) = b - X /\ h - X + 1 = a - X /\ h - X + n = b - X
      /\ i + 1 = b /\ (i < X <=> b <= X) /\ i - X + 1 = h - X + n
  BY <1>1
<1>5. SaveFrame(h, exit, recv, n) =
        IF b <= X THEN SubSeq(exit, a, b)
        ELSE IF h < X THEN SubSeq(exit, a, X) \o SubSeq(recv, 1, n - (X - h))
        ELSE SubSeq(recv, h - X + 1, h - X + n)
  BY DEF SaveFrame
<1>6. CheckSum(h, exit, recv, n) <=> FRAME_END = IF b <= X THEN exit[b] ELSE recv[h - X + n]
  BY DEF CheckSum
<1> HIDE DEF X, a, b, i, w
<1>7. SaveFrame(h, exit, recv, n) = SubSeq(w, a, b)
  BY <1>3, <1>4, <1>5
<1>8. CheckSum(h, exit, recv, n) <=> w[b] = FRAME_END
  BY <1>3, <1>4, <1>6
<1> QED
  BY <1>7, <1>8 DEF a, b, w

\* A turn of the loop gives what the parser finds from its index on, if the later turns
\* do.
LEMMA TurnIs ==
  ASSUME NEW exit \in Seq(Byte), NEW recv \in Seq(Byte), NEW cur \in 0 .. Total(exit, recv), NEW from,
         \A c \in cur + 1 .. Total(exit, recv) : from[c] = Parser(exit \o recv)[c + 1]
  PROVE  Turn(cur, exit, recv, from) = Parser(exit \o recv)[cur + 1]
<1> DEFINE w == exit \o recv
           n == Total(exit, recv)
           P == Parser(w)
           h == GetHeadIndex(cur, exit, recv)
           len == GetFrameLen(h, exit, recv)
<1> SUFFICES Turn(cur, exit, recv, from) = P[cur + 1]
  OBVIOUS
<1>1. n \in Nat /\ w \in Seq(Byte) /\ Len(w) = n /\ cur \in 0 .. n
  BY TwoBuffers, LenProperties DEF Total
<1>2. \A p \in 1 .. n + 1 : StepAt(w, P, p) /\ P[p] \in Found
  BY <1>1, ParserStep, ParserIs
<1>3. \/ h = -1 /\ \A i \in cur + 1 .. n : w[i] # FRAME_HEAD
      \/ h \in cur .. n - 1 /\ w[h + 1] = FRAME_HEAD /\ \A i \in cur + 1 .. h : w[i] # FRAME_HEAD
  BY SMTT(30), <1>1, HeadIndexIs
<1>4. Turn(cur, exit, recv, from) =
        IF h = -1 THEN [saved |-> <<>>, rest |-> <<>>]
        ELSE IF h + FRAME_LEN_MIN > n \/ h + len > n
          THEN [saved |-> <<>>, rest |-> CopyRestToExitBuff(h, exit, recv)]
        ELSE IF len = -1 \/ ~ CheckSum(h, exit, recv, len) THEN from[h + 1]
        ELSE [saved |-> <<SaveFrame(h, exit, recv, len)>> \o from[h + len].saved,
              rest |-> from[h + len].rest]
  BY DEF Turn
<1>5. \A k \in cur + 1 .. n + 1 : (\A i \in cur + 1 .. k - 1 : w[i] # FRAME_HEAD) => P[cur + 1] = P[k]
  <2> DEFINE c == cur + 1
  <2>1. c \in 1 .. Len(w) + 1 /\ n = Len(w)
    BY <1>1
  <2> HIDE DEF c, w, n
  <2>2. \A k \in c .. n + 1 : (\A i \in c .. k - 1 : w[i] # FRAME_HEAD) => P[c] = P[k]
    BY SMTT(30), <1>1, <2>1, NoHead DEF P
  <2> QED
    BY <2>2 DEF c
<1>6. \A c \in cur + 1 .. n : from[c] = P[c + 1]
  OBVIOUS
<1>7. \A k \in 1 .. n + 1 : P[k] = [saved |-> P[k].saved, rest |-> P[k].rest]
  BY <1>2 DEF Found
<1>8. CASE h = -1
  <2>1. P[cur + 1] = P[n + 1]
    <3>1. n + 1 \in cur + 1 .. n + 1 /\ (n + 1) - 1 = n
      BY <1>1
    <3> HIDE DEF P, w, n, h
    <3>2. \A i \in cur + 1 .. (n + 1) - 1 : w[i] # FRAME_HEAD
      <4>1. \A i \in cur + 1 .. n : w[i] # FRAME_HEAD
        BY <1>1, <1>3, <1>8
      <4> QED
        BY <3>1, <4>1
    <3> QED
      BY <1>5, <3>1, <3>2
  <2>2. P[n + 1].saved = <<>> /\ P[n + 1].rest = <<>> /\ n + 1 \in 1 .. n + 1
    <3>1. n + 1 \in 1 .. n + 1 /\ n + 1 = Len(w) + 1
      BY <1>1
    <3> QED
      BY <1>2, <3>1 DEF StepAt
  <2> HIDE DEF P, w, n, h, len
  <2> QED
    BY <1>4, <1>7, <1>8, <2>1, <2>2
<1>9. CASE h \in cur .. n - 1 /\ w[h + 1] = FRAME_HEAD /\ \A i \in cur + 1 .. h : w[i] # FRAME_HEAD
  <2> DEFINE p == h + 1
  <2>1. p \in 1 .. Len(w) /\ p \in cur + 1 .. n + 1 /\ p - 1 = h /\ p \in 1 .. n + 1 /\ h \in Nat
    BY SMTT(30), <1>1, <1>9
  <2> HIDE DEF P, w, n, h
  <2>2. P[cur + 1] = P[p] /\ w[p] = FRAME_HEAD /\ StepAt(w, P, p)
    BY <1>2, <1>5, <1>9, <2>1
  <2>3. P[p] = [saved |-> P[p].saved, rest |-> P[p].rest] /\ h # -1
    BY <1>7, <2>1
  <2>4. h + 5 <= n => /\ Claimed(w, p) \in Nat
                      /\ len = IF Plausible(w, p) THEN Claimed(w, p) ELSE -1
    <3>1. h + 5 <= n => h + 3 <= Total(exit, recv)
      BY <1>1, <2>1 DEF n
    <3> QED
      BY <2>1, <3>1, FrameLenIs DEF w
  <2> HIDE DEF len
  <2>5. CASE Incomplete(w, p)
    <3>1. h + FRAME_LEN_MIN > n \/ h + len > n
      <4>1. CASE p + FRAME_LEN_MIN - 1 > Len(w)
        BY <1>1, <2>1, <4>1
      <4>2. CASE h + 5 <= n /\ Plausible(w, p) /\ p + Claimed(w, p) - 1 > Len(w)
        <5>1. len = Claimed(w, p) /\ Claimed(w, p) \in Nat
          BY <2>4, <4>2
        <5> QED
          BY <1>1, <2>1, <4>2, <5>1
      <4>3. p + FRAME_LEN_MIN - 1 > Len(w) \/ h + 5 <= n
        BY <1>1, <2>1
      <4> QED
        BY <2>5, <4>1, <4>2, <4>3 DEF Incomplete
    <3>2. CopyRestToExitBuff(h, exit, recv) = SubSeq(w, p, n)
      BY SMTT(30), <1>1, <2>1, CopyIs DEF w, n
    <3>3. P[p].saved = <<>> /\ P[p].rest = SubSeq(w, p, n)
      BY <1>1, <2>1, <2>2, <2>5 DEF StepAt
    <3> HIDE DEF p
    <3> QED
      BY <1>4, <2>2, <2>3, <3>1, <3>2, <3>3
  <2>6. CASE ~ Incomplete(w, p)
    <3>1. h + 5 <= n
      BY <1>1, <2>1, <2>6 DEF Incomplete
    <3>2. /\ Claimed(w, p) \in Nat /\ len = IF Plausible(w, p) THEN Claimed(w, p) ELSE -1
          /\ Plausible(w, p) => Claimed(w, p) \in 5 .. FRAME_LEN_MAX /\ h + Claimed(w, p) <= n
      <4>1. Plausible(w, p) => ~ (p + Claimed(w, p) - 1 > Len(w))
        BY <2>6 DEF Incomplete
      <4>2. ~ (p + Claimed(w, p) - 1 > Len(w)) => h + Claimed(w, p) <= n
        BY <1>1, <2>1, <2>4, <3>1
      <4> QED
        BY <2>4, <3>1, <4>1, <4>2 DEF Plausible
    <3>3. ~ (h + FRAME_LEN_MIN > n \/ h + len > n)
      BY <1>1, <2>1, <3>1, <3>2
    <3>4. CASE Ends(w, p)
      <4>1. Plausible(w, p) /\ len = Claimed(w, p) /\ len \in 5 .. FRAME_LEN_MAX /\ h + len <= n
        BY <3>2, <3>4 DEF Ends
      <4>2. /\ len \in Nat \ {0} /\ len # -1 /\ h + len = p + len - 1 /\ h + len \in cur + 1 .. n
            /\ (h + len) + 1 = p + len
        <5>1. n \in Nat /\ cur \in 0 .. n /\ h \in cur .. n - 1 /\ len \in Nat /\ len >= 5 /\ h + len <= n
          BY <1>1, <1>9, <4>1
        <5> QED
          BY ONLY <5>1
      <4>3. SaveFrame(h, exit, recv, len) = SubSeq(w, p, p + len - 1) /\ CheckSum(h, exit, recv, len)
        <5>1. /\ SaveFrame(h, exit, recv, len) = SubSeq(w, h + 1, h + len)
              /\ CheckSum(h, exit, recv, len) <=> w[h + len] = FRAME_END
          <6>1. h \in Nat /\ len \in Nat \ {0} /\ h + len <= Total(exit, recv)
            BY <2>1, <4>1, <4>2 DEF n
          <6>2. /\ SaveFrame(h, exit, recv, len) = SubSeq(exit \o recv, h + 1, h + len)
                /\ CheckSum(h, exit, recv, len) <=> (exit \o recv)[h + len] = FRAME_END
            BY <6>1, SaveIs
          <6> QED
            BY <6>2 DEF w
        <5>2. w[p + len - 1] = FRAME_END
          BY <3>4, <4>1 DEF Ends
        <5> QED
          BY <4>2, <5>1, <5>2
      <4>4. from[h + len] = P[p + len]
        BY <1>6, <4>2
      <4>5. P[p].saved = <<SubSeq(w, p, p + len - 1)>> \o P[p + len].saved /\ P[p].rest = P[p + len].rest
        BY <2>1, <2>2, <2>6, <3>4, <4>1 DEF StepAt
      <4>6. Turn(cur, exit, recv, from) =
              [saved |-> <<SaveFrame(h, exit, recv, len)>> \o from[h + len].saved, rest |-> from[h + len].rest]
        BY <1>4, <2>3, <3>3, <4>2, <4>3
      <4>7. Turn(cur, exit, recv, from) = [saved |-> P[p].saved, rest |-> P[p].rest]
        BY <4>3, <4>4, <4>5, <4>6
      <4> QED
        BY <2>2, <2>3, <4>7
    <3>5. CASE ~ Ends(w, p)
      <4>1. len = -1 \/ ~ CheckSum(h, exit, recv, len)
        <5>1. CASE Plausible(w, p)
          <6>1. len = Claimed(w, p) /\ len \in Nat \ {0} /\ h + len <= n /\ h + len = p + len - 1
            BY <1>1, <2>1, <3>2, <5>1
          <6>2. CheckSum(h, exit, recv, len) <=> w[h + len] = FRAME_END
            BY ZenonT(40), <2>1, <6>1, SaveIs DEF w, n
          <6>3. w[p + len - 1] # FRAME_END
            BY <3>5, <5>1, <6>1 DEF Ends
          <6> QED
            BY <6>1, <6>2, <6>3
        <5>2. CASE ~ Plausible(w, p)
          BY <3>2, <5>2
        <5> QED
          BY <5>1, <5>2
      <4>2. h + 1 \in cur + 1 .. n
        BY <1>1, <1>9, <2>1
      <4>3. from[h + 1] = P[p + 1]
        BY <1>6, <4>2
      <4>4. P[p] = P[p + 1]
        BY <2>1, <2>2, <2>6, <3>5 DEF StepAt
      <4>5. Turn(cur, exit, recv, from) = from[h + 1]
        BY <1>4, <2>3, <3>3, <4>1
      <4> QED
        BY <2>2, <4>3, <4>4, <4>5
    <3> QED
      BY <3>4, <3>5
  <2> QED
    BY <2>5, <2>6
<1> QED
  BY <1>3, <1>8, <1>9

\* The function of Loop.
Looper(exit, recv) ==
  CHOOSE from : from = [cur \in 0 .. Total(exit, recv) |-> Turn(cur, exit, recv, from)]

\* RestructFrame's loop over the two buffers finds what the parser finds in one stream.
LEMMA LoopIs ==
  ASSUME NEW exit \in Seq(Byte), NEW recv \in Seq(Byte)
  PROVE  Loop(exit, recv) = Parse(exit \o recv)
<1> DEFINE n == Total(exit, recv)
           P == Parser(exit \o recv)
           F == [cur \in 0 .. n |-> P[cur + 1]]
           G == Looper(exit, recv)
           T(cur, from) == Turn(cur, exit, recv, from)
           S == {c \in 0 .. n : G[c] = P[c + 1]}
<1>1. n \in Nat /\ Parse(exit \o recv) = P[1]
  <2>1. n \in Nat
    BY LenProperties DEF Total
  <2>2. exit \o recv \in Seq(Byte)
    BY TwoBuffers
  <2>3. \A w \in Seq(Byte) : Parse(w) = Parser(w)[1]
    BY ParserIs
  <2> QED
    BY <2>1, <2>2, <2>3
<1>2. ASSUME NEW cur \in 0 .. n, NEW from, \A c \in cur + 1 .. n : from[c] = P[c + 1]
      PROVE  T(cur, from) = P[cur + 1]
  BY <1>2, TurnIs
<1>3. G = CHOOSE from : from = [cur \in 0 .. n |-> T(cur, from)]
  BY DEF Looper
<1>4. Loop(exit, recv) = G[0]
  BY DEF Loop, Looper
<1> HIDE DEF n, P, G, T
<1>5. F = [cur \in 0 .. n |-> T(cur, F)]
  <2>1. ASSUME NEW cur \in 0 .. n
        PROVE  F[cur] = T(cur, F)
    <3>1. \A c \in cur + 1 .. n : c \in 0 .. n
      BY <1>1
    <3>2. \A c \in cur + 1 .. n : F[c] = P[c + 1]
      BY <3>1
    <3>3. F[cur] = P[cur + 1]
      OBVIOUS
    <3> HIDE DEF F
    <3> QED
      BY <1>2, <3>2, <3>3
  <2>2. F = [cur \in 0 .. n |-> F[cur]]
    OBVIOUS
  <2> HIDE DEF F
  <2> QED
    BY <2>1, <2>2
<1>6. G = [cur \in 0 .. n |-> T(cur, G)]
  <2> HIDE DEF F
  <2> QED
    BY <1>3, <1>5
<1>7. ASSUME NEW k \in 0 .. n, \A q \in k + 1 .. n : q \in S
      PROVE  k \in S
  <2>1. \A c \in k + 1 .. n : G[c] = P[c + 1]
    BY <1>7
  <2>2. G[k] = T(k, G)
    BY <1>6
  <2> QED
    BY <1>2, <2>1, <2>2
<1>8. \A k \in 0 .. n : k \in S
  <2> DEFINE lo == 0
  <2>1. \A k \in lo .. n : (\A q \in k + 1 .. n : q \in S) => k \in S
    BY <1>7
  <2>2. n \in Int /\ lo \in Int
    BY <1>1
  <2> HIDE DEF S, lo
  <2>3. \A k \in lo .. n : k \in S
    BY ONLY <2>1, <2>2, DescendAll, Zenon
  <2> QED
    BY <2>3 DEF lo
<1>9. G[0] = P[1]
  <2>1. 0 \in 0 .. n /\ 0 + 1 = 1
    BY <1>1
  <2>2. 0 \in S
    BY <1>8, <2>1
  <2> QED
    BY <2>1, <2>2
<1> QED
  BY <1>1, <1>4, <1>9

\* A read: what is found in the rest of a stream and the bytes that follow it is what
\* the longer stream has more.
LEMMA ReadOn ==
  ASSUME NEW s \in Seq(Byte), NEW t \in Seq(Byte)
  PROVE  LET before == Parse(s)
             more == Loop(before.rest, t)
         IN Parse(s \o t).saved = before.saved \o more.saved /\ Parse(s \o t).rest = more.rest
<1> DEFINE r == Parse(s).rest
           v == r \o t
           w == s \o t
           k == Len(r)
           L == Len(s)
           d == L - k
<1>1. r \in Seq(Byte) /\ Short(s, r)
  <2>1. 1 \in 1 .. Len(s) + 1
    BY LenProperties
  <2>2. Parser(s)[1] \in Found /\ Parse(s) = Parser(s)[1] /\ Short(s, Parser(s)[1].rest)
    BY <2>1, ParserIs, RestIsShort
  <2> QED
    BY <2>2 DEF Found
<1>2. L \in Nat /\ k \in 0 .. L /\ d \in Nat /\ Len(t) \in Nat /\ L = Len(s) /\ k = Len(r) /\ d = L - k
  BY <1>1, LenProperties DEF Short
<1>3. /\ v \in Seq(Byte) /\ Len(v) = k + Len(t)
      /\ \A i \in 1 .. k + Len(t) : v[i] = IF i <= k THEN r[i] ELSE t[i - k]
  BY <1>1, ConcatProperties
<1>4. /\ w \in Seq(Byte) /\ Len(w) = L + Len(t)
      /\ \A i \in 1 .. L + Len(t) : w[i] = IF i <= L THEN s[i] ELSE t[i - L]
  BY ConcatProperties
<1>5. \A i \in 1 .. k : r[i] = s[i + d]
  <2> DEFINE a == L + 1 - k
  <2>1. r = SubSeq(s, a, L) /\ a \in 1 .. Len(s) + 1 /\ L \in a - 1 .. Len(s) /\ L - a + 1 = k
    <3>1. r = SubSeq(s, a, L)
      BY <1>1 DEF Short
    <3> HIDE DEF r, L, k
    <3>2. a \in 1 .. L + 1 /\ L \in a - 1 .. L /\ L - a + 1 = k
      BY <1>2
    <3> QED
      BY <1>2, <3>1, <3>2
  <2> HIDE DEF a, r, L, k, d
  <2>2. \A i \in 1 .. L - a + 1 : r[i] = s[a + i - 1]
    BY <2>1, Stretch
  <2>3. \A i \in 1 .. k : a + i - 1 = i + d
    BY <1>2 DEF a
  <2> QED
    BY <2>1, <2>2, <2>3
<1>6. Loop(r, t) = Parse(v)
  BY <1>1, LoopIs
<1> HIDE DEF r, v, w, k, L, d
<1>7. Inside(v, w, d) /\ d + Len(v) = Len(w)
  <2>1. d + Len(v) = Len(w)
    BY <1>2, <1>3, <1>4
  <2>2. ASSUME NEW i \in 1 .. Len(v)
        PROVE  v[i] = w[i + d]
    <3>0. i \in 1 .. k + Len(t) /\ i + d \in 1 .. L + Len(t)
      BY <1>2, <1>3
    <3>1. CASE i <= k
      <4>1. i \in 1 .. k /\ i + d <= L
        BY <1>2, <3>0, <3>1
      <4> QED
        BY <1>3, <1>4, <1>5, <3>0, <3>1, <4>1
    <3>2. CASE ~ (i <= k)
      <4>1. ~ (i + d <= L) /\ (i + d) - L = i - k
        BY <1>2, <3>0, <3>2
      <4> QED
        BY <1>3, <1>4, <3>0, <3>2, <4>1
    <3> QED
      BY <3>1, <3>2
  <2> QED
    BY <1>2, <1>3, <1>4, <2>1, <2>2 DEF Inside
<1>8. Parse(v).saved = Parser(w)[1 + d].saved /\ Parse(v).rest = Parser(w)[1 + d].rest
  BY <1>2, <1>3, <1>4, <1>7, ParserOfEnd
<1>9. Parse(w).saved = Parse(s).saved \o Parser(w)[1 + d].saved /\ Parse(w).rest = Parser(w)[1 + d].rest
  <2> DEFINE zero == 0
             q == Len(s) + 1 - Len(Parse(s).rest)
  <2>1. zero \in Nat /\ Inside(s, w, zero)
    BY TwoBuffers DEF w
  <2>2. 1 + zero = 1 /\ q + zero = 1 + d
    BY <1>2 DEF r
  <2>3. Parse(w) = Parser(w)[1]
    BY <1>4, ParserIs
  <2> HIDE DEF zero
  <2>4. /\ Parser(w)[1 + zero].saved = Parse(s).saved \o Parser(w)[q + zero].saved
        /\ Parser(w)[1 + zero].rest = Parser(w)[q + zero].rest
    BY <1>4, <2>1, ParserOfBeginning
  <2> HIDE DEF q
  <2> QED
    BY <2>2, <2>3, <2>4
<1> QED
  BY <1>6, <1>8, <1>9 DEF r, w

-----------------------------------------------------------------------------
(* Where the parts of a stream lie in it                                    *)

FlatAt(ps, i, flat) == IF i = 1 THEN ps[i] ELSE flat[i - 1] \o ps[i]
Flat(ps) == CHOOSE flat : flat = [i \in 1 .. Len(ps) |-> FlatAt(ps, i, flat)]

\* The function of FlattenSeq: its value at i is the first i parts in one sequence.
LEMMA FlatIs ==
  ASSUME NEW ps \in Seq(Seq(Byte)), ps # <<>>
  PROVE  /\ Len(ps) \in Nat \ {0} /\ FlattenSeq(ps) = Flat(ps)[Len(ps)]
         /\ \A i \in 1 .. Len(ps) : /\ Flat(ps)[i] \in Seq(Byte) /\ ps[i] \in Seq(Byte)
                                    /\ Flat(ps)[i] = FlatAt(ps, i, Flat(ps))
<1> DEFINE n == Len(ps)
           Fits(f, k) == \A i \in 1 .. k : f[i] = FlatAt(ps, i, f)
           S == {k \in 1 .. n : \E f \in [1 .. k -> Seq(Byte)] : Fits(f, k)}
<1>1. n \in Nat \ {0} /\ n = Len(ps) /\ \A i \in 1 .. n : ps[i] \in Seq(Byte)
  BY EmptySeq
<1>2. \A f, g, i : i \in 1 .. n /\ (i # 1 => f[i - 1] = g[i - 1]) => FlatAt(ps, i, f) = FlatAt(ps, i, g)
  BY DEF FlatAt
<1>3. \A f : \A i \in 1 .. n : (i # 1 => f[i - 1] \in Seq(Byte)) => FlatAt(ps, i, f) \in Seq(Byte)
  BY <1>1, ConcatProperties DEF FlatAt
<1> HIDE DEF n
<1>4. 1 \in S
  <2> DEFINE f == [i \in 1 .. 1 |-> FlatAt(ps, i, <<>>)]
  <2>1. 1 \in 1 .. n /\ \A i \in 1 .. 1 : i = 1
    BY <1>1
  <2>2. f[1] = FlatAt(ps, 1, <<>>) /\ f \in [1 .. 1 -> Seq(Byte)]
    BY <1>3, <2>1
  <2> HIDE DEF f
  <2>3. Fits(f, 1)
    BY <1>2, <2>1, <2>2
  <2> QED
    BY <2>1, <2>2, <2>3
<1>5. ASSUME NEW k \in 1 .. n - 1, k \in S
      PROVE  k + 1 \in S
  <2>1. PICK f \in [1 .. k -> Seq(Byte)] : Fits(f, k)
    BY <1>5
  <2> DEFINE m == k + 1
             g == [i \in 1 .. m |-> IF i = m THEN FlatAt(ps, m, f) ELSE f[i]]
  <2>2. /\ m \in 1 .. n /\ m \in 1 .. m /\ m # 1 /\ m - 1 = k /\ k \in 1 .. k /\ k \in 1 .. m /\ k # m
        /\ \A i \in 1 .. m : i = m \/ i \in 1 .. k
        /\ \A i \in 1 .. k : i \in 1 .. m /\ i # m /\ i \in 1 .. n /\ (i # 1 => i - 1 \in 1 .. k)
    BY <1>1
  <2> HIDE DEF m
  <2>3. g[m] = FlatAt(ps, m, f) /\ \A i \in 1 .. k : g[i] = f[i]
    BY <2>2
  <2>4. g = [i \in 1 .. m |-> g[i]]
    OBVIOUS
  <2> HIDE DEF g
  <2>5. g[m] = FlatAt(ps, m, g) /\ g[m] \in Seq(Byte)
    <3>1. f[k] = g[k] /\ f[k] \in Seq(Byte)
      BY <2>2, <2>3
    <3>2. f[m - 1] = g[m - 1] /\ f[m - 1] \in Seq(Byte) /\ m \in 1 .. n
      BY <2>2, <3>1
    <3>3. FlatAt(ps, m, f) = FlatAt(ps, m, g)
      BY <1>2, <3>2
    <3>4. FlatAt(ps, m, f) \in Seq(Byte)
      BY <1>3, <3>2
    <3> QED
      BY <2>3, <3>3, <3>4
  <2>6. ASSUME NEW i \in 1 .. k
        PROVE  g[i] = FlatAt(ps, i, g) /\ g[i] \in Seq(Byte)
    <3>1. g[i] = f[i] /\ f[i] = FlatAt(ps, i, f) /\ (i # 1 => f[i - 1] = g[i - 1])
      BY <2>1, <2>2, <2>3
    <3> QED
      BY <1>2, <2>2, <3>1
  <2>7. Fits(g, m) /\ g \in [1 .. m -> Seq(Byte)]
    BY <2>2, <2>4, <2>5, <2>6
  <2> QED
    BY <2>2, <2>7 DEF m
<1>6. n \in S
  <2> DEFINE lo == 1
  <2>1. lo \in S /\ \A k \in lo .. n - 1 : k \in S => k + 1 \in S
    BY <1>4, <1>5
  <2>2. lo \in Int /\ n \in Int /\ n \in lo .. n
    BY <1>1
  <2> HIDE DEF S, lo
  <2> QED
    BY ONLY <2>1, <2>2, Ascend, Zenon
<1>7. PICK f \in [1 .. n -> Seq(Byte)] : Fits(f, n)
  BY <1>6
<1>8. f = [i \in 1 .. n |-> FlatAt(ps, i, f)]
  <2>1. \A i \in 1 .. n : f[i] = FlatAt(ps, i, f)
    BY <1>7
  <2> QED
    BY <2>1
<1> DEFINE F == Flat(ps)
<1>9. F = [i \in 1 .. n |-> FlatAt(ps, i, F)]
  BY <1>8 DEF Flat, n
<1>10. FlattenSeq(ps) = F[n]
  <2>1. Len(ps) # 0
    BY <1>1
  <2> QED
    BY <2>1 DEF FlattenSeq, Flat, FlatAt, n
<1> HIDE DEF F
<1>11. \A i \in 1 .. n : F[i] = FlatAt(ps, i, F)
  BY <1>9
<1> DEFINE T == {k \in 1 .. n : F[k] \in Seq(Byte)}
<1>12. \A k \in 1 .. n : k \in T
  <2> DEFINE lo == 1
  <2>1. lo \in T
    BY <1>1, <1>3, <1>11
  <2>2. ASSUME NEW k \in lo .. n - 1, k \in T
        PROVE  k + 1 \in T
    <3> DEFINE m == k + 1
    <3>1. m \in 1 .. n /\ m # 1 /\ m - 1 = k
      BY <1>1
    <3> HIDE DEF m
    <3>2. m \in T
      BY <1>3, <1>11, <2>2, <3>1
    <3> QED
      BY <3>2 DEF m
  <2>3. lo \in Int /\ n \in Int /\ \A k \in lo .. n - 1 : k \in T => k + 1 \in T
    BY <1>1, <2>2
  <2> HIDE DEF T, lo
  <2>4. \A k \in lo .. n : k \in T
    BY ONLY <2>1, <2>3, Ascend, Zenon
  <2> QED
    BY <2>4 DEF lo
<1> QED
  BY <1>1, <1>10, <1>11, <1>12 DEF F, n

LEMMA InsideInside ==
  ASSUME NEW u \in Seq(Byte), NEW v \in Seq(Byte), NEW w \in Seq(Byte), NEW c \in Nat, NEW d \in Nat,
         Inside(u, v, c), Inside(v, w, d)
  PROVE  Inside(u, w, c + d)
<1>1. Len(u) \in Nat /\ Len(v) \in Nat /\ Len(w) \in Nat /\ c + Len(u) <= Len(v) /\ d + Len(v) <= Len(w)
  BY LenProperties DEF Inside
<1>2. ASSUME NEW i \in 1 .. Len(u)
      PROVE  u[i] = w[i + (c + d)]
  <2>1. i + c \in 1 .. Len(v) /\ (i + c) + d = i + (c + d)
    BY <1>1
  <2>2. u[i] = v[i + c] /\ v[i + c] = w[(i + c) + d]
    BY <2>1 DEF Inside
  <2> QED
    BY <2>1, <2>2
<1>3. (c + d) + Len(u) <= Len(w)
  BY <1>1
<1> QED
  BY <1>2, <1>3 DEF Inside

\* Where the i-th part ends.
End(ps, i) == IF i = 0 THEN 0 ELSE Len(Flat(ps)[i])

\* Each part is in the stream, between the ends of the part before and its own.
LEMMA PartsLie ==
  ASSUME NEW ps \in Seq(Seq(Byte))
  PROVE  /\ FlattenSeq(ps) \in Seq(Byte) /\ Len(ps) \in Nat
         /\ End(ps, 0) = 0 /\ End(ps, Len(ps)) = Len(FlattenSeq(ps))
         /\ \A i \in 1 .. Len(ps) : /\ ps[i] \in Seq(Byte) /\ End(ps, i - 1) \in Nat
                                    /\ End(ps, i) = End(ps, i - 1) + Len(ps[i])
                                    /\ Inside(ps[i], FlattenSeq(ps), End(ps, i - 1))
<1>1. CASE ps = <<>>
  <2>1. Len(ps) = 0
    BY <1>1, EmptySeq
  <2>2. FlattenSeq(ps) = ps
    BY <2>1 DEF FlattenSeq
  <2>3. ps \in Seq(Byte)
    BY <1>1, EmptySeq
  <2>4. \A i \in 1 .. Len(ps) : FALSE
    BY <2>1
  <2>5. End(ps, 0) = 0 /\ Len(ps) \in Nat
    BY <2>1 DEF End
  <2> QED
    BY <2>1, <2>2, <2>3, <2>4, <2>5
<1>2. CASE ps # <<>>
  <2> DEFINE F == Flat(ps)
             n == Len(ps)
             st == FlattenSeq(ps)
             E(i) == End(ps, i)
  <2>1. /\ n \in Nat \ {0} /\ st = F[n] /\ n = Len(ps)
        /\ \A i \in 1 .. n : /\ F[i] \in Seq(Byte) /\ ps[i] \in Seq(Byte)
                             /\ F[i] = IF i = 1 THEN ps[i] ELSE F[i - 1] \o ps[i]
    BY <1>2, FlatIs DEF FlatAt
  <2>2. E(0) = 0 /\ \A i \in 1 .. n : E(i) = Len(F[i])
    <3>1. \A i \in 1 .. n : i # 0
      OBVIOUS
    <3> QED
      BY <3>1 DEF End
  <2> HIDE DEF F, n, st, E
  <2>3. ASSUME NEW i \in 1 .. n
        PROVE  /\ E(i - 1) \in Nat /\ E(i) = E(i - 1) + Len(ps[i])
               /\ Inside(ps[i], F[i], E(i - 1))
               /\ i # 1 => Inside(F[i - 1], F[i], 0)
    <3>1. CASE i = 1
      <4>1. F[i] = ps[i] /\ E(i) = Len(ps[i]) /\ i - 1 = 0 /\ Len(ps[i]) \in Nat
        BY <2>1, <2>2, <3>1, LenProperties
      <4>2. E(i - 1) = 0
        BY <2>2, <4>1
      <4>3. \A k \in 1 .. Len(ps[i]) : k + 0 = k
        OBVIOUS
      <4>4. Inside(ps[i], F[i], 0)
        BY <4>1, <4>3 DEF Inside
      <4> QED
        BY <3>1, <4>1, <4>2, <4>4
    <3>2. CASE i # 1
      <4> DEFINE j == i - 1
      <4>0. j \in 1 .. n
        BY <2>1, <3>2
      <4>1. F[j] \in Seq(Byte) /\ ps[i] \in Seq(Byte) /\ F[i] = F[j] \o ps[i]
        <5>1. F[i] = F[i - 1] \o ps[i]
          BY ONLY <2>1, <3>2, Zenon
        <5>2. F[j] \in Seq(Byte) /\ ps[i] \in Seq(Byte)
          <6> HIDE DEF j
          <6> QED
            BY <2>1, <4>0, Zenon
        <5> QED
          BY <5>1, <5>2, Zenon
      <4> HIDE DEF j
      <4>2. E(j) = Len(F[j]) /\ E(j) \in Nat /\ E(i) = Len(F[i])
        BY <2>2, <4>0, <4>1, LenProperties
      <4>3. /\ Len(F[i]) = Total(F[j], ps[i]) /\ Inside(F[j], F[i], 0) /\ Inside(ps[i], F[i], Len(F[j]))
        BY <4>1, TwoBuffers
      <4>4. E(i) = E(j) + Len(ps[i])
        BY <4>2, <4>3 DEF Total
      <4> QED
        BY <4>2, <4>3, <4>4 DEF j
    <3> QED
      BY <3>1, <3>2
  <2> DEFINE S == {i \in 1 .. n : Inside(F[i], st, 0)}
  <2>4. n \in S
    <3>1. n \in 1 .. n /\ F[n] \in Seq(Byte)
      BY <2>1
    <3>2. Len(F[n]) \in Nat
      BY <3>1, LenProperties
    <3>3. \A k \in 1 .. Len(F[n]) : k + 0 = k
      OBVIOUS
    <3>4. Inside(F[n], st, 0)
      BY <2>1, <3>2, <3>3 DEF Inside
    <3> QED
      BY <3>1, <3>4
  <2>5. ASSUME NEW k \in 1 .. n - 1, k + 1 \in S
        PROVE  k \in S
    <3> DEFINE m == k + 1
    <3>1. m \in 1 .. n /\ m # 1 /\ m - 1 = k /\ k \in 1 .. n /\ n \in 1 .. n
      BY <2>1
    <3>2. m \in S
      BY <2>5
    <3> HIDE DEF m
    <3>3. Inside(F[k], F[m], 0) /\ Inside(F[m], st, 0)
      <4>1. Inside(F[m - 1], F[m], 0)
        BY <2>3, <3>1
      <4> QED
        BY <3>1, <3>2, <4>1
    <3>4. F[k] \in Seq(Byte) /\ F[m] \in Seq(Byte) /\ st \in Seq(Byte)
      BY <2>1, <3>1
    <3> DEFINE zero == 0
    <3>5. zero \in Nat /\ zero + zero = zero /\ Inside(F[k], F[m], zero) /\ Inside(F[m], st, zero)
      BY <3>3
    <3> HIDE DEF zero
    <3>6. Inside(F[k], st, zero + zero)
      BY <3>4, <3>5, InsideInside
    <3>7. Inside(F[k], st, zero)
      BY <3>5, <3>6
    <3> QED
      BY <3>1, <3>7 DEF zero
  <2>6. \A i \in 1 .. n : i \in S
    <3> DEFINE lo == 1
    <3>1. lo \in Int /\ n \in Int /\ \A k \in lo .. n - 1 : k + 1 \in S => k \in S
      BY <2>1, <2>5
    <3> HIDE DEF S, lo
    <3>2. \A i \in lo .. n : i \in S
      BY ONLY <2>4, <3>1, Descend, Zenon
    <3> QED
      BY <3>2 DEF lo
  <2>7. ASSUME NEW i \in 1 .. n
        PROVE  Inside(ps[i], st, E(i - 1))
    <3> DEFINE d == E(i - 1)
               zero == 0
    <3>1. /\ ps[i] \in Seq(Byte) /\ F[i] \in Seq(Byte) /\ st \in Seq(Byte) /\ d \in Nat /\ zero \in Nat
          /\ Inside(ps[i], F[i], d) /\ Inside(F[i], st, zero) /\ d + zero = d
      <4>1. n \in 1 .. n
        BY <2>1
      <4> QED
        BY <2>1, <2>3, <2>6, <4>1
    <3> HIDE DEF d, zero
    <3>2. Inside(ps[i], st, d + zero)
      BY <3>1, InsideInside
    <3> QED
      BY <3>1, <3>2 DEF d
  <2>8. st \in Seq(Byte) /\ E(n) = Len(st)
    <3>1. n \in 1 .. n
      BY <2>1
    <3> QED
      BY <2>1, <2>2, <3>1
  <2> QED
    BY <2>1, <2>2, <2>3, <2>7, <2>8 DEF E, n, st
<1> QED
  BY <1>1, <1>2

\* A frame, as the parser sees it.
LEMMA FrameSeen ==
  ASSUME NEW f \in Seq(Byte), IsFrame(f)
  PROVE  /\ Len(f) \in Nat /\ Len(f) >= FRAME_LEN_MIN /\ 1 \in 1 .. Len(f)
         /\ f[1] = FRAME_HEAD /\ ~ Incomplete(f, 1) /\ Ends(f, 1) /\ Claimed(f, 1) = Len(f)
<1> DEFINE L == Len(f)
           C == Claimed(f, 1)
<1>1. L \in Nat /\ L = Len(f) /\ C = L /\ L \in FRAME_LEN_MIN .. FRAME_LEN_MAX
  BY LenProperties DEF IsFrame
<1>2. f[1] = FRAME_HEAD /\ f[L] = FRAME_END
  BY DEF IsFrame
<1> HIDE DEF L, C
<1>3. 1 + C - 1 = L /\ ~ (1 + FRAME_LEN_MIN - 1 > L) /\ ~ (1 + C - 1 > L) /\ C \in FRAME_LEN_MIN .. FRAME_LEN_MAX
  BY <1>1
<1>4. Plausible(f, 1) /\ ~ Incomplete(f, 1)
  BY <1>1, <1>3 DEF Plausible, Incomplete, C
<1>5. Ends(f, 1)
  BY <1>2, <1>3, <1>4 DEF Ends, C
<1>6. L >= FRAME_LEN_MIN /\ 1 \in 1 .. L
  BY <1>1
<1> QED
  BY <1>1, <1>2, <1>4, <1>5, <1>6 DEF C

\* A frame that is all there is found where it lies.
LEMMA FrameRead ==
  ASSUME NEW f \in Seq(Byte), IsFrame(f), NEW s \in Seq(Byte), NEW d \in Nat, Inside(f, s, d)
  PROVE  Parser(s)[1 + d].saved = <<f>> \o Parser(s)[1 + (d + Len(f))].saved
<1> DEFINE P == Parser(s)
           L == Len(f)
           p == 1 + d
<1>1. /\ L \in Nat /\ L = Len(f) /\ 1 \in 1 .. L /\ f[1] = FRAME_HEAD
      /\ ~ Incomplete(f, 1) /\ Ends(f, 1) /\ Claimed(f, 1) = L
  BY FrameSeen
<1>2. /\ f[1] = s[p] /\ p \in 1 .. Len(s)
      /\ ~ Incomplete(s, p) /\ Claimed(f, 1) = Claimed(s, p) /\ Ends(s, p)
      /\ SubSeq(f, 1, 1 + L - 1) = SubSeq(s, p, p + L - 1)
  BY <1>1, SameFrame
<1>3. SubSeq(f, 1, 1 + L - 1) = f
  <2>1. 1 + L - 1 = L
    BY <1>1
  <2>2. 1 \in 1 .. Len(f) + 1 /\ L \in 1 - 1 .. Len(f) /\ L - 1 + 1 = L
    BY <1>1
  <2>3. /\ SubSeq(f, 1, L) \in Seq(Byte) /\ Len(SubSeq(f, 1, L)) = L
        /\ \A i \in 1 .. L : SubSeq(f, 1, L)[i] = f[1 + i - 1]
    BY <2>2, Stretch
  <2>4. \A i \in 1 .. L : 1 + i - 1 = i
    OBVIOUS
  <2>5. SubSeq(f, 1, L) = f
    BY <1>1, <2>3, <2>4, SeqEqual
  <2> QED
    BY <2>1, <2>5
<1>4. p \in 1 .. Len(s) + 1 /\ p + L = 1 + (d + Len(f))
  BY <1>1, <1>2, LenProperties
<1>5. StepAt(s, P, p)
  BY <1>4, ParserStep
<1> HIDE DEF P, L, p
<1>6. P[p].saved = <<SubSeq(s, p, p + L - 1)>> \o P[p + L].saved
  BY <1>1, <1>2, <1>5 DEF StepAt
<1> QED
  BY <1>2, <1>3, <1>4, <1>6 DEF P, p

\* Of a frame that is cut, nothing is found yet: its length is not taken for another.
LEMMA FrameCut ==
  ASSUME NEW f \in Seq(Byte), IsFrame(f), NEW w \in Seq(Byte), NEW d \in Nat, Inside(f, w, d),
         NEW s \in Seq(Byte), Inside(s, w, 0), Len(s) \in d .. d + Len(f) - 1
  PROVE  Parser(s)[1 + d].saved = <<>>
<1> DEFINE P == Parser(s)
           L == Len(f)
           p == 1 + d
           n == Len(s)
<1>1. /\ L \in Nat /\ L = Len(f) /\ 1 \in 1 .. L /\ f[1] = FRAME_HEAD
      /\ ~ Incomplete(f, 1) /\ Ends(f, 1) /\ Claimed(f, 1) = L
  BY FrameSeen
<1>2. /\ f[1] = w[p] /\ ~ Incomplete(w, p) /\ Claimed(f, 1) = Claimed(w, p) /\ Ends(w, p)
  BY <1>1, SameFrame
<1>3. n \in Nat /\ n = Len(s) /\ n \in d .. d + L - 1
  BY LenProperties
<1>4. p \in 1 .. Len(s) + 1
  BY <1>3
<1>5. StepAt(s, P, p)
  BY <1>4, ParserStep
<1> HIDE DEF P, L, p, n
<1>6. CASE n = d
  <2>1. p = Len(s) + 1
    BY <1>3, <1>6 DEF p
  <2> QED
    BY <1>5, <2>1 DEF StepAt, P, p
<1>7. CASE n # d
  <2> DEFINE zero == 0
  <2>1. p \in 1 .. Len(s) /\ ~ (p > Len(s)) /\ p \in Nat
    BY <1>3, <1>7 DEF p
  <2>2. zero \in Nat /\ p + zero = p /\ Inside(s, w, zero)
    BY <2>1
  <2> HIDE DEF zero
  <2>3. /\ s[p] = w[p + zero]
        /\ ~ Incomplete(s, p) => Claimed(s, p) = Claimed(w, p + zero) /\ (Ends(s, p) <=> Ends(w, p + zero))
    BY <2>1, <2>2, SameFrame
  <2>4. s[p] = FRAME_HEAD
    BY <1>1, <1>2, <2>2, <2>3
  <2>5. Incomplete(s, p)
    <3>1. SUFFICES ASSUME ~ Incomplete(s, p)
                   PROVE  FALSE
      OBVIOUS
    <3>2. Claimed(s, p) = L /\ Ends(s, p)
      BY <1>1, <1>2, <2>2, <2>3, <3>1
    <3>3. ~ (p + Claimed(s, p) - 1 > Len(s))
      BY <3>1, <3>2 DEF Incomplete, Ends
    <3>4. p + L - 1 > Len(s)
      BY <1>3, <1>1 DEF p
    <3> QED
      BY <3>2, <3>3, <3>4
  <2>6. P[p].saved = <<>>
    BY <1>5, <2>1, <2>4, <2>5 DEF StepAt
  <2> QED
    BY <2>6 DEF P, p
<1> QED
  BY <1>6, <1>7

\* Of parts that are all frames, a beginning of their stream gives the first ones, and
\* the whole stream gives all: from each end of a part on, down from the last.
LEMMA FramesFound ==
  ASSUME NEW ps \in Seq(Seq(Byte)), \A i \in DOMAIN ps : IsFrame(ps[i]),
         NEW s \in Seq(Byte), Inside(s, FlattenSeq(ps), 0)
  PROVE  LET found == Parse(s).saved
         IN /\ Len(found) <= Len(ps) /\ \A j \in 1 .. Len(found) : found[j] = ps[j]
            /\ Len(s) = Len(FlattenSeq(ps)) => Len(found) = Len(ps)
<1> DEFINE n == Len(ps)
           w == FlattenSeq(ps)
           E(i) == End(ps, i)
           m == Len(s)
           P == Parser(s)
           V(i) == P[1 + E(i - 1)].saved
           Good(i) == E(i - 1) <= m =>
                        /\ Len(V(i)) \in 0 .. n - i + 1
                        /\ \A j \in 1 .. Len(V(i)) : V(i)[j] = ps[i - 1 + j]
                        /\ m = Len(w) => Len(V(i)) = n - i + 1
           S == {i \in 1 .. n + 1 : Good(i)}
<1>1. /\ n \in Nat /\ w \in Seq(Byte) /\ E(0) = 0 /\ E(n) = Len(w)
      /\ \A i \in 1 .. n : /\ ps[i] \in Seq(Byte) /\ E(i - 1) \in Nat
                           /\ E(i) = E(i - 1) + Len(ps[i])
                           /\ Inside(ps[i], w, E(i - 1))
  BY PartsLie
<1>2. \A i \in 1 .. n : IsFrame(ps[i])
  OBVIOUS
<1>3. m \in Nat /\ m = Len(s) /\ Len(w) \in Nat /\ m <= Len(w) /\ Inside(s, w, 0)
  BY <1>1, LenProperties DEF Inside
<1>4. \A p \in 1 .. m + 1 : StepAt(s, P, p)
  BY ParserStep
<1>5. Parse(s) = P[1]
  BY ParserIs
<1>6. \A p : p \in 1 .. m + 1 => P[p].saved \in FrameSeq
  BY <1>4 DEF StepAt, FrameSeq
<1>7. m + 1 \in 1 .. m + 1 /\ P[m + 1].saved = <<>>
  <2>1. m + 1 \in 1 .. m + 1
    BY <1>3
  <2>2. StepAt(s, P, m + 1)
    BY <1>4, <2>1
  <2> HIDE DEF P
  <2> QED
    BY <2>1, <2>2 DEF StepAt
<1> HIDE DEF n, w, E, m, P, Good
<1>8. n + 1 \in S
  <2>1. n + 1 \in 1 .. n + 1 /\ (n + 1) - 1 = n
    BY <1>1
  <2> SUFFICES ASSUME E(n) <= m
               PROVE  Good(n + 1)
    BY <2>1 DEF Good
  <2>2. E(n) = m /\ 1 + E(n) = m + 1
    BY <1>1, <1>3
  <2>3. V(n + 1) = <<>>
    BY <1>7, <2>1, <2>2
  <2>4. Len(V(n + 1)) = 0
    BY <2>3
  <2> HIDE DEF V
  <2>5. n - (n + 1) + 1 = 0 /\ 0 \in 0 .. 0 /\ \A j \in 1 .. 0 : FALSE
    BY <1>1
  <2> QED
    BY <2>4, <2>5 DEF Good
<1>9. ASSUME NEW i \in 1 .. n, i + 1 \in S
      PROVE  i \in S
  <2> SUFFICES ASSUME E(i - 1) <= m
               PROVE  Good(i)
    <3>1. i \in 1 .. n + 1
      BY <1>1
    <3> QED
      BY <3>1 DEF Good
  <2> DEFINE f == ps[i]
             d == E(i - 1)
  <2>1. /\ f \in Seq(Byte) /\ IsFrame(f) /\ d \in Nat /\ Inside(f, w, d)
        /\ E(i) = d + Len(f) /\ d <= m
    BY <1>1, <1>2
  <2>2. Len(f) \in Nat /\ d + Len(f) <= Len(w) /\ Len(f) >= 1
    <3> HIDE DEF f, d
    <3>1. Len(f) \in Nat /\ Len(f) >= FRAME_LEN_MIN
      BY <2>1, FrameSeen
    <3> QED
      BY <2>1, <3>1 DEF Inside
  <2>3. (i + 1) - 1 = i
    BY <1>1
  <2>4. CASE E(i) <= m
    <3>1. Good(i + 1) /\ E((i + 1) - 1) <= m
      BY <1>9, <2>3, <2>4
    <3>2. /\ Len(V(i + 1)) \in 0 .. n - (i + 1) + 1
          /\ \A j \in 1 .. Len(V(i + 1)) : V(i + 1)[j] = ps[(i + 1) - 1 + j]
          /\ m = Len(w) => Len(V(i + 1)) = n - (i + 1) + 1
      BY <3>1 DEF Good
    <3> DEFINE v == V(i + 1)
               u == V(i)
    <3>3. v = P[1 + (d + Len(f))].saved /\ u = P[1 + d].saved
      BY <2>1, <2>3
    <3>4. v \in FrameSeq
      <4>1. 1 + (d + Len(f)) \in 1 .. m + 1
        <5> HIDE DEF d, f
        <5> QED
          BY <1>3, <2>1, <2>2, <2>4
      <4> QED
        BY <1>6, <3>3, <4>1
    <3>5. Inside(f, s, d)
      <4> HIDE DEF f, d
      <4>1. d + Len(f) <= m
        BY <2>1, <2>4
      <4>2. ASSUME NEW k \in 1 .. Len(f)
            PROVE  f[k] = s[k + d]
        <5>1. k + d \in 1 .. m /\ (k + d) + 0 = k + d
          BY <1>3, <2>1, <2>2, <4>1
        <5>2. f[k] = w[k + d]
          BY <2>1 DEF Inside
        <5>3. s[k + d] = w[(k + d) + 0]
          BY <1>3, <5>1 DEF Inside
        <5> QED
          BY <5>1, <5>2, <5>3
      <4> QED
        BY <1>3, <4>1, <4>2 DEF Inside
    <3>6. u = <<f>> \o v
      <4> HIDE DEF f, d, u, v
      <4>1. Parser(s)[1 + d].saved = <<f>> \o Parser(s)[1 + (d + Len(f))].saved
        BY <2>1, <3>5, FrameRead
      <4> QED
        BY <3>3, <4>1 DEF P
    <3>7. /\ Len(v) \in 0 .. n - i /\ (m = Len(w) => Len(v) = n - i)
          /\ \A j \in 1 .. Len(v) : v[j] = ps[i + j]
      <4>1. n - (i + 1) + 1 = n - i
        BY <1>1
      <4> QED
        BY <2>3, <3>2, <4>1
    <3> HIDE DEF u, v, f, d, V
    <3>8. Len(u) = Len(v) + 1 /\ u[1] = f /\ \A j \in 2 .. Len(v) + 1 : u[j] = v[j - 1]
      BY <2>1, <3>4, <3>6 DEF FrameSeq
    <3>9. Len(u) \in 0 .. n - i + 1 /\ (m = Len(w) => Len(u) = n - i + 1)
      <4>1. n \in Nat /\ i \in 1 .. n
        BY <1>1
      <4>2. Len(v) \in 0 .. n - i /\ (m = Len(w) => Len(v) = n - i)
        BY <3>7
      <4>3. Len(u) = Len(v) + 1
        BY <3>8
      <4>4. Len(v) + 1 \in 0 .. n - i + 1
        BY ONLY <4>1, <4>2
      <4>5. Len(v) = n - i => Len(v) + 1 = n - i + 1
        OBVIOUS
      <4> QED
        BY <4>2, <4>3, <4>4, <4>5, Zenon
    <3>10. ASSUME NEW j \in 1 .. Len(u)
           PROVE  u[j] = ps[i - 1 + j]
      <4>1. CASE j = 1
        <5>1. i - 1 + j = i
          BY <1>1, <4>1
        <5> QED
          BY <3>8, <4>1, <5>1 DEF f
      <4>2. CASE j # 1
        <5>1. j \in 2 .. Len(v) + 1 /\ j - 1 \in 1 .. Len(v) /\ i + (j - 1) = i - 1 + j
          <6>1. i \in Nat /\ Len(v) \in Nat
            BY <1>1, <3>7
          <6>2. Len(u) = Len(v) + 1
            BY <3>8
          <6>3. j \in 1 .. Len(v) + 1
            BY <6>2
          <6> QED
            BY ONLY <4>2, <6>1, <6>3
        <5> QED
          BY <3>7, <3>8, <5>1
      <4> QED
        BY <4>1, <4>2
    <3> QED
      BY <3>9, <3>10 DEF Good, u
  <2>5. CASE ~ (E(i) <= m)
    <3>1. V(i) = <<>>
      <4> HIDE DEF f, d
      <4>1. Len(s) \in d .. d + Len(f) - 1
        BY <1>3, <2>1, <2>2, <2>5
      <4>2. Parser(s)[1 + d].saved = <<>>
        BY <1>1, <1>3, <2>1, <4>1, FrameCut
      <4> QED
        BY <4>2 DEF P, d
    <3>2. m # Len(w)
      <4> HIDE DEF f, d
      <4> QED
        BY <1>3, <2>1, <2>2, <2>5
    <3>3. Len(V(i)) = 0
      BY <3>1
    <3> HIDE DEF V
    <3>4. 0 \in 0 .. n - i + 1 /\ \A j \in 1 .. 0 : FALSE
      BY <1>1
    <3> QED
      BY <3>2, <3>3, <3>4 DEF Good
  <2> QED
    BY <2>4, <2>5
<1>10. \A i \in 1 .. n + 1 : i \in S
  <2> DEFINE hi == n + 1
  <2>1. hi \in Int /\ hi \in S /\ \A k \in 1 .. hi - 1 : k + 1 \in S => k \in S
    BY <1>1, <1>8, <1>9
  <2> HIDE DEF S, hi
  <2>2. \A k \in 1 .. hi : k \in S
    BY ONLY <2>1, 1 \in Int, Descend, Zenon
  <2> QED
    BY <2>2 DEF hi
<1>11. Good(1)
  <2>1. 1 \in 1 .. n + 1
    BY <1>1
  <2> QED
    BY <1>10, <2>1
<1>12. /\ Len(V(1)) \in 0 .. n /\ \A j \in 1 .. Len(V(1)) : V(1)[j] = ps[j]
       /\ m = Len(w) => Len(V(1)) = n
  <2>1. 1 - 1 = 0 /\ n - 1 + 1 = n /\ E(0) <= m /\ \A j \in Nat : 1 - 1 + j = j
    BY <1>1, <1>3
  <2> HIDE DEF V
  <2>2. /\ Len(V(1)) \in 0 .. n - 1 + 1
        /\ \A j \in 1 .. Len(V(1)) : V(1)[j] = ps[1 - 1 + j]
        /\ m = Len(w) => Len(V(1)) = n - 1 + 1
    BY <1>11, <2>1 DEF Good
  <2>3. \A j \in 1 .. Len(V(1)) : 1 - 1 + j = j
    OBVIOUS
  <2> QED
    BY <2>1, <2>2, <2>3
<1>13. V(1) = Parse(s).saved
  <2>1. 1 + E(1 - 1) = 1
    BY <1>1
  <2> QED
    BY <1>5, <2>1
<1> HIDE DEF V
<1>14. Len(V(1)) <= n
  BY <1>1, <1>12
<1> QED
  BY <1>12, <1>13, <1>14 DEF n, w, m

-----------------------------------------------------------------------------
(* The system                                                               *)

\* What was saved and kept is what Parse finds in the bytes read, of a stream that the
\* peer may send.
Inv ==
  /\ parts \in Sendable
  /\ pos \in 0 .. Len(stream)
  /\ CutsDontMatter

\* The stream is a sequence of bytes, and so is what was read of it.
LEMMA StreamIs ==
  ASSUME parts \in Sendable
  PROVE  /\ parts \in Seq(Seq(Byte)) /\ stream \in Seq(Byte) /\ Len(stream) \in Nat
         /\ \A n \in 0 .. Len(stream) : /\ SubSeq(stream, 1, n) \in Seq(Byte)
                                        /\ Len(SubSeq(stream, 1, n)) = n
                                        /\ Inside(SubSeq(stream, 1, n), stream, 0)
<1>1. parts \in Seq(Seq(Byte))
  BY DEF Byte
<1>2. stream \in Seq(Byte)
  BY <1>1, PartsLie DEF stream
<1>3. Len(stream) \in Nat
  BY <1>2, LenProperties
<1>4. ASSUME NEW n \in 0 .. Len(stream)
      PROVE  /\ SubSeq(stream, 1, n) \in Seq(Byte) /\ Len(SubSeq(stream, 1, n)) = n
             /\ Inside(SubSeq(stream, 1, n), stream, 0)
  <2> DEFINE s == SubSeq(stream, 1, n)
  <2>1. 1 \in 1 .. Len(stream) + 1 /\ n \in 1 - 1 .. Len(stream) /\ n - 1 + 1 = n
    BY <1>3
  <2>2. s \in Seq(Byte) /\ Len(s) = n /\ \A i \in 1 .. n : s[i] = stream[1 + i - 1]
    BY <1>2, <2>1, Stretch
  <2> HIDE DEF s
  <2>3. \A i \in 1 .. n : 1 + i - 1 = i + 0
    OBVIOUS
  <2>4. Inside(s, stream, 0)
    BY <1>3, <2>2, <2>3 DEF Inside
  <2> QED
    BY <2>2, <2>4 DEF s
<1> QED
  BY <1>1, <1>2, <1>3, <1>4

LEMMA InitInv == Init => Inv
<1> SUFFICES ASSUME Init
             PROVE  Inv
  OBVIOUS
<1>1. parts \in Sendable /\ pos = 0 /\ m_pExitBuffer = <<>> /\ frames = <<>>
  BY DEF Init
<1> DEFINE s == SubSeq(stream, 1, pos)
<1>2. Len(stream) \in Nat /\ 0 \in 0 .. Len(stream)
  BY <1>1, StreamIs
<1>3. s \in Seq(Byte) /\ Len(s) = 0
  BY <1>1, <1>2, StreamIs
<1> HIDE DEF s
<1>4. 1 \in 1 .. Len(s) + 1 /\ 1 = Len(s) + 1
  BY <1>3
<1>5. StepAt(s, Parser(s), 1) /\ Parse(s) = Parser(s)[1]
  BY <1>3, <1>4, ParserStep, ParserIs
<1>6. Parse(s).saved = <<>> /\ Parse(s).rest = <<>>
  BY <1>4, <1>5 DEF StepAt
<1> QED
  BY <1>1, <1>2, <1>6 DEF Inv, CutsDontMatter, s

\* One read: what it finds after what is kept is what the longer beginning has more.
LEMMA NextInv == Inv /\ [Next]_vars => Inv'
<1> SUFFICES ASSUME Inv, [Next]_vars
             PROVE  Inv'
  OBVIOUS
<1>1. parts \in Sendable /\ pos \in 0 .. Len(stream)
  BY DEF Inv
<1> DEFINE st == stream
<1>2. /\ st \in Seq(Byte) /\ Len(st) \in Nat /\ pos \in 0 .. Len(st)
      /\ \A n \in 0 .. Len(st) : SubSeq(st, 1, n) \in Seq(Byte) /\ Len(SubSeq(st, 1, n)) = n
  BY <1>1, StreamIs
<1>3. CASE UNCHANGED vars
  BY <1>3 DEF Inv, CutsDontMatter, stream, vars
<1>4. ASSUME NEW n \in 1 .. Len(stream) - pos, RestructFrame(n)
      PROVE  Inv'
  <2> DEFINE s == SubSeq(st, 1, pos)
             t == SubSeq(st, pos + 1, pos + n)
             q == pos + n
             out == Loop(m_pExitBuffer, t)
  <2>1. pos' = q /\ m_pExitBuffer' = out.rest /\ frames' = frames \o out.saved /\ parts' = parts
    BY <1>4 DEF RestructFrame
  <2>2. stream' = stream
    BY <2>1 DEF stream
  <2>3. frames = Parse(s).saved /\ m_pExitBuffer = Parse(s).rest
    BY DEF Inv, CutsDontMatter
  <2>4. q \in 0 .. Len(st) /\ pos + 1 \in 1 .. Len(st) + 1 /\ q \in pos .. Len(st) /\ (pos + 1) - 1 = pos
    BY <1>1, <1>2
  <2>5. s \in Seq(Byte) /\ SubSeq(st, 1, q) \in Seq(Byte) /\ Len(s) = pos /\ Len(SubSeq(st, 1, q)) = q
    BY <1>2, <2>4
  <2>6. t \in Seq(Byte) /\ s \o t = SubSeq(st, 1, q)
    <3> HIDE DEF st, q
    <3> DEFINE a == pos + 1
               u == SubSeq(st, a, q)
               w == SubSeq(st, 1, q)
    <3>1. pos \in Nat /\ q \in Nat /\ a \in 1 .. Len(st) + 1 /\ q \in a - 1 .. Len(st) /\ q - a + 1 = q - pos /\ a = pos + 1
      BY <1>2, <2>4
    <3> HIDE DEF a
    <3>2. u \in Seq(Byte) /\ Len(u) = q - pos /\ \A i \in 1 .. q - pos : u[i] = st[a + i - 1]
      BY <1>2, <3>1, Stretch
    <3>3. /\ s \in Seq(Byte) /\ Len(s) = pos /\ \A i \in 1 .. pos : s[i] = st[i]
          /\ w \in Seq(Byte) /\ Len(w) = q /\ \A i \in 1 .. q : w[i] = st[i]
      <4>1. 1 \in 1 .. Len(st) + 1 /\ pos \in 1 - 1 .. Len(st) /\ q \in 1 - 1 .. Len(st)
        BY <1>2, <2>4
      <4>2. /\ \A i \in 1 .. pos - 1 + 1 : s[i] = st[1 + i - 1]
            /\ \A i \in 1 .. q - 1 + 1 : w[i] = st[1 + i - 1]
        BY <1>2, <4>1, Stretch
      <4> HIDE DEF s, w
      <4>3. pos - 1 + 1 = pos /\ q - 1 + 1 = q /\ \A i \in Nat : 1 + i - 1 = i
        BY <3>1
      <4>4. (\A i \in 1 .. pos : s[i] = st[i]) /\ (\A i \in 1 .. q : w[i] = st[i])
        <5>1. \A i \in 1 .. pos : 1 + i - 1 = i
          OBVIOUS
        <5>2. \A i \in 1 .. q : 1 + i - 1 = i
          OBVIOUS
        <5> QED
          BY <4>2, <4>3, <5>1, <5>2
      <4> QED
        BY <2>5, <4>4 DEF s, w
    <3> HIDE DEF s, u, w
    <3>4. s \o u \in Seq(Byte) /\ Len(s \o u) = q
      <4>1. s \o u \in Seq(Byte) /\ Len(s \o u) = Len(s) + Len(u)
        BY ZenonT(40), <3>2, <3>3, ConcatProperties
      <4>2. pos + (q - pos) = q
        BY <3>1
      <4> QED
        BY <3>2, <3>3, <4>1, <4>2
    <3>5. ASSUME NEW i \in 1 .. q
          PROVE  (s \o u)[i] = w[i]
      <4>1. (s \o u)[i] = IF i <= pos THEN s[i] ELSE u[i - pos]
        BY SMTT(30), <3>1, <3>2, <3>3, ConcatProperties
      <4>2. CASE i <= pos
        <5>1. i \in 1 .. pos
          BY <3>1, <4>2
        <5> QED
          BY <3>3, <4>1, <4>2, <5>1
      <4>3. CASE ~ (i <= pos)
        <5>1. i - pos \in 1 .. q - pos /\ a + (i - pos) - 1 = i
          BY <3>1, <4>3
        <5> QED
          BY <3>2, <3>3, <4>1, <4>3, <5>1
      <4> QED
        BY <4>2, <4>3
    <3>6. s \o u = w
      BY <3>3, <3>4, <3>5, SeqEqual
    <3> QED
      BY <3>2, <3>6 DEF u, w, a, q
  <2>7. Parse(s \o t).saved = Parse(s).saved \o Loop(Parse(s).rest, t).saved /\ Parse(s \o t).rest = Loop(Parse(s).rest, t).rest
    <3> HIDE DEF s, t
    <3> QED
      BY <2>5, <2>6, ReadOn
  <2>8. frames' = Parse(SubSeq(st, 1, q)).saved /\ m_pExitBuffer' = Parse(SubSeq(st, 1, q)).rest
    <3> HIDE DEF s, t, q
    <3> QED
      BY <2>1, <2>3, <2>6, <2>7
  <2> HIDE DEF q
  <2>9. CutsDontMatter'
    BY <2>1, <2>2, <2>8 DEF CutsDontMatter
  <2> QED
    BY <1>1, <2>1, <2>2, <2>4, <2>9 DEF Inv
<1> QED
  BY <1>3, <1>4 DEF Next

LEMMA InvHolds == Spec => []Inv
BY InitInv, NextInv, PTL DEF Spec

LEMMA InvTypeOK == Inv => TypeOK
<1> SUFFICES ASSUME Inv
             PROVE  TypeOK
  OBVIOUS
<1> DEFINE s == SubSeq(stream, 1, pos)
<1>1. s \in Seq(Byte)
  BY StreamIs DEF Inv
<1>2. frames = Parse(s).saved /\ m_pExitBuffer = Parse(s).rest /\ pos \in 0 .. Len(stream)
  BY DEF Inv, CutsDontMatter
<1> HIDE DEF s
<1>3. 1 \in 1 .. Len(s) + 1
  BY <1>1, LenProperties
<1>4. StepAt(s, Parser(s), 1) /\ Parse(s) = Parser(s)[1] /\ Short(s, Parser(s)[1].rest)
  BY <1>1, <1>3, ParserStep, ParserIs, RestIsShort
<1>5. frames \in Seq(Seq(Byte)) /\ m_pExitBuffer \in Seq(Byte)
  BY <1>2, <1>4 DEF StepAt
<1>6. Len(m_pExitBuffer) < FRAME_LEN_MAX
  BY <1>2, <1>4 DEF Short
<1> QED
  BY <1>2, <1>5, <1>6 DEF TypeOK, Byte

LEMMA InvFramesArrive == Inv => FramesArrive
<1> SUFFICES ASSUME Inv, \A i \in DOMAIN parts : IsFrame(parts[i])
             PROVE  IsPrefix(frames, parts) /\ (pos = Len(stream) => frames = parts)
  BY DEF FramesArrive
<1> DEFINE s == SubSeq(stream, 1, pos)
           ps == parts
           fr == frames
<1>1. ps \in Seq(Seq(Byte)) /\ s \in Seq(Byte) /\ Len(s) = pos /\ Inside(s, FlattenSeq(ps), 0)
  BY StreamIs DEF Inv, stream
<1>2. fr = Parse(s).saved
  BY DEF Inv, CutsDontMatter
<1>3. fr \in Seq(Seq(Byte))
  BY InvTypeOK DEF TypeOK, Byte
<1>4. \A i \in DOMAIN ps : IsFrame(ps[i])
  OBVIOUS
<1>5. stream = FlattenSeq(ps)
  BY DEF stream
<1> HIDE DEF s, ps
<1>6. /\ Len(Parse(s).saved) <= Len(ps) /\ \A j \in 1 .. Len(Parse(s).saved) : Parse(s).saved[j] = ps[j]
      /\ Len(s) = Len(FlattenSeq(ps)) => Len(Parse(s).saved) = Len(ps)
  BY <1>1, <1>4, FramesFound
<1> HIDE DEF fr
<1>7. /\ Len(fr) <= Len(ps) /\ \A j \in 1 .. Len(fr) : fr[j] = ps[j]
      /\ pos = Len(stream) => Len(fr) = Len(ps)
  BY <1>1, <1>2, <1>5, <1>6
<1>8. fr \in FrameSeq /\ ps \in FrameSeq
  BY <1>1, <1>3 DEF FrameSeq
<1>9. pos = Len(stream) => fr = ps
  <2>1. Len(fr) = Len(ps) => fr = ps
    BY <1>1, <1>3, <1>7, SeqEqual
  <2> QED
    BY <1>7, <2>1
<1>10. IsPrefix(fr, ps)
  <2>1. Len(fr) \in Nat /\ Len(ps) \in Nat
    BY <1>1, <1>3, LenProperties
  <2> DEFINE k == Len(fr)
             b == SubSeq(ps, 1, k)
  <2>2. k \in Nat /\ k = Len(fr) /\ k <= Len(ps) /\ 1 \in 1 .. Len(ps) + 1 /\ k \in 1 - 1 .. Len(ps) /\ k - 1 + 1 = k
    BY <1>7, <2>1
  <2> HIDE DEF k
  <2>3. b \in Seq(Seq(Byte)) /\ Len(b) = k /\ \A j \in 1 .. k : b[j] = ps[1 + j - 1]
    BY <1>1, <2>2, SubSeqProperties
  <2>4. \A j \in 1 .. k : 1 + j - 1 = j
    OBVIOUS
  <2>5. b = fr
    BY <1>3, <1>7, <2>2, <2>3, <2>4, SeqEqual
  <2>6. SubSeq(fr, 1, k) = fr
    BY <1>3, <2>2
  <2> QED
    BY <2>2, <2>5, <2>6 DEF IsPrefix
<1> QED
  BY <1>9, <1>10 DEF fr, ps

\* The indices and buffers keep their types, and the rest of a read is always shorter
\* than a frame may be, so it fits in m_pExitBuffer without a check.
THEOREM TypeOKHolds == Spec => []TypeOK
BY InvHolds, InvTypeOK, PTL

\* RestructFrame over two buffers finds the frames, and keeps the rest, that one pass over
\* the bytes read so far in one piece gives: wherever read() cut them, and for whatever
\* bytes the peer sent.
THEOREM CutsDontMatterHolds == Spec => []CutsDontMatter
<1>1. Inv => CutsDontMatter
  BY DEF Inv
<1> QED
  BY <1>1, InvHolds, PTL

\* A peer that sends frames only gets each processed once, in order and unchanged, and all
\* of them when all is read: a head or an end in their data is never taken for one.
THEOREM FramesArriveHolds == Spec => []FramesArrive
BY InvHolds, InvFramesArrive, PTL
=============================================================================
