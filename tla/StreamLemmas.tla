---------------------------- MODULE StreamLemmas ------------------------------
(*****************************************************************************)
(* What the operators of Stream compute, for any numbers, windows and        *)
(* lengths: the numbers that wrap and their comparison; sequences cut,       *)
(* joined and folded over; and what input, update, recv and send of KCP and  *)
(* the receive buffer of a session make of a control block or a buffer that  *)
(* holds part of a stream.  StreamProofs puts them together.  Nothing here   *)
(* is about the workers or the network.                                      *)
(*****************************************************************************)
EXTENDS Stream, FiniteSetTheorems, SequenceTheorems, WellFoundedInduction, TLAPS

(* -------------------------- numbers that wrap ---------------------------- *)

\* Half of the numbers.
Half == Word \div 2

\* Half of the numbers is more than both windows.
LEMMA Words ==
    /\ Word \in Nat \ {0} /\ Half \in Nat \ {0} /\ Word = 2 * Half
    /\ SndWnd \in Nat /\ RcvWnd \in Nat /\ WndRcv \in Nat /\ Mss \in Nat /\ Overhead \in Nat
    /\ 0 < SndWnd /\ 0 < RcvWnd /\ 0 < Mss /\ SndWnd + RcvWnd < Half
BY KcpAssumption DEF Half

\* Quotient and remainder.
LEMMA Division ==
    ASSUME NEW x \in Int, NEW d \in Nat \ {0}
    PROVE  /\ x \div d \in Int /\ x % d \in Int
           /\ x = d * (x \div d) + (x % d)
           /\ 0 <= x % d /\ x % d < d
  OBVIOUS

\* Multiples keep their order.
LEMMA TimesKeepsOrder ==
    ASSUME NEW d \in Nat, NEW i \in Int, NEW j \in Int, i <= j
    PROVE  d * i <= d * j
  OBVIOUS

\* The remainder of a number that is less than Word away from the numbers.
LEMMA Wrapped ==
    ASSUME NEW x \in Int, -Word <= x, x < 2 * Word
    PROVE  /\ x % Word \in SegmentNumbers
           /\ x % Word = IF x < 0 THEN x + Word ELSE IF x < Word THEN x ELSE x - Word
<1>1. Word \in Nat \ {0} BY Words
<1>2. PICK q \in Int, s \in Int : x = Word * q + s /\ 0 <= s /\ s < Word /\ s = x % Word
  BY <1>1, Division
<1>3. q < 2
  <2>1. SUFFICES ASSUME q >= 2 PROVE FALSE BY <1>2
  <2>2. Word * 2 <= Word * q BY <1>1, <2>1, TimesKeepsOrder
  <2> QED BY <1>1, <1>2, <2>2
<1>4. q > -2
  <2>1. SUFFICES ASSUME q <= -2 PROVE FALSE BY <1>2
  <2>2. Word * q <= Word * (-2) BY <1>1, <2>1, TimesKeepsOrder
  <2> QED BY <1>1, <1>2, <2>2
<1>5. Word * 1 = Word /\ Word * 0 = 0 /\ Word * (-1) = -Word BY <1>1
<1>6. q \in {-1, 0, 1} BY <1>2, <1>3, <1>4
<1> QED BY <1>1, <1>2, <1>5, <1>6 DEF SegmentNumbers

\* The number of the segment with index j, when sn is that of the first.
Nr(sn, j) == (sn + j - 1) % Word

\* The number of the j-th segment, before and after the numbers wrap.
LEMMA NrIs ==
    ASSUME NEW sn \in SegmentNumbers, NEW j \in Nat, 1 <= j, j <= Word
    PROVE  /\ Nr(sn, j) \in SegmentNumbers /\ Nr(sn, j) \in Nat /\ Nr(sn, j) < Word
           /\ sn \in Nat /\ sn < Word
           /\ Nr(sn, j) = sn + j - 1 \/ Nr(sn, j) = sn + j - 1 - Word
<1>1. sn \in Nat /\ sn < Word /\ Word \in Nat BY Words DEF SegmentNumbers
<1>2. PICK x : x = sn + j - 1 OBVIOUS
<1>3. x \in Int /\ -Word <= x /\ x < 2 * Word BY <1>1, <1>2
<1>4. x % Word \in SegmentNumbers /\ (x % Word = x + Word \/ x % Word = x \/ x % Word = x - Word)
  BY <1>3, Wrapped
<1>5. Nr(sn, j) = x % Word BY <1>2 DEF Nr
<1>6. Nr(sn, j) \in Nat /\ Nr(sn, j) < Word /\ Nr(sn, j) \in SegmentNumbers
  BY <1>1, <1>4, <1>5 DEF SegmentNumbers
<1> QED BY <1>1, <1>2, <1>3, <1>4, <1>5, <1>6

\* Going on from a number, as snd_nxt++ and rcv_nxt++ do.
LEMMA NrPlus ==
    ASSUME NEW sn \in SegmentNumbers, NEW j \in Nat, NEW i \in Nat, 1 <= j, j + i <= Word
    PROVE  (Nr(sn, j) + i) % Word = Nr(sn, j + i)
<1>1. PICK m : m = Nr(sn, j) OBVIOUS
<1>2. m \in Nat /\ m < Word /\ sn \in Nat /\ sn < Word /\ (m = sn + j - 1 \/ m = sn + j - 1 - Word)
  BY <1>1, NrIs, Words
<1>3. PICK k : k = Nr(sn, j + i) OBVIOUS
<1>4. k \in Nat /\ k < Word /\ (k = sn + (j + i) - 1 \/ k = sn + (j + i) - 1 - Word)
  <2>1. PICK l \in Nat : l = j + i /\ 1 <= l /\ l <= Word OBVIOUS
  <2>2. k = Nr(sn, l) BY <1>3, <2>1
  <2> QED BY <2>1, <2>2, NrIs
<1>5. PICK x : x = m + i OBVIOUS
<1>6. x \in Int /\ -Word <= x /\ x < 2 * Word BY <1>2, <1>5, Words
<1>7. PICK y : y = x % Word OBVIOUS
<1>8. y \in SegmentNumbers /\ (y = x + Word \/ y = x \/ y = x - Word)
  BY <1>6, <1>7, Wrapped
<1>9. y = k BY <1>2, <1>4, <1>5, <1>8, Words DEF SegmentNumbers
<1> QED BY <1>1, <1>3, <1>5, <1>7, <1>9

\* Numbers that are less than half of them apart compare as their indices do.
LEMMA TimeDiffIs ==
    ASSUME NEW sn \in SegmentNumbers, NEW i \in Nat, NEW j \in Nat,
           1 <= i, i <= Word, 1 <= j, j <= Word, i - j < Half, j - i <= Half
    PROVE  TimeDiff(Nr(sn, i), Nr(sn, j)) = i - j
<1>1. PICK k, m : k = Nr(sn, i) /\ m = Nr(sn, j) OBVIOUS
<1>2. /\ k \in Nat /\ k < Word /\ m \in Nat /\ m < Word
      /\ sn \in Nat /\ sn < Word
      /\ k = sn + i - 1 \/ k = sn + i - 1 - Word
      /\ m = sn + j - 1 \/ m = sn + j - 1 - Word
  BY <1>1, NrIs
<1>3. PICK x : x = k - m OBVIOUS
<1>4. x \in Int /\ -Word < x /\ x < Word /\ (x = i - j \/ x = i - j - Word \/ x = i - j + Word)
  BY <1>2, <1>3, Words
<1>5. PICK y : y = x % Word OBVIOUS
<1>6. -Word <= x /\ x < 2 * Word BY <1>4, Words
<1>7. y = IF x < 0 THEN x + Word ELSE IF x < Word THEN x ELSE x - Word BY <1>4, <1>5, <1>6, Wrapped
<1>8. TimeDiff(k, m) = IF y < Half THEN y ELSE y - Word
  BY <1>3, <1>5 DEF TimeDiff, Half
<1> QED BY <1>1, <1>4, <1>7, <1>8, Words

\* Fewer segments than there are numbers have different numbers.
LEMMA NrInjective ==
    ASSUME NEW sn \in SegmentNumbers, NEW i \in Nat, NEW j \in Nat,
           1 <= i, i <= Word, 1 <= j, j <= Word, Nr(sn, i) = Nr(sn, j)
    PROVE  i = j
<1>1. PICK k, m : k = Nr(sn, i) /\ m = Nr(sn, j) OBVIOUS
<1>2. /\ k \in Nat /\ k < Word /\ m \in Nat /\ m < Word
      /\ sn \in Nat /\ sn < Word
      /\ k = sn + i - 1 \/ k = sn + i - 1 - Word
      /\ m = sn + j - 1 \/ m = sn + j - 1 - Word
  BY <1>1, NrIs
<1> QED BY <1>1, <1>2, Words

(* ---------------------------- induction ---------------------------------- *)

\* A set of natural numbers that has an element has a first one.
LEMMA FirstExists ==
    ASSUME NEW S \in SUBSET Nat, S # {}
    PROVE  \E x \in S : \A i \in S : x <= i
<1> DEFINE Less == {ss \in Nat \X Nat : ss[1] < ss[2]}
<1>1. IsWellFoundedOn(Less, Nat) BY NatLessThanWellFounded, Zenon DEF OpToRel
<1>2. PICK x \in S : \A y \in S : ~(<<y, x>> \in Less)
  <2> HIDE DEF Less
  <2> QED BY ONLY <1>1, S \in SUBSET Nat, S # {}, WFMin
<1>3. \A y \in S : x <= y
  <2> TAKE y \in S
  <2>1. x \in Nat /\ y \in Nat OBVIOUS
  <2>2. <<y, x>> \notin Less BY <1>2
  <2>3. <<y, x>>[1] = y /\ <<y, x>>[2] = x OBVIOUS
  <2>4. ~(y < x) BY <2>1, <2>2, <2>3
  <2> QED BY <2>1, <2>4
<1> QED BY <1>3

\* Induction, for a set that contains 0 and the successors of its elements.
LEMMA Induction ==
    ASSUME NEW S, 0 \in S, \A m \in Nat : m \in S => m + 1 \in S
    PROVE  \A m \in Nat : m \in S
<1> SUFFICES ASSUME Nat \ S # {} PROVE FALSE OBVIOUS
<1>1. PICK x \in Nat \ S : \A i \in Nat \ S : x <= i BY FirstExists
<1>2. x # 0 /\ x - 1 \in Nat OBVIOUS
<1>3. x - 1 \in S BY <1>1, <1>2
<1> QED BY <1>2, <1>3

(* ------------------------ sequences of pieces ---------------------------- *)

\* Two sequences one after the other.
LEMMA ConcatAny ==
    ASSUME NEW S, NEW s \in Seq(S), NEW t \in Seq(S)
    PROVE  s \o t \in Seq(S) /\ Len(s \o t) = Len(s) + Len(t)
BY ConcatProperties

\* The function that FlattenSeq computes with.
LEMMA FlattenExists ==
    ASSUME NEW ss
    PROVE  \A m \in Nat : \E f : f = [i \in 1..m |-> IF i = 1 THEN ss[i] ELSE f[i - 1] \o ss[i]]
<1> DEFINE P(m) == \E f : f = [i \in 1..m |-> IF i = 1 THEN ss[i] ELSE f[i - 1] \o ss[i]]
           S == {m \in Nat : P(m)}
<1>1. P(0)
  <2> DEFINE f == [i \in 1..0 |-> ss[i]]
  <2>1. f = [i \in 1..0 |-> IF i = 1 THEN ss[i] ELSE f[i - 1] \o ss[i]] OBVIOUS
  <2> QED BY <2>1
<1>2. ASSUME NEW m \in Nat, P(m) PROVE P(m + 1)
  <2>1. PICK f : f = [i \in 1..m |-> IF i = 1 THEN ss[i] ELSE f[i - 1] \o ss[i]] BY <1>2
  <2> DEFINE g == [i \in 1..(m + 1) |->
                      IF i = m + 1 THEN IF i = 1 THEN ss[i] ELSE f[i - 1] \o ss[i] ELSE f[i]]
  <2>2. \A i \in 1..m : g[i] = f[i] OBVIOUS
  <2>3. ASSUME NEW i \in 1..(m + 1)
        PROVE  g[i] = IF i = 1 THEN ss[i] ELSE g[i - 1] \o ss[i]
    <3>1. CASE i = m + 1 BY <2>2, <3>1
    <3>2. CASE i # m + 1
      <4>1. i \in 1..m /\ (i # 1 => i - 1 \in 1..m) BY <3>2
      <4>2. f[i] = IF i = 1 THEN ss[i] ELSE f[i - 1] \o ss[i] BY <2>1, <4>1
      <4> QED BY <2>2, <4>1, <4>2
    <3> QED BY <3>1, <3>2
  <2>4. g = [i \in 1..(m + 1) |-> IF i = 1 THEN ss[i] ELSE g[i - 1] \o ss[i]]
    <3>1. g = [i \in 1..(m + 1) |-> g[i]] OBVIOUS
    <3> HIDE DEF g
    <3> QED BY <2>3, <3>1
  <2> HIDE DEF g
  <2> QED BY <2>4
<1> HIDE DEF P
<1>3. 0 \in S /\ \A m \in Nat : m \in S => m + 1 \in S BY <1>1, <1>2
<1> HIDE DEF S
<1>4. \A m \in Nat : m \in S BY <1>3, Induction
<1>5. \A m \in Nat : P(m) BY <1>4 DEF S
<1> QED BY <1>5 DEF P

\* What FlattenSeq makes of a sequence, from its end.
LEMMA FlattenEmpty == FlattenSeq(<<>>) = <<>>
BY DEF FlattenSeq

\* The pieces joined one after the other.
LEMMA FlattenIs ==
    ASSUME NEW ss, Len(ss) \in Nat, Len(ss) # 0
    PROVE  \E f : /\ FlattenSeq(ss) = f[Len(ss)]
                  /\ f[1] = ss[1]
                  /\ \A i \in 1..Len(ss) : i # 1 => f[i] = f[i - 1] \o ss[i]
<1> DEFINE f == CHOOSE g : g = [i \in 1..Len(ss) |-> IF i = 1 THEN ss[i] ELSE g[i - 1] \o ss[i]]
<1>1. f = [i \in 1..Len(ss) |-> IF i = 1 THEN ss[i] ELSE f[i - 1] \o ss[i]]
  BY FlattenExists
<1>2. FlattenSeq(ss) = f[Len(ss)] BY DEF FlattenSeq
<1> HIDE DEF f
<1>3. \A i \in 1..Len(ss) : f[i] = IF i = 1 THEN ss[i] ELSE f[i - 1] \o ss[i]
  <2> DEFINE F(i) == IF i = 1 THEN ss[i] ELSE f[i - 1] \o ss[i]
  <2>1. f = [i \in 1..Len(ss) |-> F(i)] BY <1>1
  <2> HIDE DEF F
  <2>2. \A i \in 1..Len(ss) : f[i] = F(i) BY <2>1
  <2> QED BY <2>2 DEF F
<1>4. 1 \in 1..Len(ss) OBVIOUS
<1> QED BY <1>2, <1>3, <1>4

\* One more piece.
LEMMA FlattenAppend ==
    ASSUME NEW U, NEW ss \in Seq(Seq(U)), NEW s \in Seq(U)
    PROVE  FlattenSeq(Append(ss, s)) = FlattenSeq(ss) \o s
<1> DEFINE n == Len(ss)
           tt == Append(ss, s)
<1>1. n \in Nat /\ Len(tt) = n + 1 /\ tt[n + 1] = s /\ \A i \in 1..n : tt[i] = ss[i] OBVIOUS
<1>2. CASE n = 0
  <2>1. ss = <<>> BY <1>2
  <2>2. FlattenSeq(tt) = tt[1]
    <3> HIDE DEF tt
    <3>1. Len(tt) = 1 /\ Len(tt) \in Nat /\ Len(tt) # 0 BY <1>1, <1>2
    <3>2. PICK f : FlattenSeq(tt) = f[Len(tt)] /\ f[1] = tt[1] BY <3>1, FlattenIs
    <3> QED BY <3>1, <3>2
  <2>3. <<>> \o s = s BY ConcatEmptySeq
  <2>4. tt[1] = s BY <1>1, <1>2
  <2> QED BY <2>1, <2>2, <2>3, <2>4, FlattenEmpty
<1>3. CASE n # 0
  <2>1. PICK f : /\ FlattenSeq(ss) = f[n]
                 /\ f[1] = ss[1]
                 /\ \A i \in 1..n : i # 1 => f[i] = f[i - 1] \o ss[i]
    BY <1>1, <1>3, FlattenIs
  <2> HIDE DEF n, tt
  <2>2. PICK g : /\ FlattenSeq(tt) = g[n + 1]
                 /\ g[1] = tt[1]
                 /\ \A i \in 1..(n + 1) : i # 1 => g[i] = g[i - 1] \o tt[i]
    <3>1. Len(tt) \in Nat /\ Len(tt) # 0 /\ Len(tt) = n + 1 BY <1>1
    <3>2. \E g : /\ FlattenSeq(tt) = g[Len(tt)]
                 /\ g[1] = tt[1]
                 /\ \A i \in 1..Len(tt) : i # 1 => g[i] = g[i - 1] \o tt[i]
      BY ONLY <3>1, FlattenIs
    <3> QED BY ONLY <3>1, <3>2
  <2> DEFINE S == {m \in Nat : m + 1 <= n => g[m + 1] = f[m + 1]}
  <2>3. 0 \in S BY <1>1, <1>3, <2>1, <2>2
  <2>4. ASSUME NEW m \in Nat, m \in S PROVE m + 1 \in S
    <3> SUFFICES ASSUME (m + 1) + 1 <= n PROVE g[(m + 1) + 1] = f[(m + 1) + 1] OBVIOUS
    <3>1. PICK i : i = m + 2 OBVIOUS
    <3>2. i \in 1..n /\ i \in 1..(n + 1) /\ i # 1 /\ i - 1 = m + 1 /\ m + 1 <= n /\ (m + 1) + 1 = i
      BY <1>1, <3>1
    <3>3. g[m + 1] = f[m + 1] BY <2>4, <3>2
    <3>4. g[i] = g[i - 1] \o tt[i] BY ONLY <2>2, <3>2
    <3>5. f[i] = f[i - 1] \o ss[i] BY ONLY <2>1, <3>2
    <3>6. tt[i] = ss[i] BY <1>1, <3>2
    <3> QED BY ONLY <3>2, <3>3, <3>4, <3>5, <3>6
  <2> HIDE DEF S
  <2>5. \A m \in Nat : m \in S BY <2>3, <2>4, Induction
  <2>6. n - 1 \in S BY <1>1, <1>3, <2>5
  <2>7. g[n] = f[n] BY <1>1, <1>3, <2>6 DEF S
  <2>8. g[n + 1] = g[n] \o tt[n + 1]
    <3>1. n \in Nat /\ n # 0 BY <1>1, <1>3
    <3>2. n + 1 \in 1..(n + 1) /\ n + 1 # 1 /\ (n + 1) - 1 = n BY ONLY <3>1
    <3>3. g[n + 1] = g[(n + 1) - 1] \o tt[n + 1] BY ONLY <2>2, <3>2
    <3> QED BY ONLY <3>2, <3>3
  <2> QED BY <1>1, <2>1, <2>2, <2>7, <2>8 DEF tt
<1> QED BY <1>2, <1>3

\* The pieces joined are a sequence of what they consist of.
LEMMA FlattenType ==
    ASSUME NEW U
    PROVE  \A ss \in Seq(Seq(U)) : FlattenSeq(ss) \in Seq(U)
<1> DEFINE P(n) == \A ss \in Seq(Seq(U)) : Len(ss) = n => FlattenSeq(ss) \in Seq(U)
           S == {n \in Nat : P(n)}
<1>1. P(0)
  <2> SUFFICES ASSUME NEW ss \in Seq(Seq(U)), Len(ss) = 0 PROVE FlattenSeq(ss) \in Seq(U) OBVIOUS
  <2>1. ss = <<>> OBVIOUS
  <2>2. <<>> \in Seq(U) OBVIOUS
  <2> QED BY <2>1, <2>2, FlattenEmpty
<1>2. ASSUME NEW n \in Nat, P(n) PROVE P(n + 1)
  <2> SUFFICES ASSUME NEW ss \in Seq(Seq(U)), Len(ss) = n + 1 PROVE FlattenSeq(ss) \in Seq(U) OBVIOUS
  <2>1. ss # <<>> OBVIOUS
  <2>2. PICK s \in Seq(Seq(U)), e \in Seq(U) : ss = Append(s, e) BY <2>1, SequenceEmptyOrAppend
  <2>3. Len(s) = n BY <2>2
  <2>4. FlattenSeq(s) \in Seq(U) BY <1>2, <2>3
  <2>5. FlattenSeq(ss) = FlattenSeq(s) \o e BY <2>2, FlattenAppend
  <2> QED BY <2>4, <2>5, ConcatProperties
<1> HIDE DEF P
<1>3. 0 \in S /\ \A n \in Nat : n \in S => n + 1 \in S BY <1>1, <1>2
<1> HIDE DEF S
<1>4. \A n \in Nat : n \in S BY <1>3, Induction
<1>5. \A n \in Nat : P(n) BY <1>4 DEF S
<1> QED BY <1>5 DEF P

\* A single piece.
LEMMA FlattenOne ==
    ASSUME NEW U, NEW s \in Seq(U)
    PROVE  FlattenSeq(<<s>>) = s
<1>1. <<>> \in Seq(Seq(U)) /\ <<s>> = Append(<<>>, s) OBVIOUS
<1>2. FlattenSeq(<<s>>) = <<>> \o s BY <1>1, FlattenAppend, FlattenEmpty
<1> QED BY <1>2, ConcatEmptySeq

\* Two sequences of pieces one after the other.
LEMMA FlattenConcat ==
    ASSUME NEW U, NEW ss \in Seq(Seq(U))
    PROVE  \A tt \in Seq(Seq(U)) : FlattenSeq(ss \o tt) = FlattenSeq(ss) \o FlattenSeq(tt)
<1> DEFINE P(n) == \A tt \in Seq(Seq(U)) :
                       Len(tt) = n => FlattenSeq(ss \o tt) = FlattenSeq(ss) \o FlattenSeq(tt)
           S == {n \in Nat : P(n)}
<1>0. FlattenSeq(ss) \in Seq(U) BY FlattenType
<1>1. P(0)
  <2> SUFFICES ASSUME NEW tt \in Seq(Seq(U)), Len(tt) = 0
               PROVE  FlattenSeq(ss \o tt) = FlattenSeq(ss) \o FlattenSeq(tt)
    OBVIOUS
  <2>1. tt = <<>> OBVIOUS
  <2>2. ss \o <<>> = ss BY ConcatEmptySeq
  <2>3. FlattenSeq(ss) \o <<>> = FlattenSeq(ss) BY <1>0, ConcatEmptySeq
  <2> QED BY <2>1, <2>2, <2>3, FlattenEmpty
<1>2. ASSUME NEW n \in Nat, P(n) PROVE P(n + 1)
  <2> SUFFICES ASSUME NEW tt \in Seq(Seq(U)), Len(tt) = n + 1
               PROVE  FlattenSeq(ss \o tt) = FlattenSeq(ss) \o FlattenSeq(tt)
    OBVIOUS
  <2>1. tt # <<>> OBVIOUS
  <2>2. PICK t \in Seq(Seq(U)), e \in Seq(U) : tt = Append(t, e) BY <2>1, SequenceEmptyOrAppend
  <2>3. Len(t) = n BY <2>2
  <2>4. FlattenSeq(ss \o t) = FlattenSeq(ss) \o FlattenSeq(t) BY <1>2, <2>3
  <2>5. ss \o t \in Seq(Seq(U)) BY ConcatProperties
  <2>6. ss \o tt = Append(ss \o t, e)
    <3>1. tt = t \o <<e>> /\ Append(ss \o t, e) = (ss \o t) \o <<e>> BY <2>2, <2>5, AppendIsConcat
    <3>2. <<e>> \in Seq(Seq(U)) OBVIOUS
    <3> QED BY <3>1, <3>2, ConcatAssociative, SMTT(20)
  <2>7. FlattenSeq(ss \o tt) = (FlattenSeq(ss) \o FlattenSeq(t)) \o e BY <2>4, <2>5, <2>6, FlattenAppend
  <2>8. FlattenSeq(tt) = FlattenSeq(t) \o e BY <2>2, FlattenAppend
  <2>9. FlattenSeq(t) \in Seq(U) BY FlattenType
  <2>10. PICK x \in Seq(U), y \in Seq(U) : x = FlattenSeq(ss) /\ y = FlattenSeq(t) BY <1>0, <2>9
  <2>11. e \in Seq(U) BY <2>2
  <2>12. (x \o y) \o e = x \o (y \o e)
    BY ONLY x \in Seq(U), y \in Seq(U), <2>11, ConcatAssociative, SMTT(20)
  <2> QED BY <2>7, <2>8, <2>10, <2>12
<1> HIDE DEF P
<1>3. 0 \in S /\ \A n \in Nat : n \in S => n + 1 \in S BY <1>1, <1>2
<1> HIDE DEF S
<1>4. \A n \in Nat : n \in S BY <1>3, Induction
<1>5. \A n \in Nat : P(n) BY <1>4 DEF S
<1>6. ASSUME NEW tt \in Seq(Seq(U)) PROVE FlattenSeq(ss \o tt) = FlattenSeq(ss) \o FlattenSeq(tt)
  <2>1. P(Len(tt)) BY <1>5
  <2> QED BY <2>1 DEF P
<1> QED BY <1>6

\* Pieces that are not empty are no more than the units in them.
LEMMA FlattenLength ==
    ASSUME NEW U
    PROVE  \A ss \in Seq(Seq(U) \ {<<>>}) : Len(ss) <= Len(FlattenSeq(ss))
<1> DEFINE P(n) == \A ss \in Seq(Seq(U) \ {<<>>}) : Len(ss) = n => n <= Len(FlattenSeq(ss))
           S == {n \in Nat : P(n)}
<1>0. \A ss \in Seq(Seq(U) \ {<<>>}) : ss \in Seq(Seq(U)) BY SeqMonotonic
<1>1. P(0)
  <2> SUFFICES ASSUME NEW ss \in Seq(Seq(U) \ {<<>>}), Len(ss) = 0 PROVE 0 <= Len(FlattenSeq(ss)) OBVIOUS
  <2>1. FlattenSeq(ss) \in Seq(U) BY <1>0, FlattenType
  <2> QED BY <2>1, LenProperties
<1>2. ASSUME NEW n \in Nat, P(n) PROVE P(n + 1)
  <2> SUFFICES ASSUME NEW ss \in Seq(Seq(U) \ {<<>>}), Len(ss) = n + 1
               PROVE  n + 1 <= Len(FlattenSeq(ss))
    OBVIOUS
  <2>1. ss # <<>> OBVIOUS
  <2>2. PICK s \in Seq(Seq(U) \ {<<>>}), e \in Seq(U) \ {<<>>} : ss = Append(s, e)
    BY <2>1, SequenceEmptyOrAppend
  <2>3. Len(s) = n BY <2>2
  <2>4. n <= Len(FlattenSeq(s)) BY <1>2, <2>3
  <2>5. FlattenSeq(ss) = FlattenSeq(s) \o e /\ FlattenSeq(s) \in Seq(U)
    BY <1>0, <2>2, FlattenAppend, FlattenType
  <2>6. Len(FlattenSeq(ss)) = Len(FlattenSeq(s)) + Len(e) BY <2>5, ConcatProperties
  <2>7. Len(e) \in Nat /\ Len(e) # 0 BY <2>2
  <2>8. Len(FlattenSeq(s)) \in Nat BY <2>5, LenProperties
  <2> QED BY <2>4, <2>6, <2>7, <2>8
<1> HIDE DEF P
<1>3. 0 \in S /\ \A n \in Nat : n \in S => n + 1 \in S BY <1>1, <1>2
<1> HIDE DEF S
<1>4. \A n \in Nat : n \in S BY <1>3, Induction
<1>5. \A n \in Nat : P(n) BY <1>4 DEF S
<1>6. ASSUME NEW ss \in Seq(Seq(U) \ {<<>>}) PROVE Len(ss) <= Len(FlattenSeq(ss))
  <2>1. P(Len(ss)) BY <1>5
  <2> QED BY <2>1 DEF P
<1> QED BY <1>6

(* ------------------------------- folds ----------------------------------- *)

\* The three operators that are folded over sequences.
Fold(c, s, x) ==
    CASE c = "input"  -> InputSegment(s, x)
      [] c = "append" -> BufferAppend(s, x)
      [] c = "pack"   -> Pack(s, x)

\* The greatest element.
LEMMA MaxIs ==
    ASSUME NEW S, NEW m \in S, S \subseteq Nat, \A i \in S : i <= m
    PROVE  Max(S) = m
<1>1. \E x \in S : \A y \in S : x >= y OBVIOUS
<1>2. Max(S) \in S /\ \A y \in S : Max(S) >= y BY <1>1 DEF Max
<1> HIDE DEF Max
<1>3. PICK x : x = Max(S) OBVIOUS
<1>4. x \in Nat /\ m \in Nat /\ x >= m /\ x <= m BY <1>2, <1>3
<1>5. x = m BY <1>4
<1> QED BY <1>3, <1>5

\* The function that FoldLeft computes with.
IsFold(f, c, base, d, n) ==
    f = [s \in SUBSET (1..n) |->
            IF s = {} THEN base ELSE Fold(c, f[s \ {Max(s)}], d[Max(s)])]

\* Each of the folds has a function that computes it.
LEMMA FoldExists ==
    ASSUME NEW c, NEW base, NEW d
    PROVE  \A m \in Nat : \E f : IsFold(f, c, base, d, m)
<1> DEFINE R(f, s) == IF s = {} THEN base ELSE Fold(c, f[s \ {Max(s)}], d[Max(s)])
           P(m) == \E f : f = [s \in SUBSET (1..m) |-> R(f, s)]
           S == {m \in Nat : P(m)}
<1>1. P(0)
  <2> DEFINE f == [s \in SUBSET (1..0) |-> base]
  <2>1. \A s \in SUBSET (1..0) : R(f, s) = base OBVIOUS
  <2> HIDE DEF R
  <2>2. f = [s \in SUBSET (1..0) |-> R(f, s)] BY <2>1
  <2> QED BY <2>2
<1>2. ASSUME NEW m \in Nat, P(m) PROVE P(m + 1)
  <2>1. PICK f : f = [s \in SUBSET (1..m) |-> R(f, s)] BY <1>2
  <2> DEFINE g == [s \in SUBSET (1..(m + 1)) |->
                      IF m + 1 \in s THEN Fold(c, f[s \ {m + 1}], d[m + 1]) ELSE f[s]]
  <2>2. \A s \in SUBSET (1..m) : g[s] = f[s]
    <3> SUFFICES ASSUME NEW s \in SUBSET (1..m) PROVE g[s] = f[s] OBVIOUS
    <3>1. s \in SUBSET (1..(m + 1)) /\ m + 1 \notin s OBVIOUS
    <3> QED BY <3>1
  <2>3. ASSUME NEW s \in SUBSET (1..(m + 1)) PROVE g[s] = R(g, s)
    <3>1. CASE m + 1 \in s
      <4>1. Max(s) = m + 1
        <5>1. s \subseteq Nat /\ \A i \in s : i <= m + 1 OBVIOUS
        <5> QED BY ONLY <3>1, <5>1, MaxIs
      <4>2. s \ {m + 1} \in SUBSET (1..m) OBVIOUS
      <4>3. g[s] = Fold(c, f[s \ {m + 1}], d[m + 1]) BY <3>1
      <4>4. g[s \ {m + 1}] = f[s \ {m + 1}] BY <2>2, <4>2
      <4> HIDE DEF g
      <4> QED BY <3>1, <4>1, <4>3, <4>4
    <3>2. CASE m + 1 \notin s
      <4>1. s \in SUBSET (1..m) BY <3>2
      <4>2. f[s] = R(f, s)
        <5> HIDE DEF R
        <5> QED BY <2>1, <4>1
      <4>3. s \ {Max(s)} \in SUBSET (1..m) BY <4>1
      <4>4. g[s] = f[s] /\ g[s \ {Max(s)}] = f[s \ {Max(s)}] BY <2>2, <4>1, <4>3
      <4> HIDE DEF g
      <4> QED BY <4>2, <4>4
    <3> QED BY <3>1, <3>2
  <2>4. g = [s \in SUBSET (1..(m + 1)) |-> g[s]] OBVIOUS
  <2> HIDE DEF g, R
  <2>5. g = [s \in SUBSET (1..(m + 1)) |-> R(g, s)] BY <2>3, <2>4
  <2> QED BY <2>5
<1> HIDE DEF P
<1>3. 0 \in S /\ \A m \in Nat : m \in S => m + 1 \in S BY <1>1, <1>2
<1> HIDE DEF S
<1>4. \A m \in Nat : m \in S BY <1>3, Induction
<1>5. \A m \in Nat : P(m) BY <1>4 DEF S
<1> QED BY <1>5 DEF P, IsFold

\* A fold is as many steps as the sequence is long.
LEMMA FoldSteps ==
    ASSUME NEW c, NEW base, NEW d, NEW n \in Nat, NEW f, IsFold(f, c, base, d, n)
    PROVE  \E g : /\ g[0] = base /\ g[n] = f[1..n]
                  /\ \A i \in 1..n : g[i] = Fold(c, g[i - 1], d[i])
<1> DEFINE R(s) == IF s = {} THEN base ELSE Fold(c, f[s \ {Max(s)}], d[Max(s)])
           g == [i \in 0..n |-> f[1..i]]
<1>1. \A s \in SUBSET (1..n) : f[s] = R(s)
  <2>1. f = [s \in SUBSET (1..n) |-> R(s)] BY DEF IsFold
  <2> HIDE DEF R
  <2> QED BY <2>1
<1>2. g[0] = base
  <2>1. 1..0 = {} /\ {} \in SUBSET (1..n) /\ 0 \in 0..n OBVIOUS
  <2>2. f[{}] = base BY <1>1, <2>1
  <2> QED BY <2>1, <2>2
<1>3. ASSUME NEW i \in 1..n PROVE g[i] = Fold(c, g[i - 1], d[i])
  <2>1. 1..i \in SUBSET (1..n) /\ 1..i # {} /\ i \in 0..n /\ i - 1 \in 0..n OBVIOUS
  <2>2. Max(1..i) = i
    <3>1. i \in 1..i /\ 1..i \subseteq Nat /\ \A j \in 1..i : j <= i OBVIOUS
    <3> QED BY ONLY <3>1, MaxIs
  <2>3. (1..i) \ {i} = 1..(i - 1) OBVIOUS
  <2>4. f[1..i] = Fold(c, f[1..(i - 1)], d[i]) BY <1>1, <2>1, <2>2, <2>3
  <2>5. g[i] = f[1..i] /\ g[i - 1] = f[1..(i - 1)] BY <2>1
  <2> QED BY <2>4, <2>5
<1>4. g[n] = f[1..n] OBVIOUS
<1> HIDE DEF g
<1> QED BY <1>2, <1>3, <1>4

\* ikcp_input takes the segments of a datagram one after the other.
LEMMA InputFold ==
    ASSUME NEW k, NEW d, DOMAIN d = 1..Len(d), Len(d) \in Nat
    PROVE  \E g : /\ g[0] = k /\ KcpInput(k, d) = g[Len(d)]
                  /\ \A i \in 1..Len(d) : g[i] = InputSegment(g[i - 1], d[i])
<1> DEFINE P(f) == f = [s \in SUBSET (1..Len(d)) |->
                           IF s = {} THEN k ELSE InputSegment(f[s \ {Max(s)}], d[Max(s)])]
           f == CHOOSE h : P(h)
<1>1. \A s, x : Fold("input", s, x) = InputSegment(s, x) BY DEF Fold
<1>2. \A h : P(h) <=> IsFold(h, "input", k, d, Len(d)) BY <1>1 DEF IsFold
<1>3. KcpInput(k, d) = f[1..Len(d)] BY DEF KcpInput, FoldLeft, MapThenFoldSet
<1> HIDE DEF P
<1>4. P(f) BY <1>2, FoldExists
<1>5. IsFold(f, "input", k, d, Len(d)) BY <1>2, <1>4
<1> HIDE DEF f
<1>6. PICK g : /\ g[0] = k /\ g[Len(d)] = f[1..Len(d)]
               /\ \A i \in 1..Len(d) : g[i] = Fold("input", g[i - 1], d[i])
  BY <1>5, FoldSteps
<1> QED BY <1>1, <1>3, <1>6

Appended(k, d) == FoldLeft(BufferAppend, k, d)

\* The pieces are put into the buffer one after the other.
LEMMA AppendFold ==
    ASSUME NEW k, NEW d, DOMAIN d = 1..Len(d), Len(d) \in Nat
    PROVE  \E g : /\ g[0] = k /\ Appended(k, d) = g[Len(d)]
                  /\ \A i \in 1..Len(d) : g[i] = BufferAppend(g[i - 1], d[i])
<1> DEFINE P(f) == f = [s \in SUBSET (1..Len(d)) |->
                           IF s = {} THEN k ELSE BufferAppend(f[s \ {Max(s)}], d[Max(s)])]
           f == CHOOSE h : P(h)
<1>1. \A s, x : Fold("append", s, x) = BufferAppend(s, x) BY DEF Fold
<1>2. \A h : P(h) <=> IsFold(h, "append", k, d, Len(d)) BY <1>1 DEF IsFold
<1>3. Appended(k, d) = f[1..Len(d)] BY DEF Appended, FoldLeft, MapThenFoldSet
<1> HIDE DEF P
<1>4. P(f) BY <1>2, FoldExists
<1>5. IsFold(f, "append", k, d, Len(d)) BY <1>2, <1>4
<1> HIDE DEF f
<1>6. PICK g : /\ g[0] = k /\ g[Len(d)] = f[1..Len(d)]
               /\ \A i \in 1..Len(d) : g[i] = Fold("append", g[i - 1], d[i])
  BY <1>5, FoldSteps
<1> QED BY <1>1, <1>3, <1>6

Packed(k, d) == FoldLeft(Pack, k, d)

\* The segments are packed into datagrams one after the other.
LEMMA PackFold ==
    ASSUME NEW k, NEW d, DOMAIN d = 1..Len(d), Len(d) \in Nat
    PROVE  \E g : /\ g[0] = k /\ Packed(k, d) = g[Len(d)]
                  /\ \A i \in 1..Len(d) : g[i] = Pack(g[i - 1], d[i])
<1> DEFINE P(f) == f = [s \in SUBSET (1..Len(d)) |->
                           IF s = {} THEN k ELSE Pack(f[s \ {Max(s)}], d[Max(s)])]
           f == CHOOSE h : P(h)
<1>1. \A s, x : Fold("pack", s, x) = Pack(s, x) BY DEF Fold
<1>2. \A h : P(h) <=> IsFold(h, "pack", k, d, Len(d)) BY <1>1 DEF IsFold
<1>3. Packed(k, d) = f[1..Len(d)] BY DEF Packed, FoldLeft, MapThenFoldSet
<1> HIDE DEF P
<1>4. P(f) BY <1>2, FoldExists
<1>5. IsFold(f, "pack", k, d, Len(d)) BY <1>2, <1>4
<1> HIDE DEF f
<1>6. PICK g : /\ g[0] = k /\ g[Len(d)] = f[1..Len(d)]
               /\ \A i \in 1..Len(d) : g[i] = Fold("pack", g[i - 1], d[i])
  BY <1>5, FoldSteps
<1> QED BY <1>1, <1>3, <1>6

(* ------------------------ what a block amounts to ------------------------ *)

Units == Nat \X Nat \X Nat
Pieces == Seq(Units) \ {<<>>}

\* The pieces a node has numbered: so few that no number means two of them.
Data(D) == D \in Seq(Pieces) /\ Len(D) + RcvWnd < Half

\* The segment of the j-th of them.
Seg(sn, D, j) == [sn |-> Nr(sn, j), data |-> D[j]]

Fields == {"snd_una", "snd_nxt", "rcv_nxt", "rmt_wnd", "ask_tell", "probe_wait", "acklist",
           "snd_queue", "snd_buf", "rcv_buf", "rcv_queue"}

\* The block k has numbered the pieces of D, of which those before the u-th are
\* acknowledged.
Sender(k, sn, D, u) ==
    /\ u \in 1..(Len(D) + 1) /\ Len(D) + 1 - u <= SndWnd
    /\ k.snd_una = Nr(sn, u) /\ k.snd_nxt = Nr(sn, Len(D) + 1)
    /\ \A s \in k.snd_buf : \E j \in u..Len(D) : s = Seg(sn, D, j)
    /\ k.snd_queue \in Seq(Pieces)
    /\ \A i \in 1..Len(k.snd_queue) : Len(k.snd_queue[i]) <= Mss

\* It has got the pieces of D before the r-th in order, and those before the q-th
\* have been read.
Receiver(k, sn, D, q, r) ==
    /\ q \in 1..r /\ r \in 1..(Len(D) + 1) /\ r - q <= RcvWnd
    /\ k.rcv_nxt = Nr(sn, r)
    /\ \A s \in k.rcv_buf : \E j \in r..Len(D) : j < r + RcvWnd /\ s = Seg(sn, D, j)
    /\ k.rcv_queue = SubSeq(D, q, r - 1)

\* The indices of all the pieces it has.
Has(k, sn, D, r) == {j \in 1..Len(D) : j < r \/ Seg(sn, D, j) \in k.rcv_buf}

\* It acknowledges nothing else.
Acks(k, sn, D, r) ==
    /\ k.acklist \in Seq(SegmentNumbers)
    /\ \A i \in 1..Len(k.acklist) : \E j \in Has(k, sn, D, r) : k.acklist[i] = Nr(sn, j)

\* So few pieces that all their numbers differ.
LEMMA DataIs ==
    ASSUME NEW D, Data(D)
    PROVE  /\ Len(D) \in Nat /\ Len(D) + RcvWnd < Half /\ Len(D) + RcvWnd < Word
           /\ D \in Seq(Pieces) /\ D \in Seq(Seq(Units))
           /\ \A j \in 1..Len(D) : D[j] \in Pieces
<1>1. D \in Seq(Pieces) /\ Len(D) + RcvWnd < Half BY DEF Data
<1>2. Pieces \subseteq Seq(Units) BY DEF Pieces
<1>3. D \in Seq(Seq(Units)) BY <1>1, <1>2, SeqMonotonic
<1>4. Len(D) \in Nat /\ \A j \in 1..Len(D) : D[j] \in Pieces BY <1>1
<1> QED BY <1>1, <1>3, <1>4, Words

\* And those of the pieces that may follow.
LEMMA SegInjective ==
    ASSUME NEW sn \in SegmentNumbers, NEW D, Data(D),
           NEW i \in 1..(Len(D) + RcvWnd), NEW j \in 1..(Len(D) + RcvWnd), Nr(sn, i) = Nr(sn, j)
    PROVE  i = j
<1>1. i \in Nat /\ j \in Nat /\ 1 <= i /\ 1 <= j /\ i <= Word /\ j <= Word BY DataIs, Words
<1> QED BY <1>1, NrInjective

\* A set of segments whose indices lie in an interval.
LEMMA SegsFinite ==
    ASSUME NEW sn, NEW D, NEW lo \in Int, NEW hi \in Int, lo <= hi + 1,
           NEW S, \A s \in S : \E j \in lo..hi : s = Seg(sn, D, j)
    PROVE  IsFiniteSet(S) /\ Cardinality(S) \in Nat /\ Cardinality(S) <= hi - lo + 1
<1> DEFINE I == lo..hi
           T == {Seg(sn, D, j) : j \in I}
<1>1. IsFiniteSet(I) /\ Cardinality(I) = hi - lo + 1
  <2>1. IsFiniteSet(I) /\ Cardinality(I) = IF lo > hi THEN 0 ELSE hi - lo + 1 BY FS_Interval
  <2> QED BY <2>1
<1> HIDE DEF I
<1>2. IsFiniteSet(T) /\ Cardinality(T) <= Cardinality(I)
  <2> DEFINE f == [j \in I |-> Seg(sn, D, j)]
  <2>1. f \in Surjection(I, T) BY DEF Surjection
  <2> HIDE DEF f
  <2> QED BY <1>1, <2>1, FS_Surjection
<1>3. S \subseteq T BY DEF I
<1> HIDE DEF T
<1>4. IsFiniteSet(S) /\ Cardinality(S) <= Cardinality(T) BY <1>2, <1>3, FS_Subset
<1>5. Cardinality(S) \in Nat /\ Cardinality(T) \in Nat BY <1>2, <1>4, FS_CardinalityType
<1> QED BY <1>1, <1>2, <1>4, <1>5

\* A part of a sequence.
LEMMA SubSeqIs ==
    ASSUME NEW S, NEW s, s \in Seq(S), NEW lo \in Int, NEW hi \in Int, 1 <= lo, lo <= hi + 1, hi <= Len(s)
    PROVE  /\ SubSeq(s, lo, hi) \in Seq(S) /\ Len(SubSeq(s, lo, hi)) = hi - lo + 1
           /\ \A i \in 1..(hi - lo + 1) : SubSeq(s, lo, hi)[i] = s[lo + i - 1]
<1>1. \A i \in lo..hi : s[i] \in S
  <2>1. \A i \in lo..hi : i \in 1..Len(s) BY LenProperties
  <2> QED BY <2>1, ElementOfSeq
<1>2. /\ SubSeq(s, lo, hi) \in Seq(S)
      /\ Len(SubSeq(s, lo, hi)) = IF lo <= hi THEN hi - lo + 1 ELSE 0
      /\ \A i \in 1..(hi - lo + 1) : SubSeq(s, lo, hi)[i] = s[lo + i - 1]
  BY <1>1, SubSeqProperties
<1> QED BY <1>2

Segs(sn, D, lo, hi) == {Seg(sn, D, j) : j \in lo..hi}

\* The block k when it has moved m segments from the r-th on.
Moved(k, sn, D, r, m) ==
    [k EXCEPT !.rcv_buf = @ \ Segs(sn, D, r, r + m - 1),
              !.rcv_queue = @ \o SubSeq(D, r, r + m - 1),
              !.rcv_nxt = Nr(sn, r + m)]

\* MoveAvailable moves the pieces that follow those it has in order.
LEMMA MoveIs ==
    ASSUME NEW sn \in SegmentNumbers, NEW D, Data(D), NEW k, DOMAIN k = Fields, NEW q, NEW r,
           Receiver(k, sn, D, q, r), NEW room \in Nat, room <= RcvWnd
    PROVE  \E m \in 0..room :
              /\ r + m <= Len(D) + 1
              /\ \A j \in r..(r + m - 1) : Seg(sn, D, j) \in k.rcv_buf
              /\ MoveAvailable(k, room) = Moved(k, sn, D, r, m)
<1> DEFINE Nx(i) == (k.rcv_nxt + i - 1) % Word
           All(n) == \A i \in 1..n : \E s \in k.rcv_buf : s.sn = Nx(i)
           n == CHOOSE m \in 0..room : All(m) /\ (m < room => ~All(m + 1))
           Found(i) == CHOOSE s \in k.rcv_buf : s.sn = Nx(i)
           moved == [i \in 1..n |-> Found(i)]
<1>0. /\ Len(D) \in Nat /\ Len(D) + RcvWnd < Word /\ RcvWnd \in Nat /\ Word \in Nat
      /\ r \in Nat /\ 1 <= r /\ r <= Len(D) + 1 /\ k.rcv_nxt = Nr(sn, r)
  BY DataIs, Words DEF Receiver
<1>1. MoveAvailable(k, room) =
          [k EXCEPT !.rcv_buf = @ \ Range(moved),
                    !.rcv_queue = @ \o [i \in 1..n |-> moved[i].data],
                    !.rcv_nxt = (@ + n) % Word]
  BY Zenon DEF MoveAvailable
<1>2. ASSUME NEW i \in 1..room PROVE Nx(i) = Nr(sn, r + i - 1)
  <2>1. PICK l \in Nat : l = i - 1 /\ r + l <= Word BY <1>0
  <2>2. (Nr(sn, r) + l) % Word = Nr(sn, r + l) BY <1>0, <2>1, NrPlus
  <2>3. Nr(sn, r) \in Nat
    <3>1. r <= Word BY <1>0
    <3> QED BY <1>0, <3>1, NrIs
  <2>4. Nr(sn, r) + l = Nr(sn, r) + i - 1 /\ r + l = r + i - 1 BY <1>0, <2>1, <2>3
  <2> QED BY <1>0, <2>2, <2>4
<1>3. n \in 0..room /\ All(n)
  <2> HIDE DEF All
  <2> DEFINE S == {m \in Nat : m >= room \/ ~All(m + 1)}
  <2>1. S \in SUBSET Nat /\ room \in S OBVIOUS
  <2>2. PICK x \in S : \A i \in S : x <= i BY <2>1, FirstExists
  <2>3. x \in 0..room BY <2>1, <2>2
  <2>4. All(x)
    <3>1. CASE x = 0 BY <3>1 DEF All
    <3>2. CASE x # 0
      <4>1. x - 1 \in Nat /\ x - 1 \notin S BY <2>2, <2>3, <3>2
      <4>2. All((x - 1) + 1) BY <4>1
      <4>3. (x - 1) + 1 = x BY <2>3
      <4> QED BY <4>2, <4>3
    <3> QED BY <3>1, <3>2
  <2>5. x < room => ~All(x + 1) BY <2>2, <2>3
  <2> QED BY <2>3, <2>4, <2>5
<1> HIDE DEF n
<1>4. ASSUME NEW i \in 1..n
      PROVE  /\ r + i - 1 \in r..Len(D)
             /\ Seg(sn, D, r + i - 1) \in k.rcv_buf
             /\ Found(i) = Seg(sn, D, r + i - 1)
  <2>1. i \in 1..room BY <1>3
  <2>2. PICK s \in k.rcv_buf : s.sn = Nx(i) BY <1>3
  <2>3. Nx(i) = Nr(sn, r + i - 1) BY <1>2, <2>1
  <2> HIDE DEF Nx
  <2>4. ASSUME NEW t \in k.rcv_buf, t.sn = Nx(i)
        PROVE  r + i - 1 \in r..Len(D) /\ t = Seg(sn, D, r + i - 1)
    <3>1. PICK j \in r..Len(D) : t = Seg(sn, D, j) BY <2>4 DEF Receiver
    <3>2. Nr(sn, j) = Nr(sn, r + i - 1) BY <2>3, <2>4, <3>1 DEF Seg
    <3>3. PICK l : l = r + i - 1 OBVIOUS
    <3>4. l \in 1..(Len(D) + RcvWnd) /\ j \in 1..(Len(D) + RcvWnd) BY <1>0, <2>1, <3>3
    <3>5. j = l BY <3>2, <3>3, <3>4, SegInjective
    <3> QED BY <3>1, <3>3, <3>5
  <2>5. Found(i) \in k.rcv_buf /\ Found(i).sn = Nx(i) BY <2>2
  <2> HIDE DEF Found
  <2> QED BY <2>4, <2>5
<1>5. n \in Nat /\ r + n <= Len(D) + 1
  <2>1. CASE n = 0 BY <1>0, <2>1
  <2>2. CASE n # 0
    <3>1. n \in 1..n BY <1>3, <2>2
    <3>2. r + n - 1 \in r..Len(D) BY <1>4, <3>1
    <3> QED BY <1>0, <1>3, <3>2
  <2> QED BY <2>1, <2>2, <1>3
<1>6. \A j \in r..(r + n - 1) : j - r + 1 \in 1..n /\ r + (j - r + 1) - 1 = j BY <1>0, <1>5
<1>7. \A j \in r..(r + n - 1) : Seg(sn, D, j) \in k.rcv_buf BY <1>4, <1>6
<1> HIDE DEF Found, Nx
<1>8. Range(moved) = Segs(sn, D, r, r + n - 1)
  <2>1. ASSUME NEW i \in 1..n PROVE \E j \in r..(r + n - 1) : moved[i] = Seg(sn, D, j)
    <3>1. r + i - 1 \in r..(r + n - 1) BY <1>0, <1>5
    <3>2. moved[i] = Seg(sn, D, r + i - 1) BY <1>4
    <3> QED BY <3>1, <3>2
  <2>2. ASSUME NEW j \in r..(r + n - 1) PROVE \E i \in 1..n : moved[i] = Seg(sn, D, j)
    <3>1. PICK i : i = j - r + 1 OBVIOUS
    <3>2. i \in 1..n /\ r + i - 1 = j BY <1>6, <3>1
    <3>3. moved[i] = Seg(sn, D, r + i - 1) BY <1>4, <3>2
    <3> QED BY <3>2, <3>3
  <2>3. DOMAIN moved = 1..n OBVIOUS
  <2> HIDE DEF moved
  <2> QED BY <2>1, <2>2, <2>3 DEF Range, Segs
<1>9. [i \in 1..n |-> moved[i].data] = SubSeq(D, r, r + n - 1)
  <2>1. ASSUME NEW i \in 1..n PROVE moved[i].data = D[r + i - 1]
    <3>1. moved[i] = Seg(sn, D, r + i - 1) BY <1>4
    <3> QED BY <3>1 DEF Seg
  <2> HIDE DEF moved
  <2>2. PICK x \in Seq(Pieces) : /\ x = SubSeq(D, r, r + n - 1) /\ Len(x) = n
                                  /\ \A i \in 1..n : x[i] = D[r + i - 1]
    <3>1. PICK hi : hi = r + n - 1 OBVIOUS
    <3>2. /\ r \in Int /\ hi \in Int /\ hi - r + 1 = n /\ 1 <= r /\ r <= hi + 1 /\ hi <= Len(D)
          /\ D \in Seq(Pieces)
      BY <1>0, <1>5, <3>1, DataIs
    <3>3. /\ SubSeq(D, r, hi) \in Seq(Pieces) /\ Len(SubSeq(D, r, hi)) = hi - r + 1
          /\ \A i \in 1..(hi - r + 1) : SubSeq(D, r, hi)[i] = D[r + i - 1]
      BY <3>2, SubSeqIs
    <3> QED BY <3>1, <3>2, <3>3
  <2>3. x = [i \in 1..n |-> D[r + i - 1]]
    <3>1. x \in [1..Len(x) -> Pieces] BY <2>2, LenProperties
    <3> QED BY <2>2, <3>1
  <2> QED BY <2>1, <2>2, <2>3
<1>10. (k.rcv_nxt + n) % Word = Nr(sn, r + n) BY <1>0, <1>3, <1>5, NrPlus
<1> HIDE DEF moved
<1>11. MoveAvailable(k, room) = Moved(k, sn, D, r, n)
  BY <1>1, <1>8, <1>9, <1>10 DEF Moved
<1> QED BY <1>3, <1>5, <1>7, <1>11

(* ------------------------------ receiving -------------------------------- *)

\* Two parts that follow each other.
LEMMA SubSeqJoin ==
    ASSUME NEW S, NEW s, s \in Seq(S), NEW q \in Int, NEW r \in Int, NEW t \in Int,
           1 <= q, q <= r, r <= t, t <= Len(s) + 1
    PROVE  SubSeq(s, q, r - 1) \o SubSeq(s, r, t - 1) = SubSeq(s, q, t - 1)
<1>0. Len(s) \in Nat OBVIOUS
<1>1. PICK x \in Seq(S) : /\ x = SubSeq(s, q, r - 1) /\ Len(x) = r - q
                          /\ \A i \in 1..(r - q) : x[i] = s[q + i - 1]
  <2>1. PICK h \in Int : h = r - 1 OBVIOUS
  <2>2. 1 <= q /\ q <= h + 1 /\ h <= Len(s) /\ h - q + 1 = r - q BY <1>0, <2>1
  <2>3. /\ SubSeq(s, q, h) \in Seq(S) /\ Len(SubSeq(s, q, h)) = h - q + 1
        /\ \A i \in 1..(h - q + 1) : SubSeq(s, q, h)[i] = s[q + i - 1]
    BY ONLY <2>2, s \in Seq(S), q \in Int, h \in Int, SubSeqIs
  <2> QED BY <2>1, <2>2, <2>3
<1>2. PICK y \in Seq(S) : /\ y = SubSeq(s, r, t - 1) /\ Len(y) = t - r
                          /\ \A i \in 1..(t - r) : y[i] = s[r + i - 1]
  <2>1. PICK h \in Int : h = t - 1 OBVIOUS
  <2>2. 1 <= r /\ r <= h + 1 /\ h <= Len(s) /\ h - r + 1 = t - r BY <1>0, <2>1
  <2>3. /\ SubSeq(s, r, h) \in Seq(S) /\ Len(SubSeq(s, r, h)) = h - r + 1
        /\ \A i \in 1..(h - r + 1) : SubSeq(s, r, h)[i] = s[r + i - 1]
    BY ONLY <2>2, s \in Seq(S), r \in Int, h \in Int, SubSeqIs
  <2> QED BY <2>1, <2>2, <2>3
<1>3. PICK z \in Seq(S) : /\ z = SubSeq(s, q, t - 1) /\ Len(z) = t - q
                          /\ \A i \in 1..(t - q) : z[i] = s[q + i - 1]
  <2>1. PICK h \in Int : h = t - 1 OBVIOUS
  <2>2. 1 <= q /\ q <= h + 1 /\ h <= Len(s) /\ h - q + 1 = t - q BY <1>0, <2>1
  <2>3. /\ SubSeq(s, q, h) \in Seq(S) /\ Len(SubSeq(s, q, h)) = h - q + 1
        /\ \A i \in 1..(h - q + 1) : SubSeq(s, q, h)[i] = s[q + i - 1]
    BY ONLY <2>2, s \in Seq(S), q \in Int, h \in Int, SubSeqIs
  <2> QED BY <2>1, <2>2, <2>3
<1>4. /\ x \o y \in Seq(S) /\ Len(x \o y) = (r - q) + (t - r)
      /\ \A i \in 1..(Len(x) + Len(y)) : (x \o y)[i] = IF i <= Len(x) THEN x[i] ELSE y[i - Len(x)]
  BY <1>1, <1>2, ConcatProperties
<1>5. PICK c \in Seq(S) : /\ c = x \o y /\ Len(c) = t - q
                          /\ \A i \in 1..(t - q) : i <= r - q => c[i] = x[i]
                          /\ \A i \in 1..(t - q) : i > r - q => c[i] = y[i - (r - q)]
  <2>1. PICK c \in Seq(S) : c = x \o y BY <1>4
  <2>2. Len(x) + Len(y) = t - q /\ Len(c) = t - q BY <1>1, <1>2, <1>4, <2>1
  <2>3. ASSUME NEW i \in 1..(t - q)
        PROVE  (i <= r - q => c[i] = x[i]) /\ (i > r - q => c[i] = y[i - (r - q)])
    <3>1. c[i] = IF i <= Len(x) THEN x[i] ELSE y[i - Len(x)] BY <1>4, <2>1, <2>2
    <3>2. i <= Len(x) => c[i] = x[i] BY <3>1
    <3>3. ~(i <= Len(x)) => c[i] = y[i - Len(x)] BY <3>1
    <3>4. PICK l, m : l = Len(x) /\ m = i - l OBVIOUS
    <3>5. l = r - q /\ l \in Int /\ m = i - (r - q) BY <1>1, <3>4
    <3>6. i <= l => c[i] = x[i] BY <3>2, <3>4
    <3>7. ~(i <= l) => c[i] = y[m] BY <3>3, <3>4
    <3> QED BY <3>5, <3>6, <3>7
  <2> QED BY <2>1, <2>2, <2>3
<1>6. ASSUME NEW i \in 1..(t - q) PROVE c[i] = z[i]
  <2>1. i \in Int /\ (i <= r - q \/ i > r - q) OBVIOUS
  <2>2. CASE i <= r - q
    <3>1. i \in 1..(r - q) BY <2>2
    <3> QED BY <1>1, <1>3, <1>5, <2>2, <3>1
  <2>3. CASE i > r - q
    <3>1. c[i] = y[i - (r - q)] BY <1>5, <2>3
    <3>2. PICK l : l = i - (r - q) OBVIOUS
    <3>3. l \in 1..(t - r) /\ r + l - 1 = q + i - 1 BY <2>3, <3>2
    <3>4. y[l] = s[r + l - 1] BY <1>2, <3>3
    <3> QED BY <1>3, <3>1, <3>2, <3>3, <3>4
  <2> QED BY <2>1, <2>2, <2>3
<1>7. c = z
  <2>1. Len(c) = Len(z) /\ \A i \in 1..Len(c) : c[i] = z[i] BY <1>3, <1>5, <1>6
  <2> QED BY <2>1, SeqEqual
<1> QED BY <1>1, <1>2, <1>3, <1>5, <1>7

\* The receiver's part of a block after MoveAvailable.
LEMMA MoveReceives ==
    ASSUME NEW sn \in SegmentNumbers, NEW D, Data(D), NEW k, DOMAIN k = Fields, NEW q, NEW r,
           Receiver(k, sn, D, q, r), Acks(k, sn, D, r), NEW room \in Nat, room <= RcvWnd
    PROVE  LET k2 == MoveAvailable(k, room)
           IN  \E r2 \in r..(Len(D) + 1) :
                  /\ r2 - r <= room
                  /\ DOMAIN k2 = Fields
                  /\ k2.rcv_nxt = Nr(sn, r2)
                  /\ \A s \in k2.rcv_buf : \E j \in r2..Len(D) : j < r2 + RcvWnd /\ s = Seg(sn, D, j)
                  /\ k2.rcv_queue = SubSeq(D, q, r2 - 1)
                  /\ Has(k, sn, D, r) \subseteq Has(k2, sn, D, r2)
                  /\ Acks(k2, sn, D, r2)
<1> DEFINE k2 == MoveAvailable(k, room)
<1>0. /\ Len(D) \in Nat /\ D \in Seq(Pieces) /\ RcvWnd \in Nat
      /\ r \in Nat /\ q \in Nat /\ 1 <= q /\ q <= r /\ r <= Len(D) + 1
  BY DataIs, Words DEF Receiver
<1>1. PICK m \in 0..room :
         /\ r + m <= Len(D) + 1
         /\ \A j \in r..(r + m - 1) : Seg(sn, D, j) \in k.rcv_buf
         /\ MoveAvailable(k, room) = Moved(k, sn, D, r, m)
  BY MoveIs
<1>2. PICK r2 : r2 = r + m OBVIOUS
<1>3. /\ DOMAIN k2 = Fields
      /\ k2.rcv_buf = k.rcv_buf \ Segs(sn, D, r, r2 - 1)
      /\ k2.rcv_queue = k.rcv_queue \o SubSeq(D, r, r2 - 1)
      /\ k2.rcv_nxt = Nr(sn, r2)
      /\ k2.acklist = k.acklist
  <2>1. PICK B, Q, N : /\ B = k.rcv_buf \ Segs(sn, D, r, r + m - 1)
                       /\ Q = k.rcv_queue \o SubSeq(D, r, r + m - 1)
                       /\ N = Nr(sn, r + m)
    OBVIOUS
  <2>2. k2 = [k EXCEPT !.rcv_buf = B, !.rcv_queue = Q, !.rcv_nxt = N] BY <1>1, <2>1 DEF Moved
  <2> HIDE DEF k2
  <2>3. /\ DOMAIN k2 = Fields /\ k2.rcv_buf = B /\ k2.rcv_queue = Q /\ k2.rcv_nxt = N
        /\ k2.acklist = k.acklist
    BY <2>2 DEF Fields
  <2>4. r2 = r + m /\ r2 - 1 = r + m - 1 BY <1>0, <1>2
  <2> QED BY <2>1, <2>3, <2>4
<1> HIDE DEF k2
<1>4. r2 \in r..(Len(D) + 1) /\ r2 - r <= room BY <1>0, <1>1, <1>2
<1>5. ASSUME NEW s \in k2.rcv_buf PROVE \E j \in r2..Len(D) : j < r2 + RcvWnd /\ s = Seg(sn, D, j)
  <2>1. PICK j \in r..Len(D) : j < r + RcvWnd /\ s = Seg(sn, D, j) BY <1>3 DEF Receiver
  <2>2. j \notin r..(r2 - 1) BY <1>3, <2>1 DEF Segs
  <2>3. j \in r2..Len(D) /\ j < r2 + RcvWnd BY <1>0, <1>4, <2>1, <2>2
  <2> QED BY <2>1, <2>3
<1>6. k2.rcv_queue = SubSeq(D, q, r2 - 1)
  <2>1. k.rcv_queue = SubSeq(D, q, r - 1) BY DEF Receiver
  <2>2. SubSeq(D, q, r - 1) \o SubSeq(D, r, r2 - 1) = SubSeq(D, q, r2 - 1)
    BY <1>0, <1>4, SubSeqJoin
  <2> QED BY <1>3, <2>1, <2>2
<1>7. Has(k, sn, D, r) \subseteq Has(k2, sn, D, r2)
  <2> SUFFICES ASSUME NEW j \in 1..Len(D), j < r \/ Seg(sn, D, j) \in k.rcv_buf
               PROVE  j < r2 \/ Seg(sn, D, j) \in k2.rcv_buf
    BY DEF Has
  <2>1. CASE j < r2 BY <2>1
  <2>2. CASE ~(j < r2)
    <3>1. Seg(sn, D, j) \in k.rcv_buf BY <1>0, <1>4, <2>2
    <3>2. ASSUME NEW i \in r..(r2 - 1), Seg(sn, D, j) = Seg(sn, D, i) PROVE FALSE
      <4>1. Nr(sn, j) = Nr(sn, i) BY <3>2 DEF Seg
      <4>2. i \in 1..(Len(D) + RcvWnd) /\ j \in 1..(Len(D) + RcvWnd) BY <1>0, <1>4
      <4>3. i = j BY <4>1, <4>2, SegInjective
      <4> QED BY <1>0, <1>4, <2>2, <4>3
    <3> QED BY <1>3, <3>1, <3>2 DEF Segs
  <2> QED BY <2>1, <2>2
<1>8. Acks(k2, sn, D, r2) BY <1>3, <1>7 DEF Acks
<1> QED BY <1>3, <1>4, <1>5, <1>6, <1>7, <1>8 DEF k2

\* MoveAvailable and what calls it leave the sender's part of a block alone.
SameSender(k, k2) ==
    /\ DOMAIN k2 = DOMAIN k
    /\ k2.snd_una = k.snd_una /\ k2.snd_nxt = k.snd_nxt /\ k2.rmt_wnd = k.rmt_wnd
    /\ k2.snd_buf = k.snd_buf /\ k2.snd_queue = k.snd_queue

\* ikcp_parse_data leaves what the block sends alone.
LEMMA ParsePushSends ==
    ASSUME NEW k, DOMAIN k = Fields, NEW sn, NEW data
    PROVE  SameSender(k, ParsePush(k, sn, data))
<1>1. ASSUME NEW h, DOMAIN h = Fields, NEW room
      PROVE  SameSender(h, MoveAvailable(h, room))
  <2>1. PICK x, y, z : MoveAvailable(h, room) =
                           [h EXCEPT !.rcv_buf = x, !.rcv_queue = y, !.rcv_nxt = z]
    BY Zenon DEF MoveAvailable
  <2>2. DOMAIN MoveAvailable(h, room) = DOMAIN h BY <1>1, <2>1 DEF Fields
  <2>3. PICK j : j = MoveAvailable(h, room) BY Zenon
  <2>4. /\ j.snd_una = h.snd_una /\ j.snd_nxt = h.snd_nxt /\ j.rmt_wnd = h.rmt_wnd
        /\ j.snd_buf = h.snd_buf /\ j.snd_queue = h.snd_queue
    BY <1>1, <2>1, <2>3 DEF Fields
  <2> QED BY ONLY <2>2, <2>3, <2>4 DEF SameSender
<1>2. PICK acked : acked = [k EXCEPT !.acklist = Append(@, sn)] OBVIOUS
<1>3. DOMAIN acked = Fields /\ SameSender(k, acked) BY <1>2 DEF Fields, SameSender
<1>4. SameSender(k, ParseData(acked, sn, data))
  <2>1. PICK kept : /\ kept = acked \/ kept = [acked EXCEPT !.rcv_buf = @ \cup {[sn |-> sn, data |-> data]}]
                    /\ ParseData(acked, sn, data) = MoveAvailable(kept, Room(acked))
    BY Zenon DEF ParseData
  <2>2. DOMAIN kept = Fields /\ SameSender(k, kept) BY <1>3, <2>1 DEF Fields, SameSender
  <2>3. SameSender(kept, MoveAvailable(kept, Room(acked))) BY <1>1, <2>2
  <2> QED BY <2>1, <2>2, <2>3 DEF SameSender
<1>5. ParsePush(k, sn, data) \in {k, acked, ParseData(acked, sn, data)} BY <1>2, Zenon DEF ParsePush
<1>6. SameSender(k, k) BY DEF SameSender
<1> QED BY <1>3, <1>4, <1>5, <1>6

\* From the block k to k2 the receiver only gets further.
Received(k, k2, sn, D, q, r, r2) ==
    /\ r <= r2
    /\ Receiver(k2, sn, D, q, r2) /\ Acks(k2, sn, D, r2)
    /\ Has(k, sn, D, r) \subseteq Has(k2, sn, D, r2)

\* What a block has got, it has got for good.
LEMMA ReceivedTwice ==
    ASSUME NEW k1, NEW k2, NEW k3, NEW sn, NEW D, Len(D) \in Nat, NEW q, NEW r1 \in Int, NEW r2, NEW r3,
           Received(k1, k2, sn, D, q, r1, r2), Received(k2, k3, sn, D, q, r2, r3)
    PROVE  Received(k1, k3, sn, D, q, r1, r3)
<1>1. r2 \in Int /\ r3 \in Int BY DEF Received, Receiver
<1>2. r1 <= r3 BY <1>1 DEF Received
<1> QED BY <1>2 DEF Received

\* ikcp_parse_data takes in a segment, an old one, a new one or one beyond the window.
LEMMA PushReceives ==
    ASSUME NEW sn \in SegmentNumbers, NEW D, Data(D), NEW k, DOMAIN k = Fields, NEW q, NEW r,
           Receiver(k, sn, D, q, r), Acks(k, sn, D, r), NEW j \in 1..Len(D)
    PROVE  \E r2 : Received(k, ParsePush(k, Nr(sn, j), D[j]), sn, D, q, r, r2)
<1>0. /\ Len(D) \in Nat /\ D \in Seq(Pieces) /\ RcvWnd \in Nat /\ Half \in Nat /\ Word = 2 * Half
      /\ Len(D) + RcvWnd < Half
      /\ r \in Nat /\ q \in Nat /\ 1 <= q /\ q <= r /\ r <= Len(D) + 1 /\ r - q <= RcvWnd
      /\ k.rcv_nxt = Nr(sn, r) /\ k.rcv_queue = SubSeq(D, q, r - 1)
  BY DataIs, Words DEF Receiver
<1>1. Received(k, k, sn, D, q, r, r) BY <1>0 DEF Received
<1>2. TimeDiff(Nr(sn, j), (k.rcv_nxt + RcvWnd) % Word) = j - (r + RcvWnd)
  <2>1. PICK l \in Nat : l = r + RcvWnd BY <1>0
  <2>2. (Nr(sn, r) + RcvWnd) % Word = Nr(sn, l)
    <3>1. 1 <= r /\ r + RcvWnd <= Word BY <1>0
    <3> QED BY <1>0, <2>1, <3>1, NrPlus
  <2>3. /\ 1 <= j /\ j <= Word /\ 1 <= l /\ l <= Word /\ j - l < Half /\ l - j <= Half /\ j \in Nat
    BY <1>0, <2>1
  <2>4. TimeDiff(Nr(sn, j), Nr(sn, l)) = j - l BY <2>3, TimeDiffIs
  <2> QED BY <1>0, <2>1, <2>2, <2>4
<1>3. TimeDiff(Nr(sn, j), k.rcv_nxt) = j - r
  <2>1. 1 <= j /\ j <= Word /\ r <= Word /\ j - r < Half /\ r - j <= Half /\ j \in Nat BY <1>0
  <2> QED BY <1>0, <2>1, TimeDiffIs
<1>4. CASE j - (r + RcvWnd) >= 0
  <2>1. ParsePush(k, Nr(sn, j), D[j]) = k BY <1>2, <1>4 DEF ParsePush
  <2> QED BY <1>1, <2>1
<1>5. CASE ~(j - (r + RcvWnd) >= 0)
  <2> DEFINE acked == [k EXCEPT !.acklist = Append(@, Nr(sn, j))]
  <2>1. ParsePush(k, Nr(sn, j), D[j]) = IF j - r >= 0 THEN ParseData(acked, Nr(sn, j), D[j]) ELSE acked
    BY <1>2, <1>3, <1>5 DEF ParsePush
  <2>2. /\ DOMAIN acked = Fields /\ acked.acklist = Append(k.acklist, Nr(sn, j))
        /\ acked.rcv_nxt = k.rcv_nxt /\ acked.rcv_buf = k.rcv_buf /\ acked.rcv_queue = k.rcv_queue
    BY DEF Fields
  <2> HIDE DEF acked
  <2>3. ASSUME NEW h, h.acklist = acked.acklist, Has(k, sn, D, r) \subseteq Has(h, sn, D, r),
               j \in Has(h, sn, D, r)
        PROVE  Acks(h, sn, D, r)
    <3>1. k.acklist \in Seq(SegmentNumbers) BY DEF Acks
    <3>2. Nr(sn, j) \in SegmentNumbers
      <4>1. j \in Nat /\ 1 <= j /\ j <= Word BY <1>0
      <4> QED BY <4>1, NrIs
    <3>3. h.acklist \in Seq(SegmentNumbers) BY <2>2, <2>3, <3>1, <3>2
    <3>4. ASSUME NEW i \in 1..Len(h.acklist)
          PROVE  \E x \in Has(h, sn, D, r) : h.acklist[i] = Nr(sn, x)
      <4>1. Len(h.acklist) = Len(k.acklist) + 1 BY <2>2, <2>3, <3>1, <3>2
      <4>2. CASE i = Len(k.acklist) + 1
        <5>1. h.acklist[i] = Nr(sn, j) BY <2>2, <2>3, <3>1, <3>2, <4>2
        <5> QED BY <2>3, <5>1
      <4>3. CASE i # Len(k.acklist) + 1
        <5>1. i \in 1..Len(k.acklist) /\ h.acklist[i] = k.acklist[i]
          BY <2>2, <2>3, <3>1, <3>2, <4>1, <4>3
        <5> QED BY <2>3, <5>1 DEF Acks
      <4> QED BY <4>2, <4>3
    <3> QED BY <3>3, <3>4 DEF Acks
  <2>4. CASE ~(j - r >= 0)
    <3>1. j < r /\ ParsePush(k, Nr(sn, j), D[j]) = acked BY <1>0, <2>1, <2>4
    <3>2. Has(acked, sn, D, r) = Has(k, sn, D, r) /\ j \in Has(acked, sn, D, r)
      BY <2>2, <3>1 DEF Has
    <3>3. Acks(acked, sn, D, r) BY <2>3, <3>2
    <3>4. Receiver(acked, sn, D, q, r) BY <2>2 DEF Receiver
    <3>5. Received(k, acked, sn, D, q, r, r) BY <1>0, <3>2, <3>3, <3>4 DEF Received
    <3> QED BY <3>1, <3>5
  <2>5. CASE j - r >= 0
    <3> DEFINE new == ~\E s \in acked.rcv_buf : s.sn = Nr(sn, j)
               kept == IF new THEN [acked EXCEPT !.rcv_buf = @ \cup {Seg(sn, D, j)}] ELSE acked
    <3>1. ParsePush(k, Nr(sn, j), D[j]) = MoveAvailable(kept, Room(acked))
      BY <2>1, <2>5 DEF ParseData, Seg
    <3>2. /\ DOMAIN kept = Fields /\ kept.acklist = acked.acklist
          /\ kept.rcv_nxt = k.rcv_nxt /\ kept.rcv_queue = k.rcv_queue
      BY <2>2 DEF Fields
    <3>3. kept.rcv_buf = k.rcv_buf \cup {Seg(sn, D, j)}
      <4>1. CASE new BY <2>2, <4>1 DEF Fields
      <4>2. CASE ~new
        <5>1. PICK s \in k.rcv_buf : s.sn = Nr(sn, j) BY <2>2, <4>2
        <5>2. PICK i \in r..Len(D) : s = Seg(sn, D, i) BY DEF Receiver
        <5>3. Nr(sn, i) = Nr(sn, j) BY <5>1, <5>2 DEF Seg
        <5>4. i \in 1..(Len(D) + RcvWnd) /\ j \in 1..(Len(D) + RcvWnd) BY <1>0
        <5>5. i = j BY <5>3, <5>4, SegInjective
        <5>6. Seg(sn, D, j) \in k.rcv_buf BY <5>2, <5>5
        <5>7. kept = acked BY <4>2
        <5> HIDE DEF kept, new
        <5> QED BY <2>2, <5>6, <5>7
      <4> QED BY <4>1, <4>2
    <3> HIDE DEF kept, new
    <3>4. Receiver(kept, sn, D, q, r)
      <4>1. j \in r..Len(D) /\ j < r + RcvWnd BY <1>0, <1>5, <2>5
      <4> QED BY <3>2, <3>3, <4>1 DEF Receiver
    <3>5. Has(k, sn, D, r) \subseteq Has(kept, sn, D, r) /\ j \in Has(kept, sn, D, r)
      BY <3>3 DEF Has
    <3>6. Acks(kept, sn, D, r) BY <2>3, <3>2, <3>5
    <3>7. Room(acked) \in Nat /\ Room(acked) <= RcvWnd - (r - q)
      <4>1. Len(acked.rcv_queue) = r - q
        <5>1. PICK h \in Int : h = r - 1 BY <1>0
        <5>2. 1 <= q /\ q <= h + 1 /\ h <= Len(D) /\ h - q + 1 = r - q BY <1>0, <5>1
        <5>3. Len(SubSeq(D, q, h)) = h - q + 1 BY <1>0, <5>2, SubSeqIs
        <5> QED BY <1>0, <2>2, <5>1, <5>2, <5>3
      <4>2. Room(acked) = IF r - q < RcvWnd THEN RcvWnd - (r - q) ELSE 0
        BY <4>1 DEF Room
      <4> QED BY <1>0, <4>2
    <3>8. PICK k2 : k2 = MoveAvailable(kept, Room(acked)) OBVIOUS
    <3>9. PICK r2 \in r..(Len(D) + 1) :
             /\ r2 - r <= Room(acked)
             /\ k2.rcv_nxt = Nr(sn, r2)
             /\ \A s \in k2.rcv_buf : \E i \in r2..Len(D) : i < r2 + RcvWnd /\ s = Seg(sn, D, i)
             /\ k2.rcv_queue = SubSeq(D, q, r2 - 1)
             /\ Has(kept, sn, D, r) \subseteq Has(k2, sn, D, r2)
             /\ Acks(k2, sn, D, r2)
      <4>1. Room(acked) <= RcvWnd BY <1>0, <3>7
      <4> QED BY <3>2, <3>4, <3>6, <3>7, <3>8, <4>1, MoveReceives
    <3>10. Receiver(k2, sn, D, q, r2)
      <4>1. PICK h \in Int : h = Room(acked) /\ r2 - r <= h /\ h <= RcvWnd - (r - q) BY <3>7, <3>9
      <4>2. q \in 1..r2 /\ r2 \in 1..(Len(D) + 1) /\ r2 - q <= RcvWnd BY <1>0, <3>9, <4>1
      <4> QED BY <3>9, <4>2 DEF Receiver
    <3>11. r <= r2 BY <3>9
    <3>12. Received(k, k2, sn, D, q, r, r2) BY <3>5, <3>9, <3>10, <3>11 DEF Received
    <3> QED BY <3>1, <3>8, <3>12
  <2> QED BY <2>4, <2>5
<1> QED BY <1>4, <1>5

\* ikcp_recv until there is nothing more to read.
LEMMA RecvAllReceives ==
    ASSUME NEW sn \in SegmentNumbers, NEW D, Data(D), NEW k, DOMAIN k = Fields, NEW q, NEW r,
           Receiver(k, sn, D, q, r), Acks(k, sn, D, r)
    PROVE  \E r2 \in Nat :
              /\ q <= r2 /\ r2 <= Len(D) + 1
              /\ Received(k, KcpRecvAll(k).kcp, sn, D, r2, r, r2)
              /\ KcpRecvAll(k).data = SubSeq(D, q, r2 - 1)
<1>0. /\ Len(D) \in Nat /\ D \in Seq(Pieces) /\ RcvWnd \in Nat
      /\ r \in Nat /\ q \in Nat /\ 1 <= q /\ q <= r /\ r <= Len(D) + 1
  BY DataIs, Words DEF Receiver
<1>1. Cardinality(k.rcv_buf) \in Nat /\ Cardinality(k.rcv_buf) <= RcvWnd
  <2>1. PICK hi : hi = r + RcvWnd - 1 OBVIOUS
  <2>2. hi \in Int /\ r <= hi + 1 /\ hi - r + 1 = RcvWnd BY <1>0, <2>1
  <2>3. \A s \in k.rcv_buf : \E j \in r..hi : s = Seg(sn, D, j)
    <3> TAKE s \in k.rcv_buf
    <3>1. PICK j \in r..Len(D) : j < r + RcvWnd /\ s = Seg(sn, D, j) BY DEF Receiver
    <3>2. j \in r..hi BY <1>0, <2>1, <3>1
    <3> QED BY <3>1, <3>2
  <2>4. PICK S : S = k.rcv_buf OBVIOUS
  <2>5. \A s \in S : \E j \in r..hi : s = Seg(sn, D, j) BY <2>3, <2>4
  <2>6. r \in Int BY <1>0
  <2>7. Cardinality(S) \in Nat /\ Cardinality(S) <= hi - r + 1
    BY ONLY <2>2, <2>5, <2>6, SegsFinite
  <2> QED BY <2>2, <2>4, <2>7
<1>2. PICK all : all = MoveAvailable(k, Cardinality(k.rcv_buf)) OBVIOUS
<1>3. PICK r2 \in r..(Len(D) + 1) :
         /\ DOMAIN all = Fields
         /\ all.rcv_nxt = Nr(sn, r2)
         /\ \A s \in all.rcv_buf : \E j \in r2..Len(D) : j < r2 + RcvWnd /\ s = Seg(sn, D, j)
         /\ all.rcv_queue = SubSeq(D, q, r2 - 1)
         /\ Has(k, sn, D, r) \subseteq Has(all, sn, D, r2)
         /\ Acks(all, sn, D, r2)
  BY <1>1, <1>2, MoveReceives
<1>4. PICK x, k2 : x = (all.ask_tell \/ Room(k) = 0) /\ k2 = [all EXCEPT !.rcv_queue = <<>>, !.ask_tell = x]
  OBVIOUS
<1>5. KcpRecvAll(k).data = all.rcv_queue /\ KcpRecvAll(k).kcp = k2
  BY <1>2, <1>4 DEF KcpRecvAll
<1>6. /\ k2.rcv_nxt = all.rcv_nxt /\ k2.rcv_buf = all.rcv_buf /\ k2.rcv_queue = <<>>
      /\ k2.acklist = all.acklist
  BY <1>3, <1>4 DEF Fields
<1>7. SubSeq(D, r2, r2 - 1) = <<>>
  <2>1. PICK h \in Int : h = r2 - 1 OBVIOUS
  <2>2. 1 <= r2 /\ r2 <= h + 1 /\ h <= Len(D) /\ h - r2 + 1 = 0 /\ r2 \in Int BY <1>0, <2>1
  <2>3. SubSeq(D, r2, h) \in Seq(Pieces) /\ Len(SubSeq(D, r2, h)) = h - r2 + 1 BY <1>0, <2>2, SubSeqIs
  <2> QED BY <2>1, <2>2, <2>3, EmptySeq
<1>8. Receiver(k2, sn, D, r2, r2)
  <2>1. r2 \in 1..r2 /\ r2 \in 1..(Len(D) + 1) /\ r2 - r2 <= RcvWnd BY <1>0
  <2> QED BY <1>3, <1>6, <1>7, <2>1 DEF Receiver
<1>9. Has(all, sn, D, r2) = Has(k2, sn, D, r2) /\ Acks(k2, sn, D, r2) BY <1>3, <1>6 DEF Has, Acks
<1>10. r2 \in Nat /\ r <= r2 /\ q <= r2 /\ r2 <= Len(D) + 1 BY <1>0
<1>11. Received(k, k2, sn, D, r2, r, r2) BY <1>3, <1>8, <1>9, <1>10 DEF Received
<1> QED BY <1>3, <1>5, <1>10, <1>11

(* --------------------------- acknowledgements ---------------------------- *)

\* From the block k to k2 the sender has dropped only pieces in H.
Answered(k, k2, sn, D, u, u2, H) ==
    /\ u <= u2
    /\ Sender(k2, sn, D, u2)
    /\ k2.snd_queue = k.snd_queue
    /\ \A j \in 1..Len(D) : Seg(sn, D, j) \in k.snd_buf => Seg(sn, D, j) \in k2.snd_buf \/ j \in H

\* What is acknowledged is so for good.
LEMMA AnsweredTwice ==
    ASSUME NEW k1, NEW k2, NEW k3, NEW sn, NEW D, Len(D) \in Nat, NEW H,
           NEW u1 \in Int, NEW u2, NEW u3,
           Answered(k1, k2, sn, D, u1, u2, H), Answered(k2, k3, sn, D, u2, u3, H)
    PROVE  Answered(k1, k3, sn, D, u1, u3, H)
<1>1. u2 \in Int /\ u3 \in Int BY DEF Answered, Sender
<1>2. u1 <= u3 BY <1>1 DEF Answered
<1> QED BY <1>2 DEF Answered

\* The block k without some of its unacknowledged segments.
LEMMA DropAnswers ==
    ASSUME NEW sn, NEW D, Len(D) \in Nat, NEW k, DOMAIN k = Fields, NEW u, Sender(k, sn, D, u), NEW H,
           NEW B \in SUBSET k.snd_buf,
           \A j \in 1..Len(D) : Seg(sn, D, j) \in k.snd_buf \ B => j \in H,
           NEW k2, k2 = [k EXCEPT !.snd_buf = B]
    PROVE  Answered(k, k2, sn, D, u, u, H) /\ DOMAIN k2 = Fields
<1>1. /\ DOMAIN k2 = Fields /\ k2.snd_buf = B /\ k2.snd_una = k.snd_una /\ k2.snd_nxt = k.snd_nxt
      /\ k2.snd_queue = k.snd_queue
  BY DEF Fields
<1>2. u \in Int /\ u <= u BY DEF Sender
<1>3. Sender(k2, sn, D, u) BY <1>1 DEF Sender
<1> QED BY <1>1, <1>2, <1>3 DEF Answered

\* ikcp_shrink_buf: the oldest number that is not acknowledged.
LEMMA ShrinkAnswers ==
    ASSUME NEW sn \in SegmentNumbers, NEW D, Data(D), NEW k, DOMAIN k = Fields, NEW u,
           Sender(k, sn, D, u), NEW H
    PROVE  \E u2 : Answered(k, ShrinkBuf(k), sn, D, u, u2, H) /\ DOMAIN ShrinkBuf(k) = Fields
<1>0. /\ Len(D) \in Nat /\ SndWnd \in Nat /\ Len(D) + RcvWnd < Half /\ Half \in Nat /\ RcvWnd \in Nat
      /\ u \in Nat /\ 1 <= u /\ u <= Len(D) + 1 /\ Len(D) + 1 - u <= SndWnd
      /\ Word = 2 * Half
  BY DataIs, Words DEF Sender
<1>1. ASSUME NEW u2 \in u..(Len(D) + 1), NEW k2, k2 = [k EXCEPT !.snd_una = Nr(sn, u2)],
             \A s \in k.snd_buf : \E j \in u2..Len(D) : s = Seg(sn, D, j)
      PROVE  Answered(k, k2, sn, D, u, u2, H) /\ DOMAIN k2 = Fields
  <2>1. /\ DOMAIN k2 = Fields /\ k2.snd_buf = k.snd_buf /\ k2.snd_una = Nr(sn, u2)
        /\ k2.snd_nxt = k.snd_nxt /\ k2.snd_queue = k.snd_queue
    BY <1>1 DEF Fields
  <2>2. u <= u2 /\ u2 \in 1..(Len(D) + 1) /\ Len(D) + 1 - u2 <= SndWnd BY <1>0
  <2>3. Sender(k2, sn, D, u2) BY <1>1, <2>1, <2>2 DEF Sender
  <2> QED BY <2>1, <2>2, <2>3 DEF Answered
<1>2. CASE k.snd_buf = {}
  <2>1. ShrinkBuf(k) = [k EXCEPT !.snd_una = Nr(sn, Len(D) + 1)]
    BY <1>2 DEF ShrinkBuf, Sender
  <2>2. Len(D) + 1 \in u..(Len(D) + 1) BY <1>0
  <2> QED BY <1>1, <1>2, <2>1, <2>2
<1>3. CASE k.snd_buf # {}
  <2> DEFINE First(s) == \A t \in k.snd_buf \ {s} : Before(s, t)
             f == CHOOSE s \in k.snd_buf : First(s)
  <2>1. ASSUME NEW i \in u..Len(D), NEW j \in u..Len(D)
        PROVE  Before(Seg(sn, D, i), Seg(sn, D, j)) <=> i < j
    <3>1. 1 <= i /\ i <= Word /\ 1 <= j /\ j <= Word /\ i - j < Half /\ j - i <= Half
          /\ i \in Nat /\ j \in Nat
      BY <1>0
    <3>2. TimeDiff(Nr(sn, i), Nr(sn, j)) = i - j BY <3>1, TimeDiffIs
    <3> QED BY <3>1, <3>2 DEF Before, Seg
  <2>2. \E s \in k.snd_buf : First(s)
    <3> DEFINE I == {j \in u..Len(D) : Seg(sn, D, j) \in k.snd_buf}
    <3>1. I # {} BY <1>3 DEF Sender
    <3>2. I \in SUBSET Nat BY <1>0
    <3>3. PICK x \in I : \A i \in I : x <= i BY <3>1, <3>2, FirstExists
    <3>4. ASSUME NEW t \in k.snd_buf \ {Seg(sn, D, x)} PROVE Before(Seg(sn, D, x), t)
      <4>1. PICK i \in u..Len(D) : t = Seg(sn, D, i) BY DEF Sender
      <4>2. i \in I /\ i # x BY <4>1
      <4>3. x <= i /\ x \in Nat /\ i \in Nat BY <3>2, <3>3, <4>2
      <4>4. x < i BY <4>2, <4>3
      <4> QED BY <2>1, <4>1, <4>4
    <3> QED BY <3>3, <3>4
  <2>3. f \in k.snd_buf /\ First(f)
    <3> HIDE DEF First
    <3> QED BY <2>2
  <2>4. ShrinkBuf(k) = [k EXCEPT !.snd_una = f.sn] BY <1>3 DEF ShrinkBuf
  <2> HIDE DEF f
  <2>5. PICK u2 \in u..Len(D) : f = Seg(sn, D, u2) BY <2>3 DEF Sender
  <2>6. ASSUME NEW s \in k.snd_buf PROVE \E j \in u2..Len(D) : s = Seg(sn, D, j)
    <3>1. PICK j \in u..Len(D) : s = Seg(sn, D, j) BY DEF Sender
    <3>2. CASE j = u2
      <4>1. j \in u2..Len(D) BY <1>0, <3>2
      <4> QED BY <3>1, <4>1
    <3>3. CASE j # u2
      <4>1. s # f
        <5>1. SUFFICES ASSUME s = f PROVE FALSE OBVIOUS
        <5>2. Nr(sn, j) = Nr(sn, u2) BY <2>5, <3>1, <5>1 DEF Seg
        <5>3. j \in 1..(Len(D) + RcvWnd) /\ u2 \in 1..(Len(D) + RcvWnd) BY <1>0
        <5> QED BY <3>3, <5>2, <5>3, SegInjective
      <4>2. Before(f, s) BY <2>3, <4>1
      <4>3. u2 < j BY <2>1, <2>5, <3>1, <4>2
      <4>4. j \in u2..Len(D) BY <1>0, <4>3
      <4> QED BY <3>1, <4>4
    <3> QED BY <3>2, <3>3
  <2>7. ShrinkBuf(k) = [k EXCEPT !.snd_una = Nr(sn, u2)] BY <2>4, <2>5 DEF Seg
  <2>8. u2 \in u..(Len(D) + 1) BY <1>0
  <2> QED BY <1>1, <2>6, <2>7, <2>8
<1> QED BY <1>2, <1>3

\* An acknowledgement of all before the i-th.
LEMMA UnaAnswers ==
    ASSUME NEW sn \in SegmentNumbers, NEW D, Data(D), NEW k, DOMAIN k = Fields, NEW u,
           Sender(k, sn, D, u), NEW H, NEW i \in 1..(Len(D) + 1), 1..(i - 1) \subseteq H
    PROVE  /\ Answered(k, ParseUna(k, Nr(sn, i)), sn, D, u, u, H)
           /\ DOMAIN ParseUna(k, Nr(sn, i)) = Fields
<1> DEFINE B == {s \in k.snd_buf : TimeDiff(Nr(sn, i), s.sn) <= 0}
<1>0. /\ Len(D) \in Nat /\ Len(D) + RcvWnd < Half /\ Half \in Nat /\ RcvWnd \in Nat
      /\ Word = 2 * Half
  BY DataIs, Words
<1>1. ParseUna(k, Nr(sn, i)) = [k EXCEPT !.snd_buf = B] BY DEF ParseUna
<1>2. ASSUME NEW j \in 1..Len(D), Seg(sn, D, j) \in k.snd_buf \ B PROVE j \in H
  <2>1. 1 <= i /\ i <= Word /\ 1 <= j /\ j <= Word /\ i - j < Half /\ j - i <= Half
        /\ i \in Nat /\ j \in Nat
    BY <1>0
  <2>2. TimeDiff(Nr(sn, i), Nr(sn, j)) = i - j BY <2>1, TimeDiffIs
  <2>3. ~(i - j <= 0) BY <1>2, <2>2 DEF Seg
  <2>4. j \in 1..(i - 1) BY <2>1, <2>3
  <2> QED BY <2>4
<1>3. B \in SUBSET k.snd_buf OBVIOUS
<1> HIDE DEF B
<1> QED BY <1>0, <1>1, <1>2, <1>3, DropAnswers

\* An acknowledgement of the i-th.
LEMMA AckAnswers ==
    ASSUME NEW sn \in SegmentNumbers, NEW D, Data(D), NEW k, DOMAIN k = Fields, NEW u,
           Sender(k, sn, D, u), NEW H, NEW i \in 1..Len(D), i \in H
    PROVE  /\ Answered(k, ParseAck(k, Nr(sn, i)), sn, D, u, u, H)
           /\ DOMAIN ParseAck(k, Nr(sn, i)) = Fields
<1> DEFINE B == {s \in k.snd_buf : s.sn # Nr(sn, i)}
<1>0. Len(D) \in Nat /\ RcvWnd \in Nat BY DataIs, Words
<1>1. ParseAck(k, Nr(sn, i)) = [k EXCEPT !.snd_buf = B] \/ ParseAck(k, Nr(sn, i)) = k BY DEF ParseAck
<1>2. ASSUME NEW j \in 1..Len(D), Seg(sn, D, j) \in k.snd_buf \ B PROVE j \in H
  <2>1. Nr(sn, i) = Nr(sn, j) BY <1>2 DEF Seg
  <2>2. i \in 1..(Len(D) + RcvWnd) /\ j \in 1..(Len(D) + RcvWnd) BY <1>0
  <2>3. i = j BY <2>1, <2>2, SegInjective
  <2> QED BY <2>3
<1>3. B \in SUBSET k.snd_buf OBVIOUS
<1> HIDE DEF B
<1>4. Answered(k, k, sn, D, u, u, H)
  <2>1. u \in Int /\ u <= u BY DEF Sender
  <2> QED BY <2>1 DEF Answered
<1> QED BY <1>0, <1>1, <1>2, <1>3, <1>4, DropAnswers

(* ------------------------------- segments -------------------------------- *)

Block(k) == DOMAIN k = Fields /\ k.rmt_wnd \in Nat

\* A segment on the way.
IsSegment(seg) == seg.cmd \in {"ACK", "PUSH", "WASK", "WINS"} /\ seg.wnd \in Nat

\* What it brings is one of the pieces of D.
IsPush(seg, sn, D) ==
    seg.cmd = "PUSH" => \E j \in 1..Len(D) : seg.sn = Nr(sn, j) /\ seg.data = D[j]

\* What it acknowledges is in H.
IsAck(seg, sn, D, H) ==
    /\ \E i \in 1..(Len(D) + 1) : seg.una = Nr(sn, i) /\ 1..(i - 1) \subseteq H
    /\ seg.cmd = "ACK" => \E i \in 1..Len(D) : i \in H /\ seg.sn = Nr(sn, i)

SameReceiver(k, k2) ==
    /\ DOMAIN k2 = DOMAIN k
    /\ k2.rcv_nxt = k.rcv_nxt /\ k2.rcv_buf = k.rcv_buf /\ k2.rcv_queue = k.rcv_queue
    /\ k2.acklist = k.acklist

\* A step that leaves what the block receives alone.
LEMMA Receives ==
    ASSUME NEW sn, NEW D, NEW k, NEW k2, SameReceiver(k, k2), NEW q, NEW r,
           Receiver(k, sn, D, q, r), Acks(k, sn, D, r)
    PROVE  Received(k, k2, sn, D, q, r, r)
<1>1. r <= r BY DEF Receiver
<1>2. Has(k2, sn, D, r) = Has(k, sn, D, r) BY DEF SameReceiver, Has
<1>3. Receiver(k2, sn, D, q, r) BY DEF SameReceiver, Receiver
<1>4. Acks(k2, sn, D, r) BY <1>2 DEF SameReceiver, Acks
<1> QED BY <1>1, <1>2, <1>3, <1>4 DEF Received

\* A step that leaves what the block sends alone.
LEMMA Answers ==
    ASSUME NEW sn, NEW D, NEW k, NEW k2, NEW u, Sender(k, sn, D, u), NEW H, SameSender(k, k2)
           \/ /\ DOMAIN k2 = DOMAIN k /\ k2.snd_una = k.snd_una /\ k2.snd_nxt = k.snd_nxt
              /\ k2.snd_buf = k.snd_buf /\ k2.snd_queue = k.snd_queue
    PROVE  Answered(k, k2, sn, D, u, u, H)
<1>1. u <= u BY DEF Sender
<1>2. Sender(k2, sn, D, u) BY DEF SameSender, Sender
<1> QED BY <1>1, <1>2 DEF Answered, SameSender

\* What ParseUna and ShrinkBuf leave.
LEMMA KnownIs ==
    ASSUME NEW k, Block(k), NEW seg, IsSegment(seg)
    PROVE  LET known == ShrinkBuf(ParseUna([k EXCEPT !.rmt_wnd = seg.wnd], seg.una))
           IN  Block(known) /\ SameReceiver(k, known)
<1>1. PICK k1 : k1 = [k EXCEPT !.rmt_wnd = seg.wnd] OBVIOUS
<1>2. DOMAIN k1 = Fields /\ k1.rmt_wnd = seg.wnd /\ SameReceiver(k, k1)
  BY <1>1 DEF Block, Fields, SameReceiver
<1>3. PICK k2 : k2 = ParseUna(k1, seg.una) OBVIOUS
<1>4. DOMAIN k2 = Fields /\ k2.rmt_wnd = seg.wnd /\ SameReceiver(k, k2)
  <2>1. PICK B : k2 = [k1 EXCEPT !.snd_buf = B] BY <1>3 DEF ParseUna
  <2> QED BY <1>2, <2>1 DEF Fields, SameReceiver
<1>5. PICK k3 : k3 = ShrinkBuf(k2) OBVIOUS
<1>6. DOMAIN k3 = Fields /\ k3.rmt_wnd = seg.wnd /\ SameReceiver(k, k3)
  <2>1. PICK x : k3 = [k2 EXCEPT !.snd_una = x] BY <1>5 DEF ShrinkBuf
  <2> QED BY <1>4, <2>1 DEF Fields, SameReceiver
<1> QED BY <1>1, <1>3, <1>5, <1>6 DEF Block, IsSegment

\* A segment taken in by ikcp_input, for the data that comes.
LEMMA InputReceives ==
    ASSUME NEW sn \in SegmentNumbers, NEW D, Data(D), NEW k, Block(k), NEW q, NEW r,
           Receiver(k, sn, D, q, r), Acks(k, sn, D, r),
           NEW seg, IsSegment(seg), IsPush(seg, sn, D)
    PROVE  \E r2 : Received(k, InputSegment(k, seg), sn, D, q, r, r2)
<1>1. PICK known : known = ShrinkBuf(ParseUna([k EXCEPT !.rmt_wnd = seg.wnd], seg.una)) OBVIOUS
<1>2. DOMAIN known = Fields /\ SameReceiver(k, known) BY <1>1, KnownIs DEF Block
<1>3. Received(k, known, sn, D, q, r, r) BY <1>2, Receives
<1>4. PICK k2 : k2 = InputSegment(k, seg) OBVIOUS
<1>5. CASE seg.cmd = "ACK"
  <2>1. k2 = ShrinkBuf(ParseAck(known, seg.sn)) BY <1>1, <1>4, <1>5 DEF InputSegment
  <2>2. PICK k3 : k3 = ParseAck(known, seg.sn) OBVIOUS
  <2>3. DOMAIN k3 = Fields /\ SameReceiver(k, k3)
    <3>1. PICK B : k3 = known \/ k3 = [known EXCEPT !.snd_buf = B] BY <2>2 DEF ParseAck
    <3> QED BY <1>2, <3>1 DEF Fields, SameReceiver
  <2>4. SameReceiver(k, k2)
    <3>1. PICK x : k2 = [k3 EXCEPT !.snd_una = x] BY <2>1, <2>2 DEF ShrinkBuf
    <3> QED BY <2>3, <3>1 DEF Fields, SameReceiver
  <2> QED BY <1>4, <2>4, Receives
<1>6. CASE seg.cmd = "PUSH"
  <2>1. k2 = ParsePush(known, seg.sn, seg.data) BY <1>1, <1>4, <1>6 DEF InputSegment
  <2>2. PICK j \in 1..Len(D) : seg.sn = Nr(sn, j) /\ seg.data = D[j] BY <1>6 DEF IsPush
  <2>3. Receiver(known, sn, D, q, r) /\ Acks(known, sn, D, r) BY <1>3 DEF Received
  <2>4. PICK r2 : Received(known, k2, sn, D, q, r, r2)
    BY <1>2, <2>1, <2>2, <2>3, PushReceives
  <2>5. r \in Int /\ Len(D) \in Nat BY DataIs DEF Receiver
  <2>6. Received(k, k2, sn, D, q, r, r2) BY <1>3, <2>4, <2>5, ReceivedTwice
  <2> QED BY <1>4, <2>6
<1>7. CASE seg.cmd = "WASK"
  <2>1. k2 = [known EXCEPT !.ask_tell = TRUE] BY <1>1, <1>4, <1>7 DEF InputSegment
  <2>2. SameReceiver(k, k2) BY <1>2, <2>1 DEF Fields, SameReceiver
  <2> QED BY <1>4, <2>2, Receives
<1>8. CASE seg.cmd = "WINS"
  <2>1. k2 = known BY <1>1, <1>4, <1>8 DEF InputSegment
  <2> QED BY <1>3, <1>4, <2>1
<1> QED BY <1>5, <1>6, <1>7, <1>8 DEF IsSegment

\* It leaves the fields of a block.
LEMMA InputBlock ==
    ASSUME NEW k, Block(k), NEW seg, IsSegment(seg)
    PROVE  Block(InputSegment(k, seg))
<1>1. PICK known : known = ShrinkBuf(ParseUna([k EXCEPT !.rmt_wnd = seg.wnd], seg.una)) OBVIOUS
<1>2. Block(known) BY <1>1, KnownIs
<1>3. PICK r : r = InputSegment(k, seg) OBVIOUS
<1>4. CASE seg.cmd = "ACK"
  <2>1. r = ShrinkBuf(ParseAck(known, seg.sn)) BY <1>1, <1>3, <1>4 DEF InputSegment
  <2>2. PICK k4 : k4 = ParseAck(known, seg.sn) OBVIOUS
  <2>3. PICK B : k4 = known \/ k4 = [known EXCEPT !.snd_buf = B] BY <2>2 DEF ParseAck
  <2>4. PICK x : r = [k4 EXCEPT !.snd_una = x] BY <2>1, <2>2 DEF ShrinkBuf
  <2> QED BY <1>2, <1>3, <2>3, <2>4 DEF Block, Fields
<1>5. CASE seg.cmd = "PUSH"
  <2>1. r = ParsePush(known, seg.sn, seg.data) BY <1>1, <1>3, <1>5 DEF InputSegment
  <2>2. SameSender(known, r) BY <1>2, <2>1, ParsePushSends DEF Block
  <2> QED BY <1>2, <1>3, <2>2 DEF Block, SameSender
<1>6. CASE seg.cmd = "WASK"
  <2>1. r = [known EXCEPT !.ask_tell = TRUE] BY <1>1, <1>3, <1>6 DEF InputSegment
  <2> QED BY <1>2, <1>3, <2>1 DEF Block, Fields
<1>7. CASE seg.cmd = "WINS"
  <2>1. r = known BY <1>1, <1>3, <1>7 DEF InputSegment
  <2> QED BY <1>2, <1>3, <2>1
<1> QED BY <1>4, <1>5, <1>6, <1>7 DEF IsSegment

\* A segment taken in by ikcp_input, for the data that goes.
LEMMA InputAnswers ==
    ASSUME NEW sn \in SegmentNumbers, NEW D, Data(D), NEW k, Block(k), NEW u, Sender(k, sn, D, u),
           NEW H, NEW seg, IsSegment(seg), IsAck(seg, sn, D, H)
    PROVE  \E u2 : Answered(k, InputSegment(k, seg), sn, D, u, u2, H)
<1>0. u \in Int /\ Len(D) \in Nat BY DataIs DEF Sender
<1>1. PICK k1 : k1 = [k EXCEPT !.rmt_wnd = seg.wnd] OBVIOUS
<1>2. DOMAIN k1 = Fields /\ Answered(k, k1, sn, D, u, u, H)
  <2>1. /\ DOMAIN k1 = DOMAIN k /\ k1.snd_una = k.snd_una /\ k1.snd_nxt = k.snd_nxt
        /\ k1.snd_buf = k.snd_buf /\ k1.snd_queue = k.snd_queue
    BY <1>1 DEF Block, Fields
  <2> QED BY <2>1, Answers DEF Block
<1>3. PICK k2 : k2 = ParseUna(k1, seg.una) OBVIOUS
<1>4. DOMAIN k2 = Fields /\ Answered(k1, k2, sn, D, u, u, H)
  <2>1. PICK i \in 1..(Len(D) + 1) : seg.una = Nr(sn, i) /\ 1..(i - 1) \subseteq H BY DEF IsAck
  <2>2. Sender(k1, sn, D, u) BY <1>2 DEF Answered
  <2> QED BY <1>2, <1>3, <2>1, <2>2, UnaAnswers
<1>5. PICK known : known = ShrinkBuf(k2) OBVIOUS
<1>6. PICK u3 : DOMAIN known = Fields /\ Answered(k2, known, sn, D, u, u3, H)
  <2>1. Sender(k2, sn, D, u) BY <1>4 DEF Answered
  <2> QED BY <1>4, <1>5, <2>1, ShrinkAnswers
<1>7. Answered(k, known, sn, D, u, u3, H)
  <2>1. Answered(k, k2, sn, D, u, u, H) BY <1>0, <1>2, <1>4, AnsweredTwice
  <2> QED BY <1>0, <1>6, <2>1, AnsweredTwice
<1>9. PICK r : r = InputSegment(k, seg) OBVIOUS
<1>10. u3 \in Int /\ Sender(known, sn, D, u3) BY <1>6 DEF Answered, Sender
<1>11. CASE seg.cmd = "ACK"
  <2>1. r = ShrinkBuf(ParseAck(known, seg.sn)) BY <1>1, <1>3, <1>5, <1>9, <1>11 DEF InputSegment
  <2>2. PICK i \in 1..Len(D) : i \in H /\ seg.sn = Nr(sn, i) BY <1>11 DEF IsAck
  <2>3. PICK k4 : k4 = ParseAck(known, seg.sn) OBVIOUS
  <2>4. DOMAIN k4 = Fields /\ Answered(known, k4, sn, D, u3, u3, H)
    BY <1>6, <1>10, <2>2, <2>3, AckAnswers
  <2>5. Sender(k4, sn, D, u3) BY <2>4 DEF Answered
  <2>6. PICK u5 : DOMAIN r = Fields /\ Answered(k4, r, sn, D, u3, u5, H)
    BY <2>1, <2>3, <2>4, <2>5, ShrinkAnswers
  <2>7. Answered(known, r, sn, D, u3, u5, H) BY <1>0, <1>10, <2>4, <2>6, AnsweredTwice
  <2>8. Answered(k, r, sn, D, u, u5, H) BY <1>0, <1>7, <2>7, AnsweredTwice
  <2> QED BY <1>9, <2>8
<1>12. CASE seg.cmd = "PUSH"
  <2>1. r = ParsePush(known, seg.sn, seg.data) BY <1>1, <1>3, <1>5, <1>9, <1>12 DEF InputSegment
  <2>2. SameSender(known, r) BY <1>6, <2>1, ParsePushSends
  <2>3. Answered(known, r, sn, D, u3, u3, H) BY <1>10, <2>2, Answers
  <2>4. Answered(k, r, sn, D, u, u3, H) BY <1>0, <1>7, <2>3, AnsweredTwice
  <2> QED BY <1>9, <2>4
<1>13. CASE seg.cmd = "WASK"
  <2>1. r = [known EXCEPT !.ask_tell = TRUE] BY <1>1, <1>3, <1>5, <1>9, <1>13 DEF InputSegment
  <2>2. SameSender(known, r) BY <1>6, <2>1 DEF Fields, SameSender
  <2>3. Answered(known, r, sn, D, u3, u3, H) BY <1>10, <2>2, Answers
  <2>4. Answered(k, r, sn, D, u, u3, H) BY <1>0, <1>7, <2>3, AnsweredTwice
  <2> QED BY <1>9, <2>4
<1>14. CASE seg.cmd = "WINS"
  <2>1. r = known BY <1>1, <1>3, <1>5, <1>9, <1>14 DEF InputSegment
  <2> QED BY <1>7, <1>9, <2>1
<1> QED BY <1>11, <1>12, <1>13, <1>14 DEF IsSegment

(* ------------------------------- datagrams ------------------------------- *)

IsDatagram(d) == DOMAIN d = 1..Len(d) /\ Len(d) \in Nat /\ \A i \in 1..Len(d) : IsSegment(d[i])
Pushes(d, sn, D) == \A i \in 1..Len(d) : IsPush(d[i], sn, D)
Acknowledges(d, sn, D, H) == \A i \in 1..Len(d) : IsAck(d[i], sn, D, H)

\* A datagram taken in, for the data that comes and for the data that goes.
LEMMA DatagramKeepsBlock ==
    ASSUME NEW k, NEW d, Block(k), IsDatagram(d),
           NEW sn \in SegmentNumbers, NEW D, Data(D), NEW u, Sender(k, sn, D, u), NEW H,
           Acknowledges(d, sn, D, H)
    PROVE  /\ Block(KcpInput(k, d))
           /\ \E u2 : Answered(k, KcpInput(k, d), sn, D, u, u2, H)
<1>0. u \in Int /\ Len(D) \in Nat BY DataIs DEF Sender
<1>1. PICK g : /\ g[0] = k /\ KcpInput(k, d) = g[Len(d)]
               /\ \A i \in 1..Len(d) : g[i] = InputSegment(g[i - 1], d[i])
  BY InputFold DEF IsDatagram
<1> DEFINE P(i) == Block(g[i]) /\ \E u2 : Answered(k, g[i], sn, D, u, u2, H)
           S == {i \in Nat : i <= Len(d) => P(i)}
<1>2. P(0)
  <2>1. SameSender(k, k) BY DEF SameSender
  <2>2. Answered(k, k, sn, D, u, u, H) BY <2>1, Answers
  <2> QED BY <1>1, <2>2
<1>3. ASSUME NEW i \in Nat, i + 1 <= Len(d), P(i) PROVE P(i + 1)
  <2>1. PICK j : j = i + 1 OBVIOUS
  <2>2. j \in 1..Len(d) /\ j - 1 = i BY <1>3, <2>1 DEF IsDatagram
  <2>3. g[j] = InputSegment(g[i], d[j]) BY <1>1, <2>2
  <2>4. PICK u2 : Answered(k, g[i], sn, D, u, u2, H) BY <1>3
  <2>5. Block(g[i]) /\ Sender(g[i], sn, D, u2) BY <1>3, <2>4 DEF Answered
  <2>6. IsSegment(d[j]) /\ IsAck(d[j], sn, D, H) BY <2>2 DEF IsDatagram, Acknowledges
  <2>7. PICK u3 : Block(g[j]) /\ Answered(g[i], g[j], sn, D, u2, u3, H)
    BY <2>3, <2>5, <2>6, InputAnswers, InputBlock
  <2>8. u2 \in Int BY <2>5 DEF Sender
  <2>9. Answered(k, g[j], sn, D, u, u3, H) BY <1>0, <2>4, <2>7, <2>8, AnsweredTwice
  <2> QED BY <2>1, <2>7, <2>9
<1> HIDE DEF P
<1>4. Len(d) \in Nat BY DEF IsDatagram
<1>5. 0 \in S /\ \A i \in Nat : i \in S => i + 1 \in S BY <1>2, <1>3, <1>4
<1> HIDE DEF S
<1>6. \A i \in Nat : i \in S BY <1>5, Induction
<1>7. P(Len(d)) BY <1>4, <1>6 DEF S
<1> QED BY <1>1, <1>7 DEF P

\* The data that comes with a whole datagram.
LEMMA DatagramReceived ==
    ASSUME NEW k, NEW d, Block(k), IsDatagram(d),
           NEW sn \in SegmentNumbers, NEW D, Data(D), NEW q, NEW r, Receiver(k, sn, D, q, r),
           Acks(k, sn, D, r), Pushes(d, sn, D)
    PROVE  \E r2 : Received(k, KcpInput(k, d), sn, D, q, r, r2)
<1>0. r \in Int /\ Len(D) \in Nat BY DataIs DEF Receiver
<1>1. PICK g : /\ g[0] = k /\ KcpInput(k, d) = g[Len(d)]
               /\ \A i \in 1..Len(d) : g[i] = InputSegment(g[i - 1], d[i])
  BY InputFold DEF IsDatagram
<1> DEFINE P(i) == Block(g[i]) /\ \E r2 : Received(k, g[i], sn, D, q, r, r2)
           S == {i \in Nat : i <= Len(d) => P(i)}
<1>2. P(0)
  <2>1. SameReceiver(k, k) BY DEF SameReceiver
  <2>2. Received(k, k, sn, D, q, r, r) BY <2>1, Receives
  <2> QED BY <1>1, <2>2
<1>3. ASSUME NEW i \in Nat, i + 1 <= Len(d), P(i) PROVE P(i + 1)
  <2>1. PICK j : j = i + 1 OBVIOUS
  <2>2. j \in 1..Len(d) /\ j - 1 = i BY <1>3, <2>1 DEF IsDatagram
  <2>3. g[j] = InputSegment(g[i], d[j]) BY <1>1, <2>2
  <2>4. PICK r2 : Received(k, g[i], sn, D, q, r, r2) BY <1>3
  <2>5. Block(g[i]) /\ Receiver(g[i], sn, D, q, r2) /\ Acks(g[i], sn, D, r2)
    BY <1>3, <2>4 DEF Received
  <2>6. IsSegment(d[j]) /\ IsPush(d[j], sn, D) BY <2>2 DEF IsDatagram, Pushes
  <2>7. PICK r3 : Received(g[i], g[j], sn, D, q, r2, r3) BY <2>3, <2>5, <2>6, InputReceives
  <2>8. Block(g[j]) BY <2>3, <2>5, <2>6, InputBlock
  <2>9. Received(k, g[j], sn, D, q, r, r3) BY <1>0, <2>4, <2>7, ReceivedTwice
  <2> QED BY <2>1, <2>8, <2>9
<1> HIDE DEF P
<1>4. Len(d) \in Nat BY DEF IsDatagram
<1>5. 0 \in S /\ \A i \in Nat : i \in S => i + 1 \in S BY <1>2, <1>3, <1>4
<1> HIDE DEF S
<1>6. \A i \in Nat : i \in S BY <1>5, Induction
<1>7. P(Len(d)) BY <1>4, <1>6 DEF S
<1> QED BY <1>1, <1>7 DEF P

(* ------------------------------- in order -------------------------------- *)

\* A finite set of numbers can be written down in increasing order.
LEMMA IncreasingExists ==
    \A m \in Nat : \A J \in SUBSET (1..m) :
        \E q \in [1..Cardinality(J) -> J] : \A i, j \in 1..Cardinality(J) : i < j => q[i] < q[j]
<1> DEFINE P(m) == \A J \in SUBSET (1..m) :
               \E q \in [1..Cardinality(J) -> J] : \A i, j \in 1..Cardinality(J) : i < j => q[i] < q[j]
           S == {m \in Nat : P(m)}
<1>1. P(0)
  <2> SUFFICES ASSUME NEW J \in SUBSET (1..0)
               PROVE  \E q \in [1..Cardinality(J) -> J] :
                          \A i, j \in 1..Cardinality(J) : i < j => q[i] < q[j]
    OBVIOUS
  <2>1. Cardinality(J) = 0
    <3>1. J = {} OBVIOUS
    <3> QED BY <3>1, FS_EmptySet
  <2>2. 1..Cardinality(J) = {} BY <2>1
  <2>3. [x \in {} |-> x] \in [{} -> J] OBVIOUS
  <2> QED BY <2>2, <2>3
<1>2. ASSUME NEW m \in Nat, P(m) PROVE P(m + 1)
  <2> SUFFICES ASSUME NEW J \in SUBSET (1..(m + 1))
               PROVE  \E q \in [1..Cardinality(J) -> J] :
                          \A i, j \in 1..Cardinality(J) : i < j => q[i] < q[j]
    OBVIOUS
  <2>1. PICK K : K = J \ {m + 1} OBVIOUS
  <2>2. K \in SUBSET (1..m) BY <2>1
  <2>3. PICK q \in [1..Cardinality(K) -> K] :
            \A i, j \in 1..Cardinality(K) : i < j => q[i] < q[j]
    BY <1>2, <2>2
  <2>4. CASE m + 1 \notin J
    <3>1. K = J BY <2>1, <2>4
    <3> QED BY <2>3, <3>1
  <2>5. CASE m + 1 \in J
    <3>1. PICK c \in Nat : c = Cardinality(K) /\ Cardinality(J) = c + 1
      <4>1. IsFiniteSet(1..m) BY FS_Interval
      <4>2. IsFiniteSet(K) BY <2>2, <4>1, FS_Subset
      <4>3. m + 1 \notin K /\ J = K \cup {m + 1} BY <2>1, <2>5
      <4>4. Cardinality(K) \in Nat BY <4>2, FS_CardinalityType
      <4>5. Cardinality(J) = Cardinality(K) + 1 BY <4>2, <4>3, FS_AddElement
      <4> QED BY <4>4, <4>5
    <3> DEFINE p == [i \in 1..(c + 1) |-> IF i = c + 1 THEN m + 1 ELSE q[i]]
    <3>2. \A i \in 1..c : q[i] \in K BY <2>3, <3>1
    <3>3. p \in [1..(c + 1) -> J]
      <4>1. ASSUME NEW i \in 1..(c + 1) PROVE p[i] \in J
        <5>1. CASE i = c + 1 BY <2>5, <5>1
        <5>2. CASE i # c + 1
          <6>1. i \in 1..c BY <3>1, <5>2
          <6> QED BY <2>1, <3>2, <5>2, <6>1
        <5> QED BY <5>1, <5>2
      <4>2. p = [i \in 1..(c + 1) |-> p[i]] OBVIOUS
      <4> HIDE DEF p
      <4> QED BY <4>1, <4>2
    <3>4. ASSUME NEW i \in 1..(c + 1), NEW j \in 1..(c + 1), i < j PROVE p[i] < p[j]
      <4>1. i \in 1..c /\ i # c + 1 BY <3>1, <3>4
      <4>2. p[i] = q[i] /\ q[i] \in 1..m BY <2>2, <3>2, <4>1
      <4>3. CASE j = c + 1
        <5>1. p[j] = m + 1 BY <4>3
        <5> HIDE DEF p
        <5> QED BY <4>2, <5>1
      <4>4. CASE j # c + 1
        <5>1. j \in 1..c BY <3>1, <4>4
        <5>2. p[j] = q[j] BY <4>4
        <5>3. q[i] < q[j] BY <2>3, <3>1, <3>4, <4>1, <5>1
        <5> HIDE DEF p
        <5> QED BY <4>2, <5>2, <5>3
      <4> QED BY <4>3, <4>4
    <3> HIDE DEF p
    <3>5. 1..Cardinality(J) = 1..(c + 1) BY <3>1
    <3> QED BY <3>3, <3>4, <3>5
  <2> QED BY <2>4, <2>5
<1> HIDE DEF P
<1>3. 0 \in S /\ \A m \in Nat : m \in S => m + 1 \in S BY <1>1, <1>2
<1> HIDE DEF S
<1>4. \A m \in Nat : m \in S BY <1>3, Induction
<1>5. \A m \in Nat : P(m) BY <1>4 DEF S
<1> QED BY <1>5 DEF P

\* The order of the segments is that of their indices, also where the numbers wrap.
LEMMA BeforeIs ==
    ASSUME NEW sn \in SegmentNumbers, NEW D, Data(D), NEW i \in 1..Len(D), NEW j \in 1..Len(D)
    PROVE  Before(Seg(sn, D, i), Seg(sn, D, j)) <=> i < j
<1>0. /\ Len(D) \in Nat /\ Len(D) + RcvWnd < Half /\ Half \in Nat /\ RcvWnd \in Nat
      /\ Word = 2 * Half
  BY DataIs, Words
<1>1. 1 <= i /\ i <= Word /\ 1 <= j /\ j <= Word /\ i - j < Half /\ j - i <= Half
      /\ i \in Nat /\ j \in Nat
  BY <1>0
<1>2. TimeDiff(Nr(sn, i), Nr(sn, j)) = i - j BY <1>1, TimeDiffIs
<1> QED BY <1>1, <1>2 DEF Before, Seg

\* Segments in order: their indices grow.
LEMMA InOrderIs ==
    ASSUME NEW sn \in SegmentNumbers, NEW D, Data(D), NEW S,
           \A s \in S : \E j \in 1..Len(D) : s = Seg(sn, D, j)
    PROVE  /\ Cardinality(S) \in Nat
           /\ \E e \in [1..Cardinality(S) -> 1..Len(D)] :
                 /\ \A i, j \in 1..Cardinality(S) : i < j => e[i] < e[j]
                 /\ InOrder(S) = [i \in 1..Cardinality(S) |-> Seg(sn, D, e[i])]
                 /\ \A i \in 1..Cardinality(S) : Seg(sn, D, e[i]) \in S
<1> DEFINE J == {j \in 1..Len(D) : Seg(sn, D, j) \in S}
           c == Cardinality(S)
           Sorted(q) == \A i, j \in DOMAIN q : i < j => Before(q[i], q[j])
           q == CHOOSE p \in [1..c -> S] : Sorted(p)
<1>0. Len(D) \in Nat /\ RcvWnd \in Nat BY DataIs, Words
<1>1. IsFiniteSet(J) /\ Cardinality(J) = c /\ Cardinality(J) \in Nat
  <2>1. IsFiniteSet(1..Len(D)) BY <1>0, FS_Interval
  <2>2. IsFiniteSet(J) BY <2>1, FS_Subset
  <2> DEFINE f == [j \in J |-> Seg(sn, D, j)]
  <2>3. f \in [J -> S] OBVIOUS
  <2>4. \A s \in S : \E j \in J : f[j] = s OBVIOUS
  <2>5. ASSUME NEW i \in J, NEW j \in J, f[i] = f[j] PROVE i = j
    <3>1. Nr(sn, i) = Nr(sn, j) BY <2>5 DEF Seg
    <3>2. i \in 1..(Len(D) + RcvWnd) /\ j \in 1..(Len(D) + RcvWnd) BY <1>0
    <3> QED BY <3>1, <3>2, SegInjective
  <2> HIDE DEF f
  <2>6. ExistsBijection(J, S)
    BY <2>3, <2>4, <2>5 DEF ExistsBijection, Bijection, Injection, Surjection, IsInjective
  <2> HIDE DEF J
  <2>7. Cardinality(S) = Cardinality(J) BY <2>2, <2>6, FS_Bijection
  <2> QED BY <2>2, <2>7, FS_CardinalityType
<1>2. \E p \in [1..c -> S] : Sorted(p)
  <2>1. PICK e \in [1..Cardinality(J) -> J] : \A i, j \in 1..Cardinality(J) : i < j => e[i] < e[j]
    <3>1. J \in SUBSET (1..Len(D)) OBVIOUS
    <3> HIDE DEF J
    <3> QED BY <1>0, <3>1, IncreasingExists
  <2> DEFINE p == [i \in 1..c |-> Seg(sn, D, e[i])]
  <2>2. p \in [1..c -> S] BY <1>1, <2>1
  <2>3. ASSUME NEW i \in 1..c, NEW j \in 1..c, i < j PROVE Before(p[i], p[j])
    <3>1. e[i] < e[j] /\ e[i] \in 1..Len(D) /\ e[j] \in 1..Len(D) BY <1>1, <2>1, <2>3
    <3>2. Before(Seg(sn, D, e[i]), Seg(sn, D, e[j])) BY <3>1, BeforeIs
    <3> QED BY <3>2
  <2> HIDE DEF p, c
  <2> QED BY <2>2, <2>3
<1>3. q \in [1..c -> S] /\ Sorted(q)
  <2> HIDE DEF Sorted
  <2> QED BY <1>2
<1>4. InOrder(S) = q BY DEF InOrder
<1> HIDE DEF q
<1> DEFINE e == [i \in 1..c |-> CHOOSE j \in 1..Len(D) : q[i] = Seg(sn, D, j)]
<1>5. ASSUME NEW i \in 1..c PROVE e[i] \in 1..Len(D) /\ q[i] = Seg(sn, D, e[i])
  <2>1. q[i] \in S BY <1>3
  <2>2. \E j \in 1..Len(D) : q[i] = Seg(sn, D, j) BY <2>1
  <2> QED BY <2>2
<1>6. e = [i \in 1..c |-> e[i]] OBVIOUS
<1> HIDE DEF e
<1>7. e \in [1..c -> 1..Len(D)] BY <1>5, <1>6
<1>8. ASSUME NEW i \in 1..c, NEW j \in 1..c, i < j PROVE e[i] < e[j]
  <2>1. Before(q[i], q[j]) BY <1>3, <1>8
  <2> QED BY <1>5, <2>1, BeforeIs
<1>9. q = [i \in 1..c |-> Seg(sn, D, e[i])] BY <1>3, <1>5
<1>10. \A i \in 1..c : Seg(sn, D, e[i]) \in S
  <2> TAKE i \in 1..c
  <2>1. q[i] \in S BY <1>3
  <2> QED BY <1>5, <2>1
<1>11. c \in Nat BY <1>1
<1> QED BY <1>4, <1>7, <1>8, <1>9, <1>10, <1>11

(* -------------------------------- packing -------------------------------- *)

\* A sequence without its last element.
LEMMA FrontIs ==
    ASSUME NEW T, NEW s \in Seq(T), s # <<>>
    PROVE  Front(s) \in Seq(T) /\ Last(s) \in T /\ s = Append(Front(s), Last(s))
<1>1. PICK f \in Seq(T), l \in T : s = Append(f, l) BY SequenceEmptyOrAppend
<1>2. Len(s) = Len(f) + 1 /\ Len(f) \in Nat /\ s[Len(s)] = l BY <1>1
<1>3. PICK h \in Int : h = Len(f) BY <1>2
<1>4. Front(s) = SubSeq(s, 1, h)
  <2>1. Len(s) - 1 = h BY <1>2, <1>3
  <2> QED BY <2>1 DEF Front
<1>5. 1 <= h + 1 /\ h <= Len(s) /\ h - 1 + 1 = h BY <1>2, <1>3
<1>6. PICK g \in Seq(T) : /\ g = SubSeq(s, 1, h) /\ Len(g) = h - 1 + 1
                           /\ \A i \in 1..(h - 1 + 1) : g[i] = s[1 + i - 1]
  <2>1. 1 \in Int /\ s \in Seq(T) /\ 1 <= 1 OBVIOUS
  <2>2. /\ SubSeq(s, 1, h) \in Seq(T) /\ Len(SubSeq(s, 1, h)) = h - 1 + 1
        /\ \A i \in 1..(h - 1 + 1) : SubSeq(s, 1, h)[i] = s[1 + i - 1]
    BY ONLY <1>5, <2>1, h \in Int, SubSeqIs
  <2> QED BY <2>2
<1>7. ASSUME NEW i \in 1..h PROVE g[i] = f[i]
  <2>1. g[i] = s[1 + i - 1] /\ 1 + i - 1 = i BY <1>5, <1>6
  <2> QED BY <1>1, <1>3, <2>1
<1>8. Len(g) = Len(f) /\ \A i \in 1..Len(g) : g[i] = f[i] BY <1>3, <1>5, <1>6, <1>7
<1>9. g = f BY <1>8, SeqEqual
<1>10. Front(s) = f /\ Last(s) = l BY <1>2, <1>4, <1>6, <1>9 DEF Last
<1> QED BY <1>1, <1>10

\* One segment more in the datagrams.
LEMMA PackType ==
    ASSUME NEW T, NEW g \in Seq(Seq(T)), NEW s \in T
    PROVE  Pack(g, s) \in Seq(Seq(T))
<1>1. <<s>> \in Seq(T) OBVIOUS
<1>2. CASE g # <<>>
  <2>1. PICK f \in Seq(Seq(T)), l \in Seq(T) : f = Front(g) /\ l = Last(g)
    BY <1>2, FrontIs
  <2>2. Append(l, s) \in Seq(T) BY <2>1
  <2>3. Append(f, Append(l, s)) \in Seq(Seq(T)) BY <2>1, <2>2
  <2> QED BY <1>1, <2>1, <2>3 DEF Pack
<1>3. CASE g = <<>> BY <1>1, <1>3 DEF Pack
<1> QED BY <1>2, <1>3

\* All of them.
LEMMA PackedType ==
    ASSUME NEW T, NEW d \in Seq(T)
    PROVE  Packed(<<>>, d) \in Seq(Seq(T))
<1>1. DOMAIN d = 1..Len(d) /\ Len(d) \in Nat OBVIOUS
<1>0. PICK none : none = <<>> OBVIOUS
<1>2. PICK g : /\ g[0] = none /\ Packed(none, d) = g[Len(d)]
               /\ \A i \in 1..Len(d) : g[i] = Pack(g[i - 1], d[i])
  BY <1>1, PackFold
<1> DEFINE S == {i \in Nat : i <= Len(d) => g[i] \in Seq(Seq(T))}
<1>3. <<>> \in Seq(Seq(T)) OBVIOUS
<1>4. ASSUME NEW i \in Nat, i \in S PROVE i + 1 \in S
  <2> SUFFICES ASSUME i + 1 <= Len(d) PROVE g[i + 1] \in Seq(Seq(T)) OBVIOUS
  <2>1. PICK j : j = i + 1 OBVIOUS
  <2>2. j \in 1..Len(d) /\ j - 1 = i BY <1>1, <2>1
  <2>3. g[j] = Pack(g[i], d[j]) /\ d[j] \in T BY <1>2, <2>2
  <2>4. g[i] \in Seq(Seq(T)) BY <1>1, <1>4
  <2>5. g[j] \in Seq(Seq(T)) BY <2>3, <2>4, PackType
  <2> QED BY <2>1, <2>5
<1>5. 0 \in S BY <1>0, <1>2, <1>3
<1> HIDE DEF S
<1>6. \A i \in Nat : i \in S BY <1>4, <1>5, Induction
<1> QED BY <1>0, <1>1, <1>2, <1>6 DEF S

(* ------------------------------- flushing -------------------------------- *)

\* Pieces that come behind those there are change nothing about these.
LEMMA MorePieces ==
    ASSUME NEW D, Data(D), NEW t \in Seq(Pieces), Len(D) + Len(t) + RcvWnd < Half
    PROVE  /\ Data(D \o t) /\ Len(D \o t) = Len(D) + Len(t) /\ Len(t) \in Nat
           /\ \A j \in 1..Len(D) : (D \o t)[j] = D[j]
           /\ \A j \in 1..Len(t) : (D \o t)[Len(D) + j] = t[j]
           /\ \A sn : \A j \in 1..Len(D) : Seg(sn, D \o t, j) = Seg(sn, D, j)
<1>1. D \in Seq(Pieces) /\ Len(D) \in Nat /\ Len(t) \in Nat BY DataIs
<1>2. PICK E : E = D \o t OBVIOUS
<1>3. /\ E \in Seq(Pieces) /\ Len(E) = Len(D) + Len(t)
      /\ \A i \in 1..(Len(D) + Len(t)) : E[i] = IF i <= Len(D) THEN D[i] ELSE t[i - Len(D)]
  BY <1>1, <1>2, ConcatProperties
<1>4. Data(E) BY <1>1, <1>3, Words DEF Data
<1>5. ASSUME NEW j \in 1..Len(D) PROVE E[j] = D[j]
  <2>1. j \in 1..(Len(D) + Len(t)) /\ j <= Len(D) BY <1>1
  <2> QED BY <1>3, <2>1
<1>6. ASSUME NEW j \in 1..Len(t) PROVE E[Len(D) + j] = t[j]
  <2>1. PICK i : i = Len(D) + j OBVIOUS
  <2>2. i \in 1..(Len(D) + Len(t)) /\ ~(i <= Len(D)) /\ i - Len(D) = j BY <1>1, <2>1
  <2>3. E[i] = t[i - Len(D)] BY <1>3, <2>2
  <2> QED BY <2>1, <2>2, <2>3
<1>7. \A sn : \A j \in 1..Len(D) : Seg(sn, E, j) = Seg(sn, D, j) BY <1>5 DEF Seg
<1> QED BY <1>1, <1>2, <1>3, <1>4, <1>5, <1>6, <1>7

\* The block k has numbered n more pieces, and sent what is in out.
Flushed(k, out, k2, sn, D, E, u) ==
    /\ Data(E)
    /\ \E n \in 0..Len(k.snd_queue) :
          /\ E = D \o SubSeq(k.snd_queue, 1, n)
          /\ k2.snd_queue = SubSeq(k.snd_queue, n + 1, Len(k.snd_queue))
    /\ Block(k2) /\ Sender(k2, sn, E, u)
    /\ k.snd_buf \subseteq k2.snd_buf
    /\ \A j \in (Len(D) + 1)..Len(E) : Seg(sn, E, j) \in k2.snd_buf
    /\ k2.rcv_nxt = k.rcv_nxt /\ k2.rcv_buf = k.rcv_buf /\ k2.rcv_queue = k.rcv_queue
    /\ k2.acklist \in {k.acklist, <<>>}
    /\ out \in Seq(Range(out))
    /\ \A d \in Range(out) :
          /\ IsDatagram(d) /\ Pushes(d, sn, E)
          /\ \A i \in 1..Len(d) :
                /\ d[i].una = k.rcv_nxt
                /\ d[i].cmd = "ACK" => \E m \in 1..Len(k.acklist) : d[i].sn = k.acklist[m]

\* ikcp_flush: it numbers pieces from the queue as far as the windows let it, and the
\* datagrams say nothing but what the block has numbered and received.
LEMMA FlushIs ==
    ASSUME NEW k, Block(k), NEW sn \in SegmentNumbers, NEW D, Data(D), NEW u, Sender(k, sn, D, u),
           Len(D) + Len(k.snd_queue) + RcvWnd < Half,
           k.acklist \in Seq(SegmentNumbers), k.rcv_queue \in Seq(Pieces),
           NEW again \in SUBSET k.snd_buf, NEW probeDue
    PROVE  \E E : Flushed(k, KcpFlush(k, again, probeDue).out, KcpFlush(k, again, probeDue).kcp,
                          sn, D, E, u)
<1> DEFINE Segment(cmd, nr, data) ==
               [cmd |-> cmd, sn |-> nr, data |-> data, una |-> k.rcv_nxt, wnd |-> Room(k)]
           acks == [i \in DOMAIN k.acklist |-> Segment("ACK", k.acklist[i], <<>>)]
           ask == IF k.rmt_wnd = 0 /\ k.probe_wait /\ probeDue
                  THEN <<Segment("WASK", 0, <<>>)>> ELSE <<>>
           tell == IF k.ask_tell THEN <<Segment("WINS", 0, <<>>)>> ELSE <<>>
           cwnd == IF SndWnd < k.rmt_wnd THEN SndWnd ELSE k.rmt_wnd
           free == TimeDiff((k.snd_una + cwnd) % Word, k.snd_nxt)
           n == IF free <= 0 THEN 0
                ELSE IF free < Len(k.snd_queue) THEN free ELSE Len(k.snd_queue)
           new == {[sn |-> (k.snd_nxt + i - 1) % Word, data |-> k.snd_queue[i]] : i \in 1..n}
           pushed == InOrder(new \cup again)
           push == [i \in DOMAIN pushed |-> Segment("PUSH", pushed[i].sn, pushed[i].data)]
           k2 == [k EXCEPT !.acklist = <<>>, !.ask_tell = FALSE,
                           !.probe_wait = (k.rmt_wnd = 0),
                           !.snd_queue = SubSeq(@, n + 1, Len(@)),
                           !.snd_buf = @ \cup new,
                           !.snd_nxt = (@ + n) % Word]
           in == acks \o ask \o tell \o push
           out == FoldLeft(Pack, <<>>, in)
           q == k.snd_queue
           E == D \o SubSeq(q, 1, n)
<1>1. KcpFlush(k, again, probeDue).out = out /\ KcpFlush(k, again, probeDue).kcp = k2
  BY Zenon DEF KcpFlush
<1>2. /\ Len(D) \in Nat /\ D \in Seq(Pieces) /\ RcvWnd \in Nat /\ SndWnd \in Nat /\ Half \in Nat /\ Word = 2 * Half
      /\ SndWnd + RcvWnd < Half /\ Len(D) + RcvWnd < Half
      /\ u \in Nat /\ 1 <= u /\ u <= Len(D) + 1 /\ Len(D) + 1 - u <= SndWnd
      /\ k.snd_una = Nr(sn, u) /\ k.snd_nxt = Nr(sn, Len(D) + 1)
      /\ q \in Seq(Pieces) /\ Len(q) \in Nat /\ k.rmt_wnd \in Nat
  BY DataIs, Words DEF Sender, Block
<1>3. n \in 0..Len(q) /\ Len(D) + n + 1 - u <= SndWnd /\ Len(D) + n + RcvWnd < Half
  <2>1. cwnd \in Nat /\ cwnd <= SndWnd BY <1>2
  <2> HIDE DEF cwnd
  <2>2. (k.snd_una + cwnd) % Word = Nr(sn, u + cwnd)
    <3>1. u + cwnd <= Word BY <1>2, <2>1
    <3> QED BY <1>2, <2>1, <3>1, NrPlus
  <2>3. free = u + cwnd - (Len(D) + 1)
    <3>1. PICK x, y : x = u + cwnd /\ y = Len(D) + 1 OBVIOUS
    <3>2. /\ x \in Nat /\ y \in Nat /\ 1 <= x /\ x <= Word /\ 1 <= y /\ y <= Word
          /\ x - y < Half /\ y - x <= Half
      BY <1>2, <2>1, <3>1
    <3>3. TimeDiff(Nr(sn, x), Nr(sn, y)) = x - y BY <3>2, TimeDiffIs
    <3>4. PICK z : z = (k.snd_una + cwnd) % Word OBVIOUS
    <3>5. z = Nr(sn, x) /\ k.snd_nxt = Nr(sn, y) BY <1>2, <2>2, <3>1, <3>4
    <3>6. free = TimeDiff(z, k.snd_nxt) BY <3>4
    <3> HIDE DEF free
    <3>7. free = x - y BY <3>3, <3>5, <3>6
    <3> QED BY <1>2, <2>1, <3>1, <3>7
  <2> HIDE DEF free
  <2>4. free \in Int BY <1>2, <2>1, <2>3
  <2>5. n \in 0..Len(q) /\ (n = 0 \/ n <= free) BY <1>2, <2>4
  <2> HIDE DEF n, q
  <2>6. Len(D) + Len(q) + RcvWnd < Half BY DEF q
  <2>7. Len(D) + n + 1 - u <= SndWnd
    <3>1. CASE n = 0 BY <1>2, <3>1
    <3>2. CASE n <= free BY <1>2, <2>1, <2>3, <2>5, <3>2
    <3> QED BY <2>5, <3>1, <3>2
  <2>8. Len(D) + n + RcvWnd < Half BY <1>2, <2>5, <2>6
  <2> QED BY <2>5, <2>7, <2>8
<1> HIDE DEF n
<1>4. PICK t \in Seq(Pieces) : /\ t = SubSeq(q, 1, n) /\ Len(t) = n
                               /\ \A i \in 1..n : t[i] = q[i]
  <2>1. n \in Int /\ 1 \in Int /\ 1 <= 1 /\ 1 <= n + 1 /\ n <= Len(q) /\ n - 1 + 1 = n BY <1>2, <1>3
  <2>2. /\ SubSeq(q, 1, n) \in Seq(Pieces) /\ Len(SubSeq(q, 1, n)) = n - 1 + 1
        /\ \A i \in 1..(n - 1 + 1) : SubSeq(q, 1, n)[i] = q[1 + i - 1]
    BY ONLY <1>2, <2>1, SubSeqIs
  <2>3. \A i \in 1..n : SubSeq(q, 1, n)[i] = q[i]
    <3> TAKE i \in 1..n
    <3>1. 1 + i - 1 = i BY <1>3
    <3> QED BY <2>1, <2>2, <3>1
  <2> QED BY <2>1, <2>2, <2>3
<1>5. PICK v \in Seq(Pieces) : /\ v = SubSeq(q, n + 1, Len(q)) /\ Len(v) = Len(q) - n
                               /\ \A i \in 1..(Len(q) - n) : v[i] = q[n + i]
  <2>1. PICK lo, hi : lo = n + 1 /\ hi = Len(q) OBVIOUS
  <2>2. lo \in Int /\ hi \in Int /\ 1 <= lo /\ lo <= hi + 1 /\ hi <= Len(q) /\ hi - lo + 1 = Len(q) - n
    BY <1>2, <1>3, <2>1
  <2>3. /\ SubSeq(q, lo, hi) \in Seq(Pieces) /\ Len(SubSeq(q, lo, hi)) = hi - lo + 1
        /\ \A i \in 1..(hi - lo + 1) : SubSeq(q, lo, hi)[i] = q[lo + i - 1]
    BY ONLY <1>2, <2>2, SubSeqIs, SMTT(20)
  <2>4. \A i \in 1..(Len(q) - n) : SubSeq(q, lo, hi)[i] = q[n + i]
    <3> TAKE i \in 1..(Len(q) - n)
    <3>1. lo + i - 1 = n + i BY <1>2, <1>3, <2>1
    <3> QED BY <2>2, <2>3, <3>1
  <2> QED BY <2>1, <2>2, <2>3, <2>4
<1>6. /\ Data(E) /\ Len(E) = Len(D) + n
      /\ \A j \in 1..Len(D) : E[j] = D[j]
      /\ \A j \in 1..n : E[Len(D) + j] = q[j]
      /\ \A j \in 1..Len(D) : Seg(sn, E, j) = Seg(sn, D, j)
  <2>1. Len(D) + Len(t) + RcvWnd < Half BY <1>2, <1>3, <1>4
  <2>2. E = D \o t BY <1>4
  <2> HIDE DEF E
  <2>3. /\ Data(E) /\ Len(E) = Len(D) + Len(t)
        /\ \A j \in 1..Len(D) : E[j] = D[j]
        /\ \A j \in 1..Len(t) : E[Len(D) + j] = t[j]
        /\ \A x : \A j \in 1..Len(D) : Seg(x, E, j) = Seg(x, D, j)
    BY <2>1, <2>2, MorePieces
  <2>4. \A j \in 1..n : E[Len(D) + j] = q[j]
    <3> HIDE DEF q
    <3> QED BY <1>4, <2>3
  <2> QED BY <1>4, <2>3, <2>4
<1> HIDE DEF E
<1>7. \A i \in 1..n : [sn |-> (k.snd_nxt + i - 1) % Word, data |-> q[i]] = Seg(sn, E, Len(D) + i)
  <2> TAKE i \in 1..n
  <2>1. PICK l \in Nat : l = i - 1 /\ Len(D) + 1 + l <= Word /\ Len(D) + 1 + l = Len(D) + i
    BY <1>2, <1>3
  <2>2. (Nr(sn, Len(D) + 1) + l) % Word = Nr(sn, Len(D) + 1 + l)
    <3>1. PICK y \in Nat : y = Len(D) + 1 /\ 1 <= y /\ y + l <= Word BY <1>2, <2>1
    <3>2. (Nr(sn, y) + l) % Word = Nr(sn, y + l) BY <3>1, NrPlus
    <3> QED BY <3>1, <3>2
  <2>3. k.snd_nxt + i - 1 = Nr(sn, Len(D) + 1) + l
    <3>1. PICK y \in Nat : y = Len(D) + 1 /\ 1 <= y /\ y <= Word BY <1>2
    <3>2. Nr(sn, y) \in Nat BY <3>1, NrIs
    <3>3. k.snd_nxt \in Nat /\ k.snd_nxt = Nr(sn, Len(D) + 1) BY <1>2, <3>1, <3>2
    <3> QED BY <2>1, <3>3
  <2>4. E[Len(D) + i] = q[i] BY <1>6
  <2> QED BY <2>1, <2>2, <2>3, <2>4 DEF Seg
<1>8. new = {Seg(sn, E, Len(D) + i) : i \in 1..n} BY <1>7
<1> HIDE DEF new
<1>9. \A s \in new : \E j \in (Len(D) + 1)..Len(E) : s = Seg(sn, E, j)
  <2> TAKE s \in new
  <2>1. PICK i \in 1..n : s = Seg(sn, E, Len(D) + i) BY <1>8
  <2>2. Len(D) + i \in (Len(D) + 1)..Len(E) BY <1>2, <1>3, <1>6
  <2> QED BY <2>1, <2>2
<1>10. \A j \in (Len(D) + 1)..Len(E) : Seg(sn, E, j) \in new
  <2> TAKE j \in (Len(D) + 1)..Len(E)
  <2>1. PICK i : i = j - Len(D) OBVIOUS
  <2>2. i \in 1..n /\ Len(D) + i = j BY <1>2, <1>3, <1>6, <2>1
  <2> QED BY <1>8, <2>2
<1>11. /\ DOMAIN k2 = Fields /\ k2.acklist = <<>> /\ k2.snd_queue = v /\ k2.snd_buf = k.snd_buf \cup new
       /\ k2.snd_una = k.snd_una /\ k2.snd_nxt = (k.snd_nxt + n) % Word
       /\ k2.rmt_wnd = k.rmt_wnd
       /\ k2.rcv_nxt = k.rcv_nxt /\ k2.rcv_buf = k.rcv_buf /\ k2.rcv_queue = k.rcv_queue
  BY <1>5 DEF Block, Fields
<1> HIDE DEF k2
<1>12. Block(k2) BY <1>11 DEF Block
<1>13. \A s \in k.snd_buf : \E j \in u..Len(E) : s = Seg(sn, E, j)
  <2> TAKE s \in k.snd_buf
  <2>1. PICK j \in u..Len(D) : s = Seg(sn, D, j) BY DEF Sender
  <2>2. j \in 1..Len(D) /\ j \in u..Len(E)
    <3>1. PICK a0 \in Int, b0 \in Int, c \in Int, e0 \in Int :
             a0 = u /\ b0 = Len(D) /\ c = j /\ e0 = Len(E) /\ 1 <= a0 /\ b0 <= e0
      BY <1>2, <1>3, <1>6
    <3> QED BY ONLY j \in u..Len(D), <3>1
  <2> QED BY <1>6, <2>1, <2>2
<1>14. Sender(k2, sn, E, u)
  <2>1. u \in 1..(Len(E) + 1) /\ Len(E) + 1 - u <= SndWnd BY <1>2, <1>3, <1>6
  <2>2. k2.snd_nxt = Nr(sn, Len(E) + 1)
    <3>1. PICK y \in Nat : y = Len(D) + 1 /\ 1 <= y /\ y + n <= Word /\ y + n = Len(E) + 1
      BY <1>2, <1>3, <1>6
    <3>2. n \in Nat BY <1>2, <1>3
    <3>3. (Nr(sn, y) + n) % Word = Nr(sn, y + n) BY <3>1, <3>2, NrPlus
    <3> QED BY <1>2, <1>11, <3>1, <3>3
  <2>3. \A s \in k2.snd_buf : \E j \in u..Len(E) : s = Seg(sn, E, j)
    <3> TAKE s \in k2.snd_buf
    <3>1. CASE s \in k.snd_buf BY <1>13, <3>1
    <3>2. CASE s \notin k.snd_buf
      <4>1. s \in new BY <1>11, <3>2
      <4>2. PICK j \in (Len(D) + 1)..Len(E) : s = Seg(sn, E, j) BY <1>9, <4>1
      <4>3. j \in u..Len(E) BY <1>2
      <4> QED BY <4>2, <4>3
    <3> QED BY <3>1, <3>2
  <2>4. \A i \in 1..Len(v) : Len(v[i]) <= Mss
    <3> TAKE i \in 1..Len(v)
    <3>1. PICK m : m = n + i OBVIOUS
    <3>2. m \in 1..Len(q) /\ v[i] = q[m] BY <1>2, <1>3, <1>5, <3>1
    <3>3. \A x \in 1..Len(q) : Len(q[x]) <= Mss BY DEF Sender
    <3> QED BY <3>2, <3>3
  <2> QED BY <1>2, <1>5, <1>11, <2>1, <2>2, <2>3, <2>4 DEF Sender
<1>15. PICK c \in Nat : DOMAIN pushed = 1..c /\ \A i \in 1..c : \E j \in 1..Len(E) : pushed[i] = Seg(sn, E, j)
  <2>1. PICK S : S = new \cup again OBVIOUS
  <2>2. \A s \in S : \E j \in 1..Len(E) : s = Seg(sn, E, j)
    <3> TAKE s \in S
    <3>1. CASE s \in new
      <4>1. PICK j \in (Len(D) + 1)..Len(E) : s = Seg(sn, E, j) BY <1>9, <3>1
      <4>2. j \in 1..Len(E) BY <1>2
      <4> QED BY <4>1, <4>2
    <3>2. CASE s \notin new
      <4>1. s \in k.snd_buf BY <2>1, <3>2
      <4>2. PICK j \in u..Len(E) : s = Seg(sn, E, j) BY <1>13, <4>1
      <4>3. j \in 1..Len(E) BY <1>2
      <4> QED BY <4>2, <4>3
    <3> QED BY <3>1, <3>2
  <2>3. Data(E) BY <1>6
  <2>4. PICK e \in [1..Cardinality(S) -> 1..Len(E)] :
            /\ \A i, j \in 1..Cardinality(S) : i < j => e[i] < e[j]
            /\ InOrder(S) = [i \in 1..Cardinality(S) |-> Seg(sn, E, e[i])]
            /\ \A i \in 1..Cardinality(S) : Seg(sn, E, e[i]) \in S
    BY <2>2, <2>3, InOrderIs
  <2>8. PICK c \in Nat : c = Cardinality(S) BY <2>2, <2>3, InOrderIs
  <2>5. pushed = [i \in 1..c |-> Seg(sn, E, e[i])] BY <2>1, <2>4, <2>8
  <2> HIDE DEF pushed
  <2>6. \A i \in 1..c : pushed[i] = Seg(sn, E, e[i]) /\ e[i] \in 1..Len(E) BY <2>4, <2>5, <2>8
  <2>7. DOMAIN pushed = 1..c BY <2>5
  <2> QED BY <2>6, <2>7
<1> HIDE DEF pushed
<1> DEFINE Allowed(s) == /\ IsSegment(s) /\ IsPush(s, sn, E)
                         /\ s.una = k.rcv_nxt
                         /\ s.cmd = "ACK" => \E m \in 1..Len(k.acklist) : s.sn = k.acklist[m]
           T == {acks[i] : i \in 1..Len(k.acklist)}
                    \cup {Segment("WASK", 0, <<>>), Segment("WINS", 0, <<>>)}
                    \cup {push[i] : i \in 1..c}
<1>16. DOMAIN k.acklist = 1..Len(k.acklist) /\ Len(k.acklist) \in Nat OBVIOUS
<1>17. Room(k) \in Nat
  <2>1. Len(k.rcv_queue) \in Nat OBVIOUS
  <2> QED BY <1>2, <2>1 DEF Room
<1>18. \A cmd, nr, data : /\ Segment(cmd, nr, data).cmd = cmd /\ Segment(cmd, nr, data).sn = nr
                          /\ Segment(cmd, nr, data).data = data
                          /\ Segment(cmd, nr, data).una = k.rcv_nxt
                          /\ Segment(cmd, nr, data).wnd = Room(k)
  OBVIOUS
<1> HIDE DEF Segment
<1>19. \A s \in T : Allowed(s)
  <2>1. ASSUME NEW i \in 1..Len(k.acklist) PROVE Allowed(acks[i])
    <3>1. acks[i] = Segment("ACK", k.acklist[i], <<>>) BY <1>16
    <3>2. PICK s : s = acks[i] OBVIOUS
    <3>3. s.cmd = "ACK" /\ s.sn = k.acklist[i] /\ s.una = k.rcv_nxt /\ s.wnd \in Nat
      BY <1>17, <1>18, <3>1, <3>2
    <3>4. Allowed(s) BY <3>3 DEF IsSegment, IsPush
    <3> QED BY <3>2, <3>4
  <2>2. Allowed(Segment("WASK", 0, <<>>)) /\ Allowed(Segment("WINS", 0, <<>>))
    BY <1>17, <1>18 DEF IsSegment, IsPush
  <2>3. ASSUME NEW i \in 1..c PROVE Allowed(push[i])
    <3>1. push[i] = Segment("PUSH", pushed[i].sn, pushed[i].data) BY <1>15
    <3>2. PICK j \in 1..Len(E) : pushed[i] = Seg(sn, E, j) BY <1>15
    <3>3. pushed[i].sn = Nr(sn, j) /\ pushed[i].data = E[j] BY <3>2 DEF Seg
    <3>4. PICK s : s = push[i] OBVIOUS
    <3>5. s.cmd = "PUSH" /\ s.sn = Nr(sn, j) /\ s.data = E[j] /\ s.una = k.rcv_nxt /\ s.wnd \in Nat
      BY <1>17, <1>18, <3>1, <3>3, <3>4
    <3>6. Allowed(s) BY <3>5 DEF IsSegment, IsPush
    <3> QED BY <3>4, <3>6
  <2> HIDE DEF Allowed, acks, push
  <2> QED BY <2>1, <2>2, <2>3
<1>20. in \in Seq(T)
  <2>1. acks \in Seq(T)
    <3>1. acks \in [1..Len(k.acklist) -> T] BY <1>16
    <3> HIDE DEF acks, T
    <3>2. PICK m \in Nat : m = Len(k.acklist) BY <1>16
    <3>3. acks \in [1..m -> T] BY <3>1, <3>2
    <3> QED BY <3>3
  <2>2. push \in Seq(T)
    <3>1. push \in [1..c -> T] BY <1>15
    <3> HIDE DEF push, T
    <3> QED BY <3>1
  <2>3. ask \in Seq(T) /\ tell \in Seq(T)
    <3>1. Segment("WASK", 0, <<>>) \in T /\ Segment("WINS", 0, <<>>) \in T OBVIOUS
    <3> HIDE DEF T
    <3> QED BY <3>1
  <2> HIDE DEF acks, push, ask, tell, T
  <2>4. acks \o ask \in Seq(T) BY <2>1, <2>3, ConcatProperties
  <2>5. acks \o ask \o tell \in Seq(T) BY <2>3, <2>4, ConcatProperties
  <2> QED BY <2>2, <2>5, ConcatProperties
<1>21. out \in Seq(Seq(T))
  <2> HIDE DEF in, T
  <2>1. out = Packed(<<>>, in) BY DEF Packed
  <2> QED BY <1>20, <2>1, PackedType
<1> HIDE DEF out, T, Allowed
<1>22. \A d \in Range(out) : IsDatagram(d) /\ \A i \in 1..Len(d) : Allowed(d[i])
  <2> TAKE d \in Range(out)
  <2>1. d \in Seq(T)
    <3>1. PICK i \in 1..Len(out) : d = out[i] BY <1>21 DEF Range
    <3> QED BY <1>21, <3>1
  <2>2. DOMAIN d = 1..Len(d) /\ Len(d) \in Nat /\ \A i \in 1..Len(d) : d[i] \in T BY <2>1
  <2>3. \A i \in 1..Len(d) : Allowed(d[i]) BY <1>19, <2>2
  <2> QED BY <2>2, <2>3 DEF IsDatagram, Allowed
<1>23. out \in Seq(Range(out))
  <2>1. DOMAIN out = 1..Len(out) /\ Len(out) \in Nat BY <1>21
  <2>2. \A i \in 1..Len(out) : out[i] \in Range(out) BY <2>1 DEF Range
  <2>3. out \in [1..Len(out) -> Range(out)] BY <1>21, <2>2
  <2> QED BY <2>1, <2>3
<1>24. \A d \in Range(out) :
          /\ IsDatagram(d) /\ Pushes(d, sn, E)
          /\ \A i \in 1..Len(d) :
                /\ d[i].una = k.rcv_nxt
                /\ d[i].cmd = "ACK" => \E m \in 1..Len(k.acklist) : d[i].sn = k.acklist[m]
  BY <1>22 DEF Allowed, Pushes
<1>25. Flushed(k, out, k2, sn, D, E, u)
  <2>1. E = D \o SubSeq(q, 1, n) BY DEF E
  <2> HIDE DEF q
  <2>2. \E m \in 0..Len(k.snd_queue) :
          /\ E = D \o SubSeq(k.snd_queue, 1, m)
          /\ k2.snd_queue = SubSeq(k.snd_queue, m + 1, Len(k.snd_queue))
    BY <1>3, <1>5, <1>11, <2>1 DEF q
  <2>3. k.snd_buf \subseteq k2.snd_buf /\ \A j \in (Len(D) + 1)..Len(E) : Seg(sn, E, j) \in k2.snd_buf
    BY <1>10, <1>11
  <2> QED BY <1>6, <1>11, <1>12, <1>14, <1>23, <1>24, <2>2, <2>3 DEF Flushed
<1> QED BY <1>1, <1>25

(* -------------------------------- sending -------------------------------- *)

\* A sequence is the part of it that is all of it.
LEMMA SubSeqAll ==
    ASSUME NEW T, NEW s \in Seq(T)
    PROVE  SubSeq(s, 1, Len(s)) = s
<1>1. PICK h \in Nat : h = Len(s) OBVIOUS
<1>2. 1 \in Int /\ 1 <= 1 /\ 1 <= h + 1 /\ h <= Len(s) /\ h - 1 + 1 = h /\ s \in Seq(T) BY <1>1
<1>3. /\ SubSeq(s, 1, h) \in Seq(T) /\ Len(SubSeq(s, 1, h)) = h - 1 + 1
      /\ \A i \in 1..(h - 1 + 1) : SubSeq(s, 1, h)[i] = s[1 + i - 1]
  BY ONLY <1>2, h \in Nat, SubSeqIs
<1>4. PICK x \in Seq(T) : x = SubSeq(s, 1, h) BY <1>3
<1>5. Len(x) = Len(s) BY <1>1, <1>2, <1>3, <1>4
<1>6. \A i \in 1..Len(x) : x[i] = s[i]
  <2> TAKE i \in 1..Len(x)
  <2>1. i \in 1..(h - 1 + 1) /\ 1 + i - 1 = i BY <1>1, <1>2, <1>5
  <2>2. x[i] = s[1 + i - 1] BY <1>3, <1>4, <2>1
  <2> QED BY <2>1, <2>2
<1>7. x = s BY <1>5, <1>6, SeqEqual
<1> QED BY <1>1, <1>4, <1>7

\* Cut into two.
LEMMA SubSeqCut ==
    ASSUME NEW T, NEW s \in Seq(T), NEW i \in Nat, i <= Len(s)
    PROVE  /\ SubSeq(s, 1, i) \in Seq(T) /\ Len(SubSeq(s, 1, i)) = i
           /\ SubSeq(s, i + 1, Len(s)) \in Seq(T) /\ Len(SubSeq(s, i + 1, Len(s))) = Len(s) - i
           /\ SubSeq(s, 1, i) \o SubSeq(s, i + 1, Len(s)) = s
<1>1. PICK n \in Nat, l \in Nat : n = Len(s) /\ l = i + 1 OBVIOUS
<1>2. /\ 1 \in Int /\ 1 <= 1 /\ 1 <= i + 1 /\ i <= Len(s) /\ i - 1 + 1 = i
      /\ 1 <= l /\ l <= n + 1 /\ n <= Len(s) /\ n - l + 1 = n - i
  BY <1>1
<1>3. SubSeq(s, 1, i) \in Seq(T) /\ Len(SubSeq(s, 1, i)) = i - 1 + 1
  BY ONLY <1>2, s \in Seq(T), i \in Nat, SubSeqIs
<1>4. SubSeq(s, l, n) \in Seq(T) /\ Len(SubSeq(s, l, n)) = n - l + 1
  BY ONLY <1>2, s \in Seq(T), l \in Nat, n \in Nat, SubSeqIs
<1>5. SubSeq(s, 1, l - 1) \o SubSeq(s, l, (n + 1) - 1) = SubSeq(s, 1, (n + 1) - 1)
  <2>1. 1 <= l /\ l <= n + 1 /\ n + 1 <= Len(s) + 1 /\ n + 1 \in Int /\ l \in Int BY <1>1
  <2> QED BY <2>1, SubSeqJoin
<1>6. l - 1 = i /\ (n + 1) - 1 = n BY <1>1
<1>7. SubSeq(s, 1, i) \o SubSeq(s, l, n) = SubSeq(s, 1, n) BY <1>5, <1>6
<1>8. SubSeq(s, 1, n) = s BY <1>1, SubSeqAll
<1> QED BY <1>1, <1>2, <1>3, <1>4, <1>7, <1>8

\* ikcp_send cuts a message into pieces that fit into segments.
LEMMA FragmentsAre ==
    ASSUME NEW T, NEW data \in Seq(T)
    PROVE  /\ Fragments(data) \in Seq(Seq(T) \ {<<>>})
           /\ \A i \in 1..Len(Fragments(data)) : Len(Fragments(data)[i]) <= Mss
           /\ FlattenSeq(Fragments(data)) = data
<1> DEFINE At(i) == i * Mss
           N == Len(data)
           m == (N + Mss - 1) \div Mss
           End(i) == IF At(i) < N THEN At(i) ELSE N
           f == [i \in 1..m |-> SubSeq(data, At(i - 1) + 1, End(i))]
<1>1. Fragments(data) = f BY DEF Fragments
<1>2. Mss \in Nat /\ 0 < Mss /\ N \in Nat BY Words
<1>3. \A i \in Nat : At(i) \in Nat /\ At(i + 1) = At(i) + Mss BY <1>2
<1>4. \A i \in Nat, j \in Nat : i <= j => At(i) <= At(j)
  <2> TAKE i \in Nat, j \in Nat
  <2>1. i <= j => Mss * i <= Mss * j BY <1>2, TimesKeepsOrder
  <2>2. Mss * i = i * Mss /\ Mss * j = j * Mss BY <1>2
  <2> QED BY <2>1, <2>2
<1>5. m \in Nat /\ N <= At(m) /\ (m # 0 => At(m - 1) < N)
  <2>1. PICK x \in Nat : x = N + Mss - 1 BY <1>2
  <2>2. PICK y \in Int, s \in Int : x = Mss * y + s /\ 0 <= s /\ s < Mss /\ y = x \div Mss
    <3>1. Mss \in Nat \ {0} BY <1>2
    <3>2. /\ x \div Mss \in Int /\ x % Mss \in Int /\ x = Mss * (x \div Mss) + (x % Mss)
          /\ 0 <= x % Mss /\ x % Mss < Mss
      BY <3>1, Division
    <3> QED BY <3>2
  <2>3. m = y BY <2>1, <2>2
  <2>4. y >= 0
    <3>1. SUFFICES ASSUME y <= -1 PROVE FALSE BY <2>2
    <3>2. Mss * y <= Mss * (-1) BY <1>2, <3>1, TimesKeepsOrder
    <3>3. Mss * (-1) = -Mss BY <1>2
    <3>4. PICK z \in Int : z = Mss * y BY <1>2
    <3> QED BY <1>2, <2>1, <2>2, <3>2, <3>3, <3>4
  <2>5. PICK z \in Int : z = Mss * y /\ z = At(y) BY <1>2
  <2>6. x = z + s BY <2>2, <2>5
  <2>7. N <= z BY <1>2, <2>1, <2>2, <2>6
  <2>8. ASSUME y # 0 PROVE At(y - 1) < N
    <3>1. y - 1 \in Nat /\ (y - 1) + 1 = y BY <2>4, <2>8
    <3>2. At(y - 1) \in Nat /\ At((y - 1) + 1) = At(y - 1) + Mss BY <1>3, <3>1
    <3>3. PICK p \in Nat : p = At(y - 1) BY <3>2
    <3>4. z = p + Mss BY <2>5, <3>1, <3>2, <3>3
    <3>5. p < N BY <1>2, <2>1, <2>2, <2>6, <3>4
    <3> QED BY <3>3, <3>5
  <2> HIDE DEF m, At, N
  <2> QED BY <2>3, <2>4, <2>5, <2>7, <2>8
<1> HIDE DEF m, At
<1>6. ASSUME NEW i \in 1..m
      PROVE  /\ At(i - 1) \in Nat /\ At(i) = At(i - 1) + Mss /\ At(i - 1) < N
             /\ End(i) \in Nat /\ At(i - 1) < End(i) /\ End(i) <= N /\ End(i) <= At(i - 1) + Mss
  <2>1. i - 1 \in Nat /\ (i - 1) + 1 = i /\ i - 1 <= m - 1 /\ m - 1 \in Nat /\ m # 0 BY <1>5
  <2>2. At(i - 1) \in Nat /\ At((i - 1) + 1) = At(i - 1) + Mss BY <1>3, <2>1
  <2>3. At(i - 1) <= At(m - 1) BY <1>4, <2>1
  <2>4. PICK p \in Nat : p = At(i - 1) /\ At(i) = p + Mss BY <2>1, <2>2
  <2>5. At(m - 1) \in Nat /\ At(m - 1) < N BY <1>3, <1>5, <2>1
  <2>6. p < N BY <1>2, <2>3, <2>4, <2>5
  <2> HIDE DEF N
  <2> QED BY <1>2, <2>4, <2>6
<1> HIDE DEF End
<1>7. ASSUME NEW i \in 1..m
      PROVE  f[i] \in Seq(T) \ {<<>>} /\ Len(f[i]) <= Mss
  <2>1. PICK lo \in Nat, hi \in Nat : lo = At(i - 1) + 1 /\ hi = End(i) BY <1>6
  <2>2. 1 <= lo /\ lo <= hi + 1 /\ hi <= Len(data) /\ hi - lo + 1 <= Mss /\ hi - lo + 1 # 0
    <3> HIDE DEF N
    <3>1. PICK p \in Nat : p = At(i - 1) /\ lo = p + 1 BY <1>6, <2>1
    <3>2. p < hi /\ hi <= N /\ hi <= p + Mss BY <1>6, <2>1, <3>1
    <3> QED BY <1>2, <3>1, <3>2 DEF N
  <2>3. SubSeq(data, lo, hi) \in Seq(T) /\ Len(SubSeq(data, lo, hi)) = hi - lo + 1
    BY <2>2, SubSeqIs
  <2>4. f[i] = SubSeq(data, lo, hi) BY <2>1
  <2>5. Len(<<>>) = 0 OBVIOUS
  <2> HIDE DEF f
  <2> QED BY <2>2, <2>3, <2>4, <2>5
<1>8. f \in Seq(Seq(T) \ {<<>>}) /\ Len(f) = m
  <2>1. f \in [1..m -> Seq(T) \ {<<>>}] BY <1>7
  <2> HIDE DEF f
  <2> QED BY <1>5, <2>1
<1> DEFINE F(i) == [x \in 1..i |-> f[x]]
           P(i) == FlattenSeq(F(i)) = SubSeq(data, 1, End(i))
           S == {i \in Nat : i <= m => P(i)}
<1>9. P(0)
  <2>1. F(0) = <<>> OBVIOUS
  <2>2. At(0) = 0 /\ End(0) = 0 BY <1>2 DEF At, End
  <2>3. SubSeq(data, 1, 0) = <<>>
    <3>1. SubSeq(data, 1, 0) \in Seq(T) /\ Len(SubSeq(data, 1, 0)) = 0 BY <1>2, SubSeqCut
    <3> QED BY <3>1, EmptySeq
  <2> HIDE DEF F
  <2> QED BY <2>1, <2>2, <2>3, FlattenEmpty
<1>10. ASSUME NEW j \in Nat, P(j), j + 1 <= m PROVE P(j + 1)
  <2>1. PICK i \in 1..m : i = j + 1 /\ i - 1 = j BY <1>5, <1>10
  <2>2. FlattenSeq(F(j)) = SubSeq(data, 1, End(j)) BY <1>10
  <2>3. End(j) = At(j) BY <1>6, <2>1 DEF End
  <2>4. F(i) = Append(F(j), f[i])
    <3> HIDE DEF f
    <3> QED BY <2>1
  <2>5. F(j) \in Seq(Seq(T))
    <3>1. \A x \in 1..j : f[x] \in Seq(T)
      <4> HIDE DEF f
      <4> QED BY <1>5, <1>7, <2>1
    <3> HIDE DEF f
    <3>2. F(j) \in [1..j -> Seq(T)] BY <3>1
    <3> QED BY <3>2
  <2>6. f[i] \in Seq(T) /\ f[i] = SubSeq(data, At(j) + 1, End(i)) BY <1>7, <2>1
  <2> HIDE DEF F, f
  <2>7. FlattenSeq(F(i)) = SubSeq(data, 1, At(j)) \o SubSeq(data, At(j) + 1, End(i))
    BY <2>2, <2>3, <2>4, <2>5, <2>6, FlattenAppend
  <2>8. PICK p \in Nat, e \in Nat : p = At(j) + 1 /\ p - 1 = At(j) /\ e = End(i) + 1 /\ e - 1 = End(i)
    BY <1>6, <2>1
  <2>9. 1 <= p /\ p <= e /\ e <= Len(data) + 1
    <3>1. At(j) < End(i) /\ End(i) <= N /\ End(i) \in Nat /\ At(j) \in Nat BY <1>6, <2>1
    <3> HIDE DEF N
    <3>2. e <= N + 1 BY <1>2, <2>8, <3>1
    <3> QED BY <2>8, <3>1, <3>2 DEF N
  <2>10. SubSeq(data, 1, p - 1) \o SubSeq(data, p, e - 1) = SubSeq(data, 1, e - 1)
    BY <2>9, SubSeqJoin
  <2> QED BY <2>1, <2>7, <2>8, <2>10
<1> HIDE DEF P
<1>16. 0 \in S /\ \A j \in Nat : j \in S => j + 1 \in S BY <1>5, <1>9, <1>10
<1> HIDE DEF S
<1>11. m \in S BY <1>5, <1>16, Induction
<1>12. FlattenSeq(F(m)) = SubSeq(data, 1, End(m)) BY <1>5, <1>11 DEF S, P
<1>13. End(m) = N
  <2>1. At(m) \in Nat BY <1>3, <1>5
  <2> QED BY <1>2, <1>5, <2>1 DEF End
<1>14. F(m) = f BY <1>5
<1>15. SubSeq(data, 1, N) = data BY SubSeqAll
<1> HIDE DEF f, F, N
<1> QED BY <1>1, <1>7, <1>8, <1>12, <1>13, <1>14, <1>15

\* Pieces are sequences of units that are not empty.
LEMMA PiecesAre ==
    /\ Pieces = Seq(Units) \ {<<>>}
    /\ \A q \in Seq(Pieces) : q \in Seq(Seq(Units))
    /\ \A p \in Pieces : Len(p) \in Nat /\ Len(p) # 0
<1>1. Pieces \subseteq Seq(Units) BY DEF Pieces
<1>2. \A q \in Seq(Pieces) : q \in Seq(Seq(Units)) BY <1>1, SeqMonotonic
<1>3. ASSUME NEW p \in Pieces PROVE Len(p) \in Nat /\ Len(p) # 0
  <2>1. p \in Seq(Units) /\ p # <<>> BY DEF Pieces
  <2> QED BY <2>1
<1> QED BY <1>2, <1>3 DEF Pieces

\* ikcp_send: the message joins the end of what is queued, the last piece filled up.
LEMMA SendIs ==
    ASSUME NEW k, Block(k), NEW sn, NEW D, NEW u, Sender(k, sn, D, u), NEW data \in Seq(Units)
    PROVE  LET k2 == KcpSend(k, data)
           IN  /\ Block(k2) /\ SameReceiver(k, k2) /\ Sender(k2, sn, D, u)
               /\ k2.snd_buf = k.snd_buf
               /\ FlattenSeq(k2.snd_queue) = FlattenSeq(k.snd_queue) \o data
<1> DEFINE q == k.snd_queue
           capacity == IF q = <<>> THEN 0 ELSE Mss - Len(Last(q))
           extend == IF Len(data) < capacity THEN Len(data) ELSE capacity
           pre == SubSeq(data, 1, extend)
           rest == SubSeq(data, extend + 1, Len(data))
           filled == IF extend = 0 THEN q ELSE Append(Front(q), Last(q) \o pre)
           frags == Fragments(rest)
           k2 == [k EXCEPT !.snd_queue = filled \o frags]
<1>1. KcpSend(k, data) = k2 BY DEF KcpSend
<1>2. /\ q \in Seq(Pieces) /\ q \in Seq(Seq(Units)) /\ Len(q) \in Nat
      /\ \A i \in 1..Len(q) : Len(q[i]) <= Mss
      /\ Mss \in Nat /\ Len(data) \in Nat
  BY PiecesAre, Words DEF Sender
<1> HIDE DEF q
<1>3. q # <<>> => /\ Front(q) \in Seq(Pieces) /\ Last(q) \in Pieces
                  /\ q = Append(Front(q), Last(q))
                  /\ Len(Last(q)) \in Nat /\ Len(Last(q)) <= Mss
  <2> SUFFICES ASSUME q # <<>>
               PROVE  /\ Front(q) \in Seq(Pieces) /\ Last(q) \in Pieces
                      /\ q = Append(Front(q), Last(q))
                      /\ Len(Last(q)) \in Nat /\ Len(Last(q)) <= Mss
    OBVIOUS
  <2>1. /\ Front(q) \in Seq(Pieces) /\ Last(q) \in Pieces /\ q = Append(Front(q), Last(q))
    BY <1>2, FrontIs
  <2>2. Len(q) \in 1..Len(q) BY <1>2
  <2>3. Len(Last(q)) <= Mss BY <1>2, <2>2 DEF Last
  <2> QED BY <2>1, <2>3, PiecesAre
<1>4. extend \in Nat /\ extend <= Len(data) /\ (q = <<>> => extend = 0)
      /\ (q # <<>> => Len(Last(q)) + extend <= Mss)
  BY <1>2, <1>3
<1> HIDE DEF extend
<1>5. /\ pre \in Seq(Units) /\ Len(pre) = extend /\ rest \in Seq(Units) /\ pre \o rest = data
  BY <1>2, <1>4, SubSeqCut
<1>6. extend = 0 => pre = <<>> BY <1>5, EmptySeq
<1> HIDE DEF pre, rest
<1>7. /\ frags \in Seq(Pieces) /\ \A i \in 1..Len(frags) : Len(frags[i]) <= Mss
      /\ FlattenSeq(frags) = rest
  BY <1>5, FragmentsAre, PiecesAre
<1> HIDE DEF frags
<1>8. /\ filled \in Seq(Pieces) /\ \A i \in 1..Len(filled) : Len(filled[i]) <= Mss
      /\ FlattenSeq(filled) = FlattenSeq(q) \o pre
  <2>1. FlattenSeq(q) \in Seq(Units) BY <1>2, FlattenType
  <2>2. CASE extend = 0
    <3>1. filled = q BY <2>2
    <3>2. FlattenSeq(q) \o pre = FlattenSeq(q) BY <1>6, <2>1, <2>2, ConcatEmptySeq
    <3> HIDE DEF filled
    <3> QED BY <1>2, <3>1, <3>2
  <2>3. CASE extend # 0
    <3>1. PICK f \in Seq(Pieces), l \in Pieces :
             /\ f = Front(q) /\ l = Last(q) /\ q = Append(f, l)
             /\ Len(l) \in Nat /\ Len(l) + extend <= Mss
      BY <1>3, <1>4, <2>3
    <3>2. PICK x : x = l \o pre OBVIOUS
    <3>3. l \in Seq(Units) /\ f \in Seq(Seq(Units)) BY PiecesAre
    <3>4. x \in Seq(Units) /\ Len(x) = Len(l) + extend BY <1>5, <3>2, <3>3, ConcatProperties
    <3>5. x \in Pieces
      <4>1. Len(x) # 0 BY <1>4, <2>3, <3>1, <3>4
      <4>2. x # <<>> BY <4>1
      <4> QED BY <3>4, <4>2 DEF Pieces
    <3>6. filled = Append(f, x) BY <2>3, <3>1, <3>2
    <3> HIDE DEF filled
    <3>7. filled \in Seq(Pieces) BY <3>5, <3>6
    <3>8. \A i \in 1..Len(filled) : Len(filled[i]) <= Mss
      <4> TAKE i \in 1..Len(filled)
      <4>1. Len(filled) = Len(f) + 1 /\ Len(q) = Len(f) + 1 /\ Len(f) \in Nat BY <3>1, <3>5, <3>6
      <4>2. CASE i = Len(f) + 1
        <5>1. filled[i] = x BY <3>5, <3>6, <4>2
        <5> QED BY <3>1, <3>4, <5>1
      <4>3. CASE i # Len(f) + 1
        <5>1. i \in 1..Len(f) BY <4>1, <4>3
        <5>2. filled[i] = f[i] /\ q[i] = f[i] BY <3>1, <3>5, <3>6, <5>1
        <5>3. i \in 1..Len(q) BY <4>1
        <5> QED BY <1>2, <5>2, <5>3
      <4> QED BY <4>2, <4>3
    <3>9. FlattenSeq(filled) = FlattenSeq(f) \o x BY <3>3, <3>4, <3>6, FlattenAppend
    <3>10. FlattenSeq(q) = FlattenSeq(f) \o l BY <3>1, <3>3, FlattenAppend
    <3>11. PICK y \in Seq(Units) : y = FlattenSeq(f) BY <3>3, FlattenType
    <3>12. (y \o l) \o pre = y \o (l \o pre)
      <4>1. l \in Seq(Units) /\ pre \in Seq(Units) BY <1>5, <3>3
      <4> QED BY ONLY <4>1, y \in Seq(Units), ConcatAssociative, SMTT(20)
    <3> QED BY <3>2, <3>7, <3>8, <3>9, <3>10, <3>11, <3>12
  <2> QED BY <2>2, <2>3
<1> HIDE DEF filled
<1>9. PICK v : v = filled \o frags OBVIOUS
<1>10. v \in Seq(Pieces) /\ \A i \in 1..Len(v) : Len(v[i]) <= Mss
  <2>1. /\ v \in Seq(Pieces) /\ Len(v) = Len(filled) + Len(frags)
        /\ \A i \in 1..(Len(filled) + Len(frags)) :
               v[i] = IF i <= Len(filled) THEN filled[i] ELSE frags[i - Len(filled)]
    BY <1>7, <1>8, <1>9, ConcatProperties
  <2>2. Len(filled) \in Nat /\ Len(frags) \in Nat BY <1>7, <1>8
  <2>3. \A i \in 1..Len(v) : Len(v[i]) <= Mss
    <3> TAKE i \in 1..Len(v)
    <3>1. i \in 1..(Len(filled) + Len(frags)) BY <2>1
    <3>2. CASE i <= Len(filled)
      <4>1. v[i] = filled[i] /\ i \in 1..Len(filled) BY <2>1, <2>2, <3>1, <3>2
      <4> QED BY <1>8, <4>1
    <3>3. CASE ~(i <= Len(filled))
      <4>1. PICK m : m = i - Len(filled) OBVIOUS
      <4>2. v[i] = frags[m] /\ m \in 1..Len(frags) BY <2>1, <2>2, <3>1, <3>3, <4>1
      <4> QED BY <1>7, <4>2
    <3> QED BY <3>2, <3>3
  <2> QED BY <2>1, <2>3
<1>11. FlattenSeq(v) = FlattenSeq(q) \o data
  <2>1. filled \in Seq(Seq(Units)) /\ frags \in Seq(Seq(Units)) BY <1>7, <1>8, PiecesAre
  <2>2. FlattenSeq(v) = FlattenSeq(filled) \o FlattenSeq(frags) BY <1>9, <2>1, FlattenConcat
  <2>3. PICK y \in Seq(Units) : y = FlattenSeq(q) BY <1>2, FlattenType
  <2>5. pre \in Seq(Units) /\ rest \in Seq(Units) BY <1>5
  <2>4. (y \o pre) \o rest = y \o (pre \o rest)
    BY ONLY <2>5, y \in Seq(Units), ConcatAssociative, SMTT(20)
  <2> QED BY <1>5, <1>7, <1>8, <2>2, <2>3, <2>4
<1>12. k2 = [k EXCEPT !.snd_queue = v] BY <1>9
<1> HIDE DEF k2
<1>13. /\ DOMAIN k2 = Fields /\ k2.snd_queue = v /\ k2.snd_buf = k.snd_buf
       /\ k2.snd_una = k.snd_una /\ k2.snd_nxt = k.snd_nxt /\ k2.rmt_wnd = k.rmt_wnd
       /\ SameReceiver(k, k2)
  BY <1>12 DEF Block, Fields, SameReceiver
<1>14. Block(k2) BY <1>13 DEF Block
<1>15. Sender(k2, sn, D, u) BY <1>10, <1>13 DEF Sender
<1> QED BY <1>1, <1>11, <1>13, <1>14, <1>15 DEF q

(* ------------------------------ the buffer ------------------------------- *)

Bytes == Units \cup {NoUnit}

BufOk(d) ==
    /\ DOMAIN d = {"mem", "read", "write"}
    /\ d.mem \in Seq(Bytes)
    /\ d.read \in Nat /\ d.write \in Nat /\ d.read <= d.write /\ d.write <= Len(d.mem)
    /\ Readable(d) \in Seq(Units)

\* Sequences that end with what others begin with.
LEMMA ConcatIs ==
    ASSUME NEW T, NEW s \in Seq(T), NEW t \in Seq(T)
    PROVE  /\ s \o t \in Seq(T) /\ Len(s \o t) = Len(s) + Len(t) /\ Len(s) \in Nat /\ Len(t) \in Nat
           /\ \A i \in 1..Len(s) : (s \o t)[i] = s[i]
           /\ \A i \in 1..Len(t) : (s \o t)[Len(s) + i] = t[i]
<1>1. PICK c : c = s \o t OBVIOUS
<1>2. /\ c \in Seq(T) /\ Len(c) = Len(s) + Len(t)
      /\ \A i \in 1..(Len(s) + Len(t)) : c[i] = IF i <= Len(s) THEN s[i] ELSE t[i - Len(s)]
  BY <1>1, ConcatProperties
<1>3. Len(s) \in Nat /\ Len(t) \in Nat OBVIOUS
<1>4. ASSUME NEW i \in 1..Len(s) PROVE c[i] = s[i]
  <2>1. i \in 1..(Len(s) + Len(t)) /\ i <= Len(s) BY <1>3
  <2> QED BY <1>2, <2>1
<1>5. ASSUME NEW i \in 1..Len(t) PROVE c[Len(s) + i] = t[i]
  <2>1. PICK j : j = Len(s) + i OBVIOUS
  <2>2. j \in 1..(Len(s) + Len(t)) /\ ~(j <= Len(s)) /\ j - Len(s) = i BY <1>3, <2>1
  <2>3. c[j] = t[j - Len(s)] BY <1>2, <2>2
  <2> QED BY <2>1, <2>2, <2>3
<1> QED BY <1>1, <1>2, <1>3, <1>4, <1>5

\* What a buffer holds, between its indices.
LEMMA ReadableIs ==
    ASSUME NEW d, d.mem \in Seq(Bytes), d.read \in Nat, d.write \in Nat,
           d.read <= d.write, d.write <= Len(d.mem)
    PROVE  /\ Readable(d) \in Seq(Bytes) /\ Len(Readable(d)) = d.write - d.read
           /\ \A i \in 1..(d.write - d.read) : Readable(d)[i] = d.mem[d.read + i]
<1>1. PICK m \in Seq(Bytes), lo \in Nat, hi \in Nat : m = d.mem /\ lo = d.read + 1 /\ hi = d.write OBVIOUS
<1>2. lo \in Int /\ hi \in Int /\ 1 <= lo /\ lo <= hi + 1 /\ hi <= Len(m) /\ hi - lo + 1 = d.write - d.read
  BY <1>1
<1>3. /\ SubSeq(m, lo, hi) \in Seq(Bytes) /\ Len(SubSeq(m, lo, hi)) = hi - lo + 1
      /\ \A i \in 1..(hi - lo + 1) : SubSeq(m, lo, hi)[i] = m[lo + i - 1]
  BY ONLY <1>2, m \in Seq(Bytes), SubSeqIs
<1>4. Readable(d) = SubSeq(m, lo, hi) BY <1>1 DEF Readable
<1>5. \A i \in 1..(d.write - d.read) : Readable(d)[i] = d.mem[d.read + i]
  <2> TAKE i \in 1..(d.write - d.read)
  <2>1. i \in 1..(hi - lo + 1) /\ lo + i - 1 = d.read + i BY <1>1, <1>2
  <2> QED BY <1>1, <1>3, <1>4, <2>1
<1> QED BY <1>2, <1>3, <1>4, <1>5

\* Two buffers whose readable bytes are the same.
LEMMA SameReadable ==
    ASSUME NEW d, BufOk(d), NEW e, e.mem \in Seq(Bytes), e.read \in Nat, e.write \in Nat,
           e.read <= e.write, e.write <= Len(e.mem), e.write - e.read = d.write - d.read,
           \A i \in 1..(d.write - d.read) : e.mem[e.read + i] = d.mem[d.read + i]
    PROVE  Readable(e) = Readable(d)
<1>1. PICK x \in Seq(Bytes) : /\ x = Readable(d) /\ Len(x) = d.write - d.read
                              /\ \A i \in 1..(d.write - d.read) : x[i] = d.mem[d.read + i]
  BY ReadableIs DEF BufOk
<1>2. PICK y \in Seq(Bytes) : /\ y = Readable(e) /\ Len(y) = e.write - e.read
                              /\ \A i \in 1..(e.write - e.read) : y[i] = e.mem[e.read + i]
  BY ReadableIs
<1>3. Len(x) = Len(y) /\ \A i \in 1..Len(x) : y[i] = x[i] BY <1>1, <1>2
<1>4. x = y BY <1>3, SeqEqual
<1> QED BY <1>1, <1>2, <1>4

\* make_space moves what is readable or makes the memory longer, and loses nothing.
LEMMA MakeSpaceIs ==
    ASSUME NEW d, BufOk(d), NEW len \in Nat, Len(d.mem) - d.write < len
    PROVE  LET e == MakeSpace(d, len)
           IN  /\ BufOk(e) /\ Readable(e) = Readable(d)
               /\ e.write + len <= Len(e.mem) /\ Len(d.mem) <= Len(e.mem)
<1> DEFINE e == MakeSpace(d, len)
<1>1. PICK m \in Seq(Bytes), r \in Nat, w \in Nat, N \in Nat :
         /\ m = d.mem /\ r = d.read /\ w = d.write /\ N = Len(m)
         /\ r <= w /\ w <= N /\ N - w < len
  BY DEF BufOk
<1>9. r \in Nat /\ w \in Nat /\ N \in Nat /\ r <= w /\ w <= N /\ N - w < len /\ N = Len(m) BY <1>1
<1>2. DOMAIN d = {"mem", "read", "write"} /\ Readable(d) \in Seq(Units) BY DEF BufOk
<1>3. CASE N - w + r < len
  <2>1. PICK z : z = [i \in 1..(w + len - N) |-> NoUnit] OBVIOUS
  <2>2. z \in Seq(Bytes) /\ Len(z) = w + len - N
    <3>1. PICK h \in Nat : h = w + len - N BY <1>1
    <3>2. z = [i \in 1..h |-> NoUnit] BY <2>1, <3>1
    <3>3. NoUnit \in Bytes BY DEF Bytes
    <3>4. z \in [1..h -> Bytes] BY <3>2, <3>3
    <3> QED BY <3>1, <3>2, <3>4
  <2>3. PICK n : n = m \o z OBVIOUS
  <2>4. /\ n \in Seq(Bytes) /\ Len(n) = w + len /\ \A i \in 1..N : n[i] = m[i]
    <3>1. /\ n \in Seq(Bytes) /\ Len(n) = Len(m) + Len(z) /\ \A i \in 1..Len(m) : n[i] = m[i]
      BY <2>2, <2>3, ConcatIs
    <3>2. Len(m) + Len(z) = w + len BY <1>9, <2>2
    <3> QED BY <1>9, <3>1, <3>2
  <2>5. e = [d EXCEPT !.mem = n] BY <1>1, <1>3, <2>1, <2>3 DEF MakeSpace
  <2> HIDE DEF e
  <2>6. DOMAIN e = {"mem", "read", "write"} /\ e.mem = n /\ e.read = r /\ e.write = w
    BY <1>1, <1>2, <2>5
  <2>7. Readable(e) = Readable(d)
    <3>1. \A i \in 1..(w - r) : n[r + i] = m[r + i]
      <4> TAKE i \in 1..(w - r)
      <4>1. r + i \in 1..N BY <1>1
      <4> QED BY <2>4, <4>1
    <3>2. w <= Len(n) BY <1>1, <2>4
    <3>3. /\ e.mem \in Seq(Bytes) /\ e.read \in Nat /\ e.write \in Nat
          /\ e.read <= e.write /\ e.write <= Len(e.mem) /\ e.write - e.read = d.write - d.read
      BY <1>1, <2>4, <2>6, <3>2
    <3>4. \A i \in 1..(d.write - d.read) : e.mem[e.read + i] = d.mem[d.read + i]
      BY <1>1, <2>6, <3>1
    <3> QED BY ONLY BufOk(d), <3>3, <3>4, SameReadable
  <2>8. BufOk(e) BY <1>1, <1>2, <2>4, <2>6, <2>7 DEF BufOk
  <2> QED BY <1>1, <2>4, <2>6, <2>7, <2>8 DEF e
<1>4. CASE ~(N - w + r < len)
  <2>1. PICK s \in Nat : s = w - r /\ s + len <= N /\ s <= N BY <1>9, <1>4
  <2>2. PICK x \in Seq(Bytes) : /\ x = Readable(d) /\ Len(x) = s /\ \A i \in 1..s : x[i] = m[r + i]
    <3>1. /\ Readable(d) \in Seq(Bytes) /\ Len(Readable(d)) = d.write - d.read
          /\ \A i \in 1..(d.write - d.read) : Readable(d)[i] = d.mem[d.read + i]
      BY ReadableIs DEF BufOk
    <3> QED BY <1>1, <2>1, <3>1
  <2>3. PICK y \in Seq(Bytes) : y = SubSeq(m, s + 1, N) /\ Len(y) = N - s
    <3>1. SubSeq(m, s + 1, Len(m)) \in Seq(Bytes) /\ Len(SubSeq(m, s + 1, Len(m))) = Len(m) - s
      BY <1>1, <2>1, SubSeqCut
    <3> QED BY <1>1, <3>1
  <2>4. PICK n : n = x \o y OBVIOUS
  <2>5. /\ n \in Seq(Bytes) /\ Len(n) = N /\ \A i \in 1..s : n[i] = m[r + i]
    <3>1. /\ n \in Seq(Bytes) /\ Len(n) = Len(x) + Len(y) /\ \A i \in 1..Len(x) : n[i] = x[i]
      BY ONLY <2>4, x \in Seq(Bytes), y \in Seq(Bytes), ConcatIs
    <3>2. Len(x) + Len(y) = N BY <1>9, <2>1, <2>2, <2>3
    <3> QED BY <2>2, <3>1, <3>2
  <2>6. e = [d EXCEPT !.mem = n, !.read = 0, !.write = s]
    <3>1. ReadableSize(d) = s BY <1>1, <2>1 DEF ReadableSize
    <3> QED BY <1>1, <1>4, <2>2, <2>3, <2>4, <3>1 DEF MakeSpace
  <2> HIDE DEF e
  <2>7. DOMAIN e = {"mem", "read", "write"} /\ e.mem = n /\ e.read = 0 /\ e.write = s
    BY <1>2, <2>6
  <2>8. Readable(e) = Readable(d)
    <3>1. \A i \in 1..(w - r) : n[0 + i] = m[r + i]
      <4> TAKE i \in 1..(w - r)
      <4>1. i \in 1..s /\ 0 + i = i BY <2>1
      <4> QED BY <2>5, <4>1
    <3>2. s <= Len(n) /\ s - 0 = w - r /\ 0 <= s BY <1>9, <2>1, <2>5
    <3>3. \A i \in 1..(d.write - d.read) : e.mem[e.read + i] = d.mem[d.read + i]
      BY <1>1, <2>7, <3>1
    <3>4. /\ e.mem \in Seq(Bytes) /\ e.read \in Nat /\ e.write \in Nat /\ e.read <= e.write
          /\ e.write <= Len(e.mem) /\ e.write - e.read = d.write - d.read
      BY <1>1, <2>1, <2>5, <2>7, <3>2
    <3> QED BY <3>3, <3>4, SameReadable
  <2>9. BufOk(e) BY <1>2, <2>1, <2>5, <2>7, <2>8 DEF BufOk
  <2> QED BY <1>1, <2>1, <2>5, <2>7, <2>8, <2>9 DEF e
<1> QED BY <1>3, <1>4

\* append puts data behind what is readable.
LEMMA AppendIs ==
    ASSUME NEW d, BufOk(d), NEW data \in Seq(Units)
    PROVE  LET d2 == BufferAppend(d, data)
           IN  BufOk(d2) /\ Readable(d2) = Readable(d) \o data /\ Len(d.mem) <= Len(d2.mem)
<1> DEFINE d2 == BufferAppend(d, data)
<1>0. PICK len \in Nat : len = Len(data) OBVIOUS
<1>1. PICK e : e = IF Len(d.mem) - d.write < len THEN MakeSpace(d, len) ELSE d OBVIOUS
<1>2. /\ BufOk(e) /\ Readable(e) = Readable(d)
      /\ e.write + len <= Len(e.mem) /\ Len(d.mem) <= Len(e.mem)
  <2>1. CASE Len(d.mem) - d.write < len
    <3>1. e = MakeSpace(d, len) BY <1>1, <2>1
    <3> QED BY <2>1, <3>1, MakeSpaceIs
  <2>2. CASE ~(Len(d.mem) - d.write < len)
    <3>1. e = d BY <1>1, <2>2
    <3>2. Len(d.mem) \in Nat /\ d.write \in Nat BY DEF BufOk
    <3> QED BY <2>2, <3>1, <3>2
  <2> QED BY <2>1, <2>2
<1>3. PICK m \in Seq(Bytes), r \in Nat, w \in Nat, N \in Nat :
         /\ m = e.mem /\ r = e.read /\ w = e.write /\ N = Len(m)
         /\ r <= w /\ w <= N /\ w + len <= N
  BY <1>2 DEF BufOk
<1>19. r \in Nat /\ w \in Nat /\ N \in Nat /\ r <= w /\ w <= N /\ w + len <= N /\ len \in Nat BY <1>3
<1>4. data \in Seq(Bytes)
  <2>1. Units \subseteq Bytes BY DEF Bytes
  <2> QED BY <2>1, SeqMonotonic
<1>5. PICK x \in Seq(Bytes) : x = SubSeq(m, 1, w) /\ Len(x) = w /\ \A i \in 1..w : x[i] = m[i]
  <2>1. w \in Int /\ 1 \in Int /\ 1 <= 1 /\ 1 <= w + 1 /\ w <= Len(m) /\ w - 1 + 1 = w BY <1>3
  <2>2. /\ SubSeq(m, 1, w) \in Seq(Bytes) /\ Len(SubSeq(m, 1, w)) = w - 1 + 1
        /\ \A i \in 1..(w - 1 + 1) : SubSeq(m, 1, w)[i] = m[1 + i - 1]
    BY ONLY <2>1, m \in Seq(Bytes), SubSeqIs
  <2>3. \A i \in 1..w : SubSeq(m, 1, w)[i] = m[i]
    <3> TAKE i \in 1..w
    <3>1. 1 + i - 1 = i OBVIOUS
    <3> QED BY <2>1, <2>2, <3>1
  <2> QED BY <2>1, <2>2, <2>3
<1>6. PICK y \in Seq(Bytes) : y = SubSeq(m, w + len + 1, N) /\ Len(y) = N - (w + len)
  <2>1. PICK h \in Nat : h = w + len /\ h <= Len(m) BY <1>3
  <2>2. SubSeq(m, h + 1, Len(m)) \in Seq(Bytes) /\ Len(SubSeq(m, h + 1, Len(m))) = Len(m) - h
    BY <2>1, SubSeqCut
  <2> QED BY <1>3, <2>1, <2>2
<1>7. PICK z \in Seq(Bytes) : /\ z = x \o data /\ Len(z) = w + len
                              /\ \A i \in 1..w : z[i] = x[i]
                              /\ \A i \in 1..len : z[w + i] = data[i]
  <2>1. /\ x \o data \in Seq(Bytes) /\ Len(x \o data) = Len(x) + Len(data)
        /\ \A i \in 1..Len(x) : (x \o data)[i] = x[i]
        /\ \A i \in 1..Len(data) : (x \o data)[Len(x) + i] = data[i]
    BY <1>4, ConcatIs
  <2>2. PICK z \in Seq(Bytes) : z = x \o data BY <2>1
  <2>3. Len(x) = w /\ Len(data) = len BY <1>0, <1>5
  <2> QED BY <2>1, <2>2, <2>3
<1>8. PICK n \in Seq(Bytes) : n = z \o y /\ Len(n) = N /\ \A i \in 1..(w + len) : n[i] = z[i]
  <2>1. /\ z \o y \in Seq(Bytes) /\ Len(z \o y) = Len(z) + Len(y)
        /\ \A i \in 1..Len(z) : (z \o y)[i] = z[i]
    BY ConcatIs
  <2>2. PICK n \in Seq(Bytes) : n = z \o y BY <2>1
  <2>3. Len(z) = w + len /\ Len(z) + Len(y) = N BY <1>19, <1>6, <1>7
  <2> QED BY <2>1, <2>2, <2>3
<1>9. d2 = [e EXCEPT !.mem = n, !.write = w + len]
  BY <1>0, <1>1, <1>3, <1>5, <1>6, <1>7, <1>8 DEF BufferAppend
<1> HIDE DEF d2
<1>10. DOMAIN d2 = {"mem", "read", "write"} /\ d2.mem = n /\ d2.read = r /\ d2.write = w + len
  BY <1>2, <1>3, <1>9 DEF BufOk
<1>11. PICK f \in Seq(Units) : /\ f = Readable(e) /\ Len(f) = w - r
                               /\ \A i \in 1..(w - r) : f[i] = m[r + i]
  <2>1. /\ Readable(e) \in Seq(Units) /\ Len(Readable(e)) = e.write - e.read
        /\ \A i \in 1..(e.write - e.read) : Readable(e)[i] = e.mem[e.read + i]
    BY <1>2, ReadableIs DEF BufOk
  <2> QED BY <1>3, <2>1
<1>12. PICK g \in Seq(Units) : /\ g = f \o data /\ Len(g) = w - r + len
                               /\ \A i \in 1..(w - r) : g[i] = f[i]
                               /\ \A i \in 1..len : g[w - r + i] = data[i]
  <2>1. /\ f \o data \in Seq(Units) /\ Len(f \o data) = Len(f) + Len(data)
        /\ \A i \in 1..Len(f) : (f \o data)[i] = f[i]
        /\ \A i \in 1..Len(data) : (f \o data)[Len(f) + i] = data[i]
    BY ConcatIs
  <2>2. PICK g \in Seq(Units) : g = f \o data BY <2>1
  <2>3. Len(f) = w - r /\ Len(data) = len BY <1>0, <1>11
  <2> QED BY <2>1, <2>2, <2>3
<1>13. PICK h \in Seq(Bytes) : /\ h = Readable(d2) /\ Len(h) = w + len - r
                               /\ \A i \in 1..(w + len - r) : h[i] = n[r + i]
  <2>1. r <= w + len /\ w + len <= Len(n) /\ w + len \in Nat BY ONLY <1>8, <1>19
  <2>2. /\ Readable(d2) \in Seq(Bytes) /\ Len(Readable(d2)) = d2.write - d2.read
        /\ \A i \in 1..(d2.write - d2.read) : Readable(d2)[i] = d2.mem[d2.read + i]
    BY <1>10, <2>1, ReadableIs
  <2>3. PICK h \in Seq(Bytes) : h = Readable(d2) BY <2>2
  <2> QED BY <1>10, <2>2, <2>3
<1>14. \A i \in 1..Len(h) : h[i] = g[i]
  <2> TAKE i \in 1..Len(h)
  <2>1. i \in 1..(w + len - r) /\ h[i] = n[r + i] BY <1>13
  <2>2. r + i \in 1..(w + len) BY <1>19, <2>1
  <2>3. h[i] = z[r + i] BY <1>8, <2>1, <2>2
  <2>4. CASE i <= w - r
    <3>0. PICK c \in Int : c = i /\ 1 <= c /\ c <= w - r BY <2>1, <2>4
    <3>1. r + i \in 1..w /\ i \in 1..(w - r) BY ONLY <1>19, <3>0
    <3> QED BY <1>5, <1>7, <1>11, <1>12, <2>3, <3>1
  <2>5. CASE ~(i <= w - r)
    <3>1. PICK c \in Int : c = i /\ c <= w + len - r /\ ~(c <= w - r) BY <2>1, <2>5
    <3>2. PICK j \in Int : j = c - (w - r) BY <3>1
    <3>3. 1 <= j /\ j <= len /\ r + c = w + j /\ c = w - r + j BY <3>1, <3>2
    <3>4. j \in 1..len /\ r + i = w + j /\ i = w - r + j BY <3>1, <3>3
    <3> QED BY <1>7, <1>12, <2>3, <3>4
  <2> QED BY <2>4, <2>5
<1>15. h = g
  <2>1. Len(h) = Len(g) /\ g \in Seq(Bytes)
    <3>1. Units \subseteq Bytes BY DEF Bytes
    <3>2. g \in Seq(Bytes) BY <3>1, SeqMonotonic
    <3> QED BY <1>3, <1>12, <1>13, <3>2
  <2> QED BY <1>14, <2>1, SeqEqual
<1>16. Readable(d2) = Readable(d) \o data BY <1>2, <1>11, <1>12, <1>13, <1>15
<1>17. BufOk(d2)
  <2>1. r <= w + len /\ w + len <= Len(n) /\ w + len \in Nat BY ONLY <1>8, <1>19
  <2> QED BY <1>10, <1>12, <1>13, <1>15, <2>1 DEF BufOk
<1>18. Len(d.mem) <= Len(d2.mem) BY <1>2, <1>3, <1>8, <1>10
<1> QED BY <1>16, <1>17, <1>18 DEF d2

\* And so with several pieces.
LEMMA AppendedIs ==
    ASSUME NEW d, BufOk(d), NEW ss \in Seq(Seq(Units))
    PROVE  /\ BufOk(Appended(d, ss)) /\ Readable(Appended(d, ss)) = Readable(d) \o FlattenSeq(ss)
           /\ Len(d.mem) <= Len(Appended(d, ss).mem)
<1>1. DOMAIN ss = 1..Len(ss) /\ Len(ss) \in Nat OBVIOUS
<1>2. PICK g : /\ g[0] = d /\ Appended(d, ss) = g[Len(ss)]
               /\ \A i \in 1..Len(ss) : g[i] = BufferAppend(g[i - 1], ss[i])
  <2>1. PICK k, t : k = d /\ t = ss OBVIOUS
  <2>2. DOMAIN t = 1..Len(t) /\ Len(t) \in Nat BY <1>1, <2>1
  <2>3. \E g : /\ g[0] = k /\ Appended(k, t) = g[Len(t)]
               /\ \A i \in 1..Len(t) : g[i] = BufferAppend(g[i - 1], t[i])
    BY <2>2, AppendFold, SMTT(20)
  <2> QED BY <2>1, <2>3
<1> DEFINE F(i) == [x \in 1..i |-> ss[x]]
           P(i) == /\ BufOk(g[i]) /\ Readable(g[i]) = Readable(d) \o FlattenSeq(F(i))
                   /\ Len(d.mem) <= Len(g[i].mem)
           S == {i \in Nat : i <= Len(ss) => P(i)}
<1>0. Readable(d) \in Seq(Units) /\ Len(d.mem) \in Nat BY DEF BufOk
<1>3. P(0)
  <2>1. F(0) = <<>> OBVIOUS
  <2> HIDE DEF F
  <2>2. Readable(d) \o <<>> = Readable(d) BY <1>0, ConcatEmptySeq
  <2> QED BY <1>0, <1>2, <2>1, <2>2, FlattenEmpty
<1>4. ASSUME NEW j \in Nat, P(j), j + 1 <= Len(ss) PROVE P(j + 1)
  <2>1. PICK i \in 1..Len(ss) : i = j + 1 /\ i - 1 = j BY <1>1, <1>4
  <2>2. g[i] = BufferAppend(g[j], ss[i]) /\ ss[i] \in Seq(Units) BY <1>2, <2>1
  <2>3. /\ BufOk(g[i]) /\ Readable(g[i]) = Readable(g[j]) \o ss[i]
        /\ Len(g[j].mem) <= Len(g[i].mem)
    BY <1>4, <2>2, AppendIs
  <2>4. F(i) = Append(F(j), ss[i]) BY <2>1
  <2>5. F(j) \in Seq(Seq(Units))
    <3>1. F(j) \in [1..j -> Seq(Units)] BY <1>1, <1>4
    <3> QED BY <3>1
  <2> HIDE DEF F
  <2>6. FlattenSeq(F(i)) = FlattenSeq(F(j)) \o ss[i] BY <2>2, <2>4, <2>5, FlattenAppend
  <2>7. PICK x \in Seq(Units), y \in Seq(Units), z \in Seq(Units) :
            x = Readable(d) /\ y = FlattenSeq(F(j)) /\ z = ss[i]
    BY <1>0, <2>2, <2>5, FlattenType
  <2>8. (x \o y) \o z = x \o (y \o z)
    BY ONLY x \in Seq(Units), y \in Seq(Units), z \in Seq(Units), ConcatAssociative, SMTT(20)
  <2>9. Readable(g[i]) = Readable(d) \o FlattenSeq(F(i)) BY <1>4, <2>3, <2>6, <2>7, <2>8
  <2>10. Len(g[j].mem) \in Nat /\ Len(g[i].mem) \in Nat
    <3>1. g[j].mem \in Seq(Bytes) /\ g[i].mem \in Seq(Bytes) BY <1>4, <2>3 DEF BufOk
    <3> QED BY <3>1
  <2>11. Len(d.mem) <= Len(g[i].mem)
    <3>1. Len(d.mem) <= Len(g[j].mem) /\ Len(g[j].mem) <= Len(g[i].mem) BY <1>4, <2>3
    <3>2. PICK p \in Nat, q \in Nat, o \in Nat : p = Len(d.mem) /\ q = Len(g[j].mem) /\ o = Len(g[i].mem)
      BY <1>0, <2>10
    <3>3. p <= q /\ q <= o BY <3>1, <3>2
    <3>4. p <= o BY ONLY p \in Nat, q \in Nat, o \in Nat, <3>3
    <3> QED BY <3>2, <3>4
  <2> QED BY <2>1, <2>3, <2>9, <2>11
<1> HIDE DEF P
<1>5. 0 \in S /\ \A j \in Nat : j \in S => j + 1 \in S BY <1>1, <1>3, <1>4
<1> HIDE DEF S
<1>6. Len(ss) \in S BY <1>1, <1>5, Induction
<1>7. P(Len(ss)) BY <1>1, <1>6 DEF S
<1>8. F(Len(ss)) = ss OBVIOUS
<1> HIDE DEF F
<1> QED BY <1>2, <1>7, <1>8 DEF P

\* retrieve takes from the front of what is readable.
LEMMA RetrieveIs ==
    ASSUME NEW d, BufOk(d), NEW len \in Nat, len <= ReadableSize(d)
    PROVE  /\ BufOk(Retrieve(d, len)) /\ Retrieve(d, len).mem = d.mem
           /\ SubSeq(Readable(d), 1, len) \in Seq(Units)
           /\ Readable(Retrieve(d, len)) \in Seq(Units)
           /\ SubSeq(Readable(d), 1, len) \o Readable(Retrieve(d, len)) = Readable(d)
<1>1. PICK m \in Seq(Bytes), r \in Nat, w \in Nat :
         m = d.mem /\ r = d.read /\ w = d.write /\ r <= w /\ w <= Len(m)
  BY DEF BufOk
<1>2. r \in Nat /\ w \in Nat /\ r <= w /\ w <= Len(m) /\ ReadableSize(d) = w - r /\ len <= w - r
  BY <1>1 DEF ReadableSize
<1>3. PICK x \in Seq(Units) : /\ x = Readable(d) /\ Len(x) = w - r
                              /\ \A i \in 1..(w - r) : x[i] = m[r + i]
  <2>1. /\ Readable(d) \in Seq(Units) /\ Len(Readable(d)) = d.write - d.read
        /\ \A i \in 1..(d.write - d.read) : Readable(d)[i] = d.mem[d.read + i]
    BY ReadableIs DEF BufOk
  <2> QED BY <1>1, <2>1
<1>4. PICK rest : rest = SubSeq(x, len + 1, Len(x)) OBVIOUS
<1>5. /\ SubSeq(x, 1, len) \in Seq(Units) /\ rest \in Seq(Units) /\ Len(rest) = w - r - len
      /\ SubSeq(x, 1, len) \o rest = x
  BY <1>2, <1>3, <1>4, SubSeqCut
<1>6. PICK r2 \in Nat, w2 \in Nat :
         /\ Retrieve(d, len) = [mem |-> m, read |-> r2, write |-> w2]
         /\ r2 <= w2 /\ w2 <= Len(m) /\ w2 - r2 = w - r - len
         /\ len < w - r => r2 = r + len
  <2>1. CASE len < w - r
    <3>1. Retrieve(d, len) = [mem |-> m, read |-> r + len, write |-> w] BY <1>1, <1>2, <2>1 DEF Retrieve
    <3>2. r + len \in Nat /\ r + len <= w /\ w - (r + len) = w - r - len BY <1>2, <2>1
    <3> QED BY <1>2, <3>1, <3>2
  <2>2. CASE ~(len < w - r)
    <3>1. Retrieve(d, len) = [mem |-> m, read |-> 0, write |-> 0] BY <1>1, <1>2, <2>2 DEF Retrieve
    <3>2. 0 \in Nat /\ 0 <= 0 /\ 0 <= Len(m) /\ 0 - 0 = w - r - len BY <1>2, <2>2
    <3> QED BY <2>2, <3>1, <3>2
  <2> QED BY <2>1, <2>2
<1>7. PICK e : e = Retrieve(d, len) OBVIOUS
<1>8. DOMAIN e = {"mem", "read", "write"} /\ e.mem = m /\ e.read = r2 /\ e.write = w2 BY <1>6, <1>7
<1>9. Readable(e) = rest
  <2>1. /\ Readable(e) \in Seq(Bytes) /\ Len(Readable(e)) = e.write - e.read
        /\ \A i \in 1..(e.write - e.read) : Readable(e)[i] = e.mem[e.read + i]
    BY <1>6, <1>8, ReadableIs
  <2>2. PICK y \in Seq(Bytes) : /\ y = Readable(e) /\ Len(y) = w - r - len
                                /\ \A i \in 1..(w - r - len) : y[i] = m[r2 + i]
    <3>1. PICK y \in Seq(Bytes) : y = Readable(e) BY <2>1
    <3> QED BY <1>6, <1>8, <2>1, <3>1
  <2>3. \A i \in 1..(w - r - len) : rest[i] = x[len + i]
    <3>1. PICK lo \in Nat, hi \in Nat : lo = len + 1 /\ hi = Len(x) BY <1>3
    <3>2. 1 <= lo /\ lo <= hi + 1 /\ hi <= Len(x) /\ hi - lo + 1 = w - r - len BY <1>2, <1>3, <3>1
    <3>3. \A i \in 1..(hi - lo + 1) : SubSeq(x, lo, hi)[i] = x[lo + i - 1]
      BY ONLY <3>2, x \in Seq(Units), lo \in Nat, hi \in Nat, SubSeqIs
    <3> TAKE i \in 1..(w - r - len)
    <3>4. lo + i - 1 = len + i /\ i \in 1..(hi - lo + 1) BY <1>2, <3>1, <3>2
    <3> QED BY <1>4, <3>1, <3>3, <3>4
  <2>4. \A i \in 1..Len(y) : y[i] = rest[i]
    <3> TAKE i \in 1..Len(y)
    <3>1. i \in 1..(w - r - len) BY <2>2
    <3>2. len < w - r /\ r2 = r + len /\ len + i \in 1..(w - r) /\ r2 + i = r + (len + i)
      BY <1>2, <1>6, <3>1
    <3> QED BY <1>3, <2>2, <2>3, <3>1, <3>2
  <2>5. rest \in Seq(Bytes)
    <3>1. Units \subseteq Bytes BY DEF Bytes
    <3> QED BY <1>5, <3>1, SeqMonotonic
  <2>6. y = rest BY <1>5, <2>2, <2>4, <2>5, SeqEqual
  <2> QED BY <2>2, <2>6
<1>10. BufOk(e) BY <1>5, <1>6, <1>8, <1>9 DEF BufOk
<1> QED BY <1>1, <1>3, <1>5, <1>7, <1>8, <1>9, <1>10
===============================================================================
