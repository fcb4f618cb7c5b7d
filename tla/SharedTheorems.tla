--------------------------- MODULE SharedTheorems ---------------------------
(***************************************************************************)
(* Facts that several components rest on: about prefixes of sequences, the *)
(* longest common one, powers of two and the buffers of their sizes,       *)
(* division, sets of numbers, the partial sums of a row, recursion over    *)
(* numbers, and the sums of functions over finite sets.                    *)
(***************************************************************************)
EXTENDS Prefixes, Buffers, FiniteSetsExt, FiniteSetTheorems, FunctionTheorems, SequenceTheorems,
        WellFoundedInduction, TLAPS

-----------------------------------------------------------------------------
(* Prefixes.                                                               *)

\* A prefix has the elements of its sequence.
LEMMA PrefixProperties ==
  ASSUME NEW T, NEW s \in Seq(T), NEW n \in 0..Len(s)
  PROVE  /\ SubSeq(s, 1, n) \in Seq(T)
         /\ Len(SubSeq(s, 1, n)) = n
         /\ \A i \in 1..n : SubSeq(s, 1, n)[i] = s[i]
<1>1. Len(s) \in Nat
  BY LenProperties
<1>2. \A i \in 1..n : s[i] \in T
  BY <1>1, ElementOfSeq
<1>3. /\ SubSeq(s, 1, n) \in Seq(T)
      /\ Len(SubSeq(s, 1, n)) = IF 1 <= n THEN n - 1 + 1 ELSE 0
      /\ \A i \in 1..n - 1 + 1 : SubSeq(s, 1, n)[i] = s[1 + i - 1]
  BY <1>1, <1>2, SubSeqProperties
<1>. QED BY <1>1, <1>3

\* A prefix of a prefix is a prefix.
LEMMA PrefixOfPrefix ==
  ASSUME NEW T, NEW s \in Seq(T), NEW n \in 0..Len(s), NEW m \in 0..n
  PROVE  SubSeq(SubSeq(s, 1, n), 1, m) = SubSeq(s, 1, m)
<1>1. Len(s) \in Nat
  BY LenProperties
<1>2. /\ SubSeq(s, 1, n) \in Seq(T)
      /\ Len(SubSeq(s, 1, n)) = n
      /\ \A i \in 1..n : SubSeq(s, 1, n)[i] = s[i]
  BY PrefixProperties
<1>3. m \in 0..Len(SubSeq(s, 1, n)) /\ m \in 0..Len(s)
  BY <1>1, <1>2
<1>4. /\ SubSeq(SubSeq(s, 1, n), 1, m) \in Seq(T)
      /\ Len(SubSeq(SubSeq(s, 1, n), 1, m)) = m
      /\ \A i \in 1..m : SubSeq(SubSeq(s, 1, n), 1, m)[i] = SubSeq(s, 1, n)[i]
  BY <1>2, <1>3, PrefixProperties
<1>5. /\ SubSeq(s, 1, m) \in Seq(T)
      /\ Len(SubSeq(s, 1, m)) = m
      /\ \A i \in 1..m : SubSeq(s, 1, m)[i] = s[i]
  BY <1>3, PrefixProperties
<1>6. \A i \in 1..m : i \in 1..n
  BY <1>1
<1>. QED BY <1>2, <1>4, <1>5, <1>6, SeqEqual

\* What is cached, followed by what is not, up to any later position.
LEMMA PrefixExtended ==
  ASSUME NEW T, NEW s \in Seq(T), NEW n \in 0..Len(s), NEW m \in n..Len(s)
  PROVE  SubSeq(s, 1, n) \o SubSeq(SubSeq(s, n + 1, Len(s)), 1, m - n)
           = SubSeq(s, 1, m)
<1>. DEFINE rest == SubSeq(s, n + 1, Len(s))
            some == SubSeq(rest, 1, m - n)
<1>1. Len(s) \in Nat /\ n \in Nat /\ m \in Nat /\ n <= m /\ m <= Len(s)
  BY LenProperties
<1>2. \A i \in n + 1..Len(s) : s[i] \in T
  BY <1>1, ElementOfSeq
<1>3. /\ rest \in Seq(T)
      /\ Len(rest) = Len(s) - n
      /\ \A i \in 1..Len(s) - n : rest[i] = s[n + i]
  <2>1. /\ rest \in Seq(T)
        /\ Len(rest) = IF n + 1 <= Len(s) THEN Len(s) - (n + 1) + 1 ELSE 0
        /\ \A i \in 1..Len(s) - (n + 1) + 1 : rest[i] = s[(n + 1) + i - 1]
    BY <1>1, <1>2, SubSeqProperties
  <2>. HIDE DEF rest
  <2>. QED BY <1>1, <2>1
<1>. HIDE DEF rest
<1>4. m - n \in 0..Len(rest)
  BY <1>1, <1>3
<1>5. /\ some \in Seq(T)
      /\ Len(some) = m - n
      /\ \A i \in 1..m - n : some[i] = rest[i]
  BY <1>3, <1>4, PrefixProperties
<1>6. /\ SubSeq(s, 1, n) \in Seq(T)
      /\ Len(SubSeq(s, 1, n)) = n
      /\ \A i \in 1..n : SubSeq(s, 1, n)[i] = s[i]
  BY PrefixProperties
<1>7. /\ SubSeq(s, 1, m) \in Seq(T)
      /\ Len(SubSeq(s, 1, m)) = m
      /\ \A i \in 1..m : SubSeq(s, 1, m)[i] = s[i]
  BY <1>1, PrefixProperties
<1>. HIDE DEF some
<1>8. /\ SubSeq(s, 1, n) \o some \in Seq(T)
      /\ Len(SubSeq(s, 1, n) \o some) = n + (m - n)
      /\ \A i \in 1..n + (m - n) : (SubSeq(s, 1, n) \o some)[i] =
             IF i <= n THEN SubSeq(s, 1, n)[i] ELSE some[i - n]
  BY <1>5, <1>6, ConcatProperties
<1>9. \A i \in 1..m : (SubSeq(s, 1, n) \o some)[i] = SubSeq(s, 1, m)[i]
  <2>. SUFFICES ASSUME NEW i \in 1..m
                PROVE  (SubSeq(s, 1, n) \o some)[i] = SubSeq(s, 1, m)[i]
    OBVIOUS
  <2>1. CASE i <= n
    BY <1>1, <1>6, <1>7, <1>8, <2>1
  <2>2. CASE ~(i <= n)
    <3>1. i - n \in 1..m - n /\ i - n \in 1..Len(s) - n /\ n + (i - n) = i
      BY <1>1, <2>2
    <3>2. some[i - n] = s[i]
      BY <1>3, <1>5, <3>1
    <3>. QED BY <1>1, <1>7, <1>8, <2>2, <3>2
  <2>. QED BY <2>1, <2>2
<1>10. Len(SubSeq(s, 1, n) \o some) = m
  BY <1>1, <1>8
<1>11. SubSeq(s, 1, n) \o some = SubSeq(s, 1, m)
  BY <1>7, <1>8, <1>9, <1>10, SeqEqual
<1>. QED BY <1>11 DEF some, rest

\* Two sequences have a longest common prefix.
LEMMA CommonLengthProperties ==
  ASSUME NEW T, NEW s \in Seq(T), NEW t \in Seq(T)
  PROVE  /\ CommonLength(s, t) \in 0..Smaller(Len(s), Len(t))
         /\ SubSeq(s, 1, CommonLength(s, t)) = SubSeq(t, 1, CommonLength(s, t))
         /\ CommonLength(s, t) < Smaller(Len(s), Len(t)) =>
              s[CommonLength(s, t) + 1] # t[CommonLength(s, t) + 1]
<1>. DEFINE least == Smaller(Len(s), Len(t))
            differ == {i \in Nat : i < least /\ s[i + 1] # t[i + 1]}
            stop(n) == /\ SubSeq(s, 1, n) = SubSeq(t, 1, n)
                       /\ n < least => s[n + 1] # t[n + 1]
<1>1. Len(s) \in Nat /\ Len(t) \in Nat /\ least \in 0..Len(s) /\ least \in 0..Len(t)
  BY LenProperties DEF Smaller
<1>2. \A n \in 0..least : (\A i \in 1..n : s[i] = t[i]) => SubSeq(s, 1, n) = SubSeq(t, 1, n)
  <2>. SUFFICES ASSUME NEW n \in 0..least, \A i \in 1..n : s[i] = t[i]
                PROVE  SubSeq(s, 1, n) = SubSeq(t, 1, n)
    OBVIOUS
  <2>1. n \in 0..Len(s) /\ n \in 0..Len(t)
    BY <1>1
  <2>2. /\ SubSeq(s, 1, n) \in Seq(T)
        /\ Len(SubSeq(s, 1, n)) = n
        /\ \A i \in 1..n : SubSeq(s, 1, n)[i] = s[i]
    BY <2>1, PrefixProperties
  <2>3. /\ SubSeq(t, 1, n) \in Seq(T)
        /\ Len(SubSeq(t, 1, n)) = n
        /\ \A i \in 1..n : SubSeq(t, 1, n)[i] = t[i]
    BY <2>1, PrefixProperties
  <2>. QED BY <2>2, <2>3, SeqEqual
<1>3. \E n \in 0..least : stop(n)
  <2>1. CASE differ = {}
    <3>1. \A i \in 1..least : s[i] = t[i]
      <4>. SUFFICES ASSUME NEW i \in 1..least, s[i] # t[i] PROVE FALSE
        OBVIOUS
      <4>1. i - 1 \in differ
        BY <1>1
      <4>. QED BY <2>1, <4>1
    <3>2. least \in 0..least /\ stop(least)
      BY <1>1, <1>2, <3>1
    <3>. HIDE DEF stop, least
    <3>. QED BY <3>2
  <2>2. CASE differ # {}
    <3>1. IsWellFoundedOn(OpToRel(<, Nat), Nat)
      BY NatLessThanWellFounded
    <3>2. PICK n \in differ : \A i \in differ : ~(<<i, n>> \in OpToRel(<, Nat))
      <4>1. differ \subseteq Nat
        OBVIOUS
      <4>. QED BY <2>2, <3>1, <4>1, WFMin
    <3>3. \A i \in differ : ~(i < n)
      BY <3>2 DEF OpToRel
    <3>4. \A i \in 1..n : s[i] = t[i]
      <4>. SUFFICES ASSUME NEW i \in 1..n, s[i] # t[i] PROVE FALSE
        OBVIOUS
      <4>1. i - 1 \in differ /\ i - 1 < n
        BY <1>1
      <4>. QED BY <3>3, <4>1
    <3>5. n \in 0..least /\ stop(n)
      BY <1>1, <1>2, <3>4
    <3>. QED BY <3>5
  <2>. QED BY <2>1, <2>2
<1>4. CommonLength(s, t) = CHOOSE n \in 0..least : stop(n)
  BY DEF CommonLength
<1>. HIDE DEF stop
<1>5. CommonLength(s, t) \in 0..least /\ stop(CommonLength(s, t))
  BY <1>3, <1>4
<1>. QED BY <1>5 DEF stop
-----------------------------------------------------------------------------
(* Buffers.                                                                *)

\* Twice a power of two is one.
LEMMA PowerDoubled ==
  ASSUME NEW c \in Nat \ {0}, PowerOfTwo(c)
  PROVE  PowerOfTwo(2 * c)
<1>. SUFFICES ASSUME NEW d \in 2..2 * c, (2 * c) % d = 0, d % 2 # 0
              PROVE  FALSE
  BY DEF PowerOfTwo
<1>. DEFINE q == (2 * c) \div d
            e == d \div 2
            p == c - e * q
<1>1. d \in Nat /\ d > 1 /\ e \in Nat /\ d = 2 * e + 1 /\ q \in Nat /\ 2 * c = d * q
  OBVIOUS
<1>. HIDE DEF q, e
<1>2. 2 * c = 2 * (e * q) + q
  BY <1>1
<1>3. p \in Int /\ q = 2 * p
  BY <1>1, <1>2
<1>. HIDE DEF p
<1>4. 2 * c = 2 * (d * p)
  <2>1. d * (2 * p) = 2 * (d * p)
    BY <1>1, <1>3
  <2>. QED BY <1>1, <1>3, <2>1
<1>5. c = d * p /\ p \in Nat \ {0}
  <2>1. d * p \in Int
    BY <1>1, <1>3
  <2>2. c = d * p
    BY <1>4, <2>1
  <2>3. p > 0
    BY <1>1, <1>3, <2>2
  <2>. QED BY <1>3, <2>2, <2>3
<1>6. d <= c
  BY <1>1, <1>5
<1>7. c % d = 0
  BY <1>1, <1>5
<1>8. d \in 2..c
  BY <1>1, <1>6
<1>. QED BY <1>7, <1>8 DEF PowerOfTwo

\* There is a power of two behind every size, and before its double.
LEMMA PowerExists ==
  ASSUME NEW n \in Nat \ {0}
  PROVE  \E c \in n..2 * n - 1 : PowerOfTwo(c)
<1>. DEFINE found(m) == \E c \in m..2 * m - 1 : PowerOfTwo(c)
            missed == {m \in Nat \ {0} : ~found(m)}
<1>. SUFFICES ASSUME missed # {} PROVE FALSE
  OBVIOUS
<1>1. PICK m \in missed : \A i \in missed : ~(i < m)
  <2>1. IsWellFoundedOn(OpToRel(<, Nat), Nat)
    BY NatLessThanWellFounded
  <2>2. missed \subseteq Nat
    OBVIOUS
  <2>. HIDE DEF missed
  <2>3. PICK m \in missed : \A i \in missed : ~(<<i, m>> \in OpToRel(<, Nat))
    BY <2>1, <2>2, WFMin
  <2>. QED BY <2>2, <2>3 DEF OpToRel
<1>. DEFINE h == (m + 1) \div 2
<1>2. m \in Nat \ {0} /\ ~found(m)
  BY <1>1
<1>. HIDE DEF found
<1>3. m # 1
  <2>1. PowerOfTwo(1)
    BY DEF PowerOfTwo
  <2>. QED BY <1>2, <2>1 DEF found
<1>4. h \in Nat \ {0} /\ h < m /\ (m = 2 * h \/ m = 2 * h - 1) /\ (m = 2 * h - 1 => h > 1)
  BY <1>2, <1>3
<1>5. PICK c \in h..2 * h - 1 : PowerOfTwo(c)
  BY <1>1, <1>4 DEF found
<1>6. c \in Nat \ {0} /\ PowerOfTwo(2 * c)
  BY <1>4, <1>5, PowerDoubled
<1>7. m = 2 * h - 1 => c # 2 * h - 1
  <2>. SUFFICES ASSUME m = 2 * h - 1, c = 2 * h - 1 PROVE FALSE
    OBVIOUS
  <2>1. c \in 2..c /\ c % c = 0 /\ c % 2 # 0
    BY <1>4
  <2>. QED BY <1>5, <2>1 DEF PowerOfTwo
<1>8. 2 * c \in m..2 * m - 1
  BY <1>4, <1>5, <1>7
<1>. QED BY <1>2, <1>6, <1>8 DEF found

\* A new buffer has room for what it is made for.
LEMMA RoundedProperties ==
  ASSUME NEW n \in Nat \ {0}
  PROVE  Rounded(n) \in Nat /\ n <= Rounded(n)
BY PowerExists DEF Rounded

\* A power of two is one or even.
LEMMA PowerEven ==
  ASSUME NEW c \in Nat \ {0}, PowerOfTwo(c), c # 1
  PROVE  c \div 2 \in Nat \ {0} /\ c = 2 * (c \div 2)
<1>1. c \in 2..c /\ c % c = 0
  OBVIOUS
<1>2. c % 2 = 0
  BY <1>1 DEF PowerOfTwo
<1>. QED BY <1>2

\* So is its half.
LEMMA PowerHalved ==
  ASSUME NEW h \in Nat \ {0}, PowerOfTwo(2 * h)
  PROVE  PowerOfTwo(h)
<1>. SUFFICES ASSUME NEW d \in 2..h, h % d = 0 PROVE d % 2 = 0
  BY DEF PowerOfTwo
<1>. DEFINE q == h \div d
<1>1. q \in Nat /\ h = d * q /\ d \in Nat \ {0}
  OBVIOUS
<1>. HIDE DEF q
<1>2. 2 * h = d * (2 * q) /\ 2 * q \in Nat
  BY <1>1
<1>3. (2 * h) % d = 0
  <2>. DEFINE p == 2 * q
              n == 2 * h
  <2>1. p \in Nat /\ n = d * p
    BY <1>2
  <2>. HIDE DEF p, n
  <2>2. n % d = 0
    BY <1>1, <2>1
  <2>. QED BY <2>2 DEF n
<1>4. d \in 2..2 * h
  OBVIOUS
<1>. QED BY <1>3, <1>4 DEF PowerOfTwo

\* Between a power of two and its double there is no other.
LEMMA PowerApart ==
  ASSUME NEW c \in Nat \ {0}, NEW e \in Nat, PowerOfTwo(c), PowerOfTwo(e), c < e
  PROVE  2 * c <= e
<1>. DEFINE near(m) == \E n \in m + 1..2 * m - 1 : PowerOfTwo(n)
            bad == {m \in Nat \ {0} : PowerOfTwo(m) /\ near(m)}
<1>1. bad = {}
  <2>. SUFFICES ASSUME bad # {} PROVE FALSE
    OBVIOUS
  <2>1. PICK m \in bad : \A i \in bad : ~(i < m)
    <3>1. IsWellFoundedOn(OpToRel(<, Nat), Nat)
      BY NatLessThanWellFounded
    <3>2. bad \subseteq Nat
      OBVIOUS
    <3>. HIDE DEF bad
    <3>3. PICK m \in bad : \A i \in bad : ~(<<i, m>> \in OpToRel(<, Nat))
      BY <3>1, <3>2, WFMin
    <3>. QED BY <3>2, <3>3 DEF OpToRel
  <2>2. m \in Nat \ {0} /\ PowerOfTwo(m) /\ near(m)
    BY <2>1
  <2>3. PICK n \in m + 1..2 * m - 1 : PowerOfTwo(n)
    BY <2>2
  <2>4. m # 1
    BY <2>2, <2>3
  <2>. DEFINE h == m \div 2
              k == n \div 2
  <2>5. h \in Nat \ {0} /\ m = 2 * h
    BY <2>2, <2>4, PowerEven
  <2>6. n \in Nat \ {0} /\ n # 1
    BY <2>2, <2>3
  <2>7. k \in Nat \ {0} /\ n = 2 * k
    BY <2>3, <2>6, PowerEven
  <2>. HIDE DEF h, k
  <2>8. PowerOfTwo(h) /\ PowerOfTwo(k)
    BY <2>2, <2>3, <2>5, <2>7, PowerHalved
  <2>9. k \in h + 1..2 * h - 1 /\ h < m
    BY <2>2, <2>3, <2>5, <2>7
  <2>10. h \in bad
    BY <2>5, <2>8, <2>9
  <2>. QED BY <2>1, <2>9, <2>10
<1>2. ~near(c)
  BY <1>1
<1>3. e \notin c + 1..2 * c - 1
  BY <1>2
<1>. HIDE DEF near, bad
<1>. QED BY <1>3

\* The size of a buffer is the only power of two in its range.
LEMMA RoundedIs ==
  ASSUME NEW n \in Nat \ {0}, NEW c \in n..2 * n - 1, PowerOfTwo(c)
  PROVE  Rounded(n) = c
<1>1. Rounded(n) \in n..2 * n - 1 /\ PowerOfTwo(Rounded(n))
  BY DEF Rounded
<1>. DEFINE e == Rounded(n)
<1>. HIDE DEF e
<1>2. e \in Nat \ {0} /\ c \in Nat \ {0} /\ n <= e /\ n <= c /\ e < 2 * n /\ c < 2 * n
  BY <1>1 DEF e
<1>3. PowerOfTwo(e)
  BY <1>1 DEF e
<1>4. ~(c < e)
  BY <1>2, <1>3, PowerApart
<1>5. ~(e < c)
  BY <1>2, <1>3, PowerApart
<1>6. e = c
  BY <1>2, <1>4, <1>5
<1>. QED BY <1>6 DEF e

LEMMA RoundedRange ==
  ASSUME NEW n \in Nat \ {0}
  PROVE  Rounded(n) \in n..2 * n - 1 /\ PowerOfTwo(Rounded(n))
BY PowerExists DEF Rounded

\* A buffer of cells begins with what was copied into it last, and is no longer
\* than it was or than that.
Overlaid(cells, before, c, source, after) ==
  /\ DOMAIN after = DOMAIN before \cup {c}
  /\ \A d \in DOMAIN before \cup {c} : after[d] \in Seq(cells)
  /\ \A d \in DOMAIN before : /\ d # c => after[d] = before[d]
                              /\ Len(before[d]) <= Len(after[d])
  /\ Len(source) <= Len(after[c])
  /\ \A m \in Nat : /\ Len(source) <= m
                    /\ c \in DOMAIN before => Len(before[c]) <= m
                    => Len(after[c]) <= m
  /\ SubSeq(after[c], 1, Len(source)) = source
  /\ \A i \in 1..Len(source) : after[c][i] = source[i]

LEMMA OverlayProperties ==
  ASSUME NEW cells, NEW buffers, NEW c, NEW source \in Seq(cells),
         \A d \in DOMAIN buffers : buffers[d] \in Seq(cells)
  PROVE  Overlaid(cells, buffers, c, source, Overlay(buffers, c, source))
<1>. DEFINE n == Len(source)
            rest == SubSeq(buffers[c], n + 1, Len(buffers[c]))
            filled == source \o (IF c \in DOMAIN buffers THEN rest ELSE <<>>)
<1>1. n \in Nat
  BY LenProperties
<1>2. /\ filled \in Seq(cells) /\ n <= Len(filled) /\ Len(filled) \in Nat
      /\ \A i \in 1..n : filled[i] = source[i]
      /\ c \in DOMAIN buffers => Len(buffers[c]) <= Len(filled)
      /\ Len(filled) = n \/ (c \in DOMAIN buffers /\ Len(filled) = Len(buffers[c]))
  <2>1. CASE c \notin DOMAIN buffers
    <3>1. filled = source
      <4>1. filled = source \o <<>>
        BY <2>1
      <4>. HIDE DEF filled
      <4>. QED BY <4>1, ConcatEmptySeq
    <3>. HIDE DEF filled
    <3>. QED BY <1>1, <2>1, <3>1
  <2>2. CASE c \in DOMAIN buffers
    <3>. DEFINE b == buffers[c]
    <3>1. b \in Seq(cells) /\ Len(b) \in Nat
      BY <2>2, LenProperties
    <3>. HIDE DEF b
    <3>2. \A i \in n + 1..Len(b) : b[i] \in cells
      BY <1>1, <3>1, ElementOfSeq
    <3>3. /\ SubSeq(b, n + 1, Len(b)) \in Seq(cells)
          /\ Len(SubSeq(b, n + 1, Len(b))) = IF n + 1 <= Len(b) THEN Len(b) - (n + 1) + 1 ELSE 0
      BY <1>1, <3>1, <3>2, SubSeqProperties
    <3>4. /\ source \o SubSeq(b, n + 1, Len(b)) \in Seq(cells)
          /\ Len(source \o SubSeq(b, n + 1, Len(b))) = n + Len(SubSeq(b, n + 1, Len(b)))
          /\ \A i \in 1..n : (source \o SubSeq(b, n + 1, Len(b)))[i] = source[i]
      BY <1>1, <3>3, ConcatProperties
    <3>5. filled = source \o SubSeq(b, n + 1, Len(b))
      BY <2>2 DEF b
    <3>. HIDE DEF filled
    <3>. QED BY <1>1, <2>2, <3>1, <3>3, <3>4, <3>5 DEF b
  <2>. QED BY <2>1, <2>2
<1>. HIDE DEF filled
<1>3. SubSeq(filled, 1, n) = source
  <2>1. n \in 0..Len(filled)
    BY <1>1, <1>2
  <2>2. /\ SubSeq(filled, 1, n) \in Seq(cells) /\ Len(SubSeq(filled, 1, n)) = n
        /\ \A i \in 1..n : SubSeq(filled, 1, n)[i] = filled[i]
    BY <1>2, <2>1, PrefixProperties
  <2>. QED BY <1>1, <1>2, <2>2, SeqEqual
<1>4. Overlay(buffers, c, source) = [d \in DOMAIN buffers \cup {c} |-> IF d = c THEN filled ELSE buffers[d]]
  BY DEF Overlay, filled
<1>5. \A d \in DOMAIN buffers : Len(buffers[d]) \in Nat
  BY LenProperties
<1>. QED BY <1>2, <1>3, <1>4, <1>5 DEF Overlaid

-----------------------------------------------------------------------------
(* Division.                                                               *)

\* divmod(n, B), as the caches use it to place a token.
LEMMA DivMod ==
  ASSUME NEW B \in Nat \ {0}, NEW n \in Nat
  PROVE  /\ n \div B \in Nat
         /\ n % B \in 0..B - 1
         /\ n = B * (n \div B) + (n % B)
OBVIOUS

\* A smaller number has a smaller or the same quotient, whatever the remainders.
LEMMA DivOrder ==
  ASSUME NEW B \in Nat \ {0}, NEW q1 \in Nat, NEW q2 \in Nat,
         NEW r1 \in 0..B - 1, NEW r2 \in 0..B - 1,
         B * q1 + r1 <= B * q2 + r2
  PROVE  q1 <= q2
<1>1. SUFFICES ASSUME q2 + 1 <= q1 PROVE FALSE
  OBVIOUS
<1>2. B * (q2 + 1) <= B * q1
  BY <1>1
<1>. QED BY <1>2

\* A block and an offset determine the token number, and conversely.
LEMMA DivUnique ==
  ASSUME NEW B \in Nat \ {0}, NEW q1 \in Nat, NEW q2 \in Nat,
         NEW r1 \in 0..B - 1, NEW r2 \in 0..B - 1,
         B * q1 + r1 = B * q2 + r2
  PROVE  q1 = q2 /\ r1 = r2
<1>1. B * q1 + r1 <= B * q2 + r2 /\ B * q2 + r2 <= B * q1 + r1
  OBVIOUS
<1>2. q1 <= q2 /\ q2 <= q1
  BY <1>1, DivOrder
<1>. QED BY <1>2

\* Token number q * B + r is found in block q at offset r.
LEMMA DivOf ==
  ASSUME NEW B \in Nat \ {0}, NEW q \in Nat, NEW r \in 0..B - 1
  PROVE  (q * B + r) \div B = q /\ (q * B + r) % B = r
<1>. DEFINE n == q * B + r
<1>1. n \in Nat
  OBVIOUS
<1>2. n \div B \in Nat /\ n % B \in 0..B - 1 /\ n = B * (n \div B) + (n % B)
  BY <1>1, DivMod
<1>3. B * (n \div B) + (n % B) = B * q + r
  BY <1>2
<1>. HIDE DEF n
<1>4. n \div B = q /\ n % B = r
  BY <1>2, <1>3, DivUnique
<1>. QED BY <1>4 DEF n

-----------------------------------------------------------------------------
(* Sets of numbers.                                                        *)

\* A finite set of numbers has a greatest one.
LEMMA GreatestExists ==
  ASSUME NEW S \in SUBSET Nat, IsFiniteSet(S), S # {}
  PROVE  \E x \in S : \A y \in S : x >= y
<1>. DEFINE greatest(U) == \E x \in U : \A y \in U : x >= y
            lacking == {U \in SUBSET S : U # {} /\ ~greatest(U)}
            counts == {Cardinality(U) : U \in lacking}
<1>. SUFFICES ASSUME lacking # {} PROVE FALSE
  OBVIOUS
<1>1. \A U \in SUBSET S : IsFiniteSet(U) /\ Cardinality(U) \in Nat
  BY FS_Subset, FS_CardinalityType
<1>2. counts \subseteq Nat /\ counts # {}
  BY <1>1
<1>3. PICK n \in counts : \A i \in counts : ~(i < n)
  <2>1. IsWellFoundedOn(OpToRel(<, Nat), Nat)
    BY NatLessThanWellFounded
  <2>. HIDE DEF counts
  <2>2. PICK n \in counts : \A i \in counts : ~(<<i, n>> \in OpToRel(<, Nat))
    BY <1>2, <2>1, WFMin
  <2>. QED BY <1>2, <2>2 DEF OpToRel
<1>4. PICK U \in lacking : n = Cardinality(U)
  BY <1>3
<1>5. PICK x \in U : TRUE
  BY <1>4
<1>. DEFINE V == U \ {x}
<1>6. Cardinality(V) = n - 1 /\ n \in Nat /\ V \in SUBSET S /\ Cardinality(V) \in Nat
  BY <1>1, <1>4, <1>5, FS_RemoveElement
<1>7. V \notin lacking
  <2>1. n - 1 < n
    BY <1>6
  <2>. QED BY <1>3, <1>6, <2>1
<1>8. V = {} \/ greatest(V)
  BY <1>6, <1>7
<1>9. greatest(U)
  <2>1. U \subseteq Nat
    BY <1>4
  <2>2. CASE V = {}
    <3>1. \A y \in U : y = x
      BY <2>2
    <3>. QED BY <1>5, <2>1, <3>1
  <2>3. CASE greatest(V)
    <3>1. PICK m \in V : \A y \in V : m >= y
      BY <2>3
    <3>2. x \in Nat /\ m \in Nat /\ m \in U /\ \A y \in U : y = x \/ y \in V
      BY <1>5, <2>1, <3>1
    <3>3. CASE m >= x
      BY <3>1, <3>2, <3>3
    <3>4. CASE ~(m >= x)
      <4>1. \A y \in U : x >= y
        BY <2>1, <3>1, <3>2, <3>4
      <4>. QED BY <1>5, <4>1
    <3>. QED BY <3>3, <3>4
  <2>. QED BY <1>8, <2>2, <2>3
<1>. QED BY <1>4, <1>9

\* A set of numbers has a least one.
LEMMA LeastExists ==
  ASSUME NEW S \in SUBSET Nat, S # {}
  PROVE  \E x \in S : \A y \in S : x <= y
<1>1. IsWellFoundedOn(OpToRel(<, Nat), Nat)
  BY NatLessThanWellFounded
<1>2. PICK x \in S : \A y \in S : ~(<<y, x>> \in OpToRel(<, Nat))
  BY <1>1, WFMin
<1>3. \A y \in S : x \in Nat /\ y \in Nat /\ ~(y < x)
  BY <1>2 DEF OpToRel
<1>. QED BY <1>3

\* What contains zero and every successor up to a number reaches it.
LEMMA Climb ==
  ASSUME NEW S, NEW N \in Nat, 0 \in S, \A n \in 0..N : n \in S /\ n < N => n + 1 \in S
  PROVE  \A n \in 0..N : n \in S
<1>. DEFINE missed == {n \in 0..N : n \notin S}
<1>. SUFFICES ASSUME missed # {} PROVE FALSE
  OBVIOUS
<1>1. missed \subseteq Nat
  OBVIOUS
<1>. HIDE DEF missed
<1>2. PICK m \in missed : \A i \in missed : m <= i
  BY <1>1, LeastExists
<1>. USE DEF missed
<1>3. m \in 0..N /\ m # 0
  OBVIOUS
<1>4. m - 1 \in 0..N /\ m - 1 < N /\ (m - 1) + 1 = m /\ ~(m <= m - 1)
  BY <1>3
<1>5. m - 1 \in S
  BY <1>2, <1>4
<1>. QED BY <1>4, <1>5
-----------------------------------------------------------------------------
(* Sums.                                                                   *)

\* The sums of the first elements of a row.
PartialSums(n, row, sum) ==
  /\ sum \in [0..n -> Nat]
  /\ sum[0] = 0
  /\ \A x \in 1..n : sum[x] = sum[x - 1] + row[x]

LEMMA PartialSumsExist ==
  ASSUME NEW n \in Nat, NEW row \in [1..n -> Nat]
  PROVE  \E sum : PartialSums(n, row, sum)
<1>. DEFINE summed == {k \in 0..n : \E sum : PartialSums(k, row, sum)}
<1>1. 0 \in summed
  <2>. DEFINE sum == [x \in 0..0 |-> 0]
  <2>1. sum \in [0..0 -> Nat] /\ sum[0] = 0 /\ 1..0 = {}
    OBVIOUS
  <2>2. PartialSums(0, row, sum)
    BY <2>1 DEF PartialSums
  <2>. HIDE DEF sum
  <2>. QED BY <2>2
<1>2. ASSUME NEW k \in 0..n, k \in summed, k < n
      PROVE  k + 1 \in summed
  <2>1. PICK sum : PartialSums(k, row, sum)
    BY <1>2
  <2>. DEFINE longer == [x \in 0..k + 1 |-> IF x = k + 1 THEN sum[k] + row[k + 1] ELSE sum[x]]
  <2>2. /\ sum \in [0..k -> Nat] /\ sum[0] = 0
        /\ \A x \in 1..k : sum[x] = sum[x - 1] + row[x]
    BY <2>1 DEF PartialSums
  <2>3. k \in 0..k /\ k + 1 \in 1..n /\ 0 # k + 1 /\ 0 \in 0..k + 1 /\ (k + 1) - 1 = k
    BY <1>2
  <2>4. sum[k] \in Nat /\ row[k + 1] \in Nat
    BY <2>2, <2>3
  <2>5. longer \in [0..k + 1 -> Nat]
    <3>1. \A x \in 0..k + 1 : x = k + 1 \/ x \in 0..k
      OBVIOUS
    <3>2. sum[k] + row[k + 1] \in Nat
      BY <2>4
    <3>. QED BY <2>2, <3>1, <3>2
  <2>6. longer[0] = 0
    BY <2>2, <2>3
  <2>7. ASSUME NEW x \in 1..k + 1
        PROVE  longer[x] = longer[x - 1] + row[x]
    <3>1. x \in 0..k + 1 /\ x - 1 \in 0..k + 1 /\ x - 1 # k + 1 /\ (x # k + 1 => x \in 1..k)
      OBVIOUS
    <3>. QED BY <2>2, <2>3, <3>1
  <2>. HIDE DEF longer
  <2>8. PartialSums(k + 1, row, longer)
    BY <2>5, <2>6, <2>7 DEF PartialSums
  <2>9. k + 1 \in 0..n
    BY <1>2
  <2>. QED BY <2>8, <2>9
<1>3. n \in summed
  <2>1. n \in 0..n
    OBVIOUS
  <2>. HIDE DEF summed
  <2>. QED BY <1>1, <1>2, <2>1, Climb
<1>. QED BY <1>3

\* They grow with every element that is not zero.
LEMMA PartialSumsGrow ==
  ASSUME NEW n \in Nat, NEW row \in [1..n -> Nat], NEW sum, PartialSums(n, row, sum),
         NEW x \in 0..n, NEW y \in x..n
  PROVE  sum[x] <= sum[y]
<1>. DEFINE above == {k \in Nat : x + k \in 0..n => sum[x] <= sum[x + k]}
<1>1. /\ sum \in [0..n -> Nat]
      /\ \A i \in 1..n : sum[i] = sum[i - 1] + row[i]
  BY DEF PartialSums
<1>2. 0 \in above
  BY <1>1
<1>3. ASSUME NEW k \in 0..y - x, k \in above, k < y - x
      PROVE  k + 1 \in above
  <2>1. x + k \in 0..n /\ x + (k + 1) \in 1..n /\ (x + (k + 1)) - 1 = x + k
    BY <1>3
  <2>2. sum[x] <= sum[x + k]
    BY <1>3, <2>1
  <2>3. sum[x + (k + 1)] = sum[x + k] + row[x + (k + 1)]
    BY <1>1, <2>1
  <2>4. row[x + (k + 1)] \in Nat /\ sum[x + k] \in Nat /\ sum[x] \in Nat
    BY <1>1, <2>1
  <2>5. sum[x] <= sum[x + (k + 1)]
    BY <2>2, <2>3, <2>4
  <2>6. k + 1 \in Nat
    BY <1>3
  <2>. QED BY <2>5, <2>6
<1>4. y - x \in Nat /\ y - x \in 0..y - x /\ x + (y - x) = y /\ y \in 0..n
  OBVIOUS
<1>5. y - x \in above
  <2>. HIDE DEF above
  <2>. QED BY <1>2, <1>3, <1>4, Climb
<1>. QED BY <1>4, <1>5

\* The sums of a row that adds two others add theirs.
Adds(n, a, b, c) == \A x \in 1..n : c[x] = a[x] + b[x]

LEMMA PartialSumsAdd ==
  ASSUME NEW n \in Nat,
         NEW a \in [1..n -> Nat], NEW b \in [1..n -> Nat], NEW c \in [1..n -> Nat],
         NEW sa, NEW sb, NEW sc,
         PartialSums(n, a, sa), PartialSums(n, b, sb), PartialSums(n, c, sc),
         Adds(n, a, b, c)
  PROVE  Adds(n, sa, sb, sc)
<1>. DEFINE equal == {k \in 0..n : sc[k] = sa[k] + sb[k]}
<1>1. /\ sa \in [0..n -> Nat] /\ sa[0] = 0 /\ \A i \in 1..n : sa[i] = sa[i - 1] + a[i]
      /\ sb \in [0..n -> Nat] /\ sb[0] = 0 /\ \A i \in 1..n : sb[i] = sb[i - 1] + b[i]
      /\ sc \in [0..n -> Nat] /\ sc[0] = 0 /\ \A i \in 1..n : sc[i] = sc[i - 1] + c[i]
  BY DEF PartialSums
<1>2. 0 \in equal
  BY <1>1
<1>3. ASSUME NEW k \in 0..n, k \in equal, k < n
      PROVE  k + 1 \in equal
  <2>1. k + 1 \in 1..n /\ (k + 1) - 1 = k /\ k + 1 \in 0..n
    BY <1>3
  <2>2. /\ sa[k + 1] = sa[k] + a[k + 1] /\ sb[k + 1] = sb[k] + b[k + 1]
        /\ sc[k + 1] = sc[k] + c[k + 1] /\ c[k + 1] = a[k + 1] + b[k + 1]
    BY <1>1, <2>1 DEF Adds
  <2>3. sa[k] \in Nat /\ sb[k] \in Nat /\ a[k + 1] \in Nat /\ b[k + 1] \in Nat
    BY <1>1, <2>1
  <2>4. sc[k] = sa[k] + sb[k]
    BY <1>3
  <2>5. sc[k + 1] = (sa[k] + sb[k]) + (a[k + 1] + b[k + 1])
    BY <2>2, <2>4
  <2>6. sc[k + 1] = (sa[k] + a[k + 1]) + (sb[k] + b[k + 1])
    <3>. DEFINE i == sa[k]
                j == sb[k]
                h == a[k + 1]
                l == b[k + 1]
    <3>1. i \in Nat /\ j \in Nat /\ h \in Nat /\ l \in Nat
      BY <2>3
    <3>. HIDE DEF i, j, h, l
    <3>2. (i + j) + (h + l) = (i + h) + (j + l)
      BY <3>1
    <3>. QED BY <2>5, <3>2 DEF i, j, h, l
  <2>7. sc[k + 1] = sa[k + 1] + sb[k + 1]
    BY <2>2, <2>6
  <2>. QED BY <2>1, <2>7
<1>4. \A x \in 0..n : x \in equal
  <2>. HIDE DEF equal
  <2>. QED BY <1>2, <1>3, Climb
<1>5. \A x \in 1..n : x \in 0..n
  OBVIOUS
<1>. QED BY <1>4, <1>5 DEF Adds

\* A value for each number, from the one before.
Recursion(n, base, step, f, V) ==
  /\ f \in [0..n -> V]
  /\ f[0] = base
  /\ \A k \in 1..n : f[k] = step[<<k, f[k - 1]>>]

\* A recursion over the numbers up to n has a solution.
LEMMA RecursionExists ==
  ASSUME NEW n \in Nat, NEW V, NEW base \in V, NEW step \in [(1..n) \X V -> V]
  PROVE  \E f : Recursion(n, base, step, f, V)
<1>. DEFINE level == {k \in 0..n : \E f : Recursion(k, base, step, f, V)}
<1>1. 0 \in level
  <2>. DEFINE f == [x \in 0..0 |-> base]
  <2>1. f \in [0..0 -> V] /\ f[0] = base /\ 1..0 = {}
    OBVIOUS
  <2>. HIDE DEF f
  <2>2. Recursion(0, base, step, f, V)
    BY <2>1 DEF Recursion
  <2>. QED BY <2>2
<1>2. ASSUME NEW k \in 0..n, k \in level, k < n
      PROVE  k + 1 \in level
  <2>1. PICK f : Recursion(k, base, step, f, V)
    BY <1>2
  <2>. DEFINE g == [x \in 0..k + 1 |-> IF x = k + 1 THEN step[<<k + 1, f[k]>>] ELSE f[x]]
  <2>2. f \in [0..k -> V] /\ f[0] = base /\ \A x \in 1..k : f[x] = step[<<x, f[x - 1]>>]
    BY <2>1 DEF Recursion
  <2>3. k \in 0..k /\ k + 1 \in 1..n /\ 0 # k + 1 /\ 0 \in 0..k + 1 /\ (k + 1) - 1 = k /\ k + 1 \in 0..n
    BY <1>2
  <2>4. f[k] \in V
    BY <2>2, <2>3
  <2>5. step[<<k + 1, f[k]>>] \in V
    BY <2>3, <2>4
  <2>6. \A x \in 0..k + 1 : x = k + 1 \/ x \in 0..k
    OBVIOUS
  <2>7. g \in [0..k + 1 -> V] /\ g[0] = base
    BY <2>2, <2>3, <2>5, <2>6
  <2>8. ASSUME NEW x \in 1..k + 1
        PROVE  g[x] = step[<<x, g[x - 1]>>]
    <3>1. x \in 0..k + 1 /\ x - 1 \in 0..k + 1 /\ x - 1 # k + 1 /\ (x # k + 1 => x \in 1..k)
      OBVIOUS
    <3>2. g[x - 1] = f[x - 1]
      BY <3>1
    <3>3. CASE x = k + 1
      BY <2>3, <3>1, <3>2, <3>3
    <3>4. CASE x # k + 1
      BY <2>2, <3>1, <3>2, <3>4
    <3>. QED BY <3>3, <3>4
  <2>. HIDE DEF g
  <2>9. Recursion(k + 1, base, step, g, V)
    BY <2>7, <2>8 DEF Recursion
  <2>. QED BY <2>3, <2>9
<1>3. n \in level
  <2>1. n \in 0..n
    OBVIOUS
  <2>. HIDE DEF level
  <2>. QED BY <1>1, <1>2, <2>1, Climb
<1>. QED BY <1>3
-----------------------------------------------------------------------------
(* Sums over finite sets.                                                  *)

Pick(S) == CHOOSE x \in S : TRUE

\* What holds of the empty set, and of a set if it does of the set without the
\* element that a fold takes first.
LEMMA PickInduction ==
  ASSUME NEW S, IsFiniteSet(S), NEW G, {} \in G,
         \A T \in SUBSET S : T # {} /\ T \ {Pick(T)} \in G => T \in G
  PROVE  \A T \in SUBSET S : T \in G
<1>1. PICK N \in Nat : N = Cardinality(S)
  BY FS_CardinalityType
<1>. DEFINE level == {n \in 0..N : \A T \in SUBSET S : Cardinality(T) = n => T \in G}
<1>2. \A T \in SUBSET S : IsFiniteSet(T) /\ Cardinality(T) \in Nat /\ Cardinality(T) <= N /\ (Cardinality(T) = 0 <=> T = {})
  <2> TAKE T \in SUBSET S
  <2>1. IsFiniteSet(T) /\ Cardinality(T) <= N
    BY <1>1, FS_Subset
  <2>2. Cardinality(T) \in Nat
    BY <2>1, FS_CardinalityType
  <2>3. Cardinality(T) = 0 <=> T = {}
    BY <2>1, FS_EmptySet
  <2>. QED BY <1>1, <2>1, <2>2, <2>3
<1>3. 0 \in level
  BY <1>1, <1>2
<1>4. ASSUME NEW n \in 0..N, n \in level, n < N
      PROVE  n + 1 \in level
  <2>1. n + 1 \in 0..N /\ n + 1 # 0
    BY <1>1, <1>4
  <2>2. ASSUME NEW T \in SUBSET S, Cardinality(T) = n + 1
        PROVE  T \in G
    <3>1. T # {} /\ IsFiniteSet(T)
      BY <1>2, <2>1, <2>2
    <3>2. Pick(T) \in T
      BY <3>1 DEF Pick
    <3>3. Cardinality(T \ {Pick(T)}) = Cardinality(T) - 1
      BY <3>1, <3>2, FS_RemoveElement
    <3>5. Cardinality(T \ {Pick(T)}) = n
      BY <2>2, <3>3
    <3>4. T \ {Pick(T)} \in G
      BY <1>4, <3>5
    <3>. QED BY <3>1, <3>4
  <2>. QED BY <2>1, <2>2
<1>5. \A n \in 0..N : n \in level
  <2>. HIDE DEF level
  <2>. QED BY <1>1, <1>3, <1>4, Climb
<1>. QED BY <1>2, <1>5

\* A fold: what it is of a set follows from what it is of the set without an
\* element.
Folded(step, base, S, iter) ==
  \A T \in SUBSET S : iter[T] = IF T = {} THEN base ELSE step[<<Pick(T), iter[T \ {Pick(T)}]>>]

\* A fold of a finite set exists.
LEMMA FoldExists ==
  ASSUME NEW S, IsFiniteSet(S), NEW V, NEW base \in V, NEW step \in [S \X V -> V]
  PROVE  \E iter \in [SUBSET S -> V] : Folded(step, base, S, iter)
<1>1. PICK N \in Nat : N = Cardinality(S)
  BY FS_CardinalityType
<1>. DEFINE All == SUBSET S
            size == [T \in All |-> Cardinality(T)]
<1>2. ASSUME NEW T \in All
      PROVE  /\ size[T] \in 0..N
             /\ size[T] = 0 <=> T = {}
             /\ T # {} => /\ Pick(T) \in S
                          /\ T \ {Pick(T)} \in All
                          /\ size[T \ {Pick(T)}] = size[T] - 1
  <2>1. IsFiniteSet(T) /\ Cardinality(T) <= N
    BY <1>1, FS_Subset
  <2>2. Cardinality(T) \in Nat
    BY <2>1, FS_CardinalityType
  <2>3. Cardinality(T) = 0 <=> T = {}
    BY <2>1, FS_EmptySet
  <2>4. T # {} => Pick(T) \in T
    BY DEF Pick
  <2>5. T # {} => Cardinality(T \ {Pick(T)}) = Cardinality(T) - 1
    BY <2>1, <2>4, FS_RemoveElement
  <2>6. T # {} => Pick(T) \in S /\ T \ {Pick(T)} \in All
    BY <2>4
  <2>. QED BY <1>1, <2>1, <2>2, <2>3, <2>5, <2>6
<1>3. \A T : T \in All <=> T \in SUBSET S
  OBVIOUS
<1>. HIDE DEF size, All
<1>14. \A T \in All : size[T] \in Int /\ 0 <= size[T] /\ size[T] <= N /\ (size[T] = 0 => T = {})
  <2> TAKE T \in All
  <2>1. size[T] \in 0..N /\ (size[T] = 0 => T = {})
    BY <1>2
  <2>. QED BY <2>1
<1>. DEFINE Then(g, T) == IF T = {} THEN base ELSE step[<<Pick(T), g[T \ {Pick(T)}]>>]
            Small(n) == {T \in All : size[T] <= n}
            Good(n, g) == /\ g \in [Small(n) -> V]
                          /\ \A T \in Small(n) : g[T] = Then(g, T)
            level == {n \in 0..N : \E g : Good(n, g)}
<1>4. ASSUME NEW n \in Nat, NEW T \in Small(n + 1), T # {}
      PROVE  T \ {Pick(T)} \in Small(n) /\ Pick(T) \in S
  BY <1>2, <1>4
<1>5. ASSUME NEW n \in Nat, NEW T \in Small(n)
      PROVE  T \in Small(n + 1)
  <2>1. T \in All /\ size[T] \in Int /\ size[T] <= n
    BY <1>14
  <2>2. size[T] <= n + 1
    BY <2>1
  <2>. QED BY <2>1, <2>2
<1>6. Small(N) = SUBSET S
  <2>1. \A T : T \in Small(N) <=> T \in All
    BY <1>14
  <2>. HIDE DEF Small
  <2>2. \A T : T \in Small(N) <=> T \in SUBSET S
    BY <1>3, <2>1
  <2>. QED BY <2>2
<1>7. \A T \in Small(0) : T = {}
  BY <1>14
<1>. HIDE DEF Small, Then
<1>8. 0 \in level
  <2>. DEFINE g == [T \in Small(0) |-> base]
  <2>1. g \in [Small(0) -> V] /\ \A T \in Small(0) : g[T] = base
    OBVIOUS
  <2>2. \A T \in Small(0) : g[T] = Then(g, T)
    BY <1>7, <2>1 DEF Then
  <2>. HIDE DEF g
  <2>3. Good(0, g)
    BY <2>1, <2>2
  <2>4. 0 \in 0..N
    OBVIOUS
  <2>. HIDE DEF Good
  <2>. QED BY <2>3, <2>4
<1>9. ASSUME NEW n \in 0..N, n \in level, n < N
      PROVE  n + 1 \in level
  <2>1. n \in Nat /\ n + 1 \in 0..N
    BY <1>9
  <2>2. PICK g : Good(n, g)
    BY <1>9
  <2>. DEFINE h == [T \in Small(n + 1) |-> Then(g, T)]
  <2>3. \A T \in Small(n + 1) : Then(g, T) \in V
    <3> TAKE T \in Small(n + 1)
    <3>1. CASE T = {}
      BY <3>1 DEF Then
    <3>2. CASE T # {}
      <4>1. g[T \ {Pick(T)}] \in V /\ Pick(T) \in S
        BY <1>4, <2>1, <2>2, <3>2
      <4>2. step[<<Pick(T), g[T \ {Pick(T)}]>>] \in V
        BY <4>1
      <4>. QED BY <4>2, <3>2 DEF Then
    <3>. QED BY <3>1, <3>2
  <2>4. h \in [Small(n + 1) -> V] /\ \A T \in Small(n + 1) : h[T] = Then(g, T)
    BY <2>3
  <2>. HIDE DEF h
  <2>5. ASSUME NEW T \in Small(n + 1)
        PROVE  h[T] = Then(h, T)
    <3>1. CASE T = {}
      BY <2>4, <3>1 DEF Then
    <3>2. CASE T # {}
      <4>1. T \ {Pick(T)} \in Small(n) /\ T \ {Pick(T)} \in Small(n + 1)
        BY <1>4, <1>5, <2>1, <3>2
      <4>2. h[T \ {Pick(T)}] = g[T \ {Pick(T)}]
        BY <2>2, <2>4, <4>1
      <4>. QED BY <2>4, <4>2 DEF Then
    <3>. QED BY <3>1, <3>2
  <2>6. Good(n + 1, h)
    BY <2>4, <2>5
  <2>. HIDE DEF Good
  <2>. QED BY <2>1, <2>6
<1>10. N \in level
  <2>. HIDE DEF level
  <2>1. \A n \in 0..N : n \in level
    BY <1>8, <1>9, Climb
  <2>. QED BY <2>1
<1>11. PICK g : Good(N, g)
  BY <1>10
<1>12. \A T \in SUBSET S : g[T] = Then(g, T)
  <2>1. \A T \in Small(N) : g[T] = Then(g, T)
    BY <1>11
  <2>. QED BY <1>6, <2>1
<1>13. g \in [SUBSET S -> V]
  BY <1>6, <1>11
<1>. QED BY <1>12, <1>13 DEF Folded, Then

Sum(f, S) == SumFunctionOnSet(f, S)

Amounts(f, S) == \A x \in S : f[x] \in Nat

IsSum(f, S, iter) ==
  iter = [T \in SUBSET S |->
            IF T = {} THEN 0 ELSE LET x == CHOOSE x \in T : TRUE IN f[x] + iter[T \ {x}]]

SumSteps(f, S, iter) ==
  \A T \in SUBSET S : iter[T] = IF T = {} THEN 0 ELSE f[Pick(T)] + iter[T \ {Pick(T)}]

\* The sum of a finite set is the last of its iterates.
LEMMA SumIterates ==
  ASSUME NEW S, IsFiniteSet(S), NEW f, Amounts(f, S)
  PROVE  \E iter \in [SUBSET S -> Nat] : Sum(f, S) = iter[S] /\ SumSteps(f, S, iter)
<1>. DEFINE step == [s \in S \X Nat |-> f[s[1]] + s[2]]
            Then(iter, T) == IF T = {} THEN 0 ELSE LET x == CHOOSE x \in T : TRUE IN f[x] + iter[T \ {x}]
            i == CHOOSE iter : IsSum(f, S, iter)
<1>1. step \in [S \X Nat -> Nat]
  BY DEF Amounts
<1>2. PICK iter \in [SUBSET S -> Nat] : Folded(step, 0, S, iter)
  <2>. HIDE DEF step
  <2>. QED BY <1>1, FoldExists
<1>3. ASSUME NEW T \in SUBSET S
      PROVE  iter[T] = Then(iter, T)
  <2>1. CASE T = {}
    BY <1>2, <2>1 DEF Folded
  <2>2. CASE T # {}
    <3>1. iter[T] = step[<<Pick(T), iter[T \ {Pick(T)}]>>]
      BY <1>2, <2>2 DEF Folded
    <3>2. Pick(T) \in S /\ iter[T \ {Pick(T)}] \in Nat
      BY <2>2 DEF Pick
    <3>3. iter[T] = f[Pick(T)] + iter[T \ {Pick(T)}]
      BY <3>1, <3>2
    <3>. QED BY <2>2, <3>3 DEF Pick
  <2>. QED BY <2>1, <2>2
<1>4. IsSum(f, S, iter)
  <2>. HIDE DEF Then
  <2>1. iter = [T \in SUBSET S |-> Then(iter, T)]
    BY <1>3
  <2>. QED BY <2>1 DEF IsSum, Then
<1>5. IsSum(f, S, i)
  BY <1>4
<1>6. Sum(f, S) = i[S]
  BY DEF Sum, SumFunctionOnSet, FoldFunctionOnSet, MapThenFoldSet, IsSum
<1>. HIDE DEF i
<1>7. SumSteps(f, S, i)
  BY <1>5 DEF IsSum, SumSteps, Pick
<1>8. DOMAIN i = SUBSET S
  BY <1>5 DEF IsSum
<1>9. \A T \in SUBSET S : i[T] \in Nat
  <2>. DEFINE G == {T \in SUBSET S : i[T] \in Nat}
  <2>4. i[{}] = 0
    BY <1>7 DEF SumSteps
  <2>1. {} \in G
    BY <2>4
  <2>2. ASSUME NEW T \in SUBSET S, T # {}, T \ {Pick(T)} \in G
        PROVE  T \in G
    <3>1. i[T] = f[Pick(T)] + i[T \ {Pick(T)}]
      BY <1>7, <2>2 DEF SumSteps
    <3>2. f[Pick(T)] \in Nat
      BY <2>2 DEF Pick, Amounts
    <3>. QED BY <2>2, <3>1, <3>2
  <2>. HIDE DEF G
  <2>3. \A T \in SUBSET S : T \in G
    BY <2>1, <2>2, PickInduction
  <2>. QED BY <2>3 DEF G
<1>10. i \in [SUBSET S -> Nat]
  <2>1. i = [T \in SUBSET S |-> i[T]]
    BY <1>5 DEF IsSum
  <2>. QED BY <1>9, <2>1
<1>. QED BY <1>6, <1>7, <1>10

\* The iterates of a set are the sums of its parts.
LEMMA SumIteratesWithin ==
  ASSUME NEW S, IsFiniteSet(S), NEW f, Amounts(f, S), NEW T \in SUBSET S,
         NEW i \in [SUBSET S -> Nat], SumSteps(f, S, i)
  PROVE  i[T] = Sum(f, T)
<1>1. IsFiniteSet(T) /\ Amounts(f, T)
  BY FS_Subset DEF Amounts
<1>2. PICK j \in [SUBSET T -> Nat] : Sum(f, T) = j[T] /\ SumSteps(f, T, j)
  BY <1>1, SumIterates
<1>. DEFINE G == {U \in SUBSET T : i[U] = j[U]}
<1>3. {} \in G
  BY <1>2 DEF SumSteps
<1>4. ASSUME NEW U \in SUBSET T, U # {}, U \ {Pick(U)} \in G
      PROVE  U \in G
  <2>1. j[U] = f[Pick(U)] + j[U \ {Pick(U)}]
    BY <1>2, <1>4 DEF SumSteps
  <2>2. U \in SUBSET S
    OBVIOUS
  <2>3. i[U] = f[Pick(U)] + i[U \ {Pick(U)}]
    BY <1>4, <2>2 DEF SumSteps
  <2>. QED BY <1>4, <2>1, <2>3
<1>5. T \in G
  <2>. HIDE DEF G
  <2>1. \A U \in SUBSET T : U \in G
    BY <1>1, <1>3, <1>4, PickInduction
  <2>. QED BY <2>1
<1>. QED BY <1>2, <1>5

\* A sum is a number; it is zero over nothing.
LEMMA SumType ==
  ASSUME NEW S, IsFiniteSet(S), NEW f, Amounts(f, S)
  PROVE  Sum(f, S) \in Nat /\ Sum(f, {}) = 0
<1>1. PICK i \in [SUBSET S -> Nat] : Sum(f, S) = i[S] /\ SumSteps(f, S, i)
  BY SumIterates
<1>2. i[S] \in Nat /\ i[{}] = 0
  BY <1>1 DEF SumSteps
<1>3. i[{}] = Sum(f, {})
  <2>. DEFINE o == {}
  <2>1. o \in SUBSET S
    OBVIOUS
  <2>. HIDE DEF o
  <2>2. i[o] = Sum(f, o)
    BY <1>1, <2>1, SumIteratesWithin
  <2>. QED BY <2>2 DEF o
<1>. QED BY <1>1, <1>2, <1>3

\* Any element may be taken first.
LEMMA SumElement ==
  ASSUME NEW S, IsFiniteSet(S), NEW f, Amounts(f, S), NEW x \in S
  PROVE  Sum(f, S) = f[x] + Sum(f, S \ {x})
<1>1. PICK i \in [SUBSET S -> Nat] : Sum(f, S) = i[S] /\ SumSteps(f, S, i)
  BY SumIterates
<1>. DEFINE G == {T \in SUBSET S : \A y \in T : i[T] = f[y] + i[T \ {y}]}
            N == Cardinality(S)
            level == {n \in 0..N : \A T \in SUBSET S : Cardinality(T) = n => T \in G}
<1>2. N \in Nat
  BY FS_CardinalityType
<1>3. 0 \in level
  <2>1. \A T \in SUBSET S : Cardinality(T) = 0 => T = {}
    BY FS_Subset, FS_EmptySet
  <2>2. 0 \in 0..N
    BY <1>2
  <2>. HIDE DEF N
  <2>. QED BY <2>1, <2>2
<1>4. ASSUME NEW n \in 0..N, n \in level, n < N
      PROVE  n + 1 \in level
  <2>1. n + 1 \in 0..N
    BY <1>2, <1>4
  <2>2. ASSUME NEW T \in SUBSET S, Cardinality(T) = n + 1, NEW y \in T
        PROVE  i[T] = f[y] + i[T \ {y}]
    <3>. DEFINE z == Pick(T)
                U == T \ {z}
                W == T \ {y}
                R == T \ {y, z}
    <3>1. z \in T
      BY DEF Pick
    <3>2. i[T] = f[z] + i[U]
      BY <1>1, <3>1 DEF SumSteps
    <3>3. CASE y = z
      BY <3>2, <3>3
    <3>4. CASE y # z
      <4>1. U \in SUBSET S /\ W \in SUBSET S /\ R \in SUBSET S /\ y \in U /\ z \in W
            /\ U \ {y} = R /\ W \ {z} = R
        BY <3>1, <3>4
      <4>2. Cardinality(U) = n /\ Cardinality(W) = n
        <5>1. IsFiniteSet(T)
          BY FS_Subset
        <5>2. Cardinality(T \ {z}) = Cardinality(T) - 1 /\ Cardinality(T \ {y}) = Cardinality(T) - 1
          BY <3>1, <5>1, FS_RemoveElement
        <5>3. (n + 1) - 1 = n
          BY <1>2
        <5>. QED BY <2>2, <5>2, <5>3
      <4>3. U \in G /\ W \in G
        <5>. HIDE DEF G, U, W
        <5>. QED BY <1>4, <4>1, <4>2
      <4>4. i[U] = f[y] + i[R] /\ i[W] = f[z] + i[R]
        <5>. HIDE DEF U, W, R
        <5>. QED BY <4>1, <4>3
      <4>5. i[R] \in Nat /\ f[y] \in Nat /\ f[z] \in Nat
        BY <3>1, <4>1 DEF Amounts
      <4>. HIDE DEF U, W, R, z
      <4>6. f[z] + (f[y] + i[R]) = f[y] + (f[z] + i[R])
        BY <4>5
      <4>7. i[T] = f[y] + i[W]
        BY <3>2, <4>4, <4>6
      <4>. QED BY <4>7 DEF W
    <3>. QED BY <3>3, <3>4
  <2>3. \A T \in SUBSET S : Cardinality(T) = n + 1 => T \in G
    <3> TAKE T \in SUBSET S
    <3> HAVE Cardinality(T) = n + 1
    <3>. QED BY <2>2
  <2>. HIDE DEF G, N
  <2>. QED BY <2>1, <2>3
<1>5. S \in G
  <2>1. N \in 0..N
    BY <1>2
  <2>2. \A n \in 0..N : n \in level
    <3>. HIDE DEF level, N
    <3>. QED BY <1>2, <1>3, <1>4, Climb
  <2>. HIDE DEF G
  <2>. QED BY <2>1, <2>2
<1>6. i[S] = f[x] + i[S \ {x}]
  BY <1>5
<1>7. i[S \ {x}] = Sum(f, S \ {x})
  <2>. DEFINE o == S \ {x}
  <2>1. o \in SUBSET S
    OBVIOUS
  <2>. HIDE DEF o
  <2>2. i[o] = Sum(f, o)
    BY <1>1, <2>1, SumIteratesWithin
  <2>. QED BY <2>2 DEF o
<1>. QED BY <1>1, <1>6, <1>7

\* A sum, by the element that it takes first.
LEMMA SumPick ==
  ASSUME NEW T, IsFiniteSet(T), NEW f, Amounts(f, T), T # {}
  PROVE  /\ Pick(T) \in T
         /\ f[Pick(T)] \in Nat
         /\ Sum(f, T \ {Pick(T)}) \in Nat
         /\ Sum(f, T) = f[Pick(T)] + Sum(f, T \ {Pick(T)})
<1>1. Pick(T) \in T
  BY DEF Pick
<1>2. IsFiniteSet(T \ {Pick(T)}) /\ Amounts(f, T \ {Pick(T)})
  BY FS_Subset DEF Amounts
<1>3. f[Pick(T)] \in Nat
  BY <1>1 DEF Amounts
<1>4. Sum(f, T \ {Pick(T)}) \in Nat
  BY <1>2, SumType
<1>5. Sum(f, T) = f[Pick(T)] + Sum(f, T \ {Pick(T)})
  BY <1>1, SumElement
<1>. QED BY <1>1, <1>3, <1>4, <1>5

Matches(f, h, S) == \A x \in S : f[x] = h[x]

\* Sums of the same numbers are the same.
LEMMA SumAgree ==
  ASSUME NEW S, IsFiniteSet(S), NEW f, NEW h, Amounts(f, S), Matches(f, h, S)
  PROVE  Sum(f, S) = Sum(h, S)
<1>1. Amounts(h, S)
  BY DEF Amounts, Matches
<1>. DEFINE G == {T \in SUBSET S : Sum(f, T) = Sum(h, T)}
<1>2. {} \in G
  <2>1. Sum(f, {}) = 0 /\ Sum(h, {}) = 0
    BY <1>1, SumType
  <2>. QED BY <2>1
<1>3. ASSUME NEW T \in SUBSET S, T # {}, T \ {Pick(T)} \in G
      PROVE  T \in G
  <2>0. IsFiniteSet(T) /\ Amounts(f, T) /\ Amounts(h, T)
    BY <1>1, FS_Subset DEF Amounts
  <2>1. Pick(T) \in T /\ Sum(f, T) = f[Pick(T)] + Sum(f, T \ {Pick(T)})
    BY <1>3, <2>0, SumPick
  <2>2. Sum(h, T) = h[Pick(T)] + Sum(h, T \ {Pick(T)})
    BY <1>3, <2>0, SumPick
  <2>3. f[Pick(T)] = h[Pick(T)]
    BY <2>1 DEF Matches
  <2>. QED BY <1>3, <2>1, <2>2, <2>3
<1>4. S \in G
  <2>. HIDE DEF G
  <2>1. \A T \in SUBSET S : T \in G
    BY <1>2, <1>3, PickInduction
  <2>. QED BY <2>1
<1>. QED BY <1>4

Sums(f, g, h, S) == \A x \in S : h[x] = f[x] + g[x]

\* The sum of sums.
LEMMA SumAdds ==
  ASSUME NEW S, IsFiniteSet(S), NEW f, NEW g, NEW h, Amounts(f, S), Amounts(g, S),
         Sums(f, g, h, S)
  PROVE  Sum(h, S) = Sum(f, S) + Sum(g, S)
<1>1. Amounts(h, S)
  BY DEF Amounts, Sums
<1>. DEFINE G == {T \in SUBSET S : Sum(h, T) = Sum(f, T) + Sum(g, T)}
<1>2. {} \in G
  <2>1. Sum(f, {}) = 0 /\ Sum(g, {}) = 0 /\ Sum(h, {}) = 0
    BY <1>1, SumType
  <2>. QED BY <2>1
<1>3. ASSUME NEW T \in SUBSET S, T # {}, T \ {Pick(T)} \in G
      PROVE  T \in G
  <2>. DEFINE p == Pick(T)
              U == T \ {Pick(T)}
  <2>0. IsFiniteSet(T) /\ Amounts(f, T) /\ Amounts(g, T) /\ Amounts(h, T)
    BY <1>1, FS_Subset DEF Amounts
  <2>1. p \in T /\ f[p] \in Nat /\ Sum(f, U) \in Nat /\ Sum(f, T) = f[p] + Sum(f, U)
    BY <1>3, <2>0, SumPick
  <2>2. g[p] \in Nat /\ Sum(g, U) \in Nat /\ Sum(g, T) = g[p] + Sum(g, U)
    BY <1>3, <2>0, SumPick
  <2>3. Sum(h, T) = h[p] + Sum(h, U)
    BY <1>3, <2>0, SumPick
  <2>4. h[p] = f[p] + g[p]
    BY <2>1 DEF Sums
  <2>5. Sum(h, U) = Sum(f, U) + Sum(g, U)
    BY <1>3
  <2>. HIDE DEF p, U
  <2>6. Sum(h, T) = Sum(f, T) + Sum(g, T)
    BY <2>1, <2>2, <2>3, <2>4, <2>5
  <2>. QED BY <2>6
<1>4. S \in G
  <2>. HIDE DEF G
  <2>1. \A T \in SUBSET S : T \in G
    BY <1>2, <1>3, PickInduction
  <2>. QED BY <2>1
<1>. QED BY <1>4

Multiples(k, f, h, S) == \A x \in S : h[x] = k * f[x]

\* The sum of multiples.
LEMMA SumScales ==
  ASSUME NEW S, IsFiniteSet(S), NEW f, NEW h, NEW k \in Nat, Amounts(f, S), Multiples(k, f, h, S)
  PROVE  Sum(h, S) = k * Sum(f, S)
<1>1. Amounts(h, S)
  BY DEF Amounts, Multiples
<1>. DEFINE G == {T \in SUBSET S : Sum(h, T) = k * Sum(f, T)}
<1>2. {} \in G
  <2>1. Sum(f, {}) = 0 /\ Sum(h, {}) = 0
    BY <1>1, SumType
  <2>. QED BY <2>1
<1>3. ASSUME NEW T \in SUBSET S, T # {}, T \ {Pick(T)} \in G
      PROVE  T \in G
  <2>. DEFINE p == Pick(T)
              U == T \ {Pick(T)}
  <2>0. IsFiniteSet(T) /\ Amounts(f, T) /\ Amounts(h, T)
    BY <1>1, FS_Subset DEF Amounts
  <2>1. p \in T /\ f[p] \in Nat /\ Sum(f, U) \in Nat /\ Sum(f, T) = f[p] + Sum(f, U)
    BY <1>3, <2>0, SumPick
  <2>3. Sum(h, T) = h[p] + Sum(h, U)
    BY <1>3, <2>0, SumPick
  <2>4. h[p] = k * f[p]
    BY <2>1 DEF Multiples
  <2>5. Sum(h, U) = k * Sum(f, U)
    BY <1>3
  <2>6. k * (f[p] + Sum(f, U)) = k * f[p] + k * Sum(f, U)
    <3>. HIDE DEF p, U
    <3>. QED BY <2>1
  <2>. HIDE DEF p, U
  <2>7. Sum(h, T) = k * Sum(f, T)
    BY <2>1, <2>3, <2>4, <2>5, <2>6
  <2>. QED BY <2>7
<1>4. S \in G
  <2>. HIDE DEF G
  <2>1. \A T \in SUBSET S : T \in G
    BY <1>2, <1>3, PickInduction
  <2>. QED BY <2>1
<1>. QED BY <1>4

\* A sum over a set is that over a part and that over the rest.
LEMMA SumParts ==
  ASSUME NEW S, IsFiniteSet(S), NEW f, Amounts(f, S), NEW T \in SUBSET S
  PROVE  Sum(f, S) = Sum(f, T) + Sum(f, S \ T)
<1>. DEFINE G == {U \in SUBSET T : Sum(f, S) = Sum(f, U) + Sum(f, S \ U)}
<1>0. IsFiniteSet(T) /\ Amounts(f, T) /\ \A U \in SUBSET T : U \in SUBSET S
  BY FS_Subset DEF Amounts
<1>1. {} \in G
  <2>1. Sum(f, {}) = 0 /\ Sum(f, S) \in Nat /\ S \ {} = S
    BY SumType
  <2>. QED BY <2>1
<1>2. ASSUME NEW U \in SUBSET T, U # {}, U \ {Pick(U)} \in G
      PROVE  U \in G
  <2>. DEFINE p == Pick(U)
              V == U \ {Pick(U)}
              R == S \ V
  <2>0. IsFiniteSet(U) /\ Amounts(f, U)
    BY <1>0, FS_Subset DEF Amounts
  <2>1. p \in U /\ f[p] \in Nat /\ Sum(f, V) \in Nat /\ Sum(f, U) = f[p] + Sum(f, V)
    BY <1>2, <2>0, SumPick
  <2>2. p \in R /\ R \ {p} = S \ U
    BY <2>1
  <2>3. IsFiniteSet(R) /\ Amounts(f, R) /\ IsFiniteSet(S \ U) /\ Amounts(f, S \ U)
    <3>1. R \in SUBSET S /\ S \ U \in SUBSET S
      OBVIOUS
    <3>. HIDE DEF R
    <3>. QED BY <3>1, FS_Subset DEF Amounts
  <2>4. Sum(f, S \ U) \in Nat
    BY <2>3, SumType
  <2>5. Sum(f, R) = f[p] + Sum(f, S \ U)
    <3>. HIDE DEF R, p
    <3>. QED BY <2>2, <2>3, SumElement
  <2>6. Sum(f, S) = Sum(f, V) + Sum(f, R)
    BY <1>2
  <2>. HIDE DEF p, V, R
  <2>7. Sum(f, S) = Sum(f, U) + Sum(f, S \ U)
    BY <2>1, <2>4, <2>5, <2>6
  <2>. QED BY <2>7
<1>4. T \in G
  <2>. HIDE DEF G
  <2>1. \A U \in SUBSET T : U \in G
    BY <1>0, <1>1, <1>2, PickInduction
  <2>. QED BY <2>1
<1>. QED BY <1>4

\* Zeros do not count.
LEMMA SumOnly ==
  ASSUME NEW S, IsFiniteSet(S), NEW f, NEW T \in SUBSET S, Amounts(f, T),
         \A x \in S \ T : f[x] = 0
  PROVE  Sum(f, S) = Sum(f, T)
<1>. DEFINE R == S \ T
            z == [x \in R |-> 0]
            o == [x \in R |-> f[x]]
<1>0. Amounts(f, S)
  BY DEF Amounts
<1>1. IsFiniteSet(R) /\ Amounts(f, R) /\ Amounts(z, R) /\ Multiples(0, f, z, R) /\ Matches(f, z, R)
  BY FS_Subset DEF Amounts, Multiples, Matches
<1>. HIDE DEF z
<1>2. Sum(z, R) = 0 * Sum(f, R) /\ Sum(f, R) \in Nat
  BY <1>1, SumScales, SumType
<1>3. Sum(f, R) = Sum(z, R)
  BY <1>1, SumAgree
<1>4. IsFiniteSet(T)
  BY FS_Subset
<1>5. Sum(f, T) \in Nat
  BY <1>4, SumType
<1>6. Sum(f, S) = Sum(f, T) + Sum(f, R)
  BY <1>0, SumParts
<1>. QED BY <1>2, <1>3, <1>5, <1>6

\* A sum of one number and zeros.
LEMMA SumOne ==
  ASSUME NEW S, IsFiniteSet(S), NEW f, NEW x \in S, f[x] \in Nat,
         \A y \in S : y # x => f[y] = 0
  PROVE  Sum(f, S) = f[x]
<1>1. Amounts(f, {x}) /\ {x} \in SUBSET S /\ \A y \in S \ {x} : f[y] = 0
  BY DEF Amounts
<1>2. Sum(f, S) = Sum(f, {x})
  BY <1>1, SumOnly
<1>3. IsFiniteSet({x})
  BY FS_Singleton
<1>4. Sum(f, {x}) = f[x] + Sum(f, {x} \ {x})
  BY <1>1, <1>3, SumElement
<1>5. Sum(f, {}) = 0 /\ {x} \ {x} = {}
  BY <1>1, <1>3, SumType
<1>. QED BY <1>2, <1>4, <1>5

Below(f, h, S) == \A x \in S : f[x] <= h[x]

\* Smaller numbers, or fewer, have a smaller sum.
LEMMA SumBelow ==
  ASSUME NEW S, IsFiniteSet(S), NEW T \in SUBSET S, NEW f, NEW h, Amounts(f, T), Amounts(h, S),
         Below(f, h, T)
  PROVE  Sum(f, T) <= Sum(h, S)
<1>0. IsFiniteSet(T) /\ IsFiniteSet(S \ T) /\ Amounts(h, T) /\ Amounts(h, S \ T)
  BY FS_Subset DEF Amounts
<1>. DEFINE d == [x \in T |-> h[x] - f[x]]
<1>1. Amounts(d, T) /\ Sums(f, d, h, T)
  BY <1>0 DEF Amounts, Sums, Below
<1>. HIDE DEF d
<1>2. Sum(h, T) = Sum(f, T) + Sum(d, T)
  BY <1>0, <1>1, SumAdds
<1>3. Sum(d, T) \in Nat /\ Sum(f, T) \in Nat /\ Sum(h, S \ T) \in Nat
  BY <1>0, <1>1, SumType
<1>4. Sum(h, S) = Sum(h, T) + Sum(h, S \ T)
  BY SumParts
<1>. QED BY <1>2, <1>3, <1>4

\* The elements may be given other names.
LEMMA SumRenamed ==
  ASSUME NEW S, IsFiniteSet(S), NEW T, NEW f, NEW h, NEW b \in [S -> T],
         \A x, y \in S : b[x] = b[y] => x = y, \A y \in T : \E x \in S : b[x] = y,
         Amounts(f, T), \A x \in S : h[x] = f[b[x]]
  PROVE  Sum(h, S) = Sum(f, T) /\ IsFiniteSet(T)
<1>0. Amounts(h, S)
  BY DEF Amounts
<1>. DEFINE Image(U) == {b[x] : x \in U}
            G == {U \in SUBSET S : Sum(h, U) = Sum(f, Image(U))}
<1>1. ASSUME NEW U \in SUBSET S
      PROVE  IsFiniteSet(Image(U)) /\ Image(U) \in SUBSET T /\ Amounts(f, Image(U))
  <2>1. IsFiniteSet(U)
    BY FS_Subset
  <2>2. IsFiniteSet(Image(U))
    <3>. DEFINE c == [x \in U |-> b[x]]
    <3>1. c \in Surjection(U, Image(U))
      BY DEF Surjection
    <3>. HIDE DEF Image, c
    <3>. QED BY <2>1, <3>1, FS_Surjection
  <2>. QED BY <2>2 DEF Amounts
<1>2. {} \in G
  <2>1. Image({}) = {} /\ IsFiniteSet({}) /\ Amounts(f, {})
    BY FS_EmptySet DEF Amounts
  <2>2. Sum(h, {}) = 0 /\ Sum(f, {}) = 0
    BY <1>0, <2>1, SumType
  <2>. QED BY <2>1, <2>2
<1>3. ASSUME NEW U \in SUBSET S, U # {}, U \ {Pick(U)} \in G
      PROVE  U \in G
  <2>. DEFINE p == Pick(U)
              V == U \ {Pick(U)}
  <2>0. IsFiniteSet(U) /\ Amounts(h, U)
    BY <1>0, FS_Subset DEF Amounts
  <2>1. p \in U /\ Sum(h, U) = h[p] + Sum(h, V)
    BY <1>3, <2>0, SumPick
  <2>2. b[p] \in Image(U)
    BY <2>1
  <2>3. Image(U) \ {b[p]} = Image(V)
    BY <2>1
  <2>4. Sum(f, Image(U)) = f[b[p]] + Sum(f, Image(U) \ {b[p]})
    <3>. HIDE DEF p, Image
    <3>. QED BY <1>1, <2>2, SumElement
  <2>5. h[p] = f[b[p]]
    BY <2>1
  <2>6. Sum(h, V) = Sum(f, Image(V))
    BY <1>3
  <2>7. Sum(h, U) = Sum(f, Image(U))
    BY <2>1, <2>3, <2>4, <2>5, <2>6
  <2>. HIDE DEF Image
  <2>. QED BY <2>7
<1>4. S \in G
  <2>. HIDE DEF G
  <2>1. \A U \in SUBSET S : U \in G
    BY <1>2, <1>3, PickInduction
  <2>. QED BY <2>1
<1>5. Image(S) = T
  OBVIOUS
<1>6. IsFiniteSet(Image(S))
  <2>. HIDE DEF Image
  <2>. QED BY <1>1
<1>. QED BY <1>4, <1>5, <1>6

\* A table may be summed by rows or by columns.
LEMMA SumTable ==
  ASSUME NEW A, IsFiniteSet(A), NEW B, IsFiniteSet(B), NEW f \in [A -> [B -> Nat]]
  PROVE  Sum([x \in A |-> Sum(f[x], B)], A) = Sum([y \in B |-> Sum([x \in A |-> f[x][y]], A)], B)
<1>. DEFINE r == [x \in A |-> Sum(f[x], B)]
            col(y) == [x \in A |-> f[x][y]]
            c(U) == [y \in B |-> Sum(col(y), U)]
            G == {U \in SUBSET A : Sum(r, U) = Sum(c(U), B)}
<1>1. \A x \in A : Amounts(f[x], B) /\ Sum(f[x], B) \in Nat
  <2> TAKE x \in A
  <2>1. Amounts(f[x], B)
    BY DEF Amounts
  <2>. QED BY <2>1, SumType
<1>2. Amounts(r, A) /\ \A x \in A : r[x] = Sum(f[x], B)
  BY <1>1 DEF Amounts
<1>3. \A y \in B : Amounts(col(y), A) /\ \A x \in A : col(y)[x] = f[x][y]
  BY DEF Amounts
<1>4. \A U \in SUBSET A : \A y \in B : c(U)[y] = Sum(col(y), U)
  OBVIOUS
<1>. HIDE DEF col
<1>5. ASSUME NEW U \in SUBSET A
      PROVE  Amounts(c(U), B)
  <2>0. IsFiniteSet(U) /\ \A y \in B : Amounts(col(y), U)
    BY <1>3, FS_Subset DEF Amounts
  <2>1. \A y \in B : Sum(col(y), U) \in Nat
    BY <2>0, SumType
  <2>. QED BY <1>4, <2>1 DEF Amounts
<1>. HIDE DEF r, c
<1>6. {} \in G
  <2>1. Sum(r, {}) = 0
    BY <1>2, SumType
  <2>2. \A y \in B : Sum(col(y), {}) = 0
    BY <1>3, SumType
  <2>3. {} \in SUBSET A /\ {} \in SUBSET B /\ Amounts(c({}), {}) /\ \A y \in B \ {} : c({})[y] = 0
    BY <1>4, <2>2 DEF Amounts
  <2>4. Sum(c({}), B) = Sum(c({}), {})
    BY <2>3, SumOnly
  <2>5. Amounts(c({}), B)
    BY <1>5, <2>3
  <2>6. Sum(c({}), {}) = 0
    BY <2>5, SumType
  <2>. QED BY <2>1, <2>3, <2>4, <2>6
<1>7. ASSUME NEW U \in SUBSET A, U # {}, U \ {Pick(U)} \in G
      PROVE  U \in G
  <2>. DEFINE p == Pick(U)
              V == U \ {Pick(U)}
  <2>0. IsFiniteSet(U) /\ Amounts(r, U) /\ \A y \in B : Amounts(col(y), U)
    BY <1>2, <1>3, FS_Subset DEF Amounts
  <2>1. p \in U /\ Sum(r, U) = r[p] + Sum(r, V)
    BY <1>7, <2>0, SumPick
  <2>2. ASSUME NEW y \in B
        PROVE  Sum(col(y), U) = col(y)[p] + Sum(col(y), V)
    BY <1>7, <2>0, SumPick
  <2>3. p \in A /\ V \in SUBSET A
    BY <2>1
  <2>. HIDE DEF p
  <2>4. Sum(r, V) = Sum(c(V), B)
    BY <1>7
  <2>. HIDE DEF V
  <2>5. Sums(f[p], c(V), c(U), B)
    BY <1>3, <1>4, <2>2, <2>3 DEF Sums
  <2>6. Amounts(f[p], B) /\ Amounts(c(V), B)
    BY <1>1, <1>5, <2>3
  <2>7. Sum(c(U), B) = Sum(f[p], B) + Sum(c(V), B)
    BY <2>5, <2>6, SumAdds
  <2>8. Sum(r, U) = Sum(c(U), B)
    BY <1>2, <2>1, <2>3, <2>4, <2>7
  <2>. QED BY <2>8
<1>8. A \in G
  <2>. HIDE DEF G
  <2>1. \A U \in SUBSET A : U \in G
    BY <1>6, <1>7, PickInduction
  <2>. QED BY <2>1
<1>9. Sum(r, A) = Sum(c(A), B)
  BY <1>8
<1>. QED BY <1>9 DEF r, c, col
=============================================================================
