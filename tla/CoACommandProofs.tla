-------------------------- MODULE CoACommandProofs --------------------------
(* Proofs about CoACommand and the packets of RadiusPacket.                *)
EXTENDS CoACommand, FiniteSetTheorems, SequenceTheorems, NaturalsInduction, TLAPS

(***************************************************************************)
(* Induction over sets of numbers, and functions that are defined from one *)
(* number to the next.                                                     *)
(***************************************************************************)
LEMMA LeastNat == ASSUME NEW T \in SUBSET Nat, T # {} PROVE \E x \in T : \A y \in T : x <= y
<1>1. IsWellFoundedOn(OpToRel(<,Nat), Nat)
  BY NatLessThanWellFounded
<1>2. PICK x \in T : \A y \in T : ~ (<<y, x>> \in OpToRel(<,Nat))
  BY <1>1, WFMin, Zenon
<1>3. \A y \in T : ~(<<y, x>> \in {ss \in Nat \X Nat : ss[1] < ss[2]})
  BY <1>2 DEF OpToRel
<1>4. \A y \in T : ~(y < x)
  BY <1>3
<1>5. QED
  BY <1>4

LEMMA UpTo ==
  ASSUME NEW n \in Nat, NEW T, 0 \in T, \A k \in 1..n : k - 1 \in T => k \in T
  PROVE  0..n \subseteq T
<1> DEFINE out == {k \in 0..n : k \notin T}
<1>1. CASE out = {}
  BY <1>1
<1>2. CASE out # {}
  <2>1. PICK x \in out : \A y \in out : x <= y
    <3> out \subseteq Nat
      OBVIOUS
    <3> HIDE DEF out
    <3>1. QED
      BY <1>2, LeastNat
  <2>2. x \in 1..n /\ x - 1 \in 0..n /\ x - 1 \notin out
    BY <2>1
  <2>3. QED
    BY <2>1, <2>2
<1>3. QED
  BY <1>1, <1>2

(* A function that takes the step from each number to the next.             *)
Steps(f, S, n, base, step) ==
  /\ f \in [0..n -> S]
  /\ f[0] = base
  /\ \A k \in 1..n : f[k] = step[<<k, f[k - 1]>>]

LEMMA StepsExist ==
  ASSUME NEW S, NEW n \in Nat, NEW base \in S, NEW step,
         \A k \in 1..n, x \in S : step[<<k, x>>] \in S
  PROVE  \E f : Steps(f, S, n, base, step)
<1> DEFINE T == {m \in 0..n : \E f : Steps(f, S, m, base, step)}
<1>1. 0 \in T
  <2>1. Steps([k \in 0..0 |-> base], S, 0, base, step)
    BY DEF Steps
  <2>2. QED
    BY <2>1
<1>2. ASSUME NEW m \in 1..n, m - 1 \in T PROVE m \in T
  <2>1. PICK f : Steps(f, S, m - 1, base, step)
    BY <1>2
  <2> DEFINE g == [k \in 0..m |-> IF k = m THEN step[<<m, f[m - 1]>>] ELSE f[k]]
  <2>2. f[m - 1] \in S
    BY <2>1 DEF Steps
  <2>3. g \in [0..m -> S] /\ g[0] = base
    BY <2>1, <2>2 DEF Steps
  <2>4. \A k \in 1..m : g[k] = step[<<k, g[k - 1]>>]
    BY <2>1 DEF Steps
  <2>5. Steps(g, S, m, base, step)
    BY <2>3, <2>4 DEF Steps
  <2>6. QED
    BY <2>5
<1>3. 0..n \subseteq T
  BY <1>1, <1>2, UpTo
<1>4. QED
  BY <1>3

NumberSteps(digits, base) ==
  CHOOSE f : f = [k \in 0..Len(digits) |-> IF k = 0 THEN 0 ELSE base * f[k - 1] + digits[k]]

IsNumber(digits, base, f) ==
  /\ Number(digits, base) = f[Len(digits)]
  /\ f \in [0..Len(digits) -> Nat] /\ f[0] = 0
  /\ \A k \in 1..Len(digits) : f[k] = base * f[k - 1] + digits[k]

LEMMA NumberIs ==
  ASSUME NEW digits \in Seq(Nat), NEW base \in Nat
  PROVE  IsNumber(digits, base, NumberSteps(digits, base))
<1> DEFINE n == Len(digits)
           step == [p \in (1..n) \X Nat |-> base * p[2] + digits[p[1]]]
           f == NumberSteps(digits, base)
<1>1. n \in Nat /\ \A k \in 1..n : digits[k] \in Nat
  OBVIOUS
<1>2. \A k \in 1..n, x \in Nat : step[<<k, x>>] = base * x + digits[k]
  OBVIOUS
<1>3. \A k \in 1..n, x \in Nat : base * x + digits[k] \in Nat
  BY <1>1
<1> HIDE DEF step, n
<1>4. PICK g : Steps(g, Nat, n, 0, step)
  BY <1>1, <1>2, <1>3, StepsExist
<1>5. g = [k \in 0..n |-> IF k = 0 THEN 0 ELSE base * g[k - 1] + digits[k]]
  <2>1. g = [k \in 0..n |-> g[k]]
    BY <1>4 DEF Steps
  <2>2. \A k \in 1..n : g[k] = step[<<k, g[k - 1]>>] /\ g[k - 1] \in Nat
    BY <1>1, <1>4 DEF Steps
  <2>3. \A k \in 1..n : g[k] = base * g[k - 1] + digits[k]
    BY <1>2, <2>2
  <2>4. \A k \in 0..n : g[k] = IF k = 0 THEN 0 ELSE base * g[k - 1] + digits[k]
    BY <1>1, <1>4, <2>3 DEF Steps
  <2>5. QED
    BY <2>1, <2>4
<1>6. f = [k \in 0..n |-> IF k = 0 THEN 0 ELSE base * f[k - 1] + digits[k]]
  BY <1>5 DEF NumberSteps, n
<1>7. f[0] = 0 /\ \A k \in 1..n : f[k] = base * f[k - 1] + digits[k]
  BY <1>1, <1>6
<1>8. \A k \in 0..n : f[k] \in Nat
  <2> DEFINE T == {k \in 0..n : f[k] \in Nat}
  <2>1. 0 \in T
    BY <1>1, <1>7
  <2>2. ASSUME NEW k \in 1..n, k - 1 \in T PROVE k \in T
    <3>1. f[k] = base * f[k - 1] + digits[k] /\ f[k - 1] \in Nat /\ k \in 0..n
      BY <1>1, <1>7, <2>2
    <3>2. f[k] \in Nat
      BY <1>3, <3>1
    <3>3. QED
      BY <3>1, <3>2
  <2> HIDE DEF T
  <2>3. 0..n \subseteq T
    BY <1>1, <2>1, <2>2, UpTo
  <2>4. QED
    BY <2>3 DEF T
<1>9. Number(digits, base) = f[n]
  BY DEF Number, NumberSteps, n
<1>10. QED
  BY <1>6, <1>7, <1>8, <1>9 DEF n, IsNumber

LEMMA NumberOK ==
  ASSUME NEW digits \in Seq(Nat), NEW base \in Nat PROVE Number(digits, base) \in Nat
<1>1. IsNumber(digits, base, NumberSteps(digits, base)) /\ Len(digits) \in 0..Len(digits)
  BY NumberIs
<1>2. QED
  BY <1>1 DEF IsNumber

(* Dividing again and again.                                               *)
LEMMA ShiftsIs ==
  ASSUME NEW n \in Nat, NEW base \in Nat \ {0}, NEW count \in Nat
  PROVE  /\ Shifts(n, base, count) \in [0..count -> Nat]
         /\ Shifts(n, base, count)[0] = n
         /\ \A k \in 1..count :
              Shifts(n, base, count)[k] = Shifts(n, base, count)[k - 1] \div base
<1> DEFINE step == [p \in (1..count) \X Nat |-> p[2] \div base]
           f == Shifts(n, base, count)
<1>1. \A x \in Nat : x \div base \in Nat
  OBVIOUS
<1>2. \A k \in 1..count, x \in Nat : step[<<k, x>>] = x \div base
  OBVIOUS
<1> HIDE DEF step
<1>3. PICK g : Steps(g, Nat, count, n, step)
  BY <1>1, <1>2, StepsExist
<1>4. g = [k \in 0..count |-> IF k = 0 THEN n ELSE g[k - 1] \div base]
  <2>1. g = [k \in 0..count |-> g[k]]
    BY <1>3 DEF Steps
  <2>2. \A k \in 1..count : g[k] = step[<<k, g[k - 1]>>] /\ g[k - 1] \in Nat
    BY <1>3 DEF Steps
  <2>3. \A k \in 1..count : g[k] = g[k - 1] \div base
    BY <1>2, <2>2
  <2>4. \A k \in 0..count : g[k] = IF k = 0 THEN n ELSE g[k - 1] \div base
    <3>1. g[0] = n /\ \A k \in 0..count : k = 0 \/ k \in 1..count
      BY <1>3 DEF Steps
    <3>2. QED
      BY <2>3, <3>1, Zenon
  <2>5. QED
    BY <2>1, <2>4
<1>5. f = [k \in 0..count |-> IF k = 0 THEN n ELSE f[k - 1] \div base]
  BY <1>4 DEF Shifts
<1>6. f[0] = n /\ \A k \in 1..count : f[k] = f[k - 1] \div base
  BY <1>5
<1>7. \A k \in 0..count : f[k] \in Nat
  <2> DEFINE T == {k \in 0..count : f[k] \in Nat}
  <2>1. 0 \in T
    BY <1>6
  <2>2. ASSUME NEW k \in 1..count, k - 1 \in T PROVE k \in T
    BY <1>1, <1>6, <2>2
  <2> HIDE DEF T
  <2>3. 0..count \subseteq T
    BY <2>1, <2>2, UpTo
  <2>4. QED
    BY <2>3 DEF T
<1>8. QED
  BY <1>5, <1>6, <1>7

LEMMA DigitsOK ==
  ASSUME NEW n \in Nat, NEW base \in Nat \ {0}, NEW count \in Nat
  PROVE  Digits(n, base, count) \in [1..count -> 0..base - 1]
<1>1. \A k \in 1..count : Shifts(n, base, count)[count - k] \in Nat
  BY ShiftsIs
<1>2. \A x \in Nat : x % base \in 0..base - 1
  OBVIOUS
<1>3. QED
  BY <1>1, <1>2 DEF Digits

LEMMA AtoiOK == ASSUME NEW text \in Seq(Nat) PROVE Atoi(text) \in Nat
<1> DEFINE others == {k \in DOMAIN text : text[k] > 9}
           end == IF others = {} THEN Len(text) ELSE Min(others) - 1
<1>1. others \subseteq 1..Len(text) /\ Len(text) \in Nat
  OBVIOUS
<1>2. end \in 0..Len(text)
  <2>1. CASE others = {}
    BY <1>1, <2>1
  <2>2. CASE others # {}
    <3>1. others \in SUBSET Nat
      BY <1>1
    <3> HIDE DEF others
    <3>2. Min(others) \in others
      BY <2>2, <3>1, LeastNat DEF Min
    <3>3. Min(others) \in 1..Len(text)
      BY <1>1, <3>2
    <3>4. end = Min(others) - 1
      BY <2>2
    <3>5. QED
      BY <1>1, <3>3, <3>4
  <2>3. QED
    BY <2>1, <2>2
<1> HIDE DEF others, end
<1>3. SubSeq(text, 1, end) \in Seq(Nat)
  BY <1>1, <1>2
<1>4. Number(SubSeq(text, 1, end), 10) \in Nat
  BY <1>3, NumberOK
<1>5. QED
  BY <1>4 DEF Atoi, others, end

(***************************************************************************)
(* Sequences of sequences.                                                 *)
(***************************************************************************)
Flattened(seqs) ==
  CHOOSE f : f = [k \in 1..Len(seqs) |-> IF k = 1 THEN seqs[k] ELSE f[k - 1] \o seqs[k]]

(* What a function has to do to flatten a sequence.                         *)
IsFlat(seqs, f, n) == f[1] = seqs[1] /\ \A k \in 2..n : f[k] = f[k - 1] \o seqs[k]

LEMMA FlattenIs ==
  ASSUME NEW S, NEW seqs \in Seq(Seq(S)), NEW n \in Nat \ {0}, Len(seqs) = n
  PROVE  /\ FlattenSeq(seqs) = Flattened(seqs)[n]
         /\ Flattened(seqs)[n] \in Seq(S)
         /\ IsFlat(seqs, Flattened(seqs), n)
<1> DEFINE Q == Seq(S)
           step == [p \in (1..n) \X Q |-> p[2] \o seqs[p[1]]]
           f == Flattened(seqs)
<1>1. \A k \in 1..n : seqs[k] \in Q
  OBVIOUS
<1>2. << >> \in Q /\ \A x, y \in Q : x \o y \in Q /\ << >> \o y = y
  OBVIOUS
<1> HIDE DEF Q
<1>3. \A k \in 1..n, x \in Q : step[<<k, x>>] = x \o seqs[k]
  OBVIOUS
<1>4. \A k \in 1..n, x \in Q : x \o seqs[k] \in Q
  BY <1>1, <1>2
<1> HIDE DEF step
<1>5. PICK h : Steps(h, Q, n, << >>, step)
  BY <1>2, <1>3, <1>4, StepsExist
<1>6. /\ \A k \in 0..n : h[k] \in Q
      /\ h[0] = << >>
      /\ \A k \in 1..n : h[k] = h[k - 1] \o seqs[k]
  <2>1. \A k \in 1..n : h[k] = step[<<k, h[k - 1]>>] /\ h[k - 1] \in Q
    BY <1>5 DEF Steps
  <2>2. QED
    BY <1>3, <1>5, <2>1 DEF Steps
<1> DEFINE g == [k \in 1..n |-> h[k]]
<1>7. \A k \in 1..n : g[k] = h[k] /\ (k # 1 => g[k - 1] = h[k - 1])
  OBVIOUS
<1>8. g[1] = seqs[1] /\ \A k \in 1..n : k # 1 => g[k] = g[k - 1] \o seqs[k]
  <2>1. h[1] = << >> \o seqs[1]
    <3>1. 1 \in 1..n /\ 1 - 1 = 0
      OBVIOUS
    <3>2. h[1] = h[1 - 1] \o seqs[1]
      BY <1>6, <3>1, Zenon
    <3>3. QED
      BY <1>6, <3>1, <3>2
  <2>2. << >> \o seqs[1] = seqs[1]
    BY <1>1, <1>2
  <2>3. 1 \in 1..n
    OBVIOUS
  <2> HIDE DEF g
  <2>4. QED
    BY <1>6, <1>7, <2>1, <2>2, <2>3, Zenon
<1>9. g = [k \in 1..n |-> g[k]]
  OBVIOUS
<1> HIDE DEF g
<1>10. g = [k \in 1..n |-> IF k = 1 THEN seqs[k] ELSE g[k - 1] \o seqs[k]]
  <2>1. \A k \in 1..n : g[k] = IF k = 1 THEN seqs[k] ELSE g[k - 1] \o seqs[k]
    BY <1>8
  <2>2. QED
    BY <1>9, <2>1, Zenon
<1>11. f = [k \in 1..n |-> IF k = 1 THEN seqs[k] ELSE f[k - 1] \o seqs[k]]
  BY <1>10 DEF Flattened
<1> HIDE DEF f
<1>12. \A k \in 1..n : f[k] = IF k = 1 THEN seqs[k] ELSE f[k - 1] \o seqs[k]
  BY <1>11, Zenon
<1>13. IsFlat(seqs, f, n)
  <2>1. 1 \in 1..n /\ \A k \in 2..n : k \in 1..n /\ k # 1
    OBVIOUS
  <2>2. QED
    BY <1>12, <2>1, Zenon DEF IsFlat
<1>14. \A k \in 1..n : f[k] \in Q
  <2> DEFINE T == {k \in 0..n : k = 0 \/ f[k] \in Q}
  <2>1. 0 \in T
    OBVIOUS
  <2>2. ASSUME NEW k \in 1..n, k - 1 \in T PROVE k \in T
    <3>1. CASE k = 1
      BY <1>1, <1>12, <3>1
    <3>2. CASE k # 1
      BY <1>4, <1>12, <2>2, <3>2
    <3>3. QED
      BY <3>1, <3>2
  <2> HIDE DEF T
  <2>3. 0..n \subseteq T
    BY <2>1, <2>2, UpTo
  <2>4. QED
    BY <2>3 DEF T
<1>15. FlattenSeq(seqs) = f[n]
  BY DEF FlattenSeq, Flattened, f
<1>16. QED
  BY <1>13, <1>14, <1>15 DEF f, Q

LEMMA FlattenEmpty == FlattenSeq(<< >>) = << >>
BY DEF FlattenSeq

LEMMA FlattenOK ==
  ASSUME NEW S, NEW seqs \in Seq(Seq(S)) PROVE FlattenSeq(seqs) \in Seq(S)
<1>1. Len(seqs) \in Nat
  OBVIOUS
<1>2. CASE Len(seqs) = 0
  <2>1. seqs = << >>
    BY <1>2
  <2>2. << >> \in Seq(S)
    OBVIOUS
  <2>3. QED
    BY <2>1, <2>2, FlattenEmpty, Zenon
<1>3. CASE Len(seqs) # 0
  <2>1. Len(seqs) \in Nat \ {0}
    BY <1>1, <1>3
  <2>2. FlattenSeq(seqs) = Flattened(seqs)[Len(seqs)] /\ Flattened(seqs)[Len(seqs)] \in Seq(S)
    BY <2>1, FlattenIs
  <2>3. QED
    BY <2>2
<1>4. QED
  BY <1>2, <1>3

LEMMA FlattenAppend ==
  ASSUME NEW S, NEW seqs \in Seq(Seq(S)), NEW s \in Seq(S)
  PROVE  FlattenSeq(Append(seqs, s)) = FlattenSeq(seqs) \o s
<1> DEFINE n == Len(seqs)
           more == Append(seqs, s)
           f == Flattened(seqs)
           g == Flattened(more)
<1>1. /\ more \in Seq(Seq(S)) /\ Len(more) = n + 1 /\ n \in Nat /\ more[n + 1] = s
      /\ \A k \in 1..n : more[k] = seqs[k]
  OBVIOUS
<1> HIDE DEF n, more
<1>2. FlattenSeq(more) = g[n + 1] /\ IsFlat(more, g, n + 1)
  <2>1. n + 1 \in Nat \ {0}
    BY <1>1
  <2>2. QED
    BY <1>1, <2>1, FlattenIs
<1>3. CASE n = 0
  <2>1. seqs = << >>
    BY <1>3 DEF n
  <2>2. << >> \o s = s
    OBVIOUS
  <2>3. g[1] = s
    BY <1>1, <1>2, <1>3 DEF IsFlat
  <2>4. FlattenSeq(more) = << >> \o s
    BY <1>2, <1>3, <2>2, <2>3
  <2>5. QED
    BY <2>1, <2>4, FlattenEmpty DEF more
<1>4. CASE n # 0
  <2>1. FlattenSeq(seqs) = f[n] /\ IsFlat(seqs, f, n)
    <3>1. n \in Nat \ {0} /\ Len(seqs) = n
      BY <1>1, <1>4 DEF n
    <3>2. QED
      BY <3>1, FlattenIs
  <2> DEFINE T == {k \in 0..n : k = 0 \/ g[k] = f[k]}
  <2>2. 0 \in T
    BY <1>1
  <2> HIDE DEF f, g
  <2>3. ASSUME NEW k \in 1..n, k - 1 \in T PROVE k \in T
    <3>1. CASE k = 1
      BY <1>1, <1>2, <2>1, <3>1 DEF IsFlat
    <3>2. CASE k # 1
      <4>1. k \in 2..n /\ k \in 2..n + 1 /\ k \in 0..n
        BY <1>1, <3>2
      <4>2. f[k] = f[k - 1] \o seqs[k] /\ g[k] = g[k - 1] \o more[k]
        BY <1>2, <2>1, <4>1 DEF IsFlat
      <4>3. g[k - 1] = f[k - 1] /\ more[k] = seqs[k]
        BY <1>1, <2>3, <3>2
      <4>4. QED
        BY <4>1, <4>2, <4>3
    <3>3. QED
      BY <3>1, <3>2
  <2> HIDE DEF T
  <2>4. 0..n \subseteq T
    BY <1>1, <2>2, <2>3, UpTo
  <2>5. g[n] = f[n]
    BY <1>1, <1>4, <2>4 DEF T
  <2>6. g[n + 1] = g[n] \o s
    <3>1. n + 1 \in 2..n + 1 /\ (n + 1) - 1 = n
      BY <1>1, <1>4
    <3>2. g[n + 1] = g[(n + 1) - 1] \o more[n + 1]
      BY <1>2, <3>1 DEF IsFlat
    <3>3. QED
      BY <1>1, <3>1, <3>2
  <2>7. FlattenSeq(more) = FlattenSeq(seqs) \o s
    BY <1>2, <2>1, <2>5, <2>6
  <2>8. QED
    BY <2>7 DEF more
<1>5. QED
  BY <1>3, <1>4

(***************************************************************************)
(* Texts and the packets that are built.                                   *)
(***************************************************************************)

(* A digest is a block of octets.                                          *)
Blocks == [1..BlockSize -> Octets]

Md5OK == \A text \in OctetStrings : Md5(text) \in Blocks

LEMMA Sizes ==
  /\ OctetSize \in Nat /\ OctetSize > 26 /\ WordSize \in Nat \ {0} /\ BlockSize \in Nat \ {0}
  /\ HeaderSize \in Nat /\ HeaderSize = 4 + BlockSize
  /\ VsaHeader \in Nat /\ VsaHeader = 4 + WordSize /\ VendorSpecific = 26
  /\ HeaderSize + 4 * OctetSize < OctetSize * OctetSize
BY RadiusAssumption DEF HeaderSize, VsaHeader, VendorSpecific

LEMMA OctetsOK ==
  /\ Octets \subseteq Nat
  /\ \A n \in 0..26 : n \in Octets
  /\ \A n \in Nat : n < OctetSize => n \in Octets
  /\ \A n \in Octets : n < OctetSize
BY Sizes DEF Octets

LEMMA LettersOK ==
  /\ {LetterS, LetterBigI, LetterI, Colon, Blank, Ampersand} \subseteq 16..OctetSize - 1
  /\ {LetterS, LetterBigI, LetterI, Colon, Blank, Ampersand} \subseteq Octets
  /\ LetterS # LetterBigI /\ LetterS # LetterI /\ LetterBigI # LetterI
  /\ Colon \notin {LetterS, LetterBigI, LetterI}
<1>1. /\ DOMAIN Letters = 1..6
      /\ Letters[1] = LetterS /\ Letters[2] = LetterBigI /\ Letters[3] = LetterI
      /\ Letters[4] = Colon /\ Letters[5] = Blank /\ Letters[6] = Ampersand
  BY DEF Letters
<1> HIDE DEF Letters
<1>2. {Letters[1], Letters[2], Letters[3], Letters[4], Letters[5], Letters[6]} \subseteq 16..OctetSize - 1
  BY <1>1, RadiusAssumption DEF Range
<1>3. \A a, b \in 1..6 : Letters[a] = Letters[b] => a = b
  BY <1>1, RadiusAssumption DEF IsInjective
<1>4. 16..OctetSize - 1 \subseteq Octets
  BY Sizes DEF Octets
<1>5. QED
  BY <1>1, <1>2, <1>3, <1>4

LEMMA OctetOK == \A n \in Nat : Octet(n) \in Octets /\ (n < OctetSize => Octet(n) = n)
BY Sizes DEF Octet, Octets

LEMMA Joined ==
  ASSUME NEW a \in OctetStrings, NEW b \in OctetStrings
  PROVE  a \o b \in OctetStrings /\ Len(a \o b) = Len(a) + Len(b)
BY DEF OctetStrings

LEMMA LenOK == ASSUME NEW a \in OctetStrings PROVE Len(a) \in Nat
BY DEF OctetStrings

LEMMA PartOK ==
  ASSUME NEW a \in OctetStrings, NEW m \in Nat \ {0}, NEW n \in Nat, n <= Len(a)
  PROVE  SubSeq(a, m, n) \in OctetStrings
<1>1. \A k \in m..n : a[k] \in Octets
  BY DEF OctetStrings
<1>2. QED
  BY <1>1, SubSeqProperties DEF OctetStrings

LEMMA ArrayOK ==
  ASSUME NEW n \in Nat, NEW f \in [1..n -> Octets] PROVE f \in OctetStrings /\ Len(f) = n
BY DEF OctetStrings

LEMMA OctetStringsOK == OctetStrings \subseteq Seq(Nat)
<1>1. ASSUME NEW a \in OctetStrings PROVE a \in Seq(Nat)
  BY OctetsOK, SeqMonotonic DEF OctetStrings
<1>2. QED
  BY <1>1

LEMMA ZerosOK == ASSUME NEW n \in Nat PROVE Zeros(n) \in OctetStrings /\ Len(Zeros(n)) = n
<1>1. Zeros(n) \in [1..n -> Octets]
  BY OctetsOK DEF Zeros
<1>2. QED
  BY <1>1, ArrayOK

LEMMA WordOK == ASSUME NEW n \in Nat PROVE Word(n) \in OctetStrings /\ Len(Word(n)) = WordSize
<1>1. Word(n) \in [1..WordSize -> 0..OctetSize - 1]
  BY Sizes, DigitsOK DEF Word
<1>2. QED
  BY <1>1, Sizes, ArrayOK DEF Octets

LEMMA HexOK == ASSUME NEW n \in Nat PROVE HexDigits(n) \in OctetStrings
<1>1. HexDigits(n) \in [1..2 * WordSize -> 0..15] /\ 2 * WordSize \in Nat
  <2>1. 2 * WordSize \in Nat /\ 16 \in Nat \ {0} /\ 16 - 1 = 15
    BY Sizes
  <2>2. Digits(n, 16, 2 * WordSize) \in [1..2 * WordSize -> 0..16 - 1]
    BY <2>1, DigitsOK
  <2>3. QED
    BY <2>1, <2>2 DEF HexDigits
<1>2. 0..15 \subseteq Octets
  BY OctetsOK
<1>3. HexDigits(n) \in [1..2 * WordSize -> Octets]
  BY <1>1, <1>2
<1>4. QED
  BY <1>1, <1>3, ArrayOK

Names == {"User-Name", "Acct-Session-Id", "Cisco-Account-Info", "Cisco-Command-Code",
          "Cisco-Subscriber-Password"}

Attributes == [name : Names, value : OctetStrings]

CiscoAttributes == [vendor : {"Cisco"}, name : Names, value : OctetStrings]

Packets == [code : Nat, attr : Seq(Attributes), vsattr : Seq(CiscoAttributes)]

LEMMA CodedOK == ASSUME NEW d, DictionaryOK(d) PROVE Coded(d) \in Packets
<1>1. EmptyPacket \in Packets
  BY DEF EmptyPacket, Packets
<1>2. HasValue(d, "Packet-Type", "CoA-Request") => GetValue(d, "Packet-Type", "CoA-Request") \in Nat
  BY DEF DictionaryOK, HasValue, HasAttribute, GetValue
<1>3. QED
  BY <1>1, <1>2 DEF Coded, Packets

LEMMA WithOK ==
  ASSUME NEW p \in Packets, NEW name \in Names, NEW value \in OctetStrings
  PROVE  With(p, name, value) \in Packets
<1>1. [name |-> name, value |-> value] \in Attributes
  BY DEF Attributes
<1>2. p.attr \in Seq(Attributes)
  BY DEF Packets
<1>3. Append(p.attr, [name |-> name, value |-> value]) \in Seq(Attributes)
  BY <1>1, <1>2, AppendProperties
<1>4. QED
  BY <1>3 DEF With, Packets

LEMMA WithCiscoOK ==
  ASSUME NEW p \in Packets, NEW name \in Names, NEW value \in OctetStrings
  PROVE  WithCisco(p, name, value) \in Packets
<1>1. [vendor |-> "Cisco", name |-> name, value |-> value] \in CiscoAttributes
  BY DEF CiscoAttributes
<1>2. p.vsattr \in Seq(CiscoAttributes)
  BY DEF Packets
<1>3. Append(p.vsattr, [vendor |-> "Cisco", name |-> name, value |-> value]) \in Seq(CiscoAttributes)
  BY <1>1, <1>2, AppendProperties
<1>4. QED
  BY <1>3 DEF WithCisco, Packets

LEMMA MinOK ==
  ASSUME NEW T \in SUBSET Nat, T # {} PROVE Min(T) \in T /\ \A y \in T : Min(T) <= y
BY LeastNat DEF Min

LEMMA ColonAtOK == ASSUME NEW text \in OctetStrings PROVE ColonAt(text) \in 0..Len(text)
<1> DEFINE at == {k \in DOMAIN text : text[k] = Colon}
<1>1. at \subseteq 1..Len(text) /\ Len(text) \in Nat
  BY DEF OctetStrings
<1> HIDE DEF at
<1>2. CASE at = {}
  BY <1>1, <1>2 DEF ColonAt, at
<1>3. CASE at # {}
  <2>1. Min(at) \in at
    <3>1. at \in SUBSET Nat
      BY <1>1
    <3>2. QED
      BY <1>3, <3>1, MinOK
  <2>2. QED
    BY <1>1, <1>3, <2>1 DEF ColonAt, at
<1>4. QED
  BY <1>2, <1>3

LEMMA LetterOK ==
  ASSUME NEW letter \in {LetterS, LetterBigI, LetterI, Colon}
  PROVE  <<letter>> \in OctetStrings /\ Len(<<letter>>) = 1
<1>1. letter \in Octets
  BY LettersOK
<1>2. QED
  BY <1>1 DEF OctetStrings

LEMMA EmptyOK == << >> \in OctetStrings /\ Len(<< >>) = 0
BY DEF OctetStrings

LEMMA KeyOK == ASSUME CommandOK(command) PROVE Key \in OctetStrings
<1> DEFINE place == IF command.nas = << >> THEN << >> ELSE command.nas \o <<Colon>>
<1>1. command.letter \in OctetStrings /\ command.nas \in OctetStrings /\ command.id \in OctetStrings
  BY LetterOK, EmptyOK DEF CommandOK
<1>2. place \in OctetStrings
  BY <1>1, LetterOK, EmptyOK, Joined
<1> HIDE DEF place
<1>3. QED
  BY <1>1, <1>2, Joined DEF Key, place

LEMMA AccountOfOK == ASSUME NEW key \in OctetStrings PROVE AccountOf(key) \in OctetStrings
<1>1. <<LetterS>> \o key \in OctetStrings
  BY LetterOK, Joined
<1>2. QED
  BY <1>1 DEF AccountOf

LEMMA SessionIdOK ==
  ASSUME NEW key \in OctetStrings PROVE SessionId(key) \in OctetStrings
<1> DEFINE id == SubSeq(key, ColonAt(key) + 1, Len(key))
<1>1. id \in OctetStrings
  BY ColonAtOK, LenOK, PartOK
<1>2. HexDigits(Atoi(id)) \in OctetStrings
  BY <1>1, OctetStringsOK, AtoiOK, HexOK
<1>3. QED
  BY <1>1, <1>2 DEF SessionId

LEMMA AddressedOK ==
  ASSUME NEW p \in Packets, NEW key \in OctetStrings PROVE Addressed(p, key) \in Packets
<1>1. With(p, "Acct-Session-Id", SessionId(key)) \in Packets
  BY SessionIdOK, WithOK DEF Names
<1>2. WithCisco(p, "Cisco-Account-Info", AccountOf(key)) \in Packets
  BY AccountOfOK, WithCiscoOK DEF Names
<1>3. QED
  BY <1>1, <1>2 DEF Addressed

LEMMA CodeOK ==
  ASSUME CommandOK(command), command.command # "isg_logon"
  PROVE  CommandCode(command.command, command.service) \in OctetStrings
<1>1. <<4, Blank, Ampersand>> \in OctetStrings /\ <<2>> \in OctetStrings
      /\ <<11>> \in OctetStrings /\ <<12>> \in OctetStrings
  BY OctetsOK, LettersOK DEF OctetStrings
<1>2. command.service \in OctetStrings
  BY DEF CommandOK
<1>3. command.command \in {"isg_ping", "isg_logout", "isg_service_on", "isg_service_off"}
  BY DEF CommandOK
<1>4. <<11>> \o command.service \in OctetStrings /\ <<12>> \o command.service \in OctetStrings
  BY <1>1, <1>2, Joined
<1>5. QED
  BY <1>1, <1>3, <1>4 DEF CommandCode

LEMMA SessionRequestOK ==
  ASSUME DictionaryOK(dict), CommandOK(command), command.command # "isg_logon"
  PROVE  SessionRequest(dict, command.command, Key, command.service) \in Packets
<1> DEFINE addressed == Addressed(Coded(dict), Key)
           coded == CommandCode(command.command, command.service)
<1>1. Coded(dict) \in Packets
  BY CodedOK
<1>2. addressed \in Packets
  BY <1>1, KeyOK, AddressedOK
<1>3. coded \in OctetStrings
  BY CodeOK
<1> HIDE DEF addressed, coded
<1>4. WithCisco(addressed, "Cisco-Command-Code", coded) \in Packets
  BY <1>2, <1>3, WithCiscoOK DEF Names
<1>5. QED
  BY <1>1, <1>4 DEF SessionRequest, addressed, coded

(***************************************************************************)
(* The masked password.                                                    *)
(***************************************************************************)
LEMMA MaskedOK ==
  ASSUME Md5OK, NEW block \in Blocks, NEW previous \in Blocks
  PROVE  Masked(block, previous) \in Blocks
<1>1. previous \in OctetStrings
  BY Sizes, ArrayOK DEF Blocks
<1>2. Md5(Secret \o previous) \in Blocks
  BY <1>1, Joined, RadiusAssumption DEF Md5OK, OctetStrings
<1>3. \A k \in 1..BlockSize : Xor(block[k], Md5(Secret \o previous)[k]) \in Octets
  BY <1>2, RadiusAssumption DEF Blocks
<1>4. QED
  BY <1>3 DEF Masked, Blocks

(* The n-th block of a text.                                               *)
Block(text, k) == SubSeq(text, (k - 1) * BlockSize + 1, k * BlockSize)

LEMMA BlockBounds ==
  ASSUME NEW count \in Nat, NEW k \in 1..count
  PROVE  /\ (k - 1) * BlockSize \in Nat /\ k * BlockSize \in Nat
         /\ k * BlockSize = (k - 1) * BlockSize + BlockSize
         /\ k * BlockSize <= count * BlockSize
<1>1. BlockSize \in Nat /\ BlockSize > 0
  BY Sizes
<1>2. \A a, b \in Nat : a <= b => a * BlockSize <= b * BlockSize
  BY <1>1
<1>3. k \in Nat /\ k - 1 \in Nat /\ k <= count
  OBVIOUS
<1>4. \A a \in Nat : a * BlockSize \in Nat
  BY <1>1
<1>5. k * BlockSize = (k - 1) * BlockSize + BlockSize
  BY <1>1, <1>3
<1>6. QED
  BY <1>2, <1>3, <1>4, <1>5

LEMMA BlockOK ==
  ASSUME NEW text \in OctetStrings, NEW count \in Nat, Len(text) = count * BlockSize,
         NEW k \in 1..count
  PROVE  /\ Block(text, k) \in Blocks
         /\ \A j \in 1..BlockSize : Block(text, k)[j] = text[(k - 1) * BlockSize + j]
<1> DEFINE m == (k - 1) * BlockSize
           n == k * BlockSize
<1>1. m \in Nat /\ n \in Nat /\ n = m + BlockSize /\ n <= Len(text) /\ BlockSize \in Nat \ {0}
  BY BlockBounds, Sizes
<1> HIDE DEF m, n
<1>2. text \in Seq(Octets) /\ \A j \in m + 1..n : text[j] \in Octets
  BY <1>1 DEF OctetStrings
<1>3. /\ SubSeq(text, m + 1, n) \in Seq(Octets)
      /\ Len(SubSeq(text, m + 1, n)) = BlockSize
      /\ \A j \in 1..BlockSize : SubSeq(text, m + 1, n)[j] = text[m + j]
  BY <1>1, <1>2, SubSeqProperties
<1>4. SubSeq(text, m + 1, n) \in [1..BlockSize -> Octets]
  BY <1>3, LenProperties
<1>5. QED
  BY <1>3, <1>4 DEF Block, Blocks, m, n

LEMMA PaddedOK ==
  ASSUME NEW password \in OctetStrings
  PROVE  /\ Padded(password) \in OctetStrings
         /\ Len(Padded(password)) = (Len(Padded(password)) \div BlockSize) * BlockSize
         /\ Len(Padded(password)) > Len(password) + 1
<1> DEFINE counted == <<Len(password) % OctetSize>> \o password
           fill == BlockSize - (Len(counted) % BlockSize)
<1>1. Len(password) \in Nat /\ Len(password) % OctetSize \in Octets
  BY LenOK, Sizes DEF Octets
<1>2. <<Len(password) % OctetSize>> \in OctetStrings /\ Len(<<Len(password) % OctetSize>>) = 1
  BY <1>1 DEF OctetStrings
<1>3. counted \in OctetStrings /\ Len(counted) = Len(password) + 1
  BY <1>1, <1>2, Joined
<1> HIDE DEF counted
<1>4. fill \in 1..BlockSize
  BY <1>1, <1>3, Sizes
<1>5. /\ counted \o Zeros(fill) \in OctetStrings
      /\ Len(counted \o Zeros(fill)) = Len(counted) + fill
  <2> HIDE DEF fill
  <2>1. Zeros(fill) \in OctetStrings /\ Len(Zeros(fill)) = fill
    BY <1>4, Sizes, ZerosOK
  <2>2. QED
    BY <1>3, <2>1, Joined
<1>6. Len(counted) + fill = ((Len(counted) + fill) \div BlockSize) * BlockSize
  <2> DEFINE x == Len(counted)
             q == x \div BlockSize
  <2>1. x \in Nat /\ BlockSize \in Nat \ {0}
    BY <1>1, <1>3, Sizes
  <2>2. q \in Nat /\ x = BlockSize * q + (x % BlockSize)
    BY <2>1
  <2>3. x + fill = (q + 1) * BlockSize
    BY <2>1, <2>2
  <2>4. ((q + 1) * BlockSize) \div BlockSize = q + 1
    BY <2>1, <2>2
  <2>5. QED
    BY <2>3, <2>4
<1>7. Padded(password) = counted \o Zeros(fill)
  BY DEF Padded, counted
<1>8. QED
  BY <1>1, <1>3, <1>4, <1>5, <1>6, <1>7

(* The masked blocks, and ahead of them the authenticator.                 *)
MaskedBlocks(text, authenticator, count) ==
  CHOOSE block : block = [k \in 0..count |->
    IF k = 0 THEN authenticator
    ELSE Masked(SubSeq(text, (k - 1) * BlockSize + 1, k * BlockSize), block[k - 1])]

LEMMA MaskedBlocksOK ==
  ASSUME Md5OK, NEW authenticator \in Blocks, NEW text \in OctetStrings,
         NEW count \in Nat, Len(text) = count * BlockSize
  PROVE  /\ MaskedBlocks(text, authenticator, count) \in [0..count -> Blocks]
         /\ MaskedBlocks(text, authenticator, count)[0] = authenticator
         /\ \A k \in 1..count :
              MaskedBlocks(text, authenticator, count)[k]
                = Masked(Block(text, k), MaskedBlocks(text, authenticator, count)[k - 1])
<1> DEFINE step == [p \in (1..count) \X Blocks |-> Masked(Block(text, p[1]), p[2])]
           f == MaskedBlocks(text, authenticator, count)
<1>1. \A k \in 1..count, x \in Blocks : step[<<k, x>>] = Masked(Block(text, k), x)
  OBVIOUS
<1>2. \A k \in 1..count, x \in Blocks : Masked(Block(text, k), x) \in Blocks
  <2>1. ASSUME NEW k \in 1..count, NEW x \in Blocks PROVE Masked(Block(text, k), x) \in Blocks
    <3>1. Block(text, k) \in Blocks
      BY BlockOK
    <3>2. QED
      BY <3>1, MaskedOK
  <2>2. QED
    BY <2>1
<1> HIDE DEF step
<1>3. PICK g : Steps(g, Blocks, count, authenticator, step)
  BY <1>1, <1>2, StepsExist
<1>4. g = [k \in 0..count |-> IF k = 0 THEN authenticator ELSE Masked(Block(text, k), g[k - 1])]
  <2>1. g = [k \in 0..count |-> g[k]]
    BY <1>3 DEF Steps
  <2>2. \A k \in 1..count : g[k] = step[<<k, g[k - 1]>>] /\ g[k - 1] \in Blocks
    BY <1>3 DEF Steps
  <2>3. \A k \in 1..count : g[k] = Masked(Block(text, k), g[k - 1])
    BY <1>1, <2>2
  <2>4. \A k \in 0..count : g[k] = IF k = 0 THEN authenticator ELSE Masked(Block(text, k), g[k - 1])
    <3>1. g[0] = authenticator /\ \A k \in 0..count : k = 0 \/ k \in 1..count
      BY <1>3 DEF Steps
    <3>2. QED
      BY <2>3, <3>1, Zenon
  <2>5. QED
    BY <2>1, <2>4, Zenon
<1>5. f = [k \in 0..count |-> IF k = 0 THEN authenticator ELSE Masked(Block(text, k), f[k - 1])]
  BY <1>4, Zenon DEF MaskedBlocks, Block
<1> HIDE DEF f
<1>6. f[0] = authenticator /\ \A k \in 1..count : f[k] = Masked(Block(text, k), f[k - 1])
  BY <1>5
<1>7. \A k \in 0..count : f[k] \in Blocks
  <2> DEFINE T == {k \in 0..count : f[k] \in Blocks}
  <2>1. 0 \in T
    BY <1>6
  <2>2. ASSUME NEW k \in 1..count, k - 1 \in T PROVE k \in T
    BY <1>2, <1>6, <2>2
  <2> HIDE DEF T
  <2>3. 0..count \subseteq T
    BY <2>1, <2>2, UpTo
  <2>4. QED
    BY <2>3 DEF T
<1>8. QED
  BY <1>5, <1>6, <1>7 DEF f

LEMMA PasswordPackOK ==
  ASSUME Md5OK, NEW authenticator \in Blocks, NEW password \in OctetStrings
  PROVE  PasswordPack(authenticator, password) \in OctetStrings
<1> DEFINE text == Padded(password)
           count == Len(text) \div BlockSize
           f == MaskedBlocks(text, authenticator, count)
           list == [k \in 1..count + 1 |-> f[k - 1]]
<1>1. text \in OctetStrings /\ Len(text) = count * BlockSize /\ count \in Nat
  BY PaddedOK, LenOK, Sizes
<1>2. PasswordPack(authenticator, password) = FlattenSeq(list)
  BY DEF PasswordPack, MaskedBlocks
<1> HIDE DEF text, count
<1>3. f \in [0..count -> Blocks]
  BY <1>1, MaskedBlocksOK
<1> HIDE DEF f
<1>4. Blocks \subseteq Seq(Octets)
  BY Sizes, ArrayOK DEF Blocks, OctetStrings
<1>5. \A k \in 1..count + 1 : list[k] \in Seq(Octets)
  BY <1>1, <1>3, <1>4
<1>6. list \in Seq(Seq(Octets))
  <2>1. list \in [1..count + 1 -> Seq(Octets)] /\ count + 1 \in Nat
    BY <1>1, <1>5
  <2> HIDE DEF list
  <2>2. QED
    BY <2>1
<1>7. QED
  BY <1>2, <1>6, FlattenOK DEF OctetStrings

LEMMA LoggonRequestOK ==
  ASSUME Md5OK, DictionaryOK(dict), CommandOK(command), NEW random \in Blocks
  PROVE  LoggonRequest(dict, Key, command.login, command.password, random) \in Packets
<1> DEFINE p1 == With(Coded(dict), "User-Name", command.login)
           p2 == WithCisco(p1, "Cisco-Account-Info", AccountOf(Key))
           p3 == WithCisco(p2, "Cisco-Command-Code", <<1>>)
<1>1. command.login \in OctetStrings /\ command.password \in OctetStrings
  BY DEF CommandOK
<1>2. p1 \in Packets
  BY <1>1, CodedOK, WithOK DEF Names
<1> HIDE DEF p1
<1>3. p2 \in Packets
  BY <1>2, KeyOK, AccountOfOK, WithCiscoOK DEF Names
<1> HIDE DEF p2
<1>4. p3 \in Packets
  <2>1. <<1>> \in OctetStrings
    BY OctetsOK DEF OctetStrings
  <2>2. QED
    BY <1>3, <2>1, WithCiscoOK DEF Names
<1> HIDE DEF p3
<1>5. WithCisco(p3, "Cisco-Subscriber-Password", PasswordPack(random, command.password)) \in Packets
  BY <1>1, <1>4, PasswordPackOK, WithCiscoOK DEF Names
<1>6. QED
  BY <1>5 DEF LoggonRequest, p1, p2, p3

(***************************************************************************)
(* The octets of requests and replies.                                     *)
(***************************************************************************)
LEMMA PairOK ==
  ASSUME NEW a \in Octets, NEW b \in Octets
  PROVE  <<a, b>> \in OctetStrings /\ Len(<<a, b>>) = 2
BY DEF OctetStrings

LEMMA ValueOctetsOK ==
  ASSUME NEW type \in Types, NEW value \in OctetStrings
  PROVE  ValueOctets(type, value) \in OctetStrings
<1>1. Word(Atoi(value)) \in OctetStrings
  BY OctetStringsOK, AtoiOK, WordOK
<1>2. QED
  BY <1>1, EmptyOK DEF ValueOctets, Types

(* The octets of one attribute: its number, its size, its value.           *)
LEMMA TaggedOK ==
  ASSUME NEW a \in Octets, NEW b \in Octets, NEW v \in OctetStrings
  PROVE  <<a, b>> \o v \in OctetStrings /\ Len(<<a, b>> \o v) = 2 + Len(v)
BY PairOK, Joined

LEMMA TaggedVsaOK ==
  ASSUME NEW a \in Octets, NEW b \in Octets, NEW n \in Nat, NEW c \in Octets, NEW e \in Octets,
         NEW v \in OctetStrings
  PROVE  /\ <<a, b>> \o Word(n) \o <<c, e>> \o v \in OctetStrings
         /\ Len(<<a, b>> \o Word(n) \o <<c, e>> \o v) = VsaHeader + Len(v)
<1> DEFINE x == <<a, b>>
           w == Word(n)
           y == <<c, e>>
<1>1. x \in OctetStrings /\ y \in OctetStrings /\ Len(x) = 2 /\ Len(y) = 2
  BY PairOK
<1>2. w \in OctetStrings /\ Len(w) = WordSize
  BY WordOK
<1> HIDE DEF x, w, y
<1>3. x \o w \in OctetStrings /\ Len(x \o w) = 2 + WordSize
  BY <1>1, <1>2, Joined
<1>4. (x \o w) \o y \in OctetStrings /\ Len((x \o w) \o y) = 4 + WordSize
  <2>1. (x \o w) \o y \in OctetStrings /\ Len((x \o w) \o y) = 2 + WordSize + 2
    BY <1>1, <1>3, Joined
  <2>2. 2 + WordSize + 2 = 4 + WordSize
    BY Sizes
  <2>3. QED
    BY <2>1, <2>2
<1>5. ((x \o w) \o y) \o v \in OctetStrings /\ Len(((x \o w) \o y) \o v) = 4 + WordSize + Len(v)
  BY <1>4, Joined
<1>6. QED
  BY <1>5, Sizes DEF x, w, y

LEMMA PackedAttributesOK ==
  ASSUME NEW p \in Packets, DictionaryOK(dict), Packable(dict, p)
  PROVE  PackedAttributes(dict, p) \in OctetStrings
<1> DEFINE last == Last(p.attr)
           a == GetAttribute(dict, last.name)
           v == ValueOctets(a.type, last.value)
<1>1. CASE p.attr = << >> \/ ~HasAttribute(dict, last.name)
  BY <1>1, EmptyOK DEF PackedAttributes
<1>2. CASE ~(p.attr = << >> \/ ~HasAttribute(dict, last.name))
  <2>1. p.attr \in Seq(Attributes) /\ Len(p.attr) \in 1..Len(p.attr)
    BY <1>2 DEF Packets
  <2>2. last \in Attributes /\ last \in Range(p.attr)
    BY <2>1 DEF Last, Range
  <2>3. a.type \in Types /\ a.id \in Octets /\ last.value \in OctetStrings
    BY <1>2, <2>2 DEF Packable, DictionaryOK, HasAttribute, GetAttribute, Attributes
  <2>4. v \in OctetStrings
    BY <2>3, ValueOctetsOK
  <2> HIDE DEF v
  <2>5. Octet(2 + Len(v)) \in Octets
    <3>1. 2 + Len(v) \in Nat
      BY <2>4, LenOK
    <3>2. QED
      BY <3>1, OctetOK, Zenon
  <2>6. <<a.id, Octet(2 + Len(v))>> \o v \in OctetStrings
    BY <2>3, <2>4, <2>5, TaggedOK
  <2>7. QED
    BY <1>2, <2>6 DEF PackedAttributes, v
<1>3. QED
  BY <1>1, <1>2

LEMMA PackedVsaOK ==
  ASSUME NEW p \in Packets, DictionaryOK(dict), Packable(dict, p), NEW k \in DOMAIN p.vsattr
  PROVE  PackedVsa(dict, p.vsattr[k]) \in OctetStrings
<1> DEFINE a == p.vsattr[k]
           t == GetAttribute(dict, a.name)
           v == ValueOctets(t.type, a.value)
<1>1. CASE a.vendor \notin DOMAIN dict.vendors \/ ~HasAttribute(dict, a.name)
  BY <1>1, EmptyOK DEF PackedVsa
<1>2. CASE ~(a.vendor \notin DOMAIN dict.vendors \/ ~HasAttribute(dict, a.name))
  <2>1. a \in CiscoAttributes /\ a \in Range(p.vsattr)
    BY DEF Packets, Range
  <2>2. t.type \in Types /\ t.id \in Octets /\ a.value \in OctetStrings
    BY <1>2, <2>1 DEF Packable, DictionaryOK, HasAttribute, GetAttribute, CiscoAttributes
  <2>3. v \in OctetStrings
    BY <2>2, ValueOctetsOK
  <2> HIDE DEF v
  <2>4. dict.vendors[a.vendor] \in Nat
    BY <1>2 DEF DictionaryOK
  <2>5. InnerSize(v) \in Octets /\ Octet(VsaHeader + Len(v)) \in Octets /\ VendorSpecific \in Octets
    <3>1. 2 + Len(v) \in Nat /\ VsaHeader + Len(v) \in Nat
      BY <2>3, LenOK, Sizes
    <3>2. Octet(2 + Len(v)) \in Octets /\ Octet(VsaHeader + Len(v)) \in Octets
      BY <3>1, OctetOK, Zenon
    <3>3. VendorSpecific \in Octets
      BY Sizes, OctetsOK
    <3>4. QED
      BY <3>2, <3>3 DEF InnerSize
  <2>6. <<VendorSpecific, Octet(VsaHeader + Len(v))>> \o Word(dict.vendors[a.vendor])
          \o <<t.id, InnerSize(v)>> \o v \in OctetStrings
    BY <2>2, <2>3, <2>4, <2>5, TaggedVsaOK
  <2>7. QED
    BY <1>2, <2>6 DEF PackedVsa, v
<1>3. QED
  BY <1>1, <1>2

(* A header, a digest, and what the digest covers.                         *)
LEMMA SignedOK ==
  ASSUME Md5OK, NEW a \in Octets, NEW b \in Octets, NEW c \in Octets, NEW e \in Octets,
         NEW covered \in OctetStrings, NEW body \in OctetStrings
  PROVE  /\ <<a, b, c, e>> \in OctetStrings /\ Len(<<a, b, c, e>>) = 4
         /\ Md5(covered) \in OctetStrings /\ Len(Md5(covered)) = BlockSize
         /\ <<a, b, c, e>> \o Md5(covered) \o body \in OctetStrings
         /\ Len(<<a, b, c, e>> \o Md5(covered) \o body) = HeaderSize + Len(body)
<1>1. <<a, b, c, e>> \in OctetStrings /\ Len(<<a, b, c, e>>) = 4
  BY DEF OctetStrings
<1>2. Md5(covered) \in OctetStrings /\ Len(Md5(covered)) = BlockSize
  <2>1. Md5(covered) \in [1..BlockSize -> Octets]
    BY DEF Md5OK, Blocks
  <2>2. QED
    BY <2>1, Sizes, ArrayOK
<1>3. <<a, b, c, e>> \o Md5(covered) \in OctetStrings /\ Len(<<a, b, c, e>> \o Md5(covered)) = HeaderSize
  BY <1>1, <1>2, Joined, Sizes
<1>4. QED
  BY <1>1, <1>2, <1>3, Joined

LEMMA PackedOK ==
  ASSUME Md5OK, NEW p \in Packets, DictionaryOK(dict), Packable(dict, p), identifier \in Octets
  PROVE  Packed(dict, p, identifier) \in OctetStrings /\ Len(Packed(dict, p, identifier)) >= HeaderSize
<1> DEFINE plain == PackedAttributes(dict, p)
           list == [k \in DOMAIN p.vsattr |-> PackedVsa(dict, p.vsattr[k])]
           body == plain \o FlattenSeq(list)
           size == HeaderSize + Len(body)
           head == <<Octet(p.code), identifier, Octet(size \div OctetSize), Octet(size)>>
           covered == head \o Zeros(BlockSize) \o body \o Secret
<1>1. plain \in OctetStrings
  BY PackedAttributesOK
<1>2. \A k \in DOMAIN p.vsattr : list[k] \in OctetStrings
  BY PackedVsaOK
<1>3. list \in Seq(OctetStrings)
  <2>1. DOMAIN p.vsattr = 1..Len(p.vsattr) /\ Len(p.vsattr) \in Nat
    BY DEF Packets
  <2>2. list \in [1..Len(p.vsattr) -> OctetStrings]
    BY <1>2, <2>1
  <2> HIDE DEF list
  <2>3. QED
    BY <2>1, <2>2
<1> HIDE DEF plain, list
<1>4. FlattenSeq(list) \in OctetStrings
  BY <1>3, FlattenOK DEF OctetStrings
<1>5. body \in OctetStrings
  BY <1>1, <1>4, Joined
<1> HIDE DEF body
<1>6. size \in Nat /\ size \div OctetSize \in Nat /\ p.code \in Nat
  BY <1>5, LenOK, Sizes DEF Packets
<1>7. Octet(p.code) \in Octets /\ Octet(size \div OctetSize) \in Octets /\ Octet(size) \in Octets
  BY <1>6, OctetOK
<1> HIDE DEF size
<1>8. head \in OctetStrings
  BY <1>7 DEF OctetStrings
<1>9. covered \in OctetStrings
  <2> HIDE DEF head
  <2>1. Secret \in OctetStrings /\ Zeros(BlockSize) \in OctetStrings
    BY RadiusAssumption, ZerosOK DEF OctetStrings
  <2>2. head \o Zeros(BlockSize) \in OctetStrings
    BY <1>8, <2>1, Joined
  <2>3. (head \o Zeros(BlockSize)) \o body \in OctetStrings
    BY <1>5, <2>2, Joined
  <2>4. QED
    BY <2>1, <2>3, Joined
<1> HIDE DEF covered
<1>10. /\ head \o Md5(covered) \o body \in OctetStrings
       /\ Len(head \o Md5(covered) \o body) = HeaderSize + Len(body)
  BY <1>5, <1>7, <1>9, SignedOK
<1>11. Len(head \o Md5(covered) \o body) >= HeaderSize
  BY <1>5, <1>10, LenOK, Sizes
<1>12. QED
  BY <1>10, <1>11 DEF Packed, covered, head, size, body, plain, list

(***************************************************************************)
(* The replies.                                                            *)
(***************************************************************************)
Items == [vendor : Nat, id : Octets, first : Octets, value : OctetStrings]

LEMMA NatPair == ASSUME NEW a \in Nat, NEW b \in Nat PROVE <<a, b>> \in Seq(Nat) /\ Len(<<a, b>>) = 2
OBVIOUS

LEMMA NatJoined ==
  ASSUME NEW a \in Seq(Nat), NEW b \in Seq(Nat)
  PROVE  a \o b \in Seq(Nat) /\ Len(a \o b) = Len(a) + Len(b)
OBVIOUS

LEMMA ItemOK ==
  ASSUME NEW item \in Items, Len(ItemOctets(item)) < OctetSize
  PROVE  /\ ItemOctets(item) \in OctetStrings
         /\ Len(ItemOctets(item)) = (IF item.vendor = 0 THEN 2 ELSE VsaHeader) + Len(item.value)
<1> DEFINE v == item.value
<1>1. /\ v \in OctetStrings /\ Len(v) \in Nat /\ item.id \in Octets /\ item.vendor \in Nat
      /\ item.first \in Octets
  BY LenOK DEF Items
<1> HIDE DEF v
<1>0. v \in Seq(Nat) /\ item.id \in Nat /\ item.first \in Nat /\ 2 + Len(v) \in Nat
  <2>1. 2 + Len(v) \in Nat
    BY <1>1
  <2>2. v \in Seq(Nat)
    BY <1>1, OctetStringsOK
  <2>3. QED
    BY <1>1, <2>1, <2>2, OctetsOK
<1>2. CASE item.vendor = 0
  <2>1. ItemOctets(item) = <<item.id, 2 + Len(v)>> \o v
    BY <1>2 DEF ItemOctets, v
  <2>2. Len(<<item.id, 2 + Len(v)>> \o v) = 2 + Len(v)
    <3>1. <<item.id, 2 + Len(v)>> \in Seq(Nat) /\ Len(<<item.id, 2 + Len(v)>>) = 2
      BY <1>0, NatPair
    <3>2. QED
      BY <1>0, <3>1, NatJoined
  <2>3. 2 + Len(v) \in Octets
    <3>1. 2 + Len(v) < OctetSize
      BY <2>1, <2>2
    <3>2. QED
      BY <1>0, <3>1, OctetsOK
  <2>4. QED
    BY <1>1, <1>2, <2>1, <2>3, TaggedOK DEF v
<1>3. CASE item.vendor # 0
  <2> DEFINE x == <<VendorSpecific, VsaHeader + Len(v)>>
             y == <<item.id, item.first>>
             w == Word(item.vendor)
  <2>1. ItemOctets(item) = x \o w \o y \o v
    BY <1>3 DEF ItemOctets, v
  <2>2. /\ x \in Seq(Nat) /\ Len(x) = 2 /\ y \in Seq(Nat) /\ Len(y) = 2
        /\ w \in Seq(Nat) /\ Len(w) = WordSize
    <3>1. VendorSpecific \in Nat /\ VsaHeader + Len(v) \in Nat
      BY <1>1, Sizes
    <3>2. x \in Seq(Nat) /\ Len(x) = 2 /\ y \in Seq(Nat) /\ Len(y) = 2
      BY <1>0, <3>1, NatPair
    <3>3. w \in OctetStrings /\ Len(w) = WordSize
      BY <1>1, WordOK
    <3>4. QED
      BY <3>2, <3>3, OctetStringsOK
  <2> HIDE DEF x, w, y
  <2>3. x \o w \in Seq(Nat) /\ Len(x \o w) = 2 + WordSize
    BY <2>2, NatJoined
  <2>4. (x \o w) \o y \in Seq(Nat) /\ Len((x \o w) \o y) = 2 + WordSize + 2
    BY <2>2, <2>3, NatJoined
  <2>5. Len(((x \o w) \o y) \o v) = 2 + WordSize + 2 + Len(v)
    BY <1>0, <2>4, NatJoined
  <2>6. 2 + WordSize + 2 = VsaHeader
    BY Sizes
  <2>7. VsaHeader + Len(v) < OctetSize /\ VsaHeader >= 2
    BY <2>1, <2>5, <2>6, Sizes
  <2>8. VsaHeader + Len(v) \in Octets /\ VendorSpecific \in Octets
    <3>1. VsaHeader + Len(v) \in Nat /\ VsaHeader + Len(v) < OctetSize
      BY <1>1, <2>7, Sizes
    <3>2. QED
      BY <3>1, OctetsOK, Sizes
  <2>9. /\ x \o w \o y \o v \in OctetStrings
        /\ Len(x \o w \o y \o v) = VsaHeader + Len(v)
    <3> DEFINE a == VsaHeader + Len(v)
               b == item.first
    <3>1. a \in Octets /\ b \in Octets
      BY <1>1, <2>8
    <3>2. x = <<VendorSpecific, a>> /\ y = <<item.id, b>> /\ w = Word(item.vendor)
      BY DEF x, y, w
    <3> HIDE DEF a, b
    <3>3. <<VendorSpecific, a>> \o Word(item.vendor) \o <<item.id, b>> \o v \in OctetStrings
      BY <1>1, <2>8, <3>1, TaggedVsaOK
    <3>4. QED
      BY <2>5, <2>6, <3>2, <3>3
  <2>10. QED
    BY <1>3, <2>1, <2>9 DEF v
<1>4. QED
  BY <1>2, <1>3

ItemList(r) == [k \in DOMAIN r.items |-> ItemOctets(r.items[k])]

LEMMA BodyOK ==
  ASSUME NEW r, ReplyOK(r)
  PROVE  /\ r.items \in Seq(Items) /\ ItemList(r) \in Seq(OctetStrings)
         /\ BodyOf(r) = FlattenSeq(ItemList(r)) /\ BodyOf(r) \in OctetStrings
<1>1. r.items \in Seq(Items) /\ DOMAIN r.items = 1..Len(r.items) /\ Len(r.items) \in Nat
  BY DEF ReplyOK, Items
<1>2. \A k \in 1..Len(r.items) : ItemOctets(r.items[k]) \in OctetStrings
  <2>1. ASSUME NEW k \in 1..Len(r.items) PROVE ItemOctets(r.items[k]) \in OctetStrings
    <3>1. r.items[k] \in Items /\ r.items[k] \in Range(r.items)
      BY <1>1 DEF Range
    <3>2. Len(ItemOctets(r.items[k])) < OctetSize
      BY <3>1 DEF ReplyOK
    <3>3. QED
      BY <3>1, <3>2, ItemOK
  <2>2. QED
    BY <2>1
<1>3. ItemList(r) \in Seq(OctetStrings)
  <2>1. ItemList(r) \in [1..Len(r.items) -> OctetStrings]
    BY <1>1, <1>2 DEF ItemList
  <2>2. QED
    BY <1>1, <2>1
<1>4. BodyOf(r) = FlattenSeq(ItemList(r))
  BY DEF BodyOf, ItemList
<1>5. QED
  BY <1>1, <1>3, <1>4, FlattenOK DEF OctetStrings

(***************************************************************************)
(* What unpack() reads.                                                    *)
(***************************************************************************)
Readings == [form : {"text", "address", "integer", "name"}, of : Seq(Nat)]

ReadAttributes == [name : DOMAIN dict.attrs, value : Readings]

ReadVsas == [vendor : DOMAIN dict.vendors, name : DOMAIN dict.attrs, value : Readings]

LEMMA FirstOK == ASSUME NEW S \in SUBSET DOMAIN Rank, S # {} PROVE First(S) \in S
<1> DEFINE T == {Rank[n] : n \in S}
<1>1. T \in SUBSET Nat /\ T # {}
  BY RadiusAssumption
<1>2. PICK x \in T : \A y \in T : x <= y
  <2> HIDE DEF T
  <2>1. QED
    BY <1>1, LeastNat
<1>3. \E n \in S : \A m \in S : Rank[n] <= Rank[m]
  BY <1>2
<1>4. QED
  BY <1>3 DEF First

LEMMA FromOK ==
  ASSUME NEW a \in OctetStrings, NEW m \in Nat, NEW n \in Int PROVE From(a, m, n) \in OctetStrings
<1> DEFINE end == IF n < 0 \/ m + n > Len(a) THEN Len(a) ELSE m + n
<1>1. Len(a) \in Nat
  BY LenOK
<1>2. end \in Nat /\ end <= Len(a) /\ m + 1 \in Nat \ {0}
  BY <1>1
<1> HIDE DEF end
<1>3. SubSeq(a, m + 1, end) \in OctetStrings
  BY <1>2, PartOK
<1>4. QED
  BY <1>3 DEF From, end

LEMMA ErasedOK ==
  ASSUME NEW a \in OctetStrings, NEW m \in 0..Len(a), NEW n \in Nat
  PROVE  Erased(a, m, n) \in OctetStrings
<1>1. Len(a) \in Nat /\ m \in Nat /\ m <= Len(a) /\ m + n \in Nat
  BY LenOK
<1>2. SubSeq(a, 1, m) \in OctetStrings
  BY <1>1, PartOK
<1>3. From(a, m + n, -1) \in OctetStrings
  BY <1>1, FromOK
<1>4. QED
  BY <1>2, <1>3, Joined DEF Erased

LEMMA ReverseOK == ASSUME NEW a \in Seq(Nat) PROVE Reverse(a) \in Seq(Nat)
<1>1. Reverse(a) \in [1..Len(a) -> Nat] /\ Len(a) \in Nat
  BY DEF Reverse
<1>2. QED
  BY <1>1

LEMMA ReadValueOK ==
  ASSUME NEW name, NEW type, NEW data \in OctetStrings
  PROVE  ReadValue(dict, name, type, data) \in Readings /\ ReadVsaValue(dict, name, type, data) \in Readings
<1>1. From(data, 0, WordSize) \in Seq(Nat)
  BY FromOK, Sizes, OctetStringsOK
<1>2. Reverse(From(data, 0, WordSize)) \in Seq(Nat)
  BY <1>1, ReverseOK
<1>3. data \in Seq(Nat)
  BY OctetStringsOK
<1>4. Atoi(data) \in Nat
  BY <1>3, AtoiOK
<1>5. NamedOrText(dict, name, data) \in Readings
  BY <1>3, <1>4 DEF NamedOrText, Text, Readings
<1>6. ReadValue(dict, name, type, data) \in Readings
  BY <1>1, <1>2, <1>3, <1>5 DEF ReadValue, Text, Readings
<1>7. QED
  BY <1>5, <1>6 DEF ReadVsaValue

(***************************************************************************)
(* The invariant.                                                          *)
(***************************************************************************)
CaseInv == \E c \in Cases : dict = c.dict /\ command = c.command /\ identifier = c.identifier

TypeInv ==
  /\ CaseInv
  /\ phase \in {"build", "send", "nas", "header", "attributes", "vsa", "wrap", "told"}
  /\ packet \in Packets
  /\ wire \in OctetStrings /\ (phase = "nas" => Len(wire) >= HeaderSize)
  /\ octets \in OctetStrings
  /\ copies \in 0..2 /\ i \in Nat /\ code \in Octets
  /\ attr \in Seq(ReadAttributes) /\ Len(attr) <= MaxRead
  /\ vsattr \in Seq(ReadVsas) /\ Len(vsattr) <= MaxRead
  /\ told.as \in {"nothing", "empty", "error", "result"}

LEMMA GivenOK ==
  ASSUME CaseInv
  PROVE  /\ identifier \in Octets /\ DictionaryOK(dict) /\ CommandOK(command)
         /\ NamesFound(dict)
         /\ \A r \in Replies(command) : ReplyOK(r) /\ AddressesOK(dict, r)
BY CoACommandAssumption DEF CaseInv

LEMMA TypeInvTypeOK == TypeInv => TypeOK
<1>1. \A a \in OctetStrings : Range(a) \subseteq Octets
  <2>1. ASSUME NEW a \in Seq(Octets), NEW k \in DOMAIN a PROVE a[k] \in Octets
    OBVIOUS
  <2>2. QED
    BY <2>1 DEF OctetStrings, Range
<1>2. QED
  BY <1>1 DEF TypeInv, TypeOK, Octets

LEMMA InitTypeInv == Init => TypeInv
<1> SUFFICES ASSUME Init PROVE TypeInv
  OBVIOUS
<1>1. CaseInv
  BY DEF Init, CaseInv
<1>2. EmptyPacket \in Packets
  BY DEF EmptyPacket, Packets
<1>3. << >> \in OctetStrings /\ << >> \in Seq(ReadAttributes) /\ << >> \in Seq(ReadVsas)
      /\ Len(<< >>) = 0 /\ 0 \in Octets
  BY OctetsOK DEF OctetStrings
<1>4. QED
  BY <1>1, <1>2, <1>3, CoACommandAssumption DEF Init, TypeInv

LEMMA HighOctet ==
  ASSUME NEW b \in Nat \ {0}, NEW n \in Nat, n < b * b PROVE n \div b \in 0..b - 1
<1> DEFINE q == n \div b
<1>1. q \in Nat /\ n = b * q + (n % b) /\ n % b \in Nat
  OBVIOUS
<1>2. \A x \in Nat : x >= b => b * x >= b * b
  OBVIOUS
<1> HIDE DEF q
<1>3. ~(q >= b)
  <2>1. b * q \in Nat /\ b * b \in Nat
    BY <1>1
  <2>2. b * q <= n
    BY <1>1, <2>1
  <2>3. q >= b => b * q >= b * b
    BY <1>1, <1>2
  <2>4. QED
    BY <2>1, <2>2, <2>3
<1>4. QED
  BY <1>1, <1>3 DEF q

LEMMA DatagramParts ==
  ASSUME Md5OK, identifier \in Octets, wire \in OctetStrings, Len(wire) >= HeaderSize, NEW r, ReplyOK(r)
  PROVE  LET body == BodyOf(r)
             size == HeaderSize + Len(body)
             head == <<r.code, identifier, size \div OctetSize, size % OctetSize>>
         IN  /\ body \in OctetStrings /\ r.code \in Octets /\ head \in OctetStrings
             /\ head \o SubSeq(wire, 5, HeaderSize) \o body \o Secret \in OctetStrings
<1> DEFINE body == BodyOf(r)
           size == HeaderSize + Len(body)
           head == <<r.code, identifier, size \div OctetSize, size % OctetSize>>
           covered == head \o SubSeq(wire, 5, HeaderSize) \o body \o Secret
<1>1. body \in OctetStrings
  BY BodyOK
<1>2. size \in Nat /\ size < OctetSize * OctetSize
  BY <1>1, LenOK, Sizes DEF ReplyOK
<1> HIDE DEF body, size
<1>3. size \div OctetSize \in Octets /\ size % OctetSize \in Octets /\ r.code \in Octets
  <2>1. OctetSize \in Nat \ {0}
    BY Sizes
  <2>2. size \div OctetSize \in Octets
    BY <1>2, <2>1, HighOctet DEF Octets
  <2>3. QED
    BY <1>2, <2>1, <2>2 DEF Octets, ReplyOK
<1>4. head \in OctetStrings
  BY <1>3 DEF OctetStrings
<1>5. covered \in OctetStrings
  <2> HIDE DEF head
  <2>1. SubSeq(wire, 5, HeaderSize) \in OctetStrings /\ Secret \in OctetStrings
    BY PartOK, Sizes, RadiusAssumption DEF OctetStrings
  <2>2. head \o SubSeq(wire, 5, HeaderSize) \in OctetStrings
    BY <1>4, <2>1, Joined
  <2>3. (head \o SubSeq(wire, 5, HeaderSize)) \o body \in OctetStrings
    BY <1>1, <2>2, Joined
  <2>4. QED
    BY <2>1, <2>3, Joined
<1> HIDE DEF head, covered
<1>6. body \in OctetStrings /\ r.code \in Octets /\ head \in OctetStrings /\ covered \in OctetStrings
  BY <1>1, <1>3, <1>4, <1>5
<1>7. QED
  BY <1>6 DEF body, size, head, covered

LEMMA FrontIs ==
  ASSUME NEW a \in OctetStrings, NEW b \in OctetStrings, NEW k \in 1..Len(a)
  PROVE  (a \o b)[k] = a[k]
BY DEF OctetStrings

(* A datagram is a header, with the code in front, and the items.          *)
LEMMA DatagramIs ==
  ASSUME Md5OK, identifier \in Octets, wire \in OctetStrings, Len(wire) >= HeaderSize, NEW r, ReplyOK(r)
  PROVE  \E h \in OctetStrings : Datagram(r) = h \o BodyOf(r) /\ Len(h) = HeaderSize /\ h[1] = r.code
<1> DEFINE body == BodyOf(r)
           size == HeaderSize + Len(body)
           head == <<r.code, identifier, size \div OctetSize, size % OctetSize>>
           covered == head \o SubSeq(wire, 5, HeaderSize) \o body \o Secret
           digest == Md5(covered)
<1>1. head \in OctetStrings /\ covered \in OctetStrings /\ body \in OctetStrings
  BY DatagramParts
<1>2. Len(head) = 4 /\ head[1] = r.code
  OBVIOUS
<1>3. digest \in OctetStrings /\ Len(digest) = BlockSize
  <2> HIDE DEF covered
  <2>1. digest \in [1..BlockSize -> Octets]
    BY <1>1 DEF Md5OK, Blocks
  <2> HIDE DEF digest
  <2>2. QED
    BY <2>1, Sizes DEF OctetStrings
<1>4. Datagram(r) = head \o digest \o body
  BY DEF Datagram
<1> HIDE DEF head, digest, body
<1>5. head \o digest \in OctetStrings /\ Len(head \o digest) = HeaderSize
  <2>1. head \in OctetStrings /\ digest \in OctetStrings
    BY <1>1, <1>3
  <2>2. head \o digest \in OctetStrings /\ Len(head \o digest) = Len(head) + Len(digest)
    BY <2>1, Joined
  <2>3. QED
    BY <1>2, <1>3, <2>2, Sizes
<1>6. (head \o digest)[1] = r.code
  <2>1. 1 \in 1..Len(head)
    BY <1>2
  <2>2. (head \o digest)[1] = head[1]
    BY <1>1, <1>3, <2>1, FrontIs
  <2>3. QED
    BY <1>2, <2>2
<1>7. QED
  BY <1>4, <1>5, <1>6 DEF body

LEMMA DatagramOK ==
  ASSUME Md5OK, identifier \in Octets, wire \in OctetStrings, Len(wire) >= HeaderSize, NEW r, ReplyOK(r)
  PROVE  Datagram(r) \in OctetStrings
<1> PICK h \in OctetStrings : Datagram(r) = h \o BodyOf(r)
  BY DatagramIs
<1> QED
  BY BodyOK, Joined

LEMMA BuildTypeInv == ASSUME Md5OK, TypeInv, Build PROVE TypeInv'
<1>1. DictionaryOK(dict) /\ CommandOK(command)
  BY GivenOK DEF TypeInv
<1>2. packet' \in Packets
  <2>1. CASE Loggon
    <3>1. PICK random \in Randoms :
             packet' = LoggonRequest(dict, Key, command.login, command.password, random)
      BY <2>1 DEF Build
    <3>2. random \in Blocks
      BY CoACommandAssumption DEF Blocks
    <3>3. QED
      BY <1>1, <3>1, <3>2, LoggonRequestOK
  <2>2. CASE ~Loggon
    BY <1>1, <2>2, SessionRequestOK DEF Build, Loggon
  <2>3. QED
    BY <2>1, <2>2
<1>3. QED
  BY <1>2 DEF TypeInv, CaseInv, Build, replyVars, readVars, ReadAttributes, ReadVsas

LEMMA SendTypeInv == ASSUME Md5OK, TypeInv, Send PROVE TypeInv'
<1>1. DictionaryOK(dict) /\ identifier \in Octets
  BY GivenOK DEF TypeInv
<1>2. wire' = Packed(dict, packet, identifier) /\ Packable(dict, packet) /\ packet \in Packets
  BY DEF Send, TypeInv
<1>3. wire' \in OctetStrings /\ Len(wire') >= HeaderSize
  BY <1>1, <1>2, PackedOK
<1>4. QED
  BY <1>3 DEF TypeInv, CaseInv, Send, replyVars, readVars, ReadAttributes, ReadVsas

LEMMA NasTypeInv == ASSUME Md5OK, TypeInv, NasReplies PROVE TypeInv'
<1>1. identifier \in Octets /\ \A r \in Replies(command) : ReplyOK(r)
  BY GivenOK DEF TypeInv
<1>2. ReplyOK(reply') /\ wire \in OctetStrings /\ Len(wire) >= HeaderSize
  BY <1>1 DEF NasReplies, TypeInv
<1>3. Datagram(reply') \in OctetStrings
  BY <1>1, <1>2, DatagramOK
<1>4. Datagram(reply') \o Datagram(reply') \in OctetStrings
  BY <1>3, Joined
<1>5. octets' \in OctetStrings
  BY <1>3, <1>4 DEF NasReplies
<1>6. QED
  BY <1>5 DEF TypeInv, CaseInv, NasReplies, requestVars, ReadAttributes, ReadVsas

(* The octet at a position inside.                                         *)
LEMMA AtOK ==
  ASSUME NEW a \in OctetStrings, NEW k \in Nat, k < Len(a) PROVE At(a, k) \in Octets
BY DEF OctetStrings, At

LEMMA HeaderTypeInv == ASSUME TypeInv, UnpackHeader PROVE TypeInv'
<1>1. octets \in OctetStrings /\ Len(octets) >= 4 /\ Len(octets) \in Nat
  BY LenOK DEF TypeInv, UnpackHeader
<1>2. code' \in Octets
  BY <1>1, AtOK DEF UnpackHeader
<1>3. octets' \in OctetStrings
  BY <1>1, FromOK, Sizes DEF UnpackHeader
<1>4. QED
  BY <1>2, <1>3 DEF TypeInv, CaseInv, UnpackHeader, requestVars, replyVars, ReadAttributes, ReadVsas

LEMMA PassTypeInv == ASSUME TypeInv, PassOver PROVE TypeInv'
<1>1. octets \in OctetStrings /\ i \in Nat /\ i + 1 \in Nat /\ i + 1 < Len(octets)
  BY DEF TypeInv, PassOver
<1>2. Size \in Nat
  BY <1>1, AtOK, OctetsOK DEF Size
<1>3. i' \in Nat
  BY <1>1, <1>2 DEF PassOver, Passes
<1>4. QED
  BY <1>3 DEF TypeInv, CaseInv, PassOver, requestVars, replyVars, ReadAttributes, ReadVsas

LEMMA PlainPassTypeInv == ASSUME TypeInv, PassOverPlain PROVE TypeInv'
<1>1. octets \in OctetStrings /\ i \in Nat /\ i + 1 \in Nat /\ i + 1 < Len(octets)
  BY DEF TypeInv, PassOverPlain
<1>2. Size \in Nat
  BY <1>1, AtOK, OctetsOK DEF Size
<1>3. i' \in Nat
  BY <1>1, <1>2 DEF PassOverPlain, Passes
<1>4. QED
  BY <1>3 DEF TypeInv, CaseInv, PassOverPlain, requestVars, replyVars, ReadAttributes, ReadVsas

LEMMA CutOutOK ==
  ASSUME TypeInv, i + 1 < Len(octets), CutOut PROVE octets' \in OctetStrings /\ i' = i /\ Size \in Octets
<1>1. octets \in OctetStrings /\ i \in Nat /\ i + 1 \in Nat /\ Len(octets) \in Nat
  BY LenOK DEF TypeInv
<1>2. Size \in Octets
  BY <1>1, AtOK DEF Size
<1>3. Size \in Nat /\ i \in 0..Len(octets)
  <2>1. i \in 0..Len(octets)
    BY <1>1
  <2>2. QED
    BY <1>2, <2>1, OctetsOK
<1>4. QED
  BY <1>1, <1>2, <1>3, ErasedOK DEF CutOut

(* What a round of either loop appends, if there is a name for it.         *)
PlainFound == AttributeStrings(dict, Id, NoVendor)

PlainEntry ==
  LET name == First(PlainFound)
  IN  [name  |-> name,
       value |-> ReadValue(dict, name, GetAttribute(dict, name).type, From(octets, i + 2, Size - 2))]

VendorsFound == VendorStrings(dict, Vendor)

CiscoFound ==
  IF VendorsFound = {} THEN {}
  ELSE AttributeStrings(dict, At(octets, i + 2 + WordSize), First(VendorsFound))

CiscoEntry ==
  LET name == First(CiscoFound)
      data == From(octets, i + VsaHeader, Size - VsaHeader)
  IN  [vendor |-> First(VendorsFound), name |-> name,
       value  |-> ReadVsaValue(dict, name, GetAttribute(dict, name).type, data)]

LEMMA AttributeRead ==
  ASSUME TypeInv, ReadAttribute
  PROVE  /\ octets' \in OctetStrings /\ i' = i
         /\ PlainFound # {} => PlainEntry \in ReadAttributes
         /\ attr' = IF PlainFound = {} THEN attr ELSE Append(attr, PlainEntry)
<1> DEFINE names == PlainFound
           name  == First(names)
           data  == From(octets, i + 2, Size - 2)
           value == ReadValue(dict, name, GetAttribute(dict, name).type, data)
<1>1. octets' \in OctetStrings /\ i' = i /\ Size \in Octets
  BY CutOutOK DEF ReadAttribute
<1>2. octets \in OctetStrings /\ i + 2 \in Nat /\ Size - 2 \in Int
  BY <1>1, OctetsOK DEF TypeInv
<1>3. value \in Readings
  <2>1. data \in OctetStrings
    BY <1>2, FromOK
  <2> HIDE DEF data, name
  <2>2. QED
    BY <2>1, ReadValueOK
<1>4. names # {} => name \in DOMAIN dict.attrs
  <2>1. names \subseteq DOMAIN dict.attrs /\ DOMAIN dict.attrs \subseteq DOMAIN Rank
    BY GivenOK DEF TypeInv, PlainFound, AttributeStrings, DictionaryOK
  <2> HIDE DEF names
  <2>2. QED
    BY <2>1, FirstOK
<1>5. PlainEntry = [name |-> name, value |-> value]
  BY DEF PlainEntry
<1>6. attr' = IF names = {} THEN attr ELSE Append(attr, PlainEntry)
  BY DEF ReadAttribute, PlainFound, PlainEntry
<1> HIDE DEF names, name, value
<1>7. names # {} => PlainEntry \in ReadAttributes
  BY <1>3, <1>4, <1>5 DEF ReadAttributes
<1>8. QED
  BY <1>1, <1>6, <1>7 DEF names

LEMMA AttributeTypeInv == ASSUME TypeInv, ReadAttribute PROVE TypeInv'
<1>1. octets' \in OctetStrings /\ i' = i
  BY AttributeRead
<1>2. attr \in Seq(ReadAttributes) /\ Len(attr) \in Nat /\ Len(attr) + 1 <= MaxRead
  BY CoACommandAssumption DEF TypeInv, ReadAttribute
<1>3. attr' \in Seq(ReadAttributes) /\ Len(attr') <= MaxRead
  <2>1. CASE PlainFound = {}
    BY <1>2, <2>1, AttributeRead DEF TypeInv
  <2>2. CASE PlainFound # {}
    <3>1. PlainEntry \in ReadAttributes /\ attr' = Append(attr, PlainEntry)
      BY <2>2, AttributeRead
    <3>2. QED
      BY <1>2, <3>1, AppendProperties
  <2>3. QED
    BY <2>1, <2>2
<1>4. QED
  BY <1>1, <1>3 DEF TypeInv, CaseInv, ReadAttribute, requestVars, replyVars, ReadAttributes, ReadVsas

LEMMA VsaRead ==
  ASSUME TypeInv, ReadVsa
  PROVE  /\ octets' \in OctetStrings /\ i' = i
         /\ CiscoFound # {} => CiscoEntry \in ReadVsas
         /\ vsattr' = IF CiscoFound = {} THEN vsattr ELSE Append(vsattr, CiscoEntry)
<1> DEFINE vendors == VendorsFound
           vendor  == First(vendors)
           names   == CiscoFound
           name    == First(names)
           data    == From(octets, i + VsaHeader, Size - VsaHeader)
           value   == ReadVsaValue(dict, name, GetAttribute(dict, name).type, data)
<1>1. octets' \in OctetStrings /\ i' = i /\ Size \in Octets
  <2>1. i + 1 < Len(octets)
    BY LenOK, Sizes DEF TypeInv, ReadVsa
  <2>2. QED
    BY <2>1, CutOutOK DEF ReadVsa
<1>2. octets \in OctetStrings /\ i + VsaHeader \in Nat /\ Size - VsaHeader \in Int
  BY <1>1, OctetsOK, Sizes DEF TypeInv
<1>3. value \in Readings
  <2>1. data \in OctetStrings
    BY <1>2, FromOK
  <2> HIDE DEF data, name
  <2>2. QED
    BY <2>1, ReadValueOK
<1>4. names # {} => vendor \in DOMAIN dict.vendors /\ name \in DOMAIN dict.attrs
  <2>1. /\ names \subseteq DOMAIN dict.attrs /\ DOMAIN dict.attrs \subseteq DOMAIN Rank
        /\ vendors \subseteq DOMAIN dict.vendors /\ DOMAIN dict.vendors \subseteq DOMAIN Rank
        /\ names # {} => vendors # {}
    BY GivenOK DEF TypeInv, CiscoFound, VendorsFound, AttributeStrings, VendorStrings, DictionaryOK
  <2> HIDE DEF names, vendors
  <2>2. QED
    BY <2>1, FirstOK
<1>5. CiscoEntry = [vendor |-> vendor, name |-> name, value |-> value]
  BY DEF CiscoEntry
<1>6. vsattr' = IF names = {} THEN vsattr ELSE Append(vsattr, CiscoEntry)
  BY DEF ReadVsa, CiscoFound, CiscoEntry, VendorsFound
<1> HIDE DEF names, name, vendors, vendor, value
<1>7. names # {} => CiscoEntry \in ReadVsas
  BY <1>3, <1>4, <1>5 DEF ReadVsas
<1>8. QED
  BY <1>1, <1>6, <1>7 DEF names

LEMMA VsaTypeInv == ASSUME TypeInv, ReadVsa PROVE TypeInv'
<1>1. octets' \in OctetStrings /\ i' = i
  BY VsaRead
<1>2. vsattr \in Seq(ReadVsas) /\ Len(vsattr) \in Nat /\ Len(vsattr) + 1 <= MaxRead
  BY CoACommandAssumption DEF TypeInv, ReadVsa
<1>3. vsattr' \in Seq(ReadVsas) /\ Len(vsattr') <= MaxRead
  <2>1. CASE CiscoFound = {}
    BY <1>2, <2>1, VsaRead DEF TypeInv
  <2>2. CASE CiscoFound # {}
    <3>1. CiscoEntry \in ReadVsas /\ vsattr' = Append(vsattr, CiscoEntry)
      BY <2>2, VsaRead
    <3>2. QED
      BY <1>2, <3>1, AppendProperties
  <2>3. QED
    BY <2>1, <2>2
<1>4. QED
  BY <1>1, <1>3 DEF TypeInv, CaseInv, ReadVsa, requestVars, replyVars, ReadAttributes, ReadVsas

LEMMA OtherTypeInv ==
  ASSUME TypeInv, SendThrows \/ LoopEnds \/ UnpackThrows \/ Wrap \/ WrapThrows \/ UNCHANGED vars
  PROVE  TypeInv'
<1>1. /\ UNCHANGED <<requestVars, copies, octets, code, attr, vsattr>> /\ i' \in {0, i}
      /\ phase' \in {phase, "vsa", "wrap", "told"}
      /\ told'.as \in {told.as, "empty", "error", "result"}
  BY DEF SendThrows, LoopEnds, UnpackThrows, Wrap, WrapThrows, vars, requestVars, replyVars, readVars
<1>2. QED
  BY <1>1 DEF TypeInv, CaseInv, requestVars, ReadAttributes, ReadVsas

LEMMA StepTypeInv == ASSUME Md5OK, TypeInv, [Next]_vars PROVE TypeInv'
BY BuildTypeInv, SendTypeInv, NasTypeInv, HeaderTypeInv, PassTypeInv, AttributeTypeInv,
   PlainPassTypeInv, VsaTypeInv,
   OtherTypeInv DEF Next, Unpack

(* What is sent and what is read are octets, of which there is a header    *)
(* before the NAS answers, and every value that unpack() keeps has a name  *)
(* of the dictionary.                                                      *)
THEOREM TypeCorrect == ASSUME Md5OK PROVE Spec => []TypeOK
<1>1. TypeInv /\ [Next]_vars => TypeInv'
  BY StepTypeInv
<1>2. QED
  BY <1>1, InitTypeInv, TypeInvTypeOK, PTL DEF Spec

(***************************************************************************)
(* A flattened sequence, split before and after one of its members.        *)
(***************************************************************************)
Before(list, k) == FlattenSeq(SubSeq(list, 1, k))

After(list, k) ==
  SubSeq(FlattenSeq(list), Len(Before(list, k)) + 1, Len(FlattenSeq(list)))

LEMMA BeforeEnds ==
  ASSUME NEW S, NEW list \in Seq(Seq(S))
  PROVE  /\ Before(list, 0) = << >>
         /\ Before(list, Len(list)) = FlattenSeq(list)
         /\ \A k \in 0..Len(list) : Before(list, k) \in Seq(S)
<1>1. SubSeq(list, 1, 0) = << >> /\ SubSeq(list, 1, Len(list)) = list
  BY SubSeqEmpty, SubSeqFull
<1>2. \A k \in 0..Len(list) : SubSeq(list, 1, k) \in Seq(Seq(S))
  OBVIOUS
<1>3. \A k \in 0..Len(list) : Before(list, k) \in Seq(S)
  BY <1>2, FlattenOK DEF Before
<1>4. QED
  BY <1>1, <1>3, FlattenEmpty DEF Before

LEMMA BeforeNext ==
  ASSUME NEW S, NEW list \in Seq(Seq(S)), NEW k \in 1..Len(list)
  PROVE  Before(list, k) = Before(list, k - 1) \o list[k]
<1> DEFINE Q == Seq(S)
<1>1. list \in Seq(Q) /\ k - 1 \in 0..Len(list) /\ list[k] \in Q
  OBVIOUS
<1> HIDE DEF Q
<1>2. SubSeq(list, 1, k - 1) \in Seq(Q) /\ Len(SubSeq(list, 1, k - 1)) = k - 1
  BY <1>1
<1>3. SubSeq(list, 1, k) = Append(SubSeq(list, 1, k - 1), list[k])
  <2>1. SubSeq(list, 1, k) \in Seq(Q) /\ Len(SubSeq(list, 1, k)) = k
    BY <1>1
  <2>2. /\ Append(SubSeq(list, 1, k - 1), list[k]) \in Seq(Q)
        /\ Len(Append(SubSeq(list, 1, k - 1), list[k])) = k
    BY <1>1, <1>2
  <2>3. \A j \in 1..k : SubSeq(list, 1, k)[j] = Append(SubSeq(list, 1, k - 1), list[k])[j]
    BY <1>1, <1>2
  <2>4. QED
    BY <2>1, <2>2, <2>3, SeqEqual
<1>4. QED
  BY <1>1, <1>2, <1>3, FlattenAppend DEF Before, Q

LEMMA RestIs ==
  ASSUME NEW S, NEW a \in Seq(S), NEW b \in Seq(S)
  PROVE  SubSeq(a \o b, Len(a) + 1, Len(a \o b)) = b /\ SubSeq(a \o b, 1, Len(a)) = a
<1>1. /\ a \o b \in Seq(S) /\ Len(a \o b) = Len(a) + Len(b) /\ Len(a) \in Nat /\ Len(b) \in Nat
      /\ \A j \in 1..Len(a) + Len(b) : (a \o b)[j] = IF j <= Len(a) THEN a[j] ELSE b[j - Len(a)]
  BY ConcatProperties
<1> DEFINE c == a \o b
           m == Len(a)
           n == Len(b)
<1>2. /\ c \in Seq(S) /\ Len(c) = m + n /\ m \in Nat /\ n \in Nat
      /\ \A j \in 1..m : c[j] = a[j]
      /\ \A j \in 1..n : c[m + j] = b[j]
  BY <1>1
<1> HIDE DEF c, m, n
<1>3. SubSeq(c, m + 1, m + n) = b
  <2>1. /\ SubSeq(c, m + 1, m + n) \in Seq(S) /\ Len(SubSeq(c, m + 1, m + n)) = n
        /\ \A j \in 1..n : SubSeq(c, m + 1, m + n)[j] = c[m + j]
    BY <1>2
  <2>2. QED
    BY <1>2, <2>1, SeqEqual DEF n
<1>4. SubSeq(c, 1, m) = a
  <2>1. /\ SubSeq(c, 1, m) \in Seq(S) /\ Len(SubSeq(c, 1, m)) = m
        /\ \A j \in 1..m : SubSeq(c, 1, m)[j] = c[j]
    BY <1>2
  <2>2. QED
    BY <1>2, <2>1, SeqEqual DEF m
<1>5. QED
  BY <1>2, <1>3, <1>4 DEF c, m

LEMMA AfterSplit ==
  ASSUME NEW S, NEW list \in Seq(Seq(S)), NEW k \in 0..Len(list)
  PROVE  After(list, k) \in Seq(S) /\ FlattenSeq(list) = Before(list, k) \o After(list, k)
<1> DEFINE n == Len(list)
           T == {j \in 0..n : \E rest \in Seq(S) : FlattenSeq(list) = Before(list, n - j) \o rest}
<1>a. \A a, b, c \in Seq(S) : (a \o b) \o c = a \o (b \o c) /\ b \o c \in Seq(S)
  OBVIOUS
<1>1. n \in Nat /\ \A j \in 0..n : Before(list, j) \in Seq(S)
  BY BeforeEnds
<1>2. \A j \in 1..n : list[j] \in Seq(S)
  OBVIOUS
<1>3. 0 \in T
  <2>1. Before(list, n) = FlattenSeq(list)
    BY BeforeEnds
  <2>2. FlattenSeq(list) = Before(list, n) \o << >> /\ << >> \in Seq(S)
    BY <1>1, <2>1, ConcatEmptySeq
  <2>3. n - 0 = n /\ 0 \in 0..n
    BY <1>1
  <2>4. QED
    BY <1>1, <2>2, <2>3
<1>4. ASSUME NEW j \in 1..n, j - 1 \in T PROVE j \in T
  <2> DEFINE x == Before(list, n - j)
             y == list[n - j + 1]
  <2>1. n - (j - 1) \in 1..n /\ n - (j - 1) - 1 = n - j /\ n - j \in 0..n /\ n - (j - 1) = n - j + 1
    BY <1>1
  <2>2. Before(list, n - (j - 1)) = x \o y
    BY <2>1, BeforeNext
  <2>3. PICK rest \in Seq(S) : FlattenSeq(list) = Before(list, n - (j - 1)) \o rest
    BY <1>4
  <2>4. x \in Seq(S) /\ y \in Seq(S)
    BY <1>1, <1>2, <2>1
  <2>5. FlattenSeq(list) = x \o (y \o rest) /\ y \o rest \in Seq(S)
    <3> HIDE DEF x, y
    <3>1. (x \o y) \o rest = x \o (y \o rest) /\ y \o rest \in Seq(S)
      BY <1>a, <2>4, Zenon
    <3>2. QED
      BY <2>2, <2>3, <3>1
  <2>6. j \in 0..n
    BY <1>1
  <2>7. QED
    BY <2>5, <2>6
<1>5. k = n - (n - k) /\ n - k \in 0..n
  BY <1>1
<1> HIDE DEF n
<1>6. n - k \in T
  <2> HIDE DEF T
  <2>1. 0..n \subseteq T
    BY <1>1, <1>3, <1>4, UpTo
  <2>2. QED
    BY <1>5, <2>1
<1>7. PICK rest \in Seq(S) : FlattenSeq(list) = Before(list, k) \o rest
  BY <1>5, <1>6
<1>8. After(list, k) = rest
  <2>1. Before(list, k) \in Seq(S)
    BY BeforeEnds
  <2>2. QED
    BY <1>7, <2>1, RestIs DEF After
<1>9. QED
  BY <1>7, <1>8

LEMMA AfterNext ==
  ASSUME NEW S, NEW list \in Seq(Seq(S)), NEW k \in 1..Len(list)
  PROVE  After(list, k - 1) = list[k] \o After(list, k)
<1> DEFINE x == Before(list, k - 1)
           y == After(list, k - 1)
           z == After(list, k)
<1>1. k - 1 \in 0..Len(list) /\ k \in 0..Len(list) /\ list[k] \in Seq(S)
  OBVIOUS
<1>2. x \in Seq(S) /\ y \in Seq(S) /\ z \in Seq(S)
  BY <1>1, BeforeEnds, AfterSplit
<1>3. x \o y = FlattenSeq(list)
  BY <1>1, AfterSplit
<1>4. (x \o list[k]) \o z = FlattenSeq(list)
  BY <1>1, AfterSplit, BeforeNext
<1> HIDE DEF x, y, z
<1>5. (x \o list[k]) \o z = x \o (list[k] \o z)
  <2>1. \A a, b, c \in Seq(S) : (a \o b) \o c = a \o (b \o c)
    OBVIOUS
  <2>2. QED
    BY <1>1, <1>2, <2>1, Zenon
<1>6. list[k] \o z \in Seq(S)
  BY <1>1, <1>2
<1>7. y = list[k] \o z
  BY <1>2, <1>3, <1>4, <1>5, <1>6, ConcatSimplifications
<1>8. QED
  BY <1>7 DEF y, z

LEMMA AfterEnds ==
  ASSUME NEW S, NEW list \in Seq(Seq(S))
  PROVE  After(list, 0) = FlattenSeq(list) /\ After(list, Len(list)) = << >>
<1>1. FlattenSeq(list) \in Seq(S) /\ Before(list, 0) = << >> /\ Before(list, Len(list)) = FlattenSeq(list)
  BY FlattenOK, BeforeEnds
<1>2. SubSeq(FlattenSeq(list), 1, Len(FlattenSeq(list))) = FlattenSeq(list) /\ Len(<< >>) + 1 = 1
  BY <1>1, SubSeqFull
<1>3. SubSeq(FlattenSeq(list), Len(FlattenSeq(list)) + 1, Len(FlattenSeq(list))) = << >>
  BY <1>1, SubSeqEmpty
<1>4. QED
  BY <1>1, <1>2, <1>3 DEF After

(***************************************************************************)
(* A number is the number of its digits, if there are enough of them.      *)
(***************************************************************************)
LEMMA NumberOfDigits ==
  ASSUME NEW n \in Nat, NEW base \in Nat \ {0}, NEW count \in Nat, Fits(n, base, count)
  PROVE  Number(Digits(n, base, count), base) = n
<1> DEFINE s == Shifts(n, base, count)
           d == Digits(n, base, count)
           f == NumberSteps(d, base)
<1>1. /\ \A k \in 0..count : s[k] \in Nat
      /\ s[0] = n /\ s[count] = 0
      /\ \A k \in 1..count : s[k] = s[k - 1] \div base
  BY ShiftsIs DEF Fits
<1>2. d \in [1..count -> 0..base - 1] /\ \A k \in 1..count : d[k] = s[count - k] % base
  BY DigitsOK DEF Digits
<1> HIDE DEF s, d
<1>3. d \in Seq(Nat) /\ Len(d) = count
  <2>1. d \in [1..count -> Nat]
    BY <1>2
  <2>2. QED
    BY <2>1
<1>4. /\ Number(d, base) = f[count] /\ f[0] = 0
      /\ \A k \in 1..count : f[k] = base * f[k - 1] + d[k]
  <2>1. IsNumber(d, base, f)
    BY <1>3, NumberIs
  <2>2. QED
    BY <1>3, <2>1 DEF IsNumber
<1> HIDE DEF f
<1> DEFINE T == {k \in 0..count : f[k] = s[count - k]}
<1>5. 0 \in T
  <2>1. count - 0 = count /\ 0 \in 0..count
    OBVIOUS
  <2>2. QED
    BY <1>1, <1>4, <2>1
<1>6. ASSUME NEW k \in 1..count, k - 1 \in T PROVE k \in T
  <2> DEFINE x == s[count - k]
  <2>1. count - k + 1 \in 1..count /\ count - (k - 1) = count - k + 1 /\ count - k \in 0..count
        /\ (count - k + 1) - 1 = count - k
    OBVIOUS
  <2>2. f[k - 1] = x \div base /\ x \in Nat
    BY <1>1, <1>6, <2>1
  <2>3. f[k] = base * (x \div base) + (x % base)
    BY <1>2, <1>4, <2>2
  <2>4. \A y \in Nat : base * (y \div base) + (y % base) = y
    OBVIOUS
  <2>5. k \in 0..count
    OBVIOUS
  <2> HIDE DEF x
  <2>6. f[k] = x
    BY <2>2, <2>3, <2>4
  <2>7. QED
    BY <2>5, <2>6 DEF x
<1> HIDE DEF T
<1>7. 0..count \subseteq T
  BY <1>5, <1>6, UpTo
<1>8. f[count] = s[count - count] /\ count - count = 0
  <2>1. count \in T
    BY <1>7
  <2>2. QED
    BY <2>1 DEF T
<1>9. QED
  BY <1>1, <1>4, <1>8 DEF d

(***************************************************************************)
(* What unpack() finds where an item of the reply begins.                  *)
(***************************************************************************)
LEMMA Parts ==
  ASSUME NEW a \in OctetStrings, NEW b \in OctetStrings, NEW c \in OctetStrings
  PROVE  /\ (a \o b) \o c = a \o (b \o c)
         /\ (a \o b) \o c \in OctetStrings
         /\ Len((a \o b) \o c) = Len(a) + Len(b) + Len(c)
         /\ Len(a) \in Nat /\ Len(b) \in Nat /\ Len(c) \in Nat
BY DEF OctetStrings

LEMMA Assoc ==
  ASSUME NEW a \in OctetStrings, NEW b \in OctetStrings, NEW c \in OctetStrings
  PROVE  (a \o b) \o c = a \o (b \o c)
BY Parts

LEMMA EmptyPart == ASSUME NEW a \in OctetStrings PROVE a \o << >> = a /\ << >> \o a = a
BY DEF OctetStrings

LEMMA MiddleIs ==
  ASSUME NEW a \in OctetStrings, NEW b \in OctetStrings, NEW c \in OctetStrings
  PROVE  SubSeq((a \o b) \o c, Len(a) + 1, Len(a) + Len(b)) = b
<1> DEFINE o == (a \o b) \o c
           m == Len(a)
           n == Len(b)
<1>1. /\ o \in Seq(Octets) /\ m \in Nat /\ n \in Nat /\ m + n <= Len(o)
      /\ \A j \in 1..n : o[m + j] = b[j]
  BY DEF OctetStrings
<1>2. b \in Seq(Octets) /\ Len(b) = n
  BY DEF OctetStrings
<1> HIDE DEF o, m, n
<1>3. /\ SubSeq(o, m + 1, m + n) \in Seq(Octets) /\ Len(SubSeq(o, m + 1, m + n)) = n
      /\ \A j \in 1..n : SubSeq(o, m + 1, m + n)[j] = o[m + j]
  BY <1>1
<1>4. SubSeq(o, m + 1, m + n) = b
  BY <1>1, <1>2, <1>3, SeqEqual
<1>5. QED
  BY <1>4 DEF o, m, n

LEMMA DataIs ==
  ASSUME NEW a \in OctetStrings, NEW b \in OctetStrings, NEW c \in OctetStrings
  PROVE  From((a \o b) \o c, Len(a), Len(b)) = b
<1>1. Len(a) + Len(b) <= Len((a \o b) \o c) /\ ~(Len(b) < 0)
  BY Parts
<1>2. QED
  BY <1>1, MiddleIs DEF From

LEMMA ErasedIs ==
  ASSUME NEW a \in OctetStrings, NEW b \in OctetStrings, NEW c \in OctetStrings
  PROVE  Erased((a \o b) \o c, Len(a), Len(b)) = a \o c
<1>1. a \o b \in OctetStrings /\ b \o c \in OctetStrings /\ Len(a \o b) = Len(a) + Len(b)
  BY Joined
<1>2. SubSeq((a \o b) \o c, 1, Len(a)) = a
  <2>1. SubSeq(a \o (b \o c), 1, Len(a)) = a
    BY <1>1, RestIs DEF OctetStrings
  <2>2. QED
    BY <2>1, Parts
<1>3. SubSeq((a \o b) \o c, Len(a) + Len(b) + 1, Len((a \o b) \o c)) = c
  BY <1>1, RestIs DEF OctetStrings
<1>4. From((a \o b) \o c, Len(a) + Len(b), -1) = c
  BY <1>3 DEF From
<1>5. QED
  BY <1>2, <1>4 DEF Erased

LEMMA BackIs ==
  ASSUME NEW a \in OctetStrings, NEW b \in OctetStrings, NEW k \in 1..Len(b), NEW at, at = Len(a) + k
  PROVE  (a \o b)[at] = b[k]
BY DEF OctetStrings

LEMMA AtIs ==
  ASSUME NEW a \in OctetStrings, NEW b \in OctetStrings, NEW c \in OctetStrings,
         NEW k \in Nat, k < Len(b), NEW at, at = Len(a) + k, NEW j, j = k + 1
  PROVE  At((a \o b) \o c, at) = b[j]
<1>1. \A n \in 1..Len(b) : ((a \o b) \o c)[Len(a) + n] = b[n]
  BY DEF OctetStrings
<1>2. j \in 1..Len(b) /\ at + 1 = Len(a) + j
  BY LenOK
<1>3. QED
  BY <1>1, <1>2 DEF At

(* An item is its head and its value; the second octet is its size.        *)
HeadOf(item) ==
  IF item.vendor = 0 THEN <<item.id, 2 + Len(item.value)>>
  ELSE <<VendorSpecific, VsaHeader + Len(item.value)>> \o Word(item.vendor)
         \o <<item.id, item.first>>

HeadSize(item) == IF item.vendor = 0 THEN 2 ELSE VsaHeader

Fitting(item) ==
  /\ item \in Items /\ Fits(item.vendor, OctetSize, WordSize)
  /\ Len(ItemOctets(item)) < OctetSize
  /\ item.vendor = 0 => item.id # VendorSpecific

LEMMA HeadOK ==
  ASSUME NEW item, Fitting(item)
  PROVE  /\ ItemOctets(item) = HeadOf(item) \o item.value
         /\ HeadOf(item) \in OctetStrings /\ Len(HeadOf(item)) = HeadSize(item)
         /\ item.value \in OctetStrings
         /\ Len(ItemOctets(item)) = HeadSize(item) + Len(item.value)
         /\ HeadOf(item)[1] = (IF item.vendor = 0 THEN item.id ELSE VendorSpecific)
         /\ HeadOf(item)[2] = Len(ItemOctets(item))
         /\ item.vendor # 0 =>
              /\ HeadOf(item)[3 + WordSize] = item.id
              /\ SubSeq(HeadOf(item), 3, 2 + WordSize) = Word(item.vendor)
<1> DEFINE m == HeadSize(item) + Len(item.value)
           k == item.first
           w == Word(item.vendor)
           x == <<VendorSpecific, m>>
           y == <<item.id, k>>
<1>1. /\ item \in Items /\ Len(ItemOctets(item)) = m /\ m < OctetSize
      /\ item.value \in OctetStrings /\ item.id \in Octets /\ item.vendor \in Nat
      /\ item.first \in Octets
  BY ItemOK DEF Fitting, HeadSize, Items
<1>2. m \in Octets /\ k \in Octets /\ VendorSpecific \in Octets
  <2>1. Len(item.value) \in Nat
    BY <1>1, LenOK
  <2>2. m \in Nat
    <3>1. HeadSize(item) \in Nat
      BY Sizes DEF HeadSize
    <3>2. QED
      BY <2>1, <3>1
  <2>3. QED
    BY <1>1, <2>2, OctetsOK, Sizes
<1>3. CASE item.vendor = 0
  <2>1. HeadOf(item) = <<item.id, m>> /\ HeadSize(item) = 2
    BY <1>3 DEF HeadOf, HeadSize
  <2>2. ItemOctets(item) = <<item.id, m>> \o item.value
    BY <1>3, <2>1 DEF ItemOctets
  <2> HIDE DEF m
  <2>3. <<item.id, m>> \in OctetStrings /\ Len(<<item.id, m>>) = 2
    BY <1>1, <1>2, PairOK
  <2>4. QED
    BY <1>1, <1>3, <2>1, <2>2, <2>3 DEF m
<1>4. CASE item.vendor # 0
  <2>1. HeadOf(item) = (x \o w) \o y /\ HeadSize(item) = VsaHeader
    BY <1>4 DEF HeadOf, HeadSize
  <2>2. ItemOctets(item) = ((x \o w) \o y) \o item.value
    BY <1>4, <2>1 DEF ItemOctets
  <2>3. x \in OctetStrings /\ Len(x) = 2 /\ x[1] = VendorSpecific /\ x[2] = m
    <3> HIDE DEF m
    <3>1. QED
      BY <1>2, PairOK
  <2>4. y \in OctetStrings /\ Len(y) = 2 /\ y[1] = item.id
    <3> HIDE DEF k
    <3>1. QED
      BY <1>1, <1>2, PairOK
  <2>5. w \in OctetStrings /\ Len(w) = WordSize
    BY <1>1, WordOK
  <2> HIDE DEF m, x, y, w
  <2>6. /\ (x \o w) \o y \in OctetStrings
        /\ Len((x \o w) \o y) = VsaHeader
    <3>1. 2 + WordSize + 2 = VsaHeader
      BY Sizes
    <3>2. x \o w \in OctetStrings /\ Len(x \o w) = 2 + WordSize
      BY <2>3, <2>5, Joined
    <3>3. (x \o w) \o y \in OctetStrings /\ Len((x \o w) \o y) = 2 + WordSize + 2
      BY <2>4, <3>2, Joined
    <3>4. QED
      BY <3>1, <3>3
  <2>7. ((x \o w) \o y)[1] = VendorSpecific /\ ((x \o w) \o y)[2] = m
    <3>1. w \o y \in OctetStrings /\ x \in OctetStrings /\ 1 \in 1..Len(x) /\ 2 \in 1..Len(x)
      BY <2>3, <2>4, <2>5, Joined
    <3>2. (x \o w) \o y = x \o (w \o y)
      BY <2>3, <2>4, <2>5, Assoc
    <3>3. (x \o (w \o y))[1] = x[1] /\ (x \o (w \o y))[2] = x[2]
      <4> DEFINE p == w \o y
      <4>1. p \in OctetStrings
        BY <3>1
      <4> HIDE DEF p
      <4>2. (x \o p)[1] = x[1] /\ (x \o p)[2] = x[2]
        BY <3>1, <4>1, FrontIs
      <4>3. QED
        BY <4>2 DEF p
    <3>4. QED
      BY <2>3, <3>2, <3>3
  <2>8. ((x \o w) \o y)[3 + WordSize] = item.id
    <3>1. x \o w \in OctetStrings /\ Len(x \o w) = 2 + WordSize
      BY <2>3, <2>5, Joined
    <3>2. 3 + WordSize = Len(x \o w) + 1 /\ 1 \in 1..Len(y) /\ y \in OctetStrings
      BY <2>4, <3>1, Sizes
    <3> DEFINE p == x \o w
               at == 3 + WordSize
    <3>3. p \in OctetStrings /\ at = Len(p) + 1
      BY <3>1, <3>2
    <3> HIDE DEF p, at
    <3>4. (p \o y)[at] = y[1]
      BY <3>2, <3>3, BackIs
    <3>5. QED
      BY <2>4, <3>4 DEF p, at
  <2>9. SubSeq((x \o w) \o y, 3, 2 + WordSize) = w
    <3>1. SubSeq((x \o w) \o y, Len(x) + 1, Len(x) + Len(w)) = w
      BY <2>3, <2>4, <2>5, MiddleIs
    <3>2. Len(x) + 1 = 3 /\ Len(x) + Len(w) = 2 + WordSize
      BY <2>3, <2>5, Sizes
    <3>3. QED
      BY <3>1, <3>2
  <2>10. QED
    BY <1>1, <1>4, <2>1, <2>2, <2>6, <2>7, <2>8, <2>9 DEF m, w
<1>5. QED
  BY <1>3, <1>4

(* unpack() is at an item, between what it has left behind and the rest.   *)
StandsAt(item, left, rest) ==
  /\ Fitting(item) /\ left \in OctetStrings /\ rest \in OctetStrings
  /\ octets = left \o (ItemOctets(item) \o rest) /\ i = Len(left)

LEMMA ItemFound ==
  ASSUME NEW item, NEW left, NEW rest, StandsAt(item, left, rest)
  PROVE  /\ i + HeadSize(item) <= Len(octets) /\ i \in Nat
         /\ Id = (IF item.vendor = 0 THEN item.id ELSE VendorSpecific)
         /\ Size = Len(ItemOctets(item))
         /\ From(octets, i + HeadSize(item), Size - HeadSize(item)) = item.value
         /\ Erased(octets, i, Size) = left \o rest
         /\ left \o ItemOctets(item) \in OctetStrings
         /\ i + Size = Len(left \o ItemOctets(item))
<1> DEFINE h == HeadOf(item)
           v == item.value
           b == ItemOctets(item)
<1>1. /\ b = h \o v /\ h \in OctetStrings /\ v \in OctetStrings /\ b \in OctetStrings
      /\ Len(h) = HeadSize(item) /\ Len(h) \in Nat /\ Len(h) >= 2 /\ Len(v) \in Nat
      /\ Len(b) = Len(h) + Len(v) /\ h[2] = Len(b)
      /\ h[1] = (IF item.vendor = 0 THEN item.id ELSE VendorSpecific)
  <2>1. h \in OctetStrings /\ v \in OctetStrings /\ b = h \o v /\ Len(h) = HeadSize(item)
        /\ Len(b) = HeadSize(item) + Len(v) /\ h[2] = Len(b)
        /\ h[1] = (IF item.vendor = 0 THEN item.id ELSE VendorSpecific)
    BY HeadOK DEF StandsAt
  <2>2. b \in OctetStrings /\ Len(h) \in Nat /\ Len(v) \in Nat
    BY <2>1, Joined, LenOK
  <2>3. HeadSize(item) >= 2
    BY Sizes DEF HeadSize
  <2>4. QED
    BY <2>1, <2>2, <2>3
<1>2. left \in OctetStrings /\ rest \in OctetStrings /\ i = Len(left) /\ i \in Nat
  BY LenOK DEF StandsAt
<1>3. octets = (left \o b) \o rest
  <2> HIDE DEF b
  <2>1. QED
    BY <1>1, <1>2, Parts DEF StandsAt, b
<1> HIDE DEF h, v, b
<1>0. left \in OctetStrings /\ rest \in OctetStrings /\ h \in OctetStrings /\ v \in OctetStrings
  BY <1>1, <1>2
<1>4. left \o b \in OctetStrings /\ Len(left \o b) = i + Len(b) /\ Len(octets) = i + Len(b) + Len(rest)
      /\ Len(rest) \in Nat
  <2>1. left \o b \in OctetStrings /\ Len(left \o b) = i + Len(b)
    BY <1>1, <1>2, Joined
  <2>2. Len((left \o b) \o rest) = i + Len(b) + Len(rest)
    BY <1>2, <2>1, Joined
  <2>3. QED
    BY <1>2, <1>3, <2>1, <2>2, LenOK
<1>5. Id = h[1] /\ Size = Len(b)
  <2>1. v \o rest \in OctetStrings /\ left \o h \in OctetStrings
    BY <1>1, <1>2, Joined
  <2>2. octets = (left \o h) \o (v \o rest)
    <3>1. left \o (h \o v) = (left \o h) \o v
      BY <1>0, Assoc
    <3>2. ((left \o h) \o v) \o rest = (left \o h) \o (v \o rest)
      <4> DEFINE p == left \o h
      <4>1. p \in OctetStrings
        BY <2>1
      <4> HIDE DEF p
      <4>2. (p \o v) \o rest = p \o (v \o rest)
        BY <1>0, <4>1, Assoc
      <4>3. QED
        BY <4>2 DEF p
    <3>3. QED
      BY <1>1, <1>3, <3>1, <3>2
  <2>3. i = Len(left) + 0 /\ i + 1 = Len(left) + 1 /\ 1 = 0 + 1 /\ 2 = 1 + 1 /\ 0 < Len(h) /\ 1 < Len(h)
    BY <1>1, <1>2
  <2>4. At(octets, i) = h[1]
    BY <1>1, <1>2, <2>1, <2>2, <2>3, AtIs
  <2>5. At(octets, i + 1) = h[2]
    <3> DEFINE at == i + 1
    <3>1. at = Len(left) + 1
      BY <2>3
    <3> HIDE DEF at
    <3>2. At(octets, at) = h[2]
      BY <1>1, <1>2, <2>1, <2>2, <2>3, <3>1, AtIs
    <3>3. QED
      BY <3>2 DEF at
  <2>6. QED
    BY <1>1, <2>4, <2>5 DEF Id, Size
<1>6. Erased(octets, i, Size) = left \o rest
  BY <1>1, <1>2, <1>3, <1>5, ErasedIs
<1>7. From(octets, i + HeadSize(item), Size - HeadSize(item)) = v
  <2>1. left \o h \in OctetStrings /\ Len(left \o h) = i + HeadSize(item)
    BY <1>1, <1>2, Joined
  <2>2. octets = ((left \o h) \o v) \o rest
    <3>1. left \o (h \o v) = (left \o h) \o v
      BY <1>0, Assoc
    <3>2. QED
      BY <1>1, <1>3, <3>1
  <2>3. Size - HeadSize(item) = Len(v)
    BY <1>1, <1>5
  <2>4. From(octets, Len(left \o h), Len(v)) = v
    BY <1>1, <1>2, <2>1, <2>2, DataIs
  <2>5. QED
    BY <2>1, <2>3, <2>4
<1>8. i + HeadSize(item) <= Len(octets)
  BY <1>1, <1>2, <1>4
<1>9. QED
  BY <1>1, <1>2, <1>4, <1>5, <1>6, <1>7, <1>8 DEF b, v

(* The number of the vendor, and of the attribute within.                  *)
LEMMA VsaFound ==
  ASSUME NEW item, NEW left, NEW rest, StandsAt(item, left, rest), item.vendor # 0
  PROVE  Vendor = item.vendor /\ At(octets, i + 2 + WordSize) = item.id
<1> DEFINE h == HeadOf(item)
           t == item.value \o rest
<1>1. /\ h \in OctetStrings /\ Len(h) = VsaHeader /\ ItemOctets(item) = h \o item.value
      /\ h[3 + WordSize] = item.id /\ SubSeq(h, 3, 2 + WordSize) = Word(item.vendor)
      /\ item.value \in OctetStrings
  BY HeadOK DEF StandsAt, HeadSize
<1>2. left \in OctetStrings /\ rest \in OctetStrings /\ i = Len(left) /\ i \in Nat /\ t \in OctetStrings
      /\ item.vendor \in Nat /\ Fits(item.vendor, OctetSize, WordSize)
  BY <1>1, LenOK, Joined DEF StandsAt, Fitting, Items
<1>3. octets = (left \o h) \o t /\ left \o h \in OctetStrings
  <2>1. (h \o item.value) \o rest = h \o t
    BY <1>1, <1>2, Parts
  <2>2. left \o (h \o t) = (left \o h) \o t
    <3> HIDE DEF h, t
    <3>1. QED
      BY <1>1, <1>2, Parts
  <2>3. QED
    BY <1>1, <1>2, <2>1, <2>2, Joined DEF StandsAt
<1> HIDE DEF h, t
<1>4. At(octets, i + 2 + WordSize) = item.id
  <2>1. 2 + WordSize \in Nat /\ 2 + WordSize < Len(h) /\ (2 + WordSize) + 1 = 3 + WordSize
        /\ Len(left) + (2 + WordSize) = i + 2 + WordSize
    BY <1>1, <1>2, Sizes
  <2> DEFINE k == 2 + WordSize
             j == 3 + WordSize
             at == i + 2 + WordSize
  <2>2. k \in Nat /\ k < Len(h) /\ j = k + 1 /\ at = Len(left) + k
    BY <2>1
  <2> HIDE DEF k, j, at
  <2>3. At(octets, at) = h[j]
    BY <1>1, <1>2, <1>3, <2>2, AtIs
  <2>4. QED
    BY <1>1, <2>3 DEF j, at
<1>5. From(octets, i + 2, WordSize) = Word(item.vendor)
  <2> DEFINE m == Len(left)
             n == WordSize
  <2>1. /\ octets \in Seq(Octets) /\ h \in Seq(Octets) /\ m \in Nat /\ n \in Nat /\ Len(h) = 4 + n
        /\ i = m /\ m + Len(h) <= Len(octets)
        /\ \A j \in 1..Len(h) : octets[m + j] = h[j]
    <3>1. octets \in OctetStrings /\ Len(octets) = Len(left) + Len(h) + Len(t) /\ Len(t) \in Nat
      <4>1. Len(left \o h) = Len(left) + Len(h)
        BY <1>1, <1>2, Joined
      <4>2. octets \in OctetStrings /\ Len(octets) = Len(left \o h) + Len(t)
        BY <1>2, <1>3, Joined
      <4>3. QED
        BY <1>2, <4>1, <4>2, LenOK
    <3>2. \A j \in 1..Len(h) : octets[Len(left) + j] = h[j]
      BY <1>1, <1>2, <1>3 DEF OctetStrings
    <3>3. QED
      BY <1>1, <1>2, <3>1, <3>2, Sizes DEF OctetStrings
  <2> HIDE DEF m, n
  <2>2. /\ SubSeq(octets, m + 3, m + 2 + n) \in Seq(Octets)
        /\ Len(SubSeq(octets, m + 3, m + 2 + n)) = n
        /\ \A j \in 1..n : SubSeq(octets, m + 3, m + 2 + n)[j] = octets[m + (2 + j)]
    BY <2>1
  <2>3. /\ SubSeq(h, 3, 2 + n) \in Seq(Octets) /\ Len(SubSeq(h, 3, 2 + n)) = n
        /\ \A j \in 1..n : SubSeq(h, 3, 2 + n)[j] = h[2 + j]
    BY <2>1
  <2>4. SubSeq(octets, m + 3, m + 2 + n) = SubSeq(h, 3, 2 + n)
    <3>1. \A j \in 1..n : octets[m + (2 + j)] = h[2 + j]
      BY <2>1
    <3>2. QED
      BY <2>1, <2>2, <2>3, <3>1, SeqEqual
  <2>5. From(octets, i + 2, n) = SubSeq(octets, m + 3, m + 2 + n)
    <3>1. ~(n < 0 \/ (i + 2) + n > Len(octets)) /\ (i + 2) + 1 = m + 3 /\ (i + 2) + n = m + 2 + n
      BY <2>1
    <3>2. QED
      BY <3>1 DEF From
  <2>6. QED
    BY <1>1, <2>4, <2>5 DEF n
<1>6. Vendor = item.vendor
  BY <1>2, <1>5, NumberOfDigits, Sizes DEF Vendor, Word
<1>7. QED
  BY <1>4, <1>6

(***************************************************************************)
(* The values of those records of a list that are in a set.                *)
(***************************************************************************)
Picked(list, T) ==
  FlattenSeq([k \in DOMAIN list |-> IF list[k] \in T THEN <<list[k].value>> ELSE << >>])

PickedList(list, T) == [k \in DOMAIN list |-> IF list[k] \in T THEN <<list[k].value>> ELSE << >>]

LEMMA PickedOK ==
  ASSUME NEW V, NEW R, NEW T, NEW list \in Seq(R), \A r \in R : r.value \in V
  PROVE  PickedList(list, T) \in Seq(Seq(V)) /\ Picked(list, T) \in Seq(V)
<1>1. \A r \in R : <<r.value>> \in Seq(V)
  OBVIOUS
<1>2. << >> \in Seq(V)
  OBVIOUS
<1>3. DOMAIN list = 1..Len(list) /\ Len(list) \in Nat /\ \A k \in 1..Len(list) : list[k] \in R
  OBVIOUS
<1>4. PickedList(list, T) \in [1..Len(list) -> Seq(V)]
  <2> DEFINE Q == Seq(V)
  <2>1. \A k \in 1..Len(list) : (IF list[k] \in T THEN <<list[k].value>> ELSE << >>) \in Q
    BY <1>1, <1>2, <1>3
  <2> HIDE DEF Q
  <2>2. PickedList(list, T) \in [1..Len(list) -> Q]
    BY <1>3, <2>1 DEF PickedList
  <2>3. QED
    BY <2>2 DEF Q
<1>5. PickedList(list, T) \in Seq(Seq(V))
  <2> DEFINE Q == Seq(V)
  <2> HIDE DEF Q
  <2>1. PickedList(list, T) \in Seq(Q)
    BY <1>3, <1>4 DEF Q
  <2>2. QED
    BY <2>1 DEF Q
<1>6. Picked(list, T) = FlattenSeq(PickedList(list, T))
  BY DEF Picked, PickedList
<1>7. QED
  BY <1>5, <1>6, FlattenOK

LEMMA PickedMore ==
  ASSUME NEW R, NEW T, NEW list \in Seq(R), NEW x \in R
  PROVE  Picked(Append(list, x), T) = IF x \in T THEN Append(Picked(list, T), x.value) ELSE Picked(list, T)
<1> DEFINE V == {r.value : r \in R}
           more == Append(list, x)
           piece == IF x \in T THEN <<x.value>> ELSE << >>
           n == Len(list)
<1>1. /\ more \in Seq(R) /\ DOMAIN more = 1..n + 1 /\ DOMAIN list = 1..n /\ n \in Nat
      /\ more[n + 1] = x /\ \A k \in 1..n : more[k] = list[k]
  OBVIOUS
<1>0. \A r \in R : r.value \in V
  OBVIOUS
<1> HIDE DEF V
<1>2. piece \in Seq(V)
  <2>1. <<x.value>> \in Seq(V) /\ << >> \in Seq(V)
    BY <1>0
  <2>2. QED
    BY <2>1
<1>3. PickedList(list, T) \in Seq(Seq(V)) /\ PickedList(more, T) \in Seq(Seq(V)) /\ Picked(list, T) \in Seq(V)
  BY <1>0, <1>1, PickedOK
<1> HIDE DEF more
<1>4. PickedList(more, T) = Append(PickedList(list, T), piece)
  <2> DEFINE p == PickedList(list, T)
             q == PickedList(more, T)
             Q == Seq(V)
  <2>1. /\ q = [k \in 1..n + 1 |-> IF more[k] \in T THEN <<more[k].value>> ELSE << >>]
        /\ p = [k \in 1..n |-> IF list[k] \in T THEN <<list[k].value>> ELSE << >>]
    BY <1>1 DEF PickedList
  <2>2. /\ DOMAIN q = 1..n + 1 /\ DOMAIN p = 1..n /\ q[n + 1] = piece
        /\ \A k \in 1..n : q[k] = p[k]
    <3>1. n + 1 \in 1..n + 1 /\ \A k \in 1..n : k \in 1..n + 1
      BY <1>1
    <3> HIDE DEF n, piece, p, q
    <3>2. q[n + 1] = piece
      BY <1>1, <2>1, <3>1, Zenon DEF piece
    <3>3. \A k \in 1..n : q[k] = p[k]
      BY <1>1, <2>1, <3>1
    <3>4. QED
      BY <2>1, <3>2, <3>3
  <2>3. p \in Seq(Q) /\ q \in Seq(Q) /\ piece \in Q
    BY <1>2, <1>3
  <2> HIDE DEF p, q, Q, piece, n
  <2>4. Len(p) = n /\ Len(q) = n + 1
    BY <1>1, <2>2, <2>3
  <2>5. /\ Append(p, piece) \in Seq(Q) /\ Len(Append(p, piece)) = n + 1
        /\ Append(p, piece)[n + 1] = piece /\ \A k \in 1..n : Append(p, piece)[k] = p[k]
    BY <1>1, <2>3, <2>4
  <2>6. \A k \in 1..n + 1 : k \in 1..n \/ k = n + 1
    BY <1>1
  <2>7. \A k \in 1..Len(q) : q[k] = Append(p, piece)[k]
    BY <2>2, <2>4, <2>5, <2>6
  <2>8. q = Append(p, piece)
    BY <2>3, <2>4, <2>5, <2>7, SeqEqual
  <2>9. QED
    BY <2>8 DEF p, q
<1>5. Picked(more, T) = Picked(list, T) \o piece
  <2>1. FlattenSeq(Append(PickedList(list, T), piece)) = FlattenSeq(PickedList(list, T)) \o piece
    <3> HIDE DEF piece
    <3>1. QED
      BY <1>2, <1>3, FlattenAppend
  <2>2. QED
    BY <1>4, <2>1 DEF Picked, PickedList
<1>6. x \in T => Picked(list, T) \o piece = Append(Picked(list, T), x.value)
  <2>1. ASSUME x \in T PROVE Picked(list, T) \o <<x.value>> = Append(Picked(list, T), x.value)
    BY <1>3, AppendIsConcat
  <2>2. QED
    BY <2>1
<1>7. x \notin T => Picked(list, T) \o piece = Picked(list, T)
  <2>1. Picked(list, T) \o << >> = Picked(list, T)
    BY <1>3, ConcatEmptySeq
  <2>2. QED
    BY <2>1
<1>8. QED
  BY <1>5, <1>6, <1>7 DEF more

LEMMA PickedNone == ASSUME NEW T PROVE Picked(<< >>, T) = << >>
<1>1. [k \in DOMAIN << >> |-> IF << >>[k] \in T THEN <<(<< >>)[k].value>> ELSE << >>] = << >>
  OBVIOUS
<1>2. QED
  BY <1>1, FlattenEmpty DEF Picked

(* How a list of values is shown.                                          *)
Shown(form, list) == [k \in DOMAIN list |-> [form |-> form, of |-> list[k]]]

LEMMA ShownMore ==
  ASSUME NEW V, NEW form, NEW list \in Seq(V), NEW v \in V
  PROVE  Shown(form, Append(list, v)) = Append(Shown(form, list), [form |-> form, of |-> v])
<1> DEFINE n == Len(list)
           more == Append(list, v)
           Q == [form : {form}, of : V]
           p == Shown(form, list)
           q == Shown(form, more)
           x == [form |-> form, of |-> v]
<1>1. /\ more \in Seq(V) /\ DOMAIN more = 1..n + 1 /\ DOMAIN list = 1..n /\ n \in Nat
      /\ more[n + 1] = v /\ \A k \in 1..n : more[k] = list[k] /\ list[k] \in V
  OBVIOUS
<1> HIDE DEF more, n
<1>2. /\ q = [k \in 1..n + 1 |-> [form |-> form, of |-> more[k]]]
      /\ p = [k \in 1..n |-> [form |-> form, of |-> list[k]]]
  BY <1>1 DEF Shown
<1>3. \A k \in 1..n + 1 : k \in 1..n \/ k = n + 1
  BY <1>1
<1>4. q \in [1..n + 1 -> Q] /\ p \in [1..n -> Q] /\ x \in Q
  BY <1>1, <1>2, <1>3
<1>5. q[n + 1] = x /\ \A k \in 1..n : q[k] = p[k]
  <2>1. n + 1 \in 1..n + 1 /\ \A k \in 1..n : k \in 1..n + 1
    BY <1>1
  <2> HIDE DEF p, q
  <2>2. QED
    BY <1>1, <1>2, <2>1
<1> HIDE DEF p, q, x, Q
<1>6. q \in Seq(Q) /\ p \in Seq(Q) /\ Len(p) = n /\ Len(q) = n + 1
  BY <1>1, <1>4
<1>7. /\ Append(p, x) \in Seq(Q) /\ Len(Append(p, x)) = n + 1
      /\ Append(p, x)[n + 1] = x /\ \A k \in 1..n : Append(p, x)[k] = p[k]
  BY <1>1, <1>4, <1>6
<1>8. \A k \in 1..Len(q) : q[k] = Append(p, x)[k]
  BY <1>3, <1>5, <1>6, <1>7
<1>9. q = Append(p, x)
  BY <1>6, <1>7, <1>8, SeqEqual
<1>10. QED
  BY <1>9 DEF p, q, x, more

LEMMA ShownNone == ASSUME NEW form PROVE Shown(form, << >>) = << >>
BY DEF Shown

LEMMA ShownOK ==
  ASSUME NEW form \in {"text", "address"}, NEW list \in Seq(OctetStrings)
  PROVE  Shown(form, list) \in Seq(Readings) /\ Len(Shown(form, list)) = Len(list)
<1> DEFINE p == Shown(form, list)
<1>1. \A v \in OctetStrings : [form |-> form, of |-> v] \in Readings
  BY OctetStringsOK DEF Readings
<1>2. Len(list) \in Nat /\ DOMAIN list = 1..Len(list) /\ \A k \in 1..Len(list) : list[k] \in OctetStrings
  OBVIOUS
<1>3. p \in [1..Len(list) -> Readings]
  BY <1>1, <1>2 DEF Shown
<1> HIDE DEF p
<1>4. p \in Seq(Readings) /\ Len(p) = Len(list)
  <2> DEFINE Q == Readings
             n == Len(list)
  <2>1. p \in [1..n -> Q] /\ n \in Nat
    BY <1>2, <1>3
  <2> HIDE DEF Q, n
  <2>2. p \in Seq(Q) /\ Len(p) = n
    BY <2>1
  <2>3. QED
    BY <2>2 DEF Q, n
<1>5. QED
  BY <1>4 DEF p

(***************************************************************************)
(* A list that starts with another.                                        *)
(***************************************************************************)
Starts(s, t) == Len(s) <= Len(t) /\ \A k \in 1..Len(s) : s[k] = t[k]

LEMMA StartsSelf == ASSUME NEW R, NEW s \in Seq(R) PROVE Starts(s, s)
BY DEF Starts

LEMMA StartsMore ==
  ASSUME NEW R, NEW s \in Seq(R), NEW t \in Seq(R), NEW x \in R, Starts(s, t)
  PROVE  Starts(s, Append(t, x))
BY DEF Starts

LEMMA StartsPrefix ==
  ASSUME NEW R, NEW s \in Seq(R), NEW t \in Seq(R), Starts(s, t) PROVE IsPrefix(s, t)
<1>1. /\ Len(s) \in Nat /\ SubSeq(t, 1, Len(s)) \in Seq(R) /\ Len(SubSeq(t, 1, Len(s))) = Len(s)
      /\ \A k \in 1..Len(s) : SubSeq(t, 1, Len(s))[k] = t[k]
  BY DEF Starts
<1>2. SubSeq(t, 1, Len(s)) = s
  BY <1>1, SeqEqual DEF Starts
<1>3. SubSeq(s, 1, Len(s)) = s
  BY SubSeqFull
<1>4. QED
  BY <1>2, <1>3 DEF IsPrefix, Starts

(* The texts behind their first octet.                                     *)
Tails(list) == [k \in DOMAIN list |-> Tail(list[k].of)]

LEMMA PrefixOfTails ==
  ASSUME NEW R, NEW s \in Seq(R), NEW t \in Seq(R), Starts(s, t)
  PROVE  IsPrefix(Tails(s), Tails(t))
<1> DEFINE S == {Tail(x.of) : x \in R}
           p == Tails(s)
           q == Tails(t)
           m == Len(s)
           n == Len(t)
<1>1. /\ m \in Nat /\ n \in Nat /\ m <= n /\ DOMAIN s = 1..m /\ DOMAIN t = 1..n
      /\ \A k \in 1..m : s[k] \in R /\ s[k] = t[k]
      /\ \A k \in 1..n : t[k] \in R
  BY DEF Starts
<1>2. p \in [1..m -> S] /\ q \in [1..n -> S] /\ \A k \in 1..m : p[k] = q[k]
  <2> HIDE DEF m, n
  <2>1. p = [k \in 1..m |-> Tail(s[k].of)] /\ q = [k \in 1..n |-> Tail(t[k].of)]
    BY <1>1 DEF Tails
  <2>2. /\ \A k \in 1..m : Tail(s[k].of) \in S
        /\ \A k \in 1..n : Tail(t[k].of) \in S
    BY <1>1
  <2>3. \A k \in 1..m : k \in 1..n /\ Tail(s[k].of) = Tail(t[k].of)
    BY <1>1
  <2> HIDE DEF S, p, q
  <2>4. QED
    BY <2>1, <2>2, <2>3
<1> HIDE DEF S, p, q, m, n
<1>3. p \in Seq(S) /\ q \in Seq(S) /\ Len(p) = m /\ Len(q) = n
  BY <1>1, <1>2
<1>4. Starts(p, q)
  BY <1>1, <1>2, <1>3 DEF Starts
<1>5. QED
  BY <1>3, <1>4, StartsPrefix DEF p, q

(***************************************************************************)
(* What wrapRadiusPacket finds under a name, as values are added.          *)
(***************************************************************************)
Named(list, name) ==
  FlattenSeq([k \in DOMAIN list |-> IF list[k].name = name THEN <<list[k].value>> ELSE << >>])

NamedCisco(list, name) ==
  FlattenSeq([k \in DOMAIN list |-> IF list[k].vendor = "Cisco" /\ list[k].name = name
                                    THEN <<list[k].value>> ELSE << >>])

LEMMA NamedOK ==
  ASSUME NEW list \in Seq(ReadAttributes), NEW name
  PROVE  /\ Named(list, name) = Picked(list, {a \in ReadAttributes : a.name = name})
         /\ Named(list, name) \in Seq(Readings)
<1> DEFINE T == {a \in ReadAttributes : a.name = name}
           R == ReadAttributes
<1>1. \A k \in DOMAIN list : list[k] \in R
  OBVIOUS
<1>2. \A a \in R : a \in T <=> a.name = name
  OBVIOUS
<1>3. \A a \in R : a.value \in Readings
  BY DEF ReadAttributes
<1> HIDE DEF T, R
<1>4. [k \in DOMAIN list |-> IF list[k].name = name THEN <<list[k].value>> ELSE << >>]
        = [k \in DOMAIN list |-> IF list[k] \in T THEN <<list[k].value>> ELSE << >>]
  BY <1>1, <1>2
<1>5. Named(list, name) = Picked(list, T)
  BY <1>4 DEF Named, Picked
<1>6. Picked(list, T) \in Seq(Readings)
  BY <1>3, PickedOK DEF R
<1>7. QED
  BY <1>5, <1>6 DEF T, R

LEMMA NamedMore ==
  ASSUME NEW list \in Seq(ReadAttributes), NEW name, NEW a \in ReadAttributes
  PROVE  Named(Append(list, a), name) =
           IF a.name = name THEN Append(Named(list, name), a.value) ELSE Named(list, name)
<1> DEFINE T == {b \in ReadAttributes : b.name = name}
           more == Append(list, a)
<1>1. more \in Seq(ReadAttributes) /\ \A b \in ReadAttributes : b.value \in Readings
  BY DEF ReadAttributes
<1>2. a \in T <=> a.name = name
  OBVIOUS
<1>3. Picked(Append(list, a), T) = IF a \in T THEN Append(Picked(list, T), a.value) ELSE Picked(list, T)
  <2> HIDE DEF T
  <2>1. QED
    BY <1>1, PickedMore
<1>4. Named(list, name) = Picked(list, T)
  BY NamedOK
<1>5. Named(more, name) = Picked(more, T)
  BY <1>1, NamedOK
<1>6. QED
  BY <1>2, <1>3, <1>4, <1>5

LEMMA NamedCiscoOK ==
  ASSUME NEW list \in Seq(ReadVsas), NEW name
  PROVE  /\ NamedCisco(list, name) = Picked(list, {a \in ReadVsas : a.vendor = "Cisco" /\ a.name = name})
         /\ NamedCisco(list, name) \in Seq(Readings)
<1> DEFINE T == {a \in ReadVsas : a.vendor = "Cisco" /\ a.name = name}
           R == ReadVsas
<1>1. \A k \in DOMAIN list : list[k] \in R
  OBVIOUS
<1>2. \A a \in R : a \in T <=> a.vendor = "Cisco" /\ a.name = name
  OBVIOUS
<1>3. \A a \in R : a.value \in Readings
  BY DEF ReadVsas
<1> HIDE DEF T, R
<1>4. [k \in DOMAIN list |-> IF list[k].vendor = "Cisco" /\ list[k].name = name
                            THEN <<list[k].value>> ELSE << >>]
        = [k \in DOMAIN list |-> IF list[k] \in T THEN <<list[k].value>> ELSE << >>]
  BY <1>1, <1>2
<1>5. NamedCisco(list, name) = Picked(list, T)
  BY <1>4 DEF NamedCisco, Picked
<1>6. Picked(list, T) \in Seq(Readings)
  BY <1>3, PickedOK DEF R
<1>7. QED
  BY <1>5, <1>6 DEF T, R

LEMMA NamedCiscoMore ==
  ASSUME NEW list \in Seq(ReadVsas), NEW name, NEW a \in ReadVsas
  PROVE  NamedCisco(Append(list, a), name) =
           IF a.vendor = "Cisco" /\ a.name = name
           THEN Append(NamedCisco(list, name), a.value) ELSE NamedCisco(list, name)
<1> DEFINE T == {b \in ReadVsas : b.vendor = "Cisco" /\ b.name = name}
           more == Append(list, a)
<1>1. more \in Seq(ReadVsas) /\ \A b \in ReadVsas : b.value \in Readings
  BY DEF ReadVsas
<1>2. a \in T <=> a.vendor = "Cisco" /\ a.name = name
  OBVIOUS
<1>3. Picked(Append(list, a), T) = IF a \in T THEN Append(Picked(list, T), a.value) ELSE Picked(list, T)
  <2> HIDE DEF T
  <2>1. QED
    BY <1>1, PickedMore
<1>4. NamedCisco(list, name) = Picked(list, T)
  BY NamedCiscoOK
<1>5. NamedCisco(more, name) = Picked(more, T)
  BY <1>1, NamedCiscoOK
<1>6. QED
  BY <1>2, <1>3, <1>4, <1>5

(* What the first k items of a reply say under a number.                   *)
ItemsOf(vendor, id) == {item \in Items : item.vendor = vendor /\ item.id = id}

SaidBy(r, k, vendor, id) == Picked(SubSeq(r.items, 1, k), ItemsOf(vendor, id))

LEMMA SaidOK ==
  ASSUME NEW r, ReplyOK(r), NEW k \in 0..Len(r.items), NEW vendor, NEW id
  PROVE  SaidBy(r, k, vendor, id) \in Seq(OctetStrings)
<1>1. r.items \in Seq(Items)
  BY BodyOK
<1>2. SubSeq(r.items, 1, k) \in Seq(Items)
  BY <1>1
<1>3. \A item \in Items : item.value \in OctetStrings
  BY DEF Items
<1>4. QED
  BY <1>2, <1>3, PickedOK DEF SaidBy

LEMMA SaidNone == ASSUME NEW r, ReplyOK(r), NEW vendor, NEW id PROVE SaidBy(r, 0, vendor, id) = << >>
<1>1. SubSeq(r.items, 1, 0) = << >>
  BY BodyOK, SubSeqEmpty
<1>2. QED
  BY <1>1, PickedNone DEF SaidBy

WithItem(list, item, vendor, id) ==
  IF item.vendor = vendor /\ item.id = id THEN Append(list, item.value) ELSE list

LEMMA SaidMore ==
  ASSUME NEW r, ReplyOK(r), NEW j \in 0..Len(r.items), NEW k \in 1..Len(r.items), k = j + 1,
         NEW vendor, NEW id
  PROVE  SaidBy(r, k, vendor, id) = WithItem(SaidBy(r, j, vendor, id), r.items[k], vendor, id)
<1> DEFINE list == SubSeq(r.items, 1, j)
           more == SubSeq(r.items, 1, k)
           item == r.items[k]
           T == ItemsOf(vendor, id)
<1>1. r.items \in Seq(Items) /\ \A x \in Items : x.value \in OctetStrings
  BY BodyOK DEF Items
<1>2. list \in Seq(Items) /\ item \in Items /\ Len(list) = j
  BY <1>1
<1>3. more = Append(list, item)
  <2> DEFINE Q == Items
             s == r.items
  <2>0. s \in Seq(Q) /\ k \in 1..Len(s) /\ k = j + 1 /\ j \in 0..Len(s)
    BY <1>1
  <2> HIDE DEF Q, s
  <2>1. SubSeq(s, 1, k) \in Seq(Q) /\ Len(SubSeq(s, 1, k)) = k
    BY <2>0
  <2>2. /\ Append(SubSeq(s, 1, j), s[k]) \in Seq(Q)
        /\ Len(Append(SubSeq(s, 1, j), s[k])) = k
    BY <2>0
  <2>3. \A p \in 1..k : SubSeq(s, 1, k)[p] = Append(SubSeq(s, 1, j), s[k])[p]
    BY <2>0
  <2>4. SubSeq(s, 1, k) = Append(SubSeq(s, 1, j), s[k])
    BY <2>1, <2>2, <2>3, SeqEqual
  <2>5. QED
    BY <2>4 DEF s
<1>4. item \in T <=> item.vendor = vendor /\ item.id = id
  BY <1>2 DEF ItemsOf
<1> HIDE DEF T, list, item
<1>5. Picked(Append(list, item), T) =
        IF item \in T THEN Append(Picked(list, T), item.value) ELSE Picked(list, T)
  <2> DEFINE Q == Items
  <2>1. list \in Seq(Q) /\ item \in Q /\ \A x \in Q : x.value \in OctetStrings
    BY <1>1, <1>2
  <2> HIDE DEF Q
  <2>2. QED
    BY <2>1, PickedMore
<1>6. SaidBy(r, k, vendor, id) = Picked(more, T) /\ SaidBy(r, j, vendor, id) = Picked(list, T)
  BY DEF SaidBy, T, list
<1> HIDE DEF more
<1>7. QED
  BY <1>3, <1>4, <1>5, <1>6 DEF item, WithItem

(* All of them.                                                            *)
LEMMA SaidAll ==
  ASSUME ReplyOK(reply), NEW vendor, NEW id
  PROVE  ItemValues(vendor, id) = SaidBy(reply, Len(reply.items), vendor, id)
<1> DEFINE T == ItemsOf(vendor, id)
           s == reply.items
<1>1. s \in Seq(Items)
  BY BodyOK
<1>2. \A k \in DOMAIN s : s[k] \in T <=> s[k].vendor = vendor /\ s[k].id = id
  BY <1>1 DEF ItemsOf
<1>3. SubSeq(s, 1, Len(s)) = s
  BY <1>1, SubSeqFull
<1> HIDE DEF T
<1>4. ItemValues(vendor, id) =
        FlattenSeq([k \in DOMAIN s |-> IF s[k].vendor = vendor /\ s[k].id = id THEN <<s[k].value>> ELSE << >>])
  BY DEF ItemValues
<1> HIDE DEF s
<1>5. [k \in DOMAIN s |-> IF s[k].vendor = vendor /\ s[k].id = id THEN <<s[k].value>> ELSE << >>]
        = [k \in DOMAIN s |-> IF s[k] \in T THEN <<s[k].value>> ELSE << >>]
  BY <1>2
<1>6. QED
  BY <1>3, <1>4, <1>5 DEF SaidBy, Picked, T, s
(***************************************************************************)
(* The octets of a reply as unpack() goes through its items: what is left  *)
(* of the first j of them once the plain ones are cut out, what is behind  *)
(* them, and what is behind them when only vendor specific ones are left.  *)
(***************************************************************************)
VsaList(r) ==
  [k \in DOMAIN r.items |-> IF r.items[k].vendor = 0 THEN << >> ELSE ItemOctets(r.items[k])]

Kept(r, j)    == Before(VsaList(r), j)
Rest(r, j)    == After(ItemList(r), j)
VsaRest(r, j) == After(VsaList(r), j)

LEMMA ItemsFit ==
  ASSUME NEW r, ReplyOK(r), NEW k \in 1..Len(r.items)
  PROVE  Fitting(r.items[k]) /\ ItemOctets(r.items[k]) \in OctetStrings /\ r.items[k] \in Range(r.items)
<1>1. r.items \in Seq(Items)
  BY BodyOK
<1>2. r.items[k] \in Items /\ r.items[k] \in Range(r.items)
  BY <1>1 DEF Range
<1>3. Fitting(r.items[k])
  BY <1>2 DEF ReplyOK, Fitting
<1>4. QED
  BY <1>2, <1>3, ItemOK DEF Fitting

LEMMA ListsOK ==
  ASSUME NEW r, ReplyOK(r)
  PROVE  /\ Len(r.items) \in Nat
         /\ ItemList(r) \in Seq(OctetStrings) /\ Len(ItemList(r)) = Len(r.items)
         /\ VsaList(r) \in Seq(OctetStrings) /\ Len(VsaList(r)) = Len(r.items)
<1> DEFINE n == Len(r.items)
           p == ItemList(r)
           q == VsaList(r)
<1>1. r.items \in Seq(Items)
  BY BodyOK
<1>2. DOMAIN r.items = 1..n /\ n \in Nat
  BY <1>1
<1>3. \A k \in 1..n : /\ ItemOctets(r.items[k]) \in OctetStrings
                      /\ (IF r.items[k].vendor = 0 THEN << >> ELSE ItemOctets(r.items[k])) \in OctetStrings
  BY ItemsFit, EmptyOK
<1>4. p \in [1..n -> OctetStrings] /\ q \in [1..n -> OctetStrings]
  BY <1>2, <1>3 DEF ItemList, VsaList
<1> HIDE DEF p, q
<1>5. /\ p \in Seq(OctetStrings) /\ Len(p) = n
      /\ q \in Seq(OctetStrings) /\ Len(q) = n
  <2> DEFINE Q == OctetStrings
  <2>1. p \in [1..n -> Q] /\ q \in [1..n -> Q]
    BY <1>4
  <2> HIDE DEF Q, n
  <2>2. p \in Seq(Q) /\ Len(p) = n /\ q \in Seq(Q) /\ Len(q) = n
    BY <1>2, <2>1
  <2>3. QED
    BY <2>2 DEF Q
<1>6. QED
  BY <1>2, <1>5 DEF p, q

LEMMA PiecesOK ==
  ASSUME NEW r, ReplyOK(r), NEW j \in 0..Len(r.items)
  PROVE  Kept(r, j) \in OctetStrings /\ Rest(r, j) \in OctetStrings /\ VsaRest(r, j) \in OctetStrings
<1>1. /\ ItemList(r) \in Seq(Seq(Octets)) /\ j \in 0..Len(ItemList(r))
      /\ VsaList(r) \in Seq(Seq(Octets)) /\ j \in 0..Len(VsaList(r))
  BY ListsOK DEF OctetStrings
<1>2. Before(VsaList(r), j) \in Seq(Octets)
  BY <1>1, BeforeEnds
<1>3. After(ItemList(r), j) \in Seq(Octets)
  BY <1>1, AfterSplit
<1>4. After(VsaList(r), j) \in Seq(Octets)
  BY <1>1, AfterSplit
<1>5. QED
  BY <1>2, <1>3, <1>4 DEF Kept, Rest, VsaRest, OctetStrings

LEMMA PiecesEnds ==
  ASSUME NEW r, ReplyOK(r)
  PROVE  /\ Kept(r, 0) = << >> /\ Rest(r, 0) = BodyOf(r) /\ VsaRest(r, 0) = Kept(r, Len(r.items))
         /\ Rest(r, Len(r.items)) = << >> /\ VsaRest(r, Len(r.items)) = << >>
<1>1. /\ ItemList(r) \in Seq(Seq(Octets)) /\ Len(ItemList(r)) = Len(r.items)
      /\ VsaList(r) \in Seq(Seq(Octets)) /\ Len(VsaList(r)) = Len(r.items)
  BY ListsOK DEF OctetStrings
<1>2. Before(VsaList(r), 0) = << >> /\ Before(VsaList(r), Len(VsaList(r))) = FlattenSeq(VsaList(r))
  BY <1>1, BeforeEnds
<1>3. After(ItemList(r), 0) = FlattenSeq(ItemList(r)) /\ After(ItemList(r), Len(ItemList(r))) = << >>
  BY <1>1, AfterEnds
<1>4. After(VsaList(r), 0) = FlattenSeq(VsaList(r)) /\ After(VsaList(r), Len(VsaList(r))) = << >>
  BY <1>1, AfterEnds
<1>5. BodyOf(r) = FlattenSeq(ItemList(r))
  BY BodyOK
<1>6. QED
  BY <1>1, <1>2, <1>3, <1>4, <1>5 DEF Kept, Rest, VsaRest

LEMMA PiecesNext ==
  ASSUME NEW r, ReplyOK(r), NEW j \in 0..Len(r.items), NEW k \in 1..Len(r.items), k = j + 1
  PROVE  /\ Rest(r, j) = ItemOctets(r.items[k]) \o Rest(r, k)
         /\ Kept(r, k) = IF r.items[k].vendor = 0 THEN Kept(r, j) ELSE Kept(r, j) \o ItemOctets(r.items[k])
         /\ VsaRest(r, j) = IF r.items[k].vendor = 0 THEN VsaRest(r, k)
                            ELSE ItemOctets(r.items[k]) \o VsaRest(r, k)
<1>1. /\ ItemList(r) \in Seq(Seq(Octets)) /\ k \in 1..Len(ItemList(r))
      /\ VsaList(r) \in Seq(Seq(Octets)) /\ k \in 1..Len(VsaList(r))
  BY ListsOK DEF OctetStrings
<1>2. k - 1 = j
  OBVIOUS
<1>3. After(ItemList(r), k - 1) = ItemList(r)[k] \o After(ItemList(r), k)
  BY <1>1, AfterNext
<1>4. After(VsaList(r), k - 1) = VsaList(r)[k] \o After(VsaList(r), k)
  BY <1>1, AfterNext
<1>5. Before(VsaList(r), k) = Before(VsaList(r), k - 1) \o VsaList(r)[k]
  BY <1>1, BeforeNext
<1>6. /\ ItemList(r)[k] = ItemOctets(r.items[k])
      /\ VsaList(r)[k] = IF r.items[k].vendor = 0 THEN << >> ELSE ItemOctets(r.items[k])
  <2>1. k \in DOMAIN r.items
    BY BodyOK
  <2>2. QED
    BY <2>1, Zenon DEF ItemList, VsaList
<1>7. Kept(r, j) \o << >> = Kept(r, j) /\ << >> \o VsaRest(r, k) = VsaRest(r, k)
  <2>1. Kept(r, j) \in OctetStrings /\ k \in 0..Len(r.items)
    BY PiecesOK
  <2>2. VsaRest(r, k) \in OctetStrings
    BY <2>1, PiecesOK
  <2>3. QED
    BY <2>1, <2>2, EmptyPart
<1>8. Rest(r, j) = ItemOctets(r.items[k]) \o Rest(r, k)
  BY <1>2, <1>3, <1>6 DEF Rest
<1>9. CASE r.items[k].vendor = 0
  <2>1. VsaList(r)[k] = << >>
    BY <1>6, <1>9
  <2>2. QED
    BY <1>2, <1>4, <1>5, <1>7, <1>8, <1>9, <2>1 DEF Kept, VsaRest
<1>10. CASE r.items[k].vendor # 0
  <2>1. VsaList(r)[k] = ItemOctets(r.items[k])
    BY <1>6, <1>10
  <2>2. QED
    BY <1>2, <1>4, <1>5, <1>8, <1>10, <2>1 DEF Kept, VsaRest
<1>11. QED
  BY <1>9, <1>10
(***************************************************************************)
(* The invariant for what the client is told.  A reply that is read alone  *)
(* has nothing (t) behind it; of one that is read with a copy, unpack()    *)
(* goes on into the copy and finds more values, behind those it has.       *)
(***************************************************************************)
PlainNames == {name \in {"NAS-Port-Id", "Framed-Address", "EAP-Type-SIM"} : HasAttribute(dict, name)}

FormOf(name) == IF name = "Framed-Address" THEN "address" ELSE "text"

CiscoNames ==
  IF "Cisco" \in DOMAIN dict.vendors THEN {"Cisco-Command-Code", "Cisco-Account-Info"} ELSE {}

PlainSaid(j, name) == Shown(FormOf(name), SaidBy(reply, j, 0, dict.attrs[name].id))

CiscoSaid(j, name) == Shown("text", SaidBy(reply, j, dict.vendors["Cisco"], dict.attrs[name].id))

Count == Len(reply.items)

PlainRead(j) == \A name \in PlainNames : Named(attr, name) = PlainSaid(j, name)
CiscoRead(j) == \A name \in CiscoNames : NamedCisco(vsattr, name) = CiscoSaid(j, name)

PlainHas == \A name \in PlainNames : Starts(PlainSaid(Count, name), Named(attr, name))
CiscoHas == \A name \in CiscoNames : Starts(CiscoSaid(Count, name), NamedCisco(vsattr, name))

Behind(t) == t \in OctetStrings /\ (copies = 1 => t = << >>)

HeaderInv ==
  \E h, t \in OctetStrings :
    /\ octets = h \o (BodyOf(reply) \o t) /\ Behind(t)
    /\ Len(h) = HeaderSize /\ h[1] = reply.code

AmongItems(j, t) ==
  /\ Behind(t) /\ PlainRead(j)
  /\ octets = Kept(reply, j) \o (Rest(reply, j) \o t) /\ i = Len(Kept(reply, j))

BehindItems(t) ==
  copies = 2 /\ octets = Kept(reply, Count) \o t /\ i >= Len(Kept(reply, Count)) /\ PlainHas

AttributesInv ==
  \/ \E j \in 0..Count, t \in OctetStrings : AmongItems(j, t)
  \/ \E t \in OctetStrings : BehindItems(t)

AtVsas(j, t) == Behind(t) /\ CiscoRead(j) /\ octets = VsaRest(reply, j) \o t /\ i = 0

VsaInv ==
  \/ \E j \in 0..Count, t \in OctetStrings : AtVsas(j, t)
  \/ copies = 2 /\ CiscoHas

ReadInv ==
  /\ phase \in {"build", "send", "nas"} => reply = Nothing
  /\ phase \in {"build", "send", "nas", "header"} => attr = << >>
  /\ phase \in {"build", "send", "nas", "header", "attributes"} => vsattr = << >>
  /\ phase \in {"header", "attributes", "vsa", "wrap"} =>
       ReplyOK(reply) /\ AddressesOK(dict, reply) /\ copies \in {1, 2}
  /\ phase \in {"attributes", "vsa", "wrap"} => code = reply.code
  /\ phase = "header" => HeaderInv
  /\ phase = "attributes" => AttributesInv
  /\ phase = "vsa" => VsaInv
  /\ phase \in {"vsa", "wrap"} => PlainHas /\ (copies = 1 => PlainRead(Count))
  /\ phase = "wrap" => CiscoHas /\ (copies = 1 => CiscoRead(Count))
  /\ ReplyReachesClient
(***************************************************************************)
(* What a round appends for an item of the reply.                          *)
(***************************************************************************)
LEMMA FoundNames ==
  ASSUME TypeInv, NEW name \in PlainNames
  PROVE  /\ name \in DOMAIN dict.attrs /\ dict.attrs[name].vendor = NoVendor
         /\ First(AttributeStrings(dict, dict.attrs[name].id, NoVendor)) = name
         /\ FormOf(name) = "text" => dict.attrs[name].type \in {"string", "octets"}
         /\ FormOf(name) = "address" => name = "Framed-Address" /\ dict.attrs[name].type = "ipaddr"
         /\ FormOf(name) \in {"text", "address"}
BY GivenOK DEF TypeInv, PlainNames, FormOf, NamesFound, Found, HasAttribute

LEMMA WholeIs == ASSUME NEW data \in OctetStrings PROVE From(data, 0, Len(data)) = data
<1>1. Len(data) \in Nat /\ SubSeq(data, 1, Len(data)) = data
  BY LenOK, SubSeqFull DEF OctetStrings
<1>2. QED
  BY <1>1 DEF From

LEMMA PlainKnown ==
  ASSUME TypeInv, AddressesOK(dict, reply), NEW item \in Range(reply.items), NEW left, NEW rest,
         StandsAt(item, left, rest), item.vendor = 0,
         NEW name \in PlainNames, dict.attrs[name].id = item.id
  PROVE  /\ PlainFound # {} /\ PlainEntry.name = name
         /\ PlainEntry.value = [form |-> FormOf(name), of |-> item.value]
<1> DEFINE data == From(octets, i + 2, Size - 2)
           type == dict.attrs[name].type
<1>1. Id = item.id /\ data = item.value
  BY ItemFound DEF HeadSize
<1>2. PlainFound = AttributeStrings(dict, dict.attrs[name].id, NoVendor)
  BY <1>1 DEF PlainFound
<1>3. name \in PlainFound /\ First(PlainFound) = name
  BY <1>2, FoundNames DEF AttributeStrings
<1>4. item.value \in OctetStrings
  BY DEF StandsAt, Fitting, Items
<1>5. PlainEntry = [name |-> name, value |-> ReadValue(dict, name, type, item.value)]
  BY <1>1, <1>3 DEF PlainEntry, GetAttribute
<1>6. ReadValue(dict, name, type, item.value) = [form |-> FormOf(name), of |-> item.value]
  <2>1. CASE FormOf(name) = "text"
    <3>1. type \in {"string", "octets"}
      BY <2>1, FoundNames
    <3>2. ReadValue(dict, name, type, item.value) = Text(item.value)
      BY <3>1 DEF ReadValue
    <3>3. QED
      BY <2>1, <3>2 DEF Text
  <2>2. CASE FormOf(name) = "address"
    <3>1. type = "ipaddr" /\ name = "Framed-Address"
      BY <2>2, FoundNames
    <3>2. Len(item.value) = WordSize
      BY <3>1 DEF AddressesOK, PlainNames
    <3>3. From(item.value, 0, WordSize) = item.value
      BY <1>4, <3>2, WholeIs
    <3>4. ReadValue(dict, name, type, item.value) = [form |-> "address", of |-> item.value]
      BY <3>1, <3>3 DEF ReadValue
    <3>5. QED
      BY <2>2, <3>4
  <2>3. QED
    BY <2>1, <2>2, FoundNames
<1>7. QED
  BY <1>3, <1>5, <1>6

LEMMA PlainOther ==
  ASSUME TypeInv, NEW item, NEW left, NEW rest,
         StandsAt(item, left, rest), item.vendor = 0,
         NEW name, dict.attrs[name].id # item.id, PlainFound # {}
  PROVE  PlainEntry.name # name
<1>1. Id = item.id
  BY ItemFound
<1>2. PlainFound \subseteq DOMAIN dict.attrs /\ DOMAIN dict.attrs \subseteq DOMAIN Rank
  BY GivenOK DEF TypeInv, PlainFound, AttributeStrings, DictionaryOK
<1>3. First(PlainFound) \in PlainFound
  BY <1>2, FirstOK
<1>4. dict.attrs[First(PlainFound)].id = item.id
  BY <1>1, <1>3 DEF PlainFound, AttributeStrings
<1>5. PlainEntry.name = First(PlainFound)
  BY DEF PlainEntry
<1>6. QED
  BY <1>4, <1>5

LEMMA FoundCisco ==
  ASSUME TypeInv, NEW name \in CiscoNames
  PROVE  /\ "Cisco" \in DOMAIN dict.vendors /\ dict.vendors["Cisco"] # 0
         /\ First(VendorStrings(dict, dict.vendors["Cisco"])) = "Cisco"
         /\ name \in DOMAIN dict.attrs /\ dict.attrs[name].vendor = "Cisco"
         /\ First(AttributeStrings(dict, dict.attrs[name].id, "Cisco")) = name
         /\ dict.attrs[name].type \in {"string", "octets"}
BY GivenOK DEF TypeInv, CiscoNames, NamesFound, Found, HasAttribute

LEMMA CiscoKnown ==
  ASSUME TypeInv, NEW item, NEW left, NEW rest, StandsAt(item, left, rest), item.vendor # 0,
         NEW name \in CiscoNames, item.vendor = dict.vendors["Cisco"], item.id = dict.attrs[name].id
  PROVE  /\ CiscoFound # {} /\ CiscoEntry.vendor = "Cisco" /\ CiscoEntry.name = name
         /\ CiscoEntry.value = [form |-> "text", of |-> item.value]
<1> DEFINE data == From(octets, i + VsaHeader, Size - VsaHeader)
           type == dict.attrs[name].type
<1>1. data = item.value
  BY ItemFound DEF HeadSize
<1>2. Vendor = item.vendor /\ At(octets, i + 2 + WordSize) = item.id
  BY VsaFound
<1>3. "Cisco" \in VendorsFound /\ First(VendorsFound) = "Cisco"
  BY <1>2, FoundCisco DEF VendorsFound, VendorStrings
<1>4. CiscoFound = AttributeStrings(dict, dict.attrs[name].id, "Cisco")
  BY <1>2, <1>3 DEF CiscoFound
<1>5. name \in CiscoFound /\ First(CiscoFound) = name
  BY <1>4, FoundCisco DEF AttributeStrings
<1>6. type \in {"string", "octets"}
  BY FoundCisco
<1>7. CiscoEntry = [vendor |-> "Cisco", name |-> name, value |-> ReadVsaValue(dict, name, type, item.value)]
  BY <1>1, <1>3, <1>5 DEF CiscoEntry, GetAttribute
<1>8. ReadVsaValue(dict, name, type, item.value) = [form |-> "text", of |-> item.value]
  BY <1>6 DEF ReadVsaValue, ReadValue, Text
<1>9. QED
  BY <1>5, <1>7, <1>8

LEMMA CiscoOther ==
  ASSUME TypeInv, NEW item, NEW left, NEW rest, StandsAt(item, left, rest), item.vendor # 0,
         NEW name, ~(item.vendor = dict.vendors["Cisco"] /\ item.id = dict.attrs[name].id),
         CiscoFound # {}
  PROVE  ~(CiscoEntry.vendor = "Cisco" /\ CiscoEntry.name = name)
<1>1. Vendor = item.vendor /\ At(octets, i + 2 + WordSize) = item.id
  BY VsaFound
<1>2. /\ VendorsFound \subseteq DOMAIN dict.vendors /\ DOMAIN dict.vendors \subseteq DOMAIN Rank
      /\ CiscoFound \subseteq DOMAIN dict.attrs /\ DOMAIN dict.attrs \subseteq DOMAIN Rank
      /\ VendorsFound # {}
  BY GivenOK DEF TypeInv, VendorsFound, CiscoFound, AttributeStrings, VendorStrings, DictionaryOK
<1>3. First(VendorsFound) \in VendorsFound
  BY <1>2, FirstOK
<1>4. First(CiscoFound) \in CiscoFound
  BY <1>2, FirstOK
<1>5. dict.vendors[First(VendorsFound)] = item.vendor
  BY <1>1, <1>3 DEF VendorsFound, VendorStrings
<1>6. dict.attrs[First(CiscoFound)].id = item.id
  BY <1>1, <1>2, <1>4 DEF CiscoFound, AttributeStrings
<1>7. CiscoEntry.vendor = First(VendorsFound) /\ CiscoEntry.name = First(CiscoFound)
  BY DEF CiscoEntry
<1>8. QED
  BY <1>5, <1>6, <1>7
(***************************************************************************)
(* The values that are kept, from one item to the next.                    *)
(***************************************************************************)
LEMMA SaidTyped ==
  ASSUME ReplyOK(reply), NEW j \in 0..Count
  PROVE  /\ \A name \in PlainNames : PlainSaid(j, name) \in Seq(Readings)
         /\ \A name \in CiscoNames : CiscoSaid(j, name) \in Seq(Readings)
<1>1. \A vendor, id : SaidBy(reply, j, vendor, id) \in Seq(OctetStrings)
  BY SaidOK DEF Count
<1>2. ASSUME NEW name \in PlainNames PROVE PlainSaid(j, name) \in Seq(Readings)
  <2> DEFINE s == SaidBy(reply, j, 0, dict.attrs[name].id)
  <2>1. s \in Seq(OctetStrings) /\ FormOf(name) \in {"text", "address"}
    BY <1>1 DEF FormOf
  <2> HIDE DEF s
  <2>2. Shown(FormOf(name), s) \in Seq(Readings)
    BY <2>1, ShownOK
  <2>3. QED
    BY <2>2 DEF PlainSaid, s
<1>3. ASSUME NEW name \in CiscoNames PROVE CiscoSaid(j, name) \in Seq(Readings)
  <2> DEFINE s == SaidBy(reply, j, dict.vendors["Cisco"], dict.attrs[name].id)
  <2>1. s \in Seq(OctetStrings)
    BY <1>1
  <2> HIDE DEF s
  <2>2. Shown("text", s) \in Seq(Readings)
    BY <2>1, ShownOK
  <2>3. QED
    BY <2>2 DEF CiscoSaid, s
<1>4. QED
  BY <1>2, <1>3

LEMMA NamedStep ==
  ASSUME TypeInv, ReadAttribute, NEW name
  PROVE  Named(attr', name) = IF PlainFound # {} /\ PlainEntry.name = name
                              THEN Append(Named(attr, name), PlainEntry.value) ELSE Named(attr, name)
<1>1. attr \in Seq(ReadAttributes)
  BY DEF TypeInv
<1>2. CASE PlainFound = {}
  BY <1>2, AttributeRead
<1>3. CASE PlainFound # {}
  <2>1. attr' = Append(attr, PlainEntry) /\ PlainEntry \in ReadAttributes
    BY <1>3, AttributeRead
  <2>2. QED
    BY <1>1, <1>3, <2>1, NamedMore
<1>4. QED
  BY <1>2, <1>3

LEMMA NamedCiscoStep ==
  ASSUME TypeInv, ReadVsa, NEW name
  PROVE  NamedCisco(vsattr', name) =
           IF CiscoFound # {} /\ CiscoEntry.vendor = "Cisco" /\ CiscoEntry.name = name
           THEN Append(NamedCisco(vsattr, name), CiscoEntry.value) ELSE NamedCisco(vsattr, name)
<1>1. vsattr \in Seq(ReadVsas)
  BY DEF TypeInv
<1>2. CASE CiscoFound = {}
  BY <1>2, VsaRead
<1>3. CASE CiscoFound # {}
  <2>1. vsattr' = Append(vsattr, CiscoEntry) /\ CiscoEntry \in ReadVsas
    BY <1>3, VsaRead
  <2>2. QED
    BY <1>1, <1>3, <2>1, NamedCiscoMore
<1>4. QED
  BY <1>2, <1>3

ShownWith(form, list, item, vendor, id) ==
  IF item.vendor = vendor /\ item.id = id
  THEN Append(list, [form |-> form, of |-> item.value]) ELSE list

LEMMA SaidStep ==
  ASSUME ReplyOK(reply), NEW j \in 0..Count, NEW k \in 1..Count, k = j + 1, NEW vendor, NEW id,
         NEW form \in {"text", "address"}
  PROVE  Shown(form, SaidBy(reply, k, vendor, id)) =
           ShownWith(form, Shown(form, SaidBy(reply, j, vendor, id)), reply.items[k], vendor, id)
<1> DEFINE s == SaidBy(reply, j, vendor, id)
           v == reply.items[k].value
<1>1. SaidBy(reply, k, vendor, id) = WithItem(s, reply.items[k], vendor, id)
  <2>1. j \in 0..Len(reply.items) /\ k \in 1..Len(reply.items)
    BY DEF Count
  <2>2. QED
    BY <2>1, SaidMore
<1>2. s \in Seq(OctetStrings)
  BY SaidOK DEF Count
<1>3. v \in OctetStrings
  BY ItemsFit DEF Count, Fitting, Items
<1> HIDE DEF s, v
<1>4. Shown(form, Append(s, v)) = Append(Shown(form, s), [form |-> form, of |-> v])
  BY <1>2, <1>3, ShownMore
<1>5. QED
  BY <1>1, <1>4 DEF s, v, WithItem, ShownWith

LEMMA PlainSaidStep ==
  ASSUME ReplyOK(reply), NEW j \in 0..Count, NEW k \in 1..Count, k = j + 1, NEW name
  PROVE  PlainSaid(k, name) =
           ShownWith(FormOf(name), PlainSaid(j, name), reply.items[k], 0, dict.attrs[name].id)
<1> DEFINE vendor == 0
           id   == dict.attrs[name].id
           form == FormOf(name)
<1>1. form \in {"text", "address"}
  BY DEF FormOf
<1> HIDE DEF vendor, id, form
<1>2. Shown(form, SaidBy(reply, k, vendor, id)) =
        ShownWith(form, Shown(form, SaidBy(reply, j, vendor, id)), reply.items[k], vendor, id)
  BY <1>1, SaidStep
<1>3. QED
  BY <1>2 DEF PlainSaid, vendor, id, form

LEMMA CiscoSaidStep ==
  ASSUME ReplyOK(reply), NEW j \in 0..Count, NEW k \in 1..Count, k = j + 1, NEW name
  PROVE  CiscoSaid(k, name) =
           ShownWith("text", CiscoSaid(j, name), reply.items[k], dict.vendors["Cisco"], dict.attrs[name].id)
<1> DEFINE vendor == dict.vendors["Cisco"]
           id   == dict.attrs[name].id
           form == "text"
<1>1. form \in {"text", "address"}
  OBVIOUS
<1> HIDE DEF vendor, id, form
<1>2. Shown(form, SaidBy(reply, k, vendor, id)) =
        ShownWith(form, Shown(form, SaidBy(reply, j, vendor, id)), reply.items[k], vendor, id)
  BY <1>1, SaidStep
<1>3. QED
  BY <1>2 DEF CiscoSaid, vendor, id, form

(* A plain item is read.                                                   *)
LEMMA PlainStep ==
  ASSUME TypeInv, ReadAttribute, ReplyOK(reply), AddressesOK(dict, reply),
         NEW j \in 0..Count, NEW k \in 1..Count, k = j + 1, NEW left, NEW rest,
         StandsAt(reply.items[k], left, rest), reply.items[k].vendor = 0, PlainRead(j)
  PROVE  PlainRead(k)'
<1> DEFINE item == reply.items[k]
<1>1. UNCHANGED <<dict, reply>>
  BY DEF ReadAttribute, requestVars, replyVars
<1>2. ASSUME NEW name \in PlainNames PROVE Named(attr', name) = PlainSaid(k, name)
  <2>1. Named(attr, name) = PlainSaid(j, name)
    BY DEF PlainRead
  <2>2. PlainSaid(k, name) = IF dict.attrs[name].id = item.id
                             THEN Append(PlainSaid(j, name), [form |-> FormOf(name), of |-> item.value])
                             ELSE PlainSaid(j, name)
    BY PlainSaidStep DEF ShownWith
  <2>3. CASE dict.attrs[name].id = item.id
    <3>1. item \in Range(reply.items)
      BY ItemsFit DEF Count
    <3>2. /\ PlainFound # {} /\ PlainEntry.name = name
          /\ PlainEntry.value = [form |-> FormOf(name), of |-> item.value]
      BY <2>3, <3>1, PlainKnown
    <3>3. Named(attr', name) = Append(Named(attr, name), PlainEntry.value)
      BY <3>2, NamedStep
    <3>4. QED
      BY <2>1, <2>2, <2>3, <3>2, <3>3
  <2>4. CASE dict.attrs[name].id # item.id
    <3>1. ~(PlainFound # {} /\ PlainEntry.name = name)
      BY <2>4, PlainOther
    <3>2. Named(attr', name) = Named(attr, name)
      BY <3>1, NamedStep
    <3>3. QED
      BY <2>1, <2>2, <2>4, <3>2
  <2>5. QED
    BY <2>3, <2>4
<1>3. QED
  BY <1>1, <1>2 DEF PlainRead, PlainNames, PlainSaid, FormOf

(* A vendor specific item is passed over.                                  *)
LEMMA PlainPass ==
  ASSUME ReplyOK(reply), UNCHANGED <<dict, reply, attr>>,
         NEW j \in 0..Count, NEW k \in 1..Count, k = j + 1, reply.items[k].vendor # 0, PlainRead(j)
  PROVE  PlainRead(k)'
<1>1. ASSUME NEW name \in PlainNames PROVE Named(attr, name) = PlainSaid(k, name)
  <2>2. PlainSaid(k, name) = PlainSaid(j, name)
    BY PlainSaidStep DEF ShownWith
  <2>3. QED
    BY <2>2 DEF PlainRead
<1>2. QED
  BY <1>1 DEF PlainRead, PlainNames, PlainSaid, FormOf

(* A Cisco item or one of another vendor is read; a plain one is not there *)
(* any more.                                                               *)
LEMMA CiscoStep ==
  ASSUME TypeInv, ReadVsa, ReplyOK(reply),
         NEW j \in 0..Count, NEW k \in 1..Count, k = j + 1, NEW left, NEW rest,
         StandsAt(reply.items[k], left, rest), reply.items[k].vendor # 0, CiscoRead(j)
  PROVE  CiscoRead(k)'
<1> DEFINE item == reply.items[k]
<1>1. UNCHANGED <<dict, reply>>
  BY DEF ReadVsa, requestVars, replyVars
<1>2. ASSUME NEW name \in CiscoNames PROVE NamedCisco(vsattr', name) = CiscoSaid(k, name)
  <2> DEFINE says == item.vendor = dict.vendors["Cisco"] /\ item.id = dict.attrs[name].id
  <2>1. NamedCisco(vsattr, name) = CiscoSaid(j, name)
    BY DEF CiscoRead
  <2>2. CiscoSaid(k, name) = IF says THEN Append(CiscoSaid(j, name), [form |-> "text", of |-> item.value])
                             ELSE CiscoSaid(j, name)
    BY CiscoSaidStep DEF ShownWith
  <2>3. CASE says
    <3>1. /\ CiscoFound # {} /\ CiscoEntry.vendor = "Cisco" /\ CiscoEntry.name = name
          /\ CiscoEntry.value = [form |-> "text", of |-> item.value]
      BY <2>3, CiscoKnown
    <3>2. NamedCisco(vsattr', name) = Append(NamedCisco(vsattr, name), CiscoEntry.value)
      BY <3>1, NamedCiscoStep
    <3>3. QED
      BY <2>1, <2>2, <2>3, <3>1, <3>2
  <2>4. CASE ~says
    <3>1. ~(CiscoFound # {} /\ CiscoEntry.vendor = "Cisco" /\ CiscoEntry.name = name)
      BY <2>4, CiscoOther
    <3>2. NamedCisco(vsattr', name) = NamedCisco(vsattr, name)
      BY <3>1, NamedCiscoStep
    <3>3. QED
      BY <2>1, <2>2, <2>4, <3>2
  <2>5. QED
    BY <2>3, <2>4
<1>3. QED
  BY <1>1, <1>2 DEF CiscoRead, CiscoNames, CiscoSaid

LEMMA CiscoPass ==
  ASSUME TypeInv, ReplyOK(reply), NEW j \in 0..Count, NEW k \in 1..Count, k = j + 1,
         reply.items[k].vendor = 0, CiscoRead(j)
  PROVE  CiscoRead(k)
<1>1. ASSUME NEW name \in CiscoNames PROVE NamedCisco(vsattr, name) = CiscoSaid(k, name)
  <2>1. dict.vendors["Cisco"] # 0
    BY FoundCisco
  <2>2. CiscoSaid(k, name) = CiscoSaid(j, name)
    BY <2>1, CiscoSaidStep DEF ShownWith
  <2>3. QED
    BY <2>2 DEF CiscoRead
<1>2. QED
  BY <1>1 DEF CiscoRead
LEMMA PlainHasStep ==
  ASSUME TypeInv, ReadAttribute, ReplyOK(reply), PlainHas PROVE PlainHas'
<1>1. UNCHANGED <<dict, reply>>
  BY DEF ReadAttribute, requestVars, replyVars
<1>2. ASSUME NEW name \in PlainNames PROVE Starts(PlainSaid(Count, name), Named(attr', name))
  <2> DEFINE s == PlainSaid(Count, name)
             t == Named(attr, name)
  <2>1. s \in Seq(Readings)
    <3>1. Count \in 0..Count
      BY ListsOK DEF Count
    <3>2. QED
      BY <3>1, SaidTyped
  <2>2. t \in Seq(Readings)
    BY NamedOK DEF TypeInv
  <2>3. Starts(s, t)
    BY DEF PlainHas
  <2>4. CASE PlainFound # {} /\ PlainEntry.name = name
    <3>1. PlainEntry.value \in Readings
      BY <2>4, AttributeRead DEF ReadAttributes
    <3>2. Named(attr', name) = Append(t, PlainEntry.value)
      BY <2>4, NamedStep
    <3> HIDE DEF s, t
    <3>3. Starts(s, Append(t, PlainEntry.value))
      BY <2>1, <2>2, <2>3, <3>1, StartsMore
    <3>4. QED
      BY <3>2, <3>3 DEF s
  <2>5. CASE ~(PlainFound # {} /\ PlainEntry.name = name)
    <3>1. Named(attr', name) = t
      BY <2>5, NamedStep
    <3>2. QED
      BY <2>3, <3>1
  <2>6. QED
    BY <2>4, <2>5
<1>3. QED
  BY <1>1, <1>2 DEF PlainHas, PlainNames, PlainSaid, FormOf, Count

LEMMA CiscoHasStep ==
  ASSUME TypeInv, ReadVsa, ReplyOK(reply), CiscoHas PROVE CiscoHas'
<1>1. UNCHANGED <<dict, reply>>
  BY DEF ReadVsa, requestVars, replyVars
<1>2. ASSUME NEW name \in CiscoNames PROVE Starts(CiscoSaid(Count, name), NamedCisco(vsattr', name))
  <2> DEFINE s == CiscoSaid(Count, name)
             t == NamedCisco(vsattr, name)
             found == CiscoFound # {} /\ CiscoEntry.vendor = "Cisco" /\ CiscoEntry.name = name
  <2>1. s \in Seq(Readings)
    <3>1. Count \in 0..Count
      BY ListsOK DEF Count
    <3>2. QED
      BY <3>1, SaidTyped
  <2>2. t \in Seq(Readings)
    BY NamedCiscoOK DEF TypeInv
  <2>3. Starts(s, t)
    BY DEF CiscoHas
  <2>4. CASE found
    <3>1. CiscoEntry.value \in Readings
      BY <2>4, VsaRead DEF ReadVsas
    <3>2. NamedCisco(vsattr', name) = Append(t, CiscoEntry.value)
      BY <2>4, NamedCiscoStep
    <3> HIDE DEF s, t
    <3>3. Starts(s, Append(t, CiscoEntry.value))
      BY <2>1, <2>2, <2>3, <3>1, StartsMore
    <3>4. QED
      BY <3>2, <3>3 DEF s
  <2>5. CASE ~found
    <3>1. NamedCisco(vsattr', name) = t
      BY <2>5, NamedCiscoStep
    <3>2. QED
      BY <2>3, <3>1
  <2>6. QED
    BY <2>4, <2>5
<1>3. QED
  BY <1>1, <1>2 DEF CiscoHas, CiscoNames, CiscoSaid, Count

LEMMA ReadHas ==
  ASSUME ReplyOK(reply) PROVE (PlainRead(Count) => PlainHas) /\ (CiscoRead(Count) => CiscoHas)
<1>1. Count \in 0..Count
  BY ListsOK DEF Count
<1>2. /\ \A name \in PlainNames : PlainSaid(Count, name) \in Seq(Readings)
      /\ \A name \in CiscoNames : CiscoSaid(Count, name) \in Seq(Readings)
  BY <1>1, SaidTyped
<1>3. ASSUME NEW name \in PlainNames PROVE Starts(PlainSaid(Count, name), PlainSaid(Count, name))
  BY <1>2, StartsSelf
<1>4. ASSUME NEW name \in CiscoNames PROVE Starts(CiscoSaid(Count, name), CiscoSaid(Count, name))
  BY <1>2, StartsSelf
<1>5. QED
  BY <1>3, <1>4 DEF PlainRead, PlainHas, CiscoRead, CiscoHas

(***************************************************************************)
(* Where unpack() stands.                                                  *)
(***************************************************************************)
LEMMA AmongStands ==
  ASSUME ReplyOK(reply), NEW j \in 0..Count, NEW t, AmongItems(j, t), NEW k \in 1..Count, k = j + 1
  PROVE  StandsAt(reply.items[k], Kept(reply, j), Rest(reply, k) \o t) /\ Rest(reply, k) \o t \in OctetStrings
<1> DEFINE b == ItemOctets(reply.items[k])
           x == Rest(reply, k)
           left == Kept(reply, j)
<1>1. Fitting(reply.items[k]) /\ b \in OctetStrings
  BY ItemsFit DEF Count
<1>2. j \in 0..Len(reply.items) /\ k \in 0..Len(reply.items) /\ k \in 1..Len(reply.items)
  BY DEF Count
<1>3. x \in OctetStrings /\ t \in OctetStrings /\ left \in OctetStrings
  BY <1>2, PiecesOK DEF AmongItems, Behind
<1>4. Rest(reply, j) = b \o x
  BY <1>2, PiecesNext
<1>5. octets = left \o (Rest(reply, j) \o t) /\ i = Len(left)
  BY DEF AmongItems
<1> HIDE DEF b, x, left
<1>6. (b \o x) \o t = b \o (x \o t) /\ x \o t \in OctetStrings
  BY <1>1, <1>3, Assoc, Joined
<1>7. StandsAt(reply.items[k], left, x \o t)
  BY <1>1, <1>3, <1>4, <1>5, <1>6 DEF StandsAt, b
<1>8. QED
  BY <1>6, <1>7 DEF x, left

LEMMA VsaStands ==
  ASSUME ReplyOK(reply), NEW j \in 0..Count, NEW t, AtVsas(j, t),
         NEW k \in 1..Count, k = j + 1, reply.items[k].vendor # 0
  PROVE  StandsAt(reply.items[k], << >>, VsaRest(reply, k) \o t) /\ VsaRest(reply, k) \o t \in OctetStrings
<1> DEFINE b == ItemOctets(reply.items[k])
           x == VsaRest(reply, k)
<1>1. Fitting(reply.items[k]) /\ b \in OctetStrings
  BY ItemsFit DEF Count
<1>2. j \in 0..Len(reply.items) /\ k \in 0..Len(reply.items) /\ k \in 1..Len(reply.items)
  BY DEF Count
<1>3. x \in OctetStrings /\ t \in OctetStrings
  BY <1>2, PiecesOK DEF AtVsas, Behind
<1>4. VsaRest(reply, j) = b \o x
  BY <1>2, PiecesNext
<1>5. octets = VsaRest(reply, j) \o t /\ i = 0
  BY DEF AtVsas
<1> HIDE DEF b, x
<1>6. (b \o x) \o t = b \o (x \o t) /\ x \o t \in OctetStrings
  BY <1>1, <1>3, Assoc, Joined
<1>7. b \o (x \o t) \in OctetStrings
  BY <1>1, <1>6, Joined
<1>8. << >> \o (b \o (x \o t)) = b \o (x \o t)
  <2> DEFINE y == b \o (x \o t)
  <2>1. y \in OctetStrings
    BY <1>7
  <2> HIDE DEF y
  <2>2. << >> \o y = y
    BY <2>1, EmptyPart
  <2>3. QED
    BY <2>2 DEF y
<1>9. StandsAt(reply.items[k], << >>, x \o t)
  BY <1>1, <1>4, <1>5, <1>6, <1>8, EmptyOK DEF StandsAt, b
<1>10. QED
  BY <1>6, <1>9 DEF x

(* What is cut out behind a stays behind a.                                *)
LEMMA BehindErased ==
  ASSUME NEW a \in OctetStrings, NEW b \in OctetStrings, NEW m \in Nat, m >= Len(a), m < Len(a \o b),
         NEW n \in Nat
  PROVE  \E t \in OctetStrings : Erased(a \o b, m, n) = a \o t
<1> DEFINE c == a \o b
           d == SubSeq(b, 1, m - Len(a))
           e == From(c, m + n, -1)
<1>1. c \in OctetStrings /\ Len(c) = Len(a) + Len(b) /\ Len(a) \in Nat /\ Len(b) \in Nat
  BY Joined, LenOK
<1>2. d \in OctetStrings
  <2>1. m - Len(a) \in Nat /\ m - Len(a) <= Len(b)
    BY <1>1
  <2>2. QED
    BY <2>1, PartOK
<1>3. e \in OctetStrings
  <2>1. m + n \in Nat
    OBVIOUS
  <2> HIDE DEF c
  <2>2. QED
    BY <1>1, <2>1, FromOK
<1>4. SubSeq(c, 1, m) = a \o d
  <2> DEFINE p == Len(a)
             q == m - Len(a)
  <2>1. p \in Nat /\ q \in Nat /\ m = p + q /\ q <= Len(b) /\ Len(c) = p + Len(b)
    BY <1>1
  <2>2. /\ a \in Seq(Octets) /\ b \in Seq(Octets) /\ c \in Seq(Octets)
        /\ \A k \in 1..p : c[k] = a[k]
        /\ \A k \in 1..Len(b) : c[p + k] = b[k]
    BY <1>1 DEF OctetStrings
  <2>3. Len(a) = p /\ d = SubSeq(b, 1, q)
    OBVIOUS
  <2> HIDE DEF c, p, q, d
  <2>4. /\ SubSeq(c, 1, m) \in Seq(Octets) /\ Len(SubSeq(c, 1, m)) = m
        /\ \A k \in 1..m : SubSeq(c, 1, m)[k] = c[k]
    BY <2>1, <2>2
  <2>5. /\ d \in Seq(Octets) /\ Len(d) = q /\ \A k \in 1..q : d[k] = b[k]
    BY <2>1, <2>2, <2>3
  <2>6. /\ a \o d \in Seq(Octets) /\ Len(a \o d) = m
        /\ \A k \in 1..p : (a \o d)[k] = a[k]
        /\ \A k \in 1..q : (a \o d)[p + k] = d[k]
    <3>1. a \in Seq(Octets) /\ d \in Seq(Octets)
      BY <2>2, <2>5
    <3>2. /\ a \o d \in Seq(Octets) /\ Len(a \o d) = Len(a) + Len(d)
          /\ \A k \in 1..Len(a) : (a \o d)[k] = a[k]
          /\ \A k \in 1..Len(d) : (a \o d)[Len(a) + k] = d[k]
      BY <3>1
    <3>3. Len(a) = p /\ Len(d) = q
      BY <2>3, <2>5
    <3>4. QED
      BY <2>1, <3>2, <3>3
  <2>7. ASSUME NEW k \in 1..m PROVE SubSeq(c, 1, m)[k] = (a \o d)[k]
    <3>1. CASE k \in 1..p
      BY <2>2, <2>4, <2>6, <3>1
    <3>2. CASE k \notin 1..p
      <4> DEFINE l == k - p
      <4>1. l \in 1..q /\ l \in 1..Len(b) /\ k = p + l
        BY <2>1, <3>2
      <4> HIDE DEF l
      <4>2. c[k] = b[l] /\ (a \o d)[k] = d[l] /\ d[l] = b[l]
        BY <2>2, <2>5, <2>6, <4>1
      <4>3. QED
        BY <2>4, <4>2
    <3>3. QED
      BY <3>1, <3>2
  <2>8. QED
    BY <2>4, <2>6, <2>7, SeqEqual
<1> HIDE DEF c, d, e
<1>5. (a \o d) \o e = a \o (d \o e) /\ d \o e \in OctetStrings
  <2>1. a \in OctetStrings /\ d \in OctetStrings /\ e \in OctetStrings
    BY <1>2, <1>3
  <2>2. (a \o d) \o e = a \o (d \o e)
    BY <2>1, Assoc, ZenonT(60)
  <2>3. d \o e \in OctetStrings
    BY <2>1, Joined, ZenonT(60)
  <2>4. QED
    BY <2>2, <2>3
<1>6. Erased(c, m, n) = a \o (d \o e)
  BY <1>4, <1>5 DEF Erased, e
<1>7. QED
  BY <1>5, <1>6 DEF c

(***************************************************************************)
(* Every step keeps the invariant.                                         *)
(***************************************************************************)
LEMMA InitReadInv == Init => ReadInv
BY DEF Init, ReadInv, ReplyReachesClient

LEMMA RequestReadInv == ASSUME ReadInv, Build \/ Send \/ SendThrows PROVE ReadInv'
<1>1. reply = Nothing /\ reply' = Nothing /\ attr' = attr /\ vsattr' = vsattr
      /\ phase \in {"build", "send"} /\ phase' \in {"send", "nas", "told"}
  BY DEF Build, Send, SendThrows, replyVars, readVars, ReadInv
<1>2. QED
  BY <1>1 DEF ReadInv, ReplyReachesClient, Nothing

LEMMA StutterReadInv == ASSUME ReadInv, UNCHANGED vars PROVE ReadInv'
<1>1. /\ dict' = dict /\ phase' = phase /\ reply' = reply /\ copies' = copies /\ octets' = octets
      /\ i' = i /\ code' = code /\ attr' = attr /\ vsattr' = vsattr /\ told' = told
  BY DEF vars, requestVars, replyVars, readVars
<1>2. HeaderInv => HeaderInv'
  BY <1>1 DEF HeaderInv, Behind
<1>3. PlainHas => PlainHas'
  BY <1>1 DEF PlainHas, PlainNames, PlainSaid, FormOf, Count
<1>4. CiscoHas => CiscoHas'
  BY <1>1 DEF CiscoHas, CiscoNames, CiscoSaid, Count
<1>5. (PlainRead(Count) => PlainRead(Count)') /\ (CiscoRead(Count) => CiscoRead(Count)')
  BY <1>1 DEF PlainRead, PlainNames, PlainSaid, FormOf, Count, CiscoRead, CiscoNames, CiscoSaid
<1>6. AttributesInv => AttributesInv'
  <2>1. ASSUME NEW j \in 0..Count, NEW t \in OctetStrings, AmongItems(j, t)
        PROVE  j \in 0..Count' /\ AmongItems(j, t)'
    BY <1>1, <2>1 DEF AmongItems, Behind, PlainRead, PlainNames, PlainSaid, FormOf, Count
  <2>2. ASSUME NEW t \in OctetStrings, BehindItems(t) PROVE BehindItems(t)'
    BY <1>1, <1>3, <2>2 DEF BehindItems, Count
  <2>3. QED
    BY <2>1, <2>2 DEF AttributesInv
<1>7. VsaInv => VsaInv'
  <2>1. ASSUME NEW j \in 0..Count, NEW t \in OctetStrings, AtVsas(j, t)
        PROVE  j \in 0..Count' /\ AtVsas(j, t)'
    BY <1>1, <2>1 DEF AtVsas, Behind, CiscoRead, CiscoNames, CiscoSaid, Count
  <2>2. QED
    BY <1>1, <1>4, <2>1 DEF VsaInv
<1>8. ReplyReachesClient'
  BY <1>1 DEF ReadInv, ReplyReachesClient, CiscoItems, ItemValues, GetAttribute
<1>9. QED
  BY <1>1, <1>2, <1>3, <1>4, <1>5, <1>6, <1>7, <1>8 DEF ReadInv

LEMMA NasReadInv == ASSUME Md5OK, TypeInv, ReadInv, NasReplies PROVE ReadInv'
<1> DEFINE r == reply'
           body == BodyOf(r)
           d == Datagram(r)
<1>1. /\ phase = "nas" /\ phase' = "header" /\ dict' = dict /\ attr' = attr /\ vsattr' = vsattr
      /\ r \in Replies(command) /\ copies' \in {1, 2}
      /\ octets' = IF copies' = 1 THEN d ELSE d \o d
  BY DEF NasReplies, requestVars
<1>2. ReplyOK(r) /\ AddressesOK(dict, r) /\ identifier \in Octets
  BY <1>1, GivenOK DEF TypeInv
<1>3. wire \in OctetStrings /\ Len(wire) >= HeaderSize
  BY <1>1 DEF TypeInv
<1>4. PICK h \in OctetStrings : d = h \o body /\ Len(h) = HeaderSize /\ h[1] = r.code
  BY <1>2, <1>3, DatagramIs
<1>5. body \in OctetStrings /\ d \in OctetStrings
  BY <1>2, <1>4, BodyOK, Joined
<1> HIDE DEF body, d
<1>6. \E t \in OctetStrings : octets' = h \o (body \o t) /\ (copies' = 1 => t = << >>)
  <2>1. CASE copies' = 1
    <3>1. body \o << >> = body
      BY <1>5, EmptyPart
    <3>2. QED
      BY <1>1, <1>4, <2>1, <3>1, EmptyOK
  <2>2. CASE copies' # 1
    <3>1. (h \o body) \o d = h \o (body \o d)
      BY <1>5, Assoc
    <3>2. QED
      BY <1>1, <1>4, <1>5, <2>2, <3>1
  <2>3. QED
    BY <2>1, <2>2
<1>7. HeaderInv'
  <2>1. PICK t \in OctetStrings : octets' = h \o (body \o t) /\ (copies' = 1 => t = << >>)
    BY <1>6
  <2>2. /\ octets' = h \o (BodyOf(reply') \o t) /\ t \in OctetStrings /\ (copies' = 1 => t = << >>)
        /\ Len(h) = HeaderSize /\ h[1] = reply'.code
    BY <1>4, <2>1 DEF body
  <2>3. QED
    BY <2>2 DEF HeaderInv, Behind
<1>8. QED
  BY <1>1, <1>2, <1>7 DEF ReadInv, ReplyReachesClient

LEMMA HeaderReadInv == ASSUME TypeInv, ReadInv, UnpackHeader PROVE ReadInv'
<1> DEFINE body == BodyOf(reply)
<1>1. /\ phase = "header" /\ phase' = "attributes" /\ dict' = dict /\ reply' = reply /\ copies' = copies
      /\ attr' = << >> /\ vsattr' = << >> /\ i' = 0
      /\ code' = At(octets, 0) /\ octets' = From(octets, HeaderSize, -1)
  BY DEF UnpackHeader, ReadInv, requestVars, replyVars
<1>2. ReplyOK(reply) /\ AddressesOK(dict, reply) /\ copies \in {1, 2}
  BY <1>1 DEF ReadInv
<1>3. PICK h \in OctetStrings, t \in OctetStrings :
        octets = h \o (body \o t) /\ Behind(t) /\ Len(h) = HeaderSize /\ h[1] = reply.code
  BY <1>1 DEF ReadInv, HeaderInv
<1>4. body \in OctetStrings
  BY <1>2, BodyOK
<1> HIDE DEF body
<1>5. body \o t \in OctetStrings
  BY <1>4, Joined
<1>6. code' = reply.code
  <2>1. 1 \in 1..Len(h)
    BY <1>3, Sizes
  <2>2. (h \o (body \o t))[1] = h[1]
    <3> DEFINE k == 1
               b == body \o t
    <3>1. k \in 1..Len(h) /\ b \in OctetStrings
      BY <1>5, <2>1
    <3> HIDE DEF k, b
    <3>2. (h \o b)[k] = h[k]
      BY <3>1, FrontIs
    <3>3. QED
      BY <3>2 DEF k, b
  <2>3. At(octets, 0) = octets[1]
    BY DEF At
  <2>4. QED
    BY <1>1, <1>3, <2>2, <2>3
<1>7. octets' = body \o t
  <2> DEFINE b == body \o t
  <2>1. h \in Seq(Octets) /\ b \in Seq(Octets)
    BY <1>5 DEF OctetStrings
  <2> HIDE DEF b
  <2>2. SubSeq(h \o b, Len(h) + 1, Len(h \o b)) = b
    BY <2>1, RestIs
  <2>3. From(octets, HeaderSize, -1) = SubSeq(octets, HeaderSize + 1, Len(octets))
    BY DEF From
  <2>4. octets = h \o b
    BY <1>3 DEF b
  <2>5. From(octets, HeaderSize, -1) = b
    BY <1>3, <2>2, <2>3, <2>4
  <2>6. QED
    BY <1>1, <2>5 DEF b
<1>8. PlainRead(0)'
  <2>1. ASSUME NEW name \in PlainNames PROVE Named(<< >>, name) = PlainSaid(0, name)
    <3>1. Named(<< >>, name) = << >>
      BY FlattenEmpty DEF Named
    <3>2. SaidBy(reply, 0, 0, dict.attrs[name].id) = << >>
      BY <1>2, SaidNone
    <3>3. QED
      BY <3>1, <3>2, ShownNone DEF PlainSaid
  <2>2. QED
    BY <1>1, <2>1 DEF PlainRead, PlainNames, PlainSaid, FormOf
<1>9. AmongItems(0, t)'
  <2>1. Kept(reply, 0) = << >> /\ Rest(reply, 0) = body
    BY <1>2, PiecesEnds DEF body
  <2>2. << >> \o (body \o t) = body \o t /\ Len(<< >>) = 0
    <3> DEFINE b == body \o t
    <3>1. b \in OctetStrings
      BY <1>5
    <3> HIDE DEF b
    <3>2. << >> \o b = b
      BY <3>1, EmptyPart
    <3>3. QED
      BY <3>2 DEF b
  <2>3. octets' = Kept(reply, 0) \o (Rest(reply, 0) \o t) /\ i' = Len(Kept(reply, 0))
    BY <1>1, <1>7, <2>1, <2>2
  <2>4. QED
    BY <1>1, <1>3, <1>8, <2>3 DEF AmongItems, Behind
<1>10. AttributesInv'
  <2>1. 0 \in 0..Count'
    BY <1>1, <1>2, ListsOK DEF Count
  <2>2. QED
    BY <1>9, <2>1 DEF AttributesInv
<1>11. QED
  BY <1>1, <1>2, <1>6, <1>10 DEF ReadInv, ReplyReachesClient

(* Behind all items there is something only of a second datagram.          *)
LEMMA AmongEnds ==
  ASSUME TypeInv, ReplyOK(reply), copies \in {1, 2}, NEW t, AmongItems(Count, t), i < Len(octets)
  PROVE  BehindItems(t) /\ t \in OctetStrings
<1> DEFINE kept == Kept(reply, Count)
<1>1. t \in OctetStrings /\ (copies = 1 => t = << >>) /\ PlainRead(Count)
      /\ octets = kept \o (Rest(reply, Count) \o t) /\ i = Len(kept)
  BY DEF AmongItems, Behind
<1>2. Rest(reply, Count) = << >>
  BY PiecesEnds DEF Count
<1>3. kept \in OctetStrings
  <2>1. Count \in 0..Len(reply.items)
    BY ListsOK DEF Count
  <2>2. QED
    BY <2>1, PiecesOK
<1>4. << >> \o t = t /\ kept \o << >> = kept
  <2> HIDE DEF kept
  <2>1. QED
    BY <1>1, <1>3, EmptyPart
<1>5. octets = kept \o t
  BY <1>1, <1>2, <1>4
<1>6. copies = 2
  <2>1. copies = 1 => octets = kept
    BY <1>1, <1>4, <1>5
  <2>2. Len(kept) \in Nat
    BY <1>3, LenOK
  <2>3. QED
    BY <1>1, <2>1, <2>2
<1>7. PlainHas
  BY <1>1, ReadHas
<1>8. i >= Len(kept)
  BY <1>1, <1>3, LenOK
<1>9. QED
  BY <1>1, <1>5, <1>6, <1>7, <1>8 DEF BehindItems

LEMMA PassReadInv == ASSUME TypeInv, ReadInv, PassOver PROVE ReadInv'
<1>1. /\ phase = "attributes" /\ phase' = "attributes" /\ dict' = dict /\ reply' = reply
      /\ copies' = copies /\ attr' = attr /\ vsattr' = vsattr /\ code' = code /\ octets' = octets
      /\ i' = i + Size /\ Id = VendorSpecific /\ i < Len(octets) /\ i + 1 < Len(octets)
  BY DEF PassOver, Passes, Reading, requestVars, replyVars
<1>2. ReplyOK(reply) /\ AddressesOK(dict, reply) /\ copies \in {1, 2} /\ AttributesInv
  BY <1>1 DEF ReadInv
<1>3. ASSUME NEW t \in OctetStrings, BehindItems(t) PROVE BehindItems(t)'
  <2>1. copies = 2 /\ octets = Kept(reply, Count) \o t /\ i >= Len(Kept(reply, Count)) /\ PlainHas
    BY <1>3 DEF BehindItems
  <2>2. Size \in Nat /\ i \in Nat
    <3>1. octets \in OctetStrings /\ i + 1 \in Nat /\ i \in Nat
      BY DEF TypeInv
    <3>2. At(octets, i + 1) \in Octets
      BY <1>1, <3>1, AtOK
    <3>3. QED
      BY <3>1, <3>2, OctetsOK DEF Size
  <2>3. Len(Kept(reply, Count)) \in Nat
    <3>1. Count \in 0..Len(reply.items)
      BY <1>2, ListsOK DEF Count
    <3>2. QED
      BY <1>2, <3>1, PiecesOK, LenOK
  <2>4. i' >= Len(Kept(reply, Count))
    BY <1>1, <2>1, <2>2, <2>3
  <2>5. PlainHas'
    BY <1>1, <2>1 DEF PlainHas, PlainNames, PlainSaid, FormOf, Count
  <2>6. QED
    BY <1>1, <2>1, <2>4, <2>5 DEF BehindItems, Count
<1>4. ASSUME NEW j \in 0..Count, NEW t \in OctetStrings, AmongItems(j, t), j # Count
      PROVE  \E k \in 0..Count : AmongItems(k, t)'
  <2> DEFINE k == j + 1
  <2>1. k \in 1..Count /\ k = j + 1 /\ k \in 0..Count
    BY <1>2, <1>4, ListsOK DEF Count
  <2> HIDE DEF k
  <2> DEFINE item == reply.items[k]
             left == Kept(reply, j)
             rest == Rest(reply, k) \o t
             b    == ItemOctets(item)
  <2>2. StandsAt(item, left, rest)
    BY <1>2, <1>4, <2>1, AmongStands
  <2>3. /\ Id = (IF item.vendor = 0 THEN item.id ELSE VendorSpecific)
        /\ left \o b \in OctetStrings /\ i + Size = Len(left \o b)
    BY <2>2, ItemFound
  <2>4. item.vendor # 0
    BY <1>1, <2>2, <2>3 DEF StandsAt, Fitting
  <2>5. Kept(reply, k) = left \o b
    BY <1>2, <2>1, <2>4, PiecesNext DEF Count
  <2>6. octets = (left \o b) \o rest
    <3>1. /\ left \in OctetStrings /\ rest \in OctetStrings /\ b \in OctetStrings
          /\ octets = left \o (b \o rest)
      BY <1>2, <2>1, <2>2, ItemsFit DEF StandsAt, Count
    <3> HIDE DEF left, rest, b
    <3>2. QED
      BY <3>1, Assoc
  <2>7. PlainRead(k)'
    BY <1>1, <1>2, <1>4, <2>1, <2>4, PlainPass DEF AmongItems
  <2>8. Behind(t)'
    BY <1>1, <1>4 DEF AmongItems, Behind
  <2>9. octets' = Kept(reply', k) \o (Rest(reply', k) \o t) /\ i' = Len(Kept(reply', k))
    BY <1>1, <2>3, <2>5, <2>6
  <2>10. AmongItems(k, t)'
    BY <2>7, <2>8, <2>9 DEF AmongItems
  <2>11. QED
    BY <2>1, <2>10
<1>5. AttributesInv'
  <2>1. CASE \E t \in OctetStrings : BehindItems(t)
    BY <1>3, <2>1 DEF AttributesInv
  <2>2. CASE \E j \in 0..Count, t \in OctetStrings : AmongItems(j, t)
    <3>1. PICK j \in 0..Count, t \in OctetStrings : AmongItems(j, t)
      BY <2>2
    <3>2. CASE j = Count
      <4>1. BehindItems(t)
        BY <1>1, <1>2, <3>1, <3>2, AmongEnds
      <4>2. QED
        BY <1>3, <4>1 DEF AttributesInv
    <3>3. CASE j # Count
      <4>1. Count' = Count
        BY <1>1 DEF Count
      <4>2. QED
        BY <1>4, <3>1, <3>3, <4>1 DEF AttributesInv
    <3>4. QED
      BY <3>2, <3>3
  <2>3. QED
    BY <1>2, <2>1, <2>2 DEF AttributesInv
<1>6. QED
  BY <1>1, <1>2, <1>5 DEF ReadInv, ReplyReachesClient

LEMMA AttributeReadInv == ASSUME TypeInv, ReadInv, ReadAttribute PROVE ReadInv'
<1>1. /\ phase = "attributes" /\ phase' = "attributes" /\ dict' = dict /\ reply' = reply
      /\ copies' = copies /\ vsattr' = vsattr /\ code' = code
      /\ octets' = Erased(octets, i, Size) /\ i' = i
      /\ Id # VendorSpecific /\ i < Len(octets) /\ i + 1 < Len(octets)
  BY DEF ReadAttribute, CutOut, Reading, requestVars, replyVars
<1>2. ReplyOK(reply) /\ AddressesOK(dict, reply) /\ copies \in {1, 2} /\ AttributesInv
  BY <1>1 DEF ReadInv
<1>3. ASSUME NEW t \in OctetStrings, BehindItems(t)
      PROVE  \E u \in OctetStrings : BehindItems(u)'
  <2> DEFINE kept == Kept(reply, Count)
  <2>1. copies = 2 /\ octets = kept \o t /\ i >= Len(kept) /\ PlainHas
    BY <1>3 DEF BehindItems
  <2>2. kept \in OctetStrings
    <3>1. Count \in 0..Len(reply.items)
      BY <1>2, ListsOK DEF Count
    <3>2. QED
      BY <1>2, <3>1, PiecesOK
  <2>3. Size \in Nat /\ i \in Nat
    <3>1. octets \in OctetStrings /\ i + 1 \in Nat /\ i \in Nat
      BY DEF TypeInv
    <3>2. At(octets, i + 1) \in Octets
      BY <1>1, <3>1, AtOK
    <3>3. QED
      BY <3>1, <3>2, OctetsOK DEF Size
  <2> HIDE DEF kept
  <2>4. \E u \in OctetStrings : Erased(kept \o t, i, Size) = kept \o u
    <3> DEFINE n == Size
    <3>1. n \in Nat /\ i < Len(kept \o t)
      BY <1>1, <2>1, <2>3
    <3> HIDE DEF n
    <3>2. \E u \in OctetStrings : Erased(kept \o t, i, n) = kept \o u
      BY <2>1, <2>2, <2>3, <3>1, BehindErased
    <3>3. QED
      BY <3>2 DEF n
  <2>5. PICK u \in OctetStrings : octets' = kept \o u
    BY <1>1, <2>1, <2>4
  <2>6. PlainHas'
    BY <1>2, <2>1, PlainHasStep
  <2>7. kept = Kept(reply', Count')
    BY <1>1 DEF kept, Count
  <2>8. BehindItems(u)'
    BY <1>1, <2>1, <2>5, <2>6, <2>7 DEF BehindItems
  <2>9. QED
    BY <2>8
<1>4. ASSUME NEW j \in 0..Count, NEW t \in OctetStrings, AmongItems(j, t), j # Count
      PROVE  \E k \in 0..Count : AmongItems(k, t)'
  <2> DEFINE k == j + 1
  <2>1. k \in 1..Count /\ k = j + 1 /\ k \in 0..Count
    BY <1>2, <1>4, ListsOK DEF Count
  <2> HIDE DEF k
  <2> DEFINE item == reply.items[k]
             left == Kept(reply, j)
             rest == Rest(reply, k) \o t
             b    == ItemOctets(item)
  <2>2. StandsAt(item, left, rest)
    BY <1>2, <1>4, <2>1, AmongStands
  <2>3. /\ Id = (IF item.vendor = 0 THEN item.id ELSE VendorSpecific)
        /\ Erased(octets, i, Size) = left \o rest
    BY <2>2, ItemFound
  <2>4. item.vendor = 0
    BY <1>1, <2>3
  <2>5. Kept(reply, k) = left
    BY <1>2, <2>1, <2>4, PiecesNext DEF Count
  <2>6. PlainRead(k)'
    BY <1>2, <1>4, <2>1, <2>2, <2>4, PlainStep DEF AmongItems
  <2>7. Behind(t)' /\ i = Len(left)
    BY <1>1, <1>4 DEF AmongItems, Behind
  <2>8. octets' = Kept(reply', k) \o (Rest(reply', k) \o t) /\ i' = Len(Kept(reply', k))
    BY <1>1, <2>3, <2>5, <2>7
  <2>9. AmongItems(k, t)'
    BY <2>6, <2>7, <2>8 DEF AmongItems
  <2>10. QED
    BY <2>1, <2>9
<1>5. AttributesInv'
  <2>1. CASE \E t \in OctetStrings : BehindItems(t)
    BY <1>3, <2>1 DEF AttributesInv
  <2>2. CASE \E j \in 0..Count, t \in OctetStrings : AmongItems(j, t)
    <3>1. PICK j \in 0..Count, t \in OctetStrings : AmongItems(j, t)
      BY <2>2
    <3>2. CASE j = Count
      <4>1. BehindItems(t)
        BY <1>1, <1>2, <3>1, <3>2, AmongEnds
      <4>2. QED
        BY <1>3, <4>1 DEF AttributesInv
    <3>3. CASE j # Count
      <4>1. Count' = Count
        BY <1>1 DEF Count
      <4>2. QED
        BY <1>4, <3>1, <3>3, <4>1 DEF AttributesInv
    <3>4. QED
      BY <3>2, <3>3
  <2>3. QED
    BY <1>2, <2>1, <2>2 DEF AttributesInv
<1>6. QED
  BY <1>1, <1>2, <1>5 DEF ReadInv, ReplyReachesClient

(* What stands in front is a vendor specific item, or what is behind all.  *)
LEMMA VsaFront ==
  ASSUME TypeInv, ReplyOK(reply), \E j \in 0..Count, t \in OctetStrings : AtVsas(j, t)
  PROVE  \E j \in 0..Count, t \in OctetStrings :
           AtVsas(j, t) /\ (j = Count \/ \E k \in 1..Count : k = j + 1 /\ reply.items[k].vendor # 0)
<1> DEFINE T == {n \in 0..Count : \E j \in 0..Count, t \in OctetStrings : n = Count - j /\ AtVsas(j, t)}
<1>1. Count \in Nat /\ Count = Len(reply.items)
  BY ListsOK DEF Count
<1>2. T \in SUBSET Nat /\ T # {}
  <2>1. PICK j \in 0..Count, t \in OctetStrings : AtVsas(j, t)
    OBVIOUS
  <2>2. Count - j \in 0..Count
    BY <1>1
  <2>3. Count - j \in T
    BY <2>1, <2>2
  <2>4. T \subseteq 0..Count /\ 0..Count \subseteq Nat
    BY <1>1
  <2> HIDE DEF T
  <2>5. QED
    BY <2>3, <2>4
<1>3. PICK n \in T : \A m \in T : n <= m
  <2> HIDE DEF T
  <2>1. QED
    BY <1>2, LeastNat
<1>4. PICK j \in 0..Count, t \in OctetStrings : n = Count - j /\ AtVsas(j, t)
  BY <1>3
<1>5. ASSUME NEW k \in 1..Count, k = j + 1, reply.items[k].vendor = 0 PROVE FALSE
  <2>1. VsaRest(reply, j) = VsaRest(reply, k)
    BY <1>1, <1>5, PiecesNext
  <2>2. CiscoRead(k)
    BY <1>4, <1>5, CiscoPass DEF AtVsas
  <2>3. AtVsas(k, t)
    BY <1>4, <2>1, <2>2 DEF AtVsas
  <2>4. Count - k \in 0..Count /\ k \in 0..Count /\ ~(n <= Count - k)
    BY <1>1, <1>4, <1>5
  <2>5. Count - k \in T
    BY <2>3, <2>4
  <2> HIDE DEF T
  <2>6. QED
    BY <1>3, <2>4, <2>5
<1>6. j # Count => j + 1 \in 1..Count
  BY <1>1
<1>7. QED
  BY <1>4, <1>5, <1>6

LEMMA VsaEnds ==
  ASSUME ReplyOK(reply), NEW t, AtVsas(Count, t) PROVE octets = t /\ CiscoHas
<1>1. VsaRest(reply, Count) = << >>
  BY PiecesEnds DEF Count
<1>2. octets = t /\ CiscoRead(Count)
  BY <1>1, EmptyPart DEF AtVsas, Behind
<1>3. QED
  BY <1>2, ReadHas

LEMMA VsaReadInv == ASSUME TypeInv, ReadInv, ReadVsa PROVE ReadInv'
<1>1. /\ phase = "vsa" /\ phase' = "vsa" /\ dict' = dict /\ reply' = reply
      /\ copies' = copies /\ attr' = attr /\ code' = code /\ i' = i
      /\ octets' = Erased(octets, i, Size) /\ i < Len(octets)
  BY DEF ReadVsa, CutOut, Reading, requestVars, replyVars, ReadInv
<1>2. /\ ReplyOK(reply) /\ AddressesOK(dict, reply) /\ copies \in {1, 2} /\ VsaInv
      /\ PlainHas /\ (copies = 1 => PlainRead(Count)) /\ code = reply.code
  BY <1>1 DEF ReadInv
<1>3. ASSUME copies = 2, CiscoHas PROVE VsaInv'
  <2>1. CiscoHas'
    BY <1>2, <1>3, CiscoHasStep
  <2>2. QED
    BY <1>1, <1>3, <2>1 DEF VsaInv
<1>4. ASSUME \E j \in 0..Count, t \in OctetStrings : AtVsas(j, t) PROVE VsaInv'
  <2>1. PICK j \in 0..Count, t \in OctetStrings :
          AtVsas(j, t) /\ (j = Count \/ \E k \in 1..Count : k = j + 1 /\ reply.items[k].vendor # 0)
    BY <1>2, <1>4, VsaFront
  <2>2. CASE j = Count
    <3>1. octets = t /\ CiscoHas
      BY <1>2, <2>1, <2>2, VsaEnds
    <3>2. copies = 2
      <4>1. Len(<< >>) = 0
        OBVIOUS
      <4>2. QED
        BY <1>1, <1>2, <2>1, <3>1, <4>1 DEF AtVsas, Behind
    <3>3. QED
      BY <1>3, <3>1, <3>2
  <2>3. CASE j # Count
    <3>1. PICK k \in 1..Count : k = j + 1 /\ reply.items[k].vendor # 0
      BY <2>1, <2>3
    <3> DEFINE rest == VsaRest(reply, k) \o t
               none == << >>
    <3>2. StandsAt(reply.items[k], none, rest) /\ rest \in OctetStrings
      BY <1>1, <1>2, <2>1, <3>1, VsaStands
    <3> HIDE DEF rest, none
    <3>3. Erased(octets, i, Size) = none \o rest
      BY <3>2, ItemFound
    <3>4. none \o rest = rest
      BY <3>2, EmptyPart DEF none
    <3>5. CiscoRead(k)'
      BY <1>2, <2>1, <3>1, <3>2, CiscoStep DEF AtVsas
    <3>6. octets' = VsaRest(reply', k) \o t
      BY <1>1, <3>3, <3>4 DEF rest
    <3>7. AtVsas(k, t)'
      BY <1>1, <2>1, <3>5, <3>6 DEF AtVsas, Behind
    <3>8. k \in 0..Count'
      BY <1>1 DEF Count
    <3>9. QED
      BY <3>7, <3>8 DEF VsaInv
  <2>4. QED
    BY <2>2, <2>3
<1>5. VsaInv'
  BY <1>2, <1>3, <1>4 DEF VsaInv
<1>6. PlainHas' /\ (copies' = 1 => PlainRead(Count)')
  BY <1>1, <1>2 DEF PlainHas, PlainRead, PlainNames, PlainSaid, FormOf, Count
<1>7. QED
  BY <1>1, <1>2, <1>5, <1>6 DEF ReadInv, ReplyReachesClient

(* Only behind a second copy is there anything but a vendor specific item. *)
LEMMA PlainPassReadInv == ASSUME TypeInv, ReadInv, PassOverPlain PROVE ReadInv'
<1>1. /\ phase = "vsa" /\ phase' = "vsa" /\ dict' = dict /\ reply' = reply
      /\ copies' = copies /\ attr' = attr /\ vsattr' = vsattr /\ code' = code
      /\ i < Len(octets) /\ Id # VendorSpecific
  BY DEF PassOverPlain, Reading, requestVars, replyVars
<1>2. /\ ReplyOK(reply) /\ AddressesOK(dict, reply) /\ copies \in {1, 2} /\ VsaInv
      /\ PlainHas /\ (copies = 1 => PlainRead(Count)) /\ code = reply.code
  BY <1>1 DEF ReadInv
<1>3. copies = 2 /\ CiscoHas
  <2>1. CASE \E j \in 0..Count, t \in OctetStrings : AtVsas(j, t)
    <3>1. PICK j \in 0..Count, t \in OctetStrings :
            AtVsas(j, t) /\ (j = Count \/ \E k \in 1..Count : k = j + 1 /\ reply.items[k].vendor # 0)
      BY <1>2, <2>1, VsaFront
    <3>2. ASSUME NEW k \in 1..Count, k = j + 1, reply.items[k].vendor # 0 PROVE FALSE
      <4> DEFINE rest == VsaRest(reply, k) \o t
                 none == << >>
                 item == reply.items[k]
      <4>1. StandsAt(item, none, rest) /\ item.vendor # 0
        BY <1>2, <3>1, <3>2, VsaStands
      <4> HIDE DEF rest, none, item
      <4>2. Id = VendorSpecific
        BY <4>1, ItemFound
      <4>3. QED
        BY <1>1, <4>2
    <3>3. AtVsas(Count, t)
      BY <3>1, <3>2
    <3>4. octets = t /\ CiscoHas
      BY <1>2, <3>3, VsaEnds
    <3>5. copies # 1
      <4>1. ASSUME t = << >> PROVE FALSE
        <5>1. Len(octets) = 0 /\ i \in Nat
          BY <3>4, <4>1 DEF TypeInv
        <5>2. QED
          BY <1>1, <5>1
      <4>2. QED
        BY <3>3, <4>1 DEF AtVsas, Behind
    <3>6. QED
      BY <1>2, <3>4, <3>5
  <2>2. QED
    BY <1>2, <2>1 DEF VsaInv
<1>4. CiscoHas'
  BY <1>1, <1>3 DEF CiscoHas, CiscoNames, CiscoSaid, Count
<1>5. VsaInv'
  BY <1>1, <1>3, <1>4 DEF VsaInv
<1>6. PlainHas' /\ (copies' = 1 => PlainRead(Count)')
  BY <1>1, <1>2 DEF PlainHas, PlainRead, PlainNames, PlainSaid, FormOf, Count
<1>7. QED
  BY <1>1, <1>2, <1>5, <1>6 DEF ReadInv, ReplyReachesClient

LEMMA LoopEndsReadInv == ASSUME TypeInv, ReadInv, LoopEnds PROVE ReadInv'
<1>1. /\ phase \in {"attributes", "vsa"} /\ i >= Len(octets) /\ i \in Nat /\ Len(octets) \in Nat
      /\ phase' = (IF phase = "attributes" THEN "vsa" ELSE "wrap") /\ i' = 0
      /\ dict' = dict /\ reply' = reply /\ copies' = copies /\ octets' = octets
      /\ attr' = attr /\ vsattr' = vsattr /\ code' = code
  BY LenOK DEF LoopEnds, requestVars, replyVars, TypeInv
<1>2. /\ ReplyOK(reply) /\ AddressesOK(dict, reply) /\ copies \in {1, 2} /\ code = reply.code
  BY <1>1 DEF ReadInv
<1>3. ASSUME PlainHas /\ (copies = 1 => PlainRead(Count))
      PROVE  PlainHas' /\ (copies' = 1 => PlainRead(Count)')
  BY <1>1, <1>3 DEF PlainHas, PlainRead, PlainNames, PlainSaid, FormOf, Count
<1>4. CASE phase = "attributes"
  <2>1. AttributesInv /\ vsattr = << >>
    BY <1>4 DEF ReadInv
  <2>2. \E t \in OctetStrings :
          /\ Behind(t) /\ octets = Kept(reply, Count) \o t
          /\ PlainHas /\ (copies = 1 => PlainRead(Count))
    <3>1. CASE \E t \in OctetStrings : BehindItems(t)
      BY <3>1 DEF BehindItems, Behind
    <3>2. ASSUME NEW j \in 0..Count, NEW t \in OctetStrings, AmongItems(j, t), j # Count PROVE FALSE
      <4> DEFINE k == j + 1
      <4>1. k \in 1..Count /\ k = j + 1
        BY <1>2, <3>2, ListsOK DEF Count
      <4> HIDE DEF k
      <4> DEFINE item == reply.items[k]
                 left == Kept(reply, j)
                 rest == Rest(reply, k) \o t
      <4>2. StandsAt(item, left, rest)
        BY <1>2, <3>2, <4>1, AmongStands
      <4> HIDE DEF item, left, rest
      <4>3. i + HeadSize(item) <= Len(octets)
        BY <4>2, ItemFound
      <4>4. HeadSize(item) \in Nat /\ HeadSize(item) >= 2
        BY Sizes DEF HeadSize
      <4>5. QED
        BY <1>1, <4>3, <4>4
    <3>3. ASSUME NEW t \in OctetStrings, AmongItems(Count, t) PROVE octets = Kept(reply, Count) \o t
      <4>1. Rest(reply, Count) = << >> /\ << >> \o t = t
        BY <1>2, PiecesEnds, EmptyPart DEF Count
      <4>2. QED
        BY <3>3, <4>1 DEF AmongItems
    <3>4. CASE \E j \in 0..Count, t \in OctetStrings : AmongItems(j, t)
      <4>1. PICK t \in OctetStrings : AmongItems(Count, t)
        BY <3>2, <3>4
      <4>2. Behind(t) /\ PlainRead(Count)
        BY <4>1 DEF AmongItems
      <4>3. PlainHas
        BY <1>2, <4>2, ReadHas
      <4>4. QED
        BY <3>3, <4>1, <4>2, <4>3
    <3>5. QED
      BY <2>1, <3>1, <3>4 DEF AttributesInv
  <2>3. PICK t \in OctetStrings :
          /\ Behind(t) /\ octets = Kept(reply, Count) \o t
          /\ PlainHas /\ (copies = 1 => PlainRead(Count))
    BY <2>2
  <2>4. CiscoRead(0)'
    <3>1. ASSUME NEW name \in CiscoNames PROVE NamedCisco(<< >>, name) = CiscoSaid(0, name)
      <4>1. NamedCisco(<< >>, name) = << >>
        BY FlattenEmpty DEF NamedCisco
      <4>2. SaidBy(reply, 0, dict.vendors["Cisco"], dict.attrs[name].id) = << >>
        BY <1>2, SaidNone
      <4>3. QED
        BY <4>1, <4>2, ShownNone DEF CiscoSaid
    <3>2. QED
      BY <1>1, <2>1, <3>1 DEF CiscoRead, CiscoNames, CiscoSaid
  <2>5. octets' = VsaRest(reply', 0) \o t
    <3>1. VsaRest(reply, 0) = Kept(reply, Count)
      BY <1>2, PiecesEnds DEF Count
    <3>2. QED
      BY <1>1, <2>3, <3>1
  <2>6. AtVsas(0, t)'
    BY <1>1, <2>3, <2>4, <2>5 DEF AtVsas, Behind
  <2>7. VsaInv'
    <3>1. 0 \in 0..Count'
      BY <1>1, <1>2, ListsOK DEF Count
    <3>2. QED
      BY <2>6, <3>1 DEF VsaInv
  <2>8. QED
    BY <1>1, <1>2, <1>3, <1>4, <2>3, <2>7 DEF ReadInv, ReplyReachesClient
<1>5. CASE phase = "vsa"
  <2>1. VsaInv /\ PlainHas /\ (copies = 1 => PlainRead(Count))
    BY <1>5 DEF ReadInv
  <2>2. CiscoHas /\ (copies = 1 => CiscoRead(Count))
    <3>1. CASE \E j \in 0..Count, t \in OctetStrings : AtVsas(j, t)
      <4>1. PICK j \in 0..Count, t \in OctetStrings :
              AtVsas(j, t) /\ (j = Count \/ \E k \in 1..Count : k = j + 1 /\ reply.items[k].vendor # 0)
        BY <1>2, <3>1, VsaFront
      <4>2. ASSUME NEW k \in 1..Count, k = j + 1, reply.items[k].vendor # 0 PROVE FALSE
        <5> DEFINE rest == VsaRest(reply, k) \o t
                   none == << >>
                   item == reply.items[k]
        <5>1. StandsAt(item, none, rest)
          BY <1>2, <2>1, <4>1, <4>2, VsaStands
        <5> HIDE DEF rest, none, item
        <5>2. i + HeadSize(item) <= Len(octets)
          BY <5>1, ItemFound
        <5>3. HeadSize(item) \in Nat /\ HeadSize(item) >= 2
          BY Sizes DEF HeadSize
        <5>4. QED
          BY <1>1, <5>2, <5>3
      <4>3. j = Count
        BY <4>1, <4>2
      <4>4. AtVsas(Count, t)
        BY <4>1, <4>3
      <4>5. CiscoHas
        BY <1>2, <4>4, VsaEnds
      <4>6. QED
        BY <4>4, <4>5 DEF AtVsas
    <3>2. QED
      BY <2>1, <3>1 DEF VsaInv
  <2>3. CiscoHas' /\ (copies' = 1 => CiscoRead(Count)')
    BY <1>1, <2>2 DEF CiscoHas, CiscoRead, CiscoNames, CiscoSaid, Count
  <2>4. QED
    BY <1>1, <1>2, <1>3, <1>5, <2>1, <2>3 DEF ReadInv, ReplyReachesClient
<1>6. QED
  BY <1>1, <1>4, <1>5

(* Only a reply that is read with its copy can end in the middle.          *)
LEMMA ThrowsReadInv == ASSUME TypeInv, ReadInv, UnpackThrows PROVE ReadInv'
<1>1. /\ phase' = "told" /\ told' = [as |-> "empty"] /\ copies' = copies /\ OutOfRange
      /\ Len(octets) \in Nat /\ i \in Nat
  BY LenOK DEF UnpackThrows, replyVars, TypeInv
<1>2. ASSUME NEW j \in 0..Count, NEW k \in 1..Count, k = j + 1, NEW t,
             phase = "attributes", AmongItems(j, t)
      PROVE  FALSE
  <2> DEFINE item == reply.items[k]
             left == Kept(reply, j)
             rest == Rest(reply, k) \o t
  <2>1. ReplyOK(reply) /\ i + 1 >= Len(octets)
    BY <1>1, <1>2 DEF ReadInv, OutOfRange, Reading
  <2>2. StandsAt(item, left, rest)
    BY <1>2, <2>1, AmongStands
  <2> HIDE DEF item, left, rest
  <2>3. i + HeadSize(item) <= Len(octets)
    BY <2>2, ItemFound
  <2>4. HeadSize(item) \in Nat /\ HeadSize(item) >= 2
    BY Sizes DEF HeadSize
  <2>5. QED
    BY <1>1, <2>1, <2>3, <2>4
<1>3. ASSUME NEW j \in 0..Count, NEW k \in 1..Count, k = j + 1, NEW t,
             phase = "vsa", AtVsas(j, t), reply.items[k].vendor # 0
      PROVE  FALSE
  <2> DEFINE item == reply.items[k]
             rest == VsaRest(reply, k) \o t
             none == << >>
  <2>1. ReplyOK(reply) /\ (i + 1 >= Len(octets) \/ i + VsaHeader > Len(octets))
    BY <1>1, <1>3 DEF ReadInv, OutOfRange, Reading
  <2>2. StandsAt(item, none, rest)
    BY <1>3, <2>1, VsaStands
  <2>3. HeadSize(item) = VsaHeader /\ VsaHeader \in Nat /\ VsaHeader >= 2
    BY <1>3, Sizes DEF HeadSize
  <2> HIDE DEF item, rest, none
  <2>4. i + HeadSize(item) <= Len(octets)
    BY <2>2, ItemFound
  <2>5. QED
    BY <1>1, <2>1, <2>3, <2>4
<1>4. CASE phase = "header"
  <2>1. ReplyOK(reply) /\ HeaderInv /\ Len(octets) < 4
    BY <1>1, <1>4 DEF ReadInv, OutOfRange, Reading
  <2>2. PICK h \in OctetStrings, t \in OctetStrings :
          octets = h \o (BodyOf(reply) \o t) /\ Len(h) = HeaderSize
    BY <2>1 DEF HeaderInv
  <2> DEFINE b == BodyOf(reply) \o t
  <2>3. b \in OctetStrings
    BY <2>1, BodyOK, Joined
  <2> HIDE DEF b
  <2>4. Len(h \o b) = Len(h) + Len(b) /\ Len(b) \in Nat
    BY <2>3, Joined, LenOK
  <2>5. octets = h \o b
    BY <2>2 DEF b
  <2>6. QED
    BY <2>1, <2>2, <2>4, <2>5, Sizes
<1>5. CASE phase = "attributes"
  <2>1. ReplyOK(reply) /\ copies \in {1, 2} /\ AttributesInv /\ i < Len(octets)
    BY <1>1, <1>5 DEF ReadInv, OutOfRange, Reading
  <2>2. CASE \E t \in OctetStrings : BehindItems(t)
    BY <1>1, <2>2 DEF BehindItems, ReadInv, ReplyReachesClient
  <2>3. CASE \E j \in 0..Count, t \in OctetStrings : AmongItems(j, t)
    <3>1. PICK j \in 0..Count, t \in OctetStrings : AmongItems(j, t)
      BY <2>3
    <3>2. CASE j = Count
      <4>1. BehindItems(t)
        BY <2>1, <3>1, <3>2, AmongEnds
      <4>2. QED
        BY <2>2, <4>1
    <3>3. CASE j # Count
      <4> DEFINE k == j + 1
      <4>1. k \in 1..Count /\ k = j + 1
        BY <2>1, <3>3, ListsOK DEF Count
      <4> HIDE DEF k
      <4>2. QED
        BY <1>2, <1>5, <3>1, <4>1
    <3>4. QED
      BY <3>2, <3>3
  <2>4. QED
    BY <2>1, <2>2, <2>3 DEF AttributesInv
<1>6. CASE phase = "vsa"
  <2>1. ReplyOK(reply) /\ copies \in {1, 2} /\ VsaInv /\ i < Len(octets)
    BY <1>1, <1>6 DEF ReadInv, OutOfRange, Reading
  <2>2. copies = 2
    <3>1. CASE \E j \in 0..Count, t \in OctetStrings : AtVsas(j, t)
      <4>1. PICK j \in 0..Count, t \in OctetStrings :
              AtVsas(j, t) /\ (j = Count \/ \E k \in 1..Count : k = j + 1 /\ reply.items[k].vendor # 0)
        BY <2>1, <3>1, VsaFront
      <4>2. AtVsas(Count, t)
        BY <1>3, <1>6, <4>1
      <4>3. octets = t /\ Behind(t)
        BY <2>1, <4>2, VsaEnds DEF AtVsas
      <4>4. Len(<< >>) = 0
        OBVIOUS
      <4>5. QED
        BY <1>1, <2>1, <4>3, <4>4 DEF Behind
    <3>2. QED
      BY <2>1, <3>1 DEF VsaInv
  <2>3. QED
    BY <1>1, <2>2 DEF ReadInv, ReplyReachesClient
<1>7. QED
  BY <1>1, <1>4, <1>5, <1>6 DEF OutOfRange, Reading

(* What is read is what the items say, in the form that is shown.          *)
LEMMA CiscoIs ==
  ASSUME ReplyOK(reply), NEW name
  PROVE  CiscoSaid(Count, name) = Shown("text", CiscoItems(name)) /\ CiscoValues(name) = NamedCisco(vsattr, name)
BY SaidAll DEF CiscoSaid, CiscoItems, CiscoValues, NamedCisco, Count, GetAttribute

LEMMA PlainIs ==
  ASSUME ReplyOK(reply), NEW name
  PROVE  /\ PlainSaid(Count, name) = Shown(FormOf(name), ItemValues(0, GetAttribute(dict, name).id))
         /\ Values(name) = Named(attr, name)
BY SaidAll DEF PlainSaid, Values, Named, Count, GetAttribute

LEMMA CiscoAgrees ==
  ASSUME TypeInv, ReadInv, phase = "wrap", NEW name \in CiscoNames
  PROVE  /\ copies = 1 => CiscoValues(name) = Shown("text", CiscoItems(name))
         /\ copies # 1 => IsPrefix(Shown("text", CiscoItems(name)), CiscoValues(name))
         /\ copies # 1 => IsPrefix(Tails(Shown("text", CiscoItems(name))), Tails(CiscoValues(name)))
<1> DEFINE s == CiscoSaid(Count, name)
           t == NamedCisco(vsattr, name)
<1>1. ReplyOK(reply) /\ CiscoHas /\ (copies = 1 => CiscoRead(Count))
  BY DEF ReadInv
<1>2. s = Shown("text", CiscoItems(name)) /\ t = CiscoValues(name)
  BY <1>1, CiscoIs
<1>3. s \in Seq(Readings)
  <2>1. Count \in 0..Count
    BY <1>1, ListsOK DEF Count
  <2>2. QED
    BY <1>1, <2>1, SaidTyped
<1>4. t \in Seq(Readings)
  BY NamedCiscoOK DEF TypeInv
<1>5. Starts(s, t) /\ (copies = 1 => t = s)
  BY <1>1 DEF CiscoHas, CiscoRead
<1> HIDE DEF s, t
<1>6. IsPrefix(s, t) /\ IsPrefix(Tails(s), Tails(t))
  BY <1>3, <1>4, <1>5, StartsPrefix, PrefixOfTails
<1>7. QED
  BY <1>2, <1>5, <1>6

LEMMA PlainAgrees ==
  ASSUME TypeInv, ReadInv, phase = "wrap", NEW name \in PlainNames
  PROVE  LET said == Shown(FormOf(name), ItemValues(0, GetAttribute(dict, name).id))
         IN  /\ copies = 1 => Values(name) = said
             /\ copies # 1 => IsPrefix(said, Values(name))
<1> DEFINE s == PlainSaid(Count, name)
           t == Named(attr, name)
<1>1. ReplyOK(reply) /\ PlainHas /\ (copies = 1 => PlainRead(Count))
  BY DEF ReadInv
<1>2. s = Shown(FormOf(name), ItemValues(0, GetAttribute(dict, name).id)) /\ t = Values(name)
  BY <1>1, PlainIs
<1>3. s \in Seq(Readings)
  <2>1. Count \in 0..Count
    BY <1>1, ListsOK DEF Count
  <2>2. QED
    BY <1>1, <2>1, SaidTyped
<1>4. t \in Seq(Readings)
  BY NamedOK DEF TypeInv
<1>5. Starts(s, t) /\ (copies = 1 => t = s)
  BY <1>1 DEF PlainHas, PlainRead
<1> HIDE DEF s, t
<1>6. IsPrefix(s, t)
  BY <1>3, <1>4, <1>5, StartsPrefix
<1>7. QED
  BY <1>2, <1>5, <1>6

(* A reply that is read alone is wrapped or not as it says.                *)
LEMMA WrappableIs ==
  ASSUME TypeInv, ReadInv, phase = "wrap", "Cisco" \in DOMAIN dict.vendors, copies = 1
  PROVE  Wrappable <=> /\ ValueStrings(dict, "Packet-Type", reply.code) # {}
                       /\ << >> \notin Range(CiscoItems("Cisco-Command-Code"))
<1> DEFINE name == "Cisco-Command-Code"
           said == CiscoItems(name)
           read == CiscoValues(name)
<1>1. code = reply.code
  BY DEF ReadInv
<1>2. name \in CiscoNames
  BY DEF CiscoNames
<1> HIDE DEF name
<1>3. read = Shown("text", said)
  BY <1>2, CiscoAgrees
<1>4. DOMAIN read = DOMAIN said /\ \A k \in DOMAIN read : read[k].of = said[k]
  <2> HIDE DEF said, read
  <2>1. QED
    BY <1>3 DEF Shown
<1>5. Wrappable <=> /\ ValueStrings(dict, "Packet-Type", code) # {}
                    /\ \A k \in DOMAIN read : read[k].of # << >>
  BY DEF Wrappable, name
<1>6. (\A k \in DOMAIN read : read[k].of # << >>) <=> << >> \notin Range(said)
  <2> HIDE DEF said, read
  <2>1. QED
    BY <1>4 DEF Range
<1>7. QED
  BY <1>1, <1>5, <1>6 DEF name

LEMMA WrapThrowsReadInv == ASSUME TypeInv, ReadInv, WrapThrows PROVE ReadInv'
<1>1. /\ phase = "wrap" /\ phase' = "told" /\ told' = [as |-> "error"] /\ ~Wrappable
      /\ dict' = dict /\ reply' = reply /\ copies' = copies
  BY DEF WrapThrows, requestVars, replyVars
<1>2. ASSUME "Cisco" \in DOMAIN dict.vendors, copies = 1
      PROVE  ~ /\ ValueStrings(dict, "Packet-Type", reply.code) # {}
               /\ << >> \notin Range(CiscoItems("Cisco-Command-Code"))
  BY <1>1, <1>2, WrappableIs
<1>3. CiscoItems("Cisco-Command-Code")' = CiscoItems("Cisco-Command-Code")
  BY <1>1 DEF CiscoItems, ItemValues, GetAttribute
<1>4. ReplyReachesClient'
  BY <1>1, <1>2, <1>3 DEF ReplyReachesClient
<1>5. QED
  BY <1>1, <1>4 DEF ReadInv

LEMMA WrapReadInv == ASSUME TypeInv, ReadInv, Wrap PROVE ReadInv'
<1> DEFINE codes == CiscoValues("Cisco-Command-Code")
           commands == CiscoItems("Cisco-Command-Code")
           accounts == CiscoItems("Cisco-Account-Info")
           ports == ItemValues(0, GetAttribute(dict, "NAS-Port-Id").id)
           addresses == ItemValues(0, GetAttribute(dict, "Framed-Address").id)
           sims == ItemValues(0, GetAttribute(dict, "EAP-Type-SIM").id)
           named == ValueStrings(dict, "Packet-Type", code)
<1>1. /\ phase = "wrap" /\ phase' = "told" /\ Wrappable
      /\ dict' = dict /\ reply' = reply /\ copies' = copies
      /\ told' = [as        |-> "result",
                  code      |-> First(named),
                  command   |-> [k \in DOMAIN codes |-> Tail(codes[k].of)],
                  account   |-> CiscoValues("Cisco-Account-Info"),
                  address   |-> Values("Framed-Address"),
                  port      |-> Values("NAS-Port-Id"),
                  sim       |-> Values("EAP-Type-SIM")]
  BY DEF Wrap, requestVars, replyVars
<1>2. /\ told'.as = "result" /\ told'.code = First(named)
      /\ told'.command = Tails(codes) /\ told'.account = CiscoValues("Cisco-Account-Info")
      /\ told'.address = Values("Framed-Address") /\ told'.port = Values("NAS-Port-Id")
      /\ told'.sim = Values("EAP-Type-SIM")
  BY <1>1 DEF Tails
<1>3. SUFFICES ASSUME "Cisco" \in DOMAIN dict.vendors PROVE ReplyReachesClient'
  BY <1>1 DEF ReadInv, ReplyReachesClient
<1>4. copies = 1 => /\ ValueStrings(dict, "Packet-Type", reply.code) # {}
                    /\ << >> \notin Range(commands)
  BY <1>1, <1>3, WrappableIs
<1>5. GetValue(dict, "Packet-Type", First(named)) = reply.code
  <2>1. named # {} /\ code = reply.code
    BY <1>1 DEF Wrappable, ReadInv
  <2>2. HasAttribute(dict, "Packet-Type") /\ named \subseteq DOMAIN dict.attrs["Packet-Type"].values
    BY <2>1 DEF ValueStrings
  <2>3. named \subseteq DOMAIN Rank
    BY <2>2, GivenOK DEF TypeInv, DictionaryOK, HasAttribute
  <2> HIDE DEF named
  <2>4. First(named) \in named
    BY <2>1, <2>3, FirstOK
  <2>5. QED
    BY <2>1, <2>2, <2>4 DEF named, ValueStrings, GetValue
<1>6. "Cisco-Command-Code" \in CiscoNames /\ "Cisco-Account-Info" \in CiscoNames
  BY <1>3 DEF CiscoNames
<1>7. /\ Tails(Shown("text", commands)) = [k \in DOMAIN commands |-> Tail(commands[k])]
      /\ Shown("text", accounts) = Texts(accounts)
      /\ Shown("text", ports) = Texts(ports) /\ Shown("text", sims) = Texts(sims)
      /\ Shown("address", addresses) = [k \in DOMAIN addresses |-> [form |-> "address", of |-> addresses[k]]]
  <2> HIDE DEF commands, accounts, ports, addresses, sims
  <2>1. QED
    BY DEF Tails, Shown, Texts, Text
<1>8. IF copies = 1 THEN Tails(codes) = [k \in DOMAIN commands |-> Tail(commands[k])]
      ELSE IsPrefix([k \in DOMAIN commands |-> Tail(commands[k])], Tails(codes))
  <2>1. copies = 1 => codes = Shown("text", commands)
    BY <1>1, <1>6, CiscoAgrees
  <2>2. copies # 1 => IsPrefix(Tails(Shown("text", commands)), Tails(codes))
    BY <1>1, <1>6, CiscoAgrees
  <2> HIDE DEF commands, codes
  <2>3. QED
    BY <1>7, <2>1, <2>2
<1>9. IF copies = 1 THEN CiscoValues("Cisco-Account-Info") = Texts(accounts)
      ELSE IsPrefix(Texts(accounts), CiscoValues("Cisco-Account-Info"))
  <2>1. /\ copies = 1 => CiscoValues("Cisco-Account-Info") = Shown("text", accounts)
        /\ copies # 1 => IsPrefix(Shown("text", accounts), CiscoValues("Cisco-Account-Info"))
    BY <1>1, <1>6, CiscoAgrees
  <2> HIDE DEF accounts
  <2>2. QED
    BY <1>7, <2>1
<1>10. IF copies = 1 THEN Values("NAS-Port-Id") = Texts(ports) ELSE IsPrefix(Texts(ports), Values("NAS-Port-Id"))
  <2>1. "NAS-Port-Id" \in PlainNames /\ FormOf("NAS-Port-Id") = "text"
    BY GivenOK DEF TypeInv, NamesFound, Found, PlainNames, FormOf
  <2>2. /\ copies = 1 => Values("NAS-Port-Id") = Shown("text", ports)
        /\ copies # 1 => IsPrefix(Shown("text", ports), Values("NAS-Port-Id"))
    BY <1>1, <2>1, PlainAgrees
  <2> HIDE DEF ports
  <2>3. QED
    BY <1>7, <2>2
<1>11. HasAttribute(dict, "Framed-Address") =>
         IF copies = 1 THEN Values("Framed-Address") = Shown("address", addresses)
         ELSE IsPrefix(Shown("address", addresses), Values("Framed-Address"))
  <2>1. SUFFICES ASSUME HasAttribute(dict, "Framed-Address")
                 PROVE  IF copies = 1 THEN Values("Framed-Address") = Shown("address", addresses)
                        ELSE IsPrefix(Shown("address", addresses), Values("Framed-Address"))
    OBVIOUS
  <2>2. "Framed-Address" \in PlainNames /\ FormOf("Framed-Address") = "address"
    BY <2>1 DEF PlainNames, FormOf
  <2>3. QED
    BY <1>1, <2>2, PlainAgrees
<1>12. HasAttribute(dict, "EAP-Type-SIM") =>
         IF copies = 1 THEN Values("EAP-Type-SIM") = Texts(sims)
         ELSE IsPrefix(Texts(sims), Values("EAP-Type-SIM"))
  <2>1. SUFFICES ASSUME HasAttribute(dict, "EAP-Type-SIM")
                 PROVE  IF copies = 1 THEN Values("EAP-Type-SIM") = Texts(sims)
                        ELSE IsPrefix(Texts(sims), Values("EAP-Type-SIM"))
    OBVIOUS
  <2>2. "EAP-Type-SIM" \in PlainNames /\ FormOf("EAP-Type-SIM") = "text"
    BY <2>1 DEF PlainNames, FormOf
  <2>3. /\ copies = 1 => Values("EAP-Type-SIM") = Shown("text", sims)
        /\ copies # 1 => IsPrefix(Shown("text", sims), Values("EAP-Type-SIM"))
    BY <1>1, <2>2, PlainAgrees
  <2> HIDE DEF sims
  <2>4. QED
    BY <1>7, <2>3
<1>13. /\ commands' = commands /\ accounts' = accounts /\ ports' = ports /\ addresses' = addresses
       /\ sims' = sims
  BY <1>1 DEF CiscoItems, ItemValues, GetAttribute
<1> HIDE DEF codes, commands, accounts, ports, addresses, sims, named
<1>14. QED
  BY <1>1, <1>2, <1>4, <1>5, <1>7, <1>8, <1>9, <1>10, <1>11, <1>12, <1>13
  DEF ReplyReachesClient, commands, accounts, ports, addresses, sims, HasAttribute, GetValue

(* Everything that a reply read alone says reaches the client, the further *)
(* attributes of a vendor specific item as octets behind the value of its  *)
(* first: what unpack() has kept and what is left of the octets always     *)
(* make up the reply.  What a reply read with its copy makes the client    *)
(* hear, if anything, starts with what the reply says.                     *)
THEOREM ReplyReachesTheClient == ASSUME Md5OK PROVE Spec => []ReplyReachesClient
<1>1. Init => TypeInv /\ ReadInv
  BY InitTypeInv, InitReadInv
<1>2. TypeInv /\ ReadInv /\ [Next]_vars => (TypeInv /\ ReadInv)'
  <2>1. SUFFICES ASSUME TypeInv, ReadInv, [Next]_vars PROVE TypeInv' /\ ReadInv'
    OBVIOUS
  <2>2. TypeInv'
    BY <2>1, StepTypeInv
  <2>3. ReadInv'
    BY <2>1, RequestReadInv, NasReadInv, HeaderReadInv, PassReadInv, AttributeReadInv, PlainPassReadInv, VsaReadInv,
       LoopEndsReadInv, ThrowsReadInv, WrapReadInv, WrapThrowsReadInv, StutterReadInv DEF Next, Unpack
  <2>4. QED
    BY <2>2, <2>3
<1>3. ReadInv => ReplyReachesClient
  BY DEF ReadInv
<1>4. QED
  BY <1>1, <1>2, <1>3, PTL DEF Spec

(***************************************************************************)
(* What the key says: the NAS and the session.                             *)
(***************************************************************************)
LEMMA NoneJoined ==
  ASSUME NEW a \in OctetStrings, NEW b \in OctetStrings, NEW x,
         \A k \in 1..Len(a) : a[k] # x, \A k \in 1..Len(b) : b[k] # x
  PROVE  \A k \in 1..Len(a \o b) : (a \o b)[k] # x
<1> DEFINE m == Len(a)
           n == Len(b)
<1>1. /\ Len(a \o b) = m + n /\ m \in Nat /\ n \in Nat
      /\ \A k \in 1..m + n : (a \o b)[k] = IF k <= m THEN a[k] ELSE b[k - m]
  BY ConcatProperties DEF OctetStrings
<1> HIDE DEF m, n
<1>2. ASSUME NEW k \in 1..m + n PROVE (a \o b)[k] # x
  <2>1. CASE k <= m
    BY <1>1, <2>1 DEF m
  <2>2. CASE ~(k <= m)
    <3>1. k - m \in 1..n
      BY <1>1, <2>2
    <3>2. QED
      BY <1>1, <2>2, <3>1 DEF n
  <2>3. QED
    BY <2>1, <2>2
<1>3. QED
  BY <1>1, <1>2

LEMMA FirstJoined ==
  ASSUME NEW a \in OctetStrings, NEW b \in OctetStrings, Len(a) > 0
  PROVE  Len(a \o b) > 0 /\ (a \o b)[1] = a[1]
<1>1. Len(a \o b) = Len(a) + Len(b) /\ Len(a) \in Nat /\ Len(b) \in Nat
  BY Joined, LenOK
<1>2. 1 \in 1..Len(a)
  BY <1>1
<1>3. \A k \in 1..Len(a) : (a \o b)[k] = a[k]
  BY FrontIs
<1>4. QED
  BY <1>1, <1>2, <1>3

LEMMA HeadOfThree ==
  ASSUME NEW a \in OctetStrings, NEW b \in OctetStrings, NEW c \in OctetStrings,
         NEW text, text = (a \o b) \o c
  PROVE  SubSeq(text, 1, Len(a)) = a
<1>1. text = a \o (b \o c) /\ b \o c \in OctetStrings
  BY Assoc, Joined
<1>2. QED
  BY <1>1, RestIs DEF OctetStrings

LEMMA HeadAndTail ==
  ASSUME NEW S, NEW text \in Seq(S), Len(text) > 0 PROVE text = <<text[1]>> \o Tail(text)
OBVIOUS

Place == IF command.nas = << >> THEN << >> ELSE command.nas \o <<Colon>>

LEMMA KeyParts ==
  ASSUME CommandOK(command)
  PROVE  /\ Key = (command.letter \o Place) \o command.id
         /\ command.letter \in OctetStrings /\ command.nas \in OctetStrings
         /\ command.id \in OctetStrings /\ Place \in OctetStrings
<1>1. command.letter \in OctetStrings /\ command.nas \in OctetStrings /\ command.id \in OctetStrings
  BY LetterOK, EmptyOK DEF CommandOK
<1>2. Place \in OctetStrings
  BY <1>1, LetterOK, EmptyOK, Joined DEF Place
<1>3. Key = (command.letter \o Place) \o command.id
  BY DEF Key, Place
<1>4. QED
  BY <1>1, <1>2, <1>3

(* Neither the NAS nor the session has a letter or a colon.                *)
Unlettered(a) == \A k \in 1..Len(a) : a[k] \notin {LetterS, LetterBigI, LetterI, Colon}

LEMMA UnletteredParts ==
  ASSUME CommandOK(command) PROVE Unlettered(command.nas) /\ Unlettered(command.id)
<1>1. {LetterS, LetterBigI, LetterI, Colon} \subseteq Range(Letters)
  <2>1. /\ DOMAIN Letters = 1..6
        /\ Letters[1] = LetterS /\ Letters[2] = LetterBigI /\ Letters[3] = LetterI
        /\ Letters[4] = Colon
    BY DEF Letters
  <2>2. 1 \in 1..6 /\ 2 \in 1..6 /\ 3 \in 1..6 /\ 4 \in 1..6
    OBVIOUS
  <2> HIDE DEF Letters
  <2>3. QED
    BY <2>1, <2>2 DEF Range
<1>2. command.nas \in Seq(Octets) /\ command.id \in Seq(Octets)
  BY DEF CommandOK, OctetStrings
<1>3. \A k \in 1..Len(command.nas) : command.nas[k] \in Range(command.nas)
  BY <1>2 DEF Range
<1>4. \A k \in 1..Len(command.id) : command.id[k] \in Range(command.id)
  BY <1>2 DEF Range
<1>5. (Range(command.nas) \cup Range(command.id)) \cap Range(Letters) = {}
  BY DEF CommandOK
<1>6. QED
  BY <1>1, <1>3, <1>4, <1>5 DEF Unlettered

(* The first colon ends what has none.                                     *)
LEMMA FirstColon ==
  ASSUME NEW a \in OctetStrings, NEW b \in OctetStrings, \A k \in 1..Len(a) : a[k] # Colon
  PROVE  ColonAt((a \o <<Colon>>) \o b) = Len(a) + 1
<1> DEFINE text == (a \o <<Colon>>) \o b
           at == {k \in DOMAIN text : text[k] = Colon}
           n == Len(a) + 1
<1>1. <<Colon>> \in OctetStrings /\ Len(<<Colon>>) = 1 /\ <<Colon>>[1] = Colon
  BY LetterOK
<1>2. text \in OctetStrings /\ n \in 1..Len(text) /\ text[n] = Colon
      /\ \A k \in 1..Len(a) : text[k] = a[k]
  BY <1>1, LettersOK DEF OctetStrings
<1>3. DOMAIN text = 1..Len(text) /\ Len(text) \in Nat /\ Len(a) \in Nat
  BY <1>2 DEF OctetStrings
<1> HIDE DEF text
<1>4. n \in at /\ at \in SUBSET Nat /\ \A k \in at : n <= k
  BY <1>2, <1>3
<1> HIDE DEF at
<1>5. Min(at) \in at /\ \A k \in at : Min(at) <= k
  BY <1>4, MinOK
<1>6. Min(at) = n
  <2>1. n \in Nat /\ Min(at) \in Nat
    BY <1>3, <1>4, <1>5
  <2>2. n <= Min(at) /\ Min(at) <= n
    BY <1>4, <1>5
  <2> HIDE DEF n
  <2>3. QED
    BY <2>1, <2>2
<1>7. QED
  BY <1>4, <1>6 DEF ColonAt, at, text, n

LEMMA NoColon ==
  ASSUME NEW a \in OctetStrings, \A k \in 1..Len(a) : a[k] # Colon PROVE ColonAt(a) = 0
<1>1. {k \in DOMAIN a : a[k] = Colon} = {}
  BY DEF OctetStrings
<1>2. QED
  BY <1>1 DEF ColonAt

(* The letter and the NAS, in front of the colon.                          *)
LEMMA LetteredNas ==
  ASSUME CommandOK(command)
  PROVE  /\ command.letter \o command.nas \in OctetStrings
         /\ \A k \in 1..Len(command.letter \o command.nas) : (command.letter \o command.nas)[k] # Colon
<1>1. command.letter \in OctetStrings /\ command.nas \in OctetStrings
  BY KeyParts
<1>2. \A k \in 1..Len(command.letter) : command.letter[k] # Colon
  BY LettersOK DEF CommandOK
<1>3. \A k \in 1..Len(command.nas) : command.nas[k] # Colon
  BY UnletteredParts DEF Unlettered
<1>4. QED
  BY <1>1, <1>2, <1>3, Joined, NoneJoined

LEMMA KeyColon ==
  ASSUME CommandOK(command), command.nas # << >>
  PROVE  /\ Key = ((command.letter \o command.nas) \o <<Colon>>) \o command.id
         /\ ColonAt(Key) = Len(command.letter \o command.nas) + 1
<1>1. command.letter \in OctetStrings /\ command.nas \in OctetStrings /\ command.id \in OctetStrings
      /\ <<Colon>> \in OctetStrings
  BY KeyParts, LetterOK
<1>2. Place = command.nas \o <<Colon>>
  BY DEF Place
<1>3. command.letter \o (command.nas \o <<Colon>>) = (command.letter \o command.nas) \o <<Colon>>
  BY <1>1, Assoc
<1>4. Key = ((command.letter \o command.nas) \o <<Colon>>) \o command.id
  BY <1>2, <1>3, KeyParts
<1>5. ColonAt(((command.letter \o command.nas) \o <<Colon>>) \o command.id)
        = Len(command.letter \o command.nas) + 1
  <2> DEFINE a == command.letter \o command.nas
  <2>1. a \in OctetStrings /\ \A k \in 1..Len(a) : a[k] # Colon
    BY LetteredNas
  <2> HIDE DEF a
  <2>2. ColonAt((a \o <<Colon>>) \o command.id) = Len(a) + 1
    BY <1>1, <2>1, FirstColon
  <2>3. QED
    BY <2>2 DEF a
<1>6. QED
  BY <1>4, <1>5

LEMMA KeyNoColon ==
  ASSUME CommandOK(command), command.nas = << >>
  PROVE  Key = command.letter \o command.id /\ ColonAt(Key) = 0
<1>1. command.letter \in OctetStrings /\ command.id \in OctetStrings
  BY KeyParts
<1>2. Key = command.letter \o command.id
  <2>1. Place = << >>
    BY DEF Place
  <2>2. QED
    BY <1>1, <2>1, KeyParts, EmptyPart
<1>3. \A k \in 1..Len(command.letter) : command.letter[k] # Colon
  BY LettersOK DEF CommandOK
<1>4. \A k \in 1..Len(command.id) : command.id[k] # Colon
  BY UnletteredParts DEF Unlettered
<1>5. Key \in OctetStrings /\ \A k \in 1..Len(Key) : Key[k] # Colon
  BY <1>1, <1>2, <1>3, <1>4, Joined, NoneJoined
<1>6. ColonAt(Key) = 0
  BY <1>5, NoColon
<1>7. QED
  BY <1>2, <1>6

(* The letter of the key is its first octet, or there is none.             *)
LEMMA KeyLetter ==
  ASSUME CommandOK(command)
  PROVE  /\ command.letter # << >> =>
              Key # << >> /\ command.letter = <<Key[1]>>
         /\ command.letter = << >> /\ Key # << >> => Key[1] \notin {LetterS, LetterBigI, LetterI}
<1>1. command.letter \in OctetStrings /\ Place \in OctetStrings /\ command.id \in OctetStrings
      /\ Key = (command.letter \o Place) \o command.id
  BY KeyParts
<1>2. command.letter = << >> \/ Len(command.letter) = 1
  BY DEF CommandOK
<1>3. CASE command.letter # << >>
  <2>1. Len(command.letter) = 1 /\ command.letter = <<command.letter[1]>>
    BY <1>3 DEF CommandOK
  <2>2. Len(Key) > 0 /\ Key[1] = command.letter[1]
    <3>1. /\ command.letter \o Place \in OctetStrings /\ Len(command.letter \o Place) > 0
          /\ (command.letter \o Place)[1] = command.letter[1]
      BY <1>1, <2>1, Joined, FirstJoined
    <3> DEFINE x == command.letter \o Place
    <3> HIDE DEF x
    <3>2. Len(x \o command.id) > 0 /\ (x \o command.id)[1] = x[1]
      BY <1>1, <3>1, FirstJoined DEF x
    <3>3. QED
      BY <1>1, <3>1, <3>2 DEF x
  <2>3. QED
    BY <1>3, <2>1, <2>2
<1>4. CASE command.letter = << >>
  <2>1. Key = Place \o command.id
    BY <1>1, <1>4, EmptyPart
  <2>2. CASE command.nas = << >>
    <3>1. Key = command.id
      BY <1>1, <2>1, <2>2, EmptyPart DEF Place
    <3>2. Key # << >> => Len(Key) > 0
      BY <1>1, <3>1 DEF OctetStrings
    <3>3. QED
      BY <1>1, <1>4, <3>1, <3>2, LenOK, UnletteredParts DEF Unlettered
  <2>3. CASE command.nas # << >>
    <3>1. command.nas \in OctetStrings /\ <<Colon>> \in OctetStrings /\ Len(command.nas) > 0
      BY <2>3, KeyParts, LetterOK DEF OctetStrings
    <3>2. Place = command.nas \o <<Colon>>
      BY <2>3 DEF Place
    <3>3. Key[1] = command.nas[1]
      <4>1. Len(Place) > 0 /\ Place[1] = command.nas[1]
        BY <3>1, <3>2, FirstJoined
      <4>2. QED
        BY <1>1, <2>1, <4>1, FirstJoined
    <3>4. QED
      BY <1>4, <3>1, <3>3, LenOK, UnletteredParts DEF Unlettered
  <2>4. QED
    BY <2>2, <2>3
<1>5. QED
  BY <1>3, <1>4

LEMMA ServerIs ==
  ASSUME CommandOK(command)
  PROVE  ServerOf(Key) = IF command.nas = << >> THEN DefaultServer ELSE command.nas
<1>1. CASE command.nas = << >>
  BY <1>1, KeyNoColon DEF ServerOf
<1>2. CASE command.nas # << >>
  <2> DEFINE a == command.letter \o command.nas
             host == SubSeq(Key, 1, ColonAt(Key) - 1)
  <2>1. a \in OctetStrings /\ <<Colon>> \in OctetStrings /\ command.id \in OctetStrings
        /\ command.letter \in OctetStrings /\ command.nas \in OctetStrings
    BY KeyParts, LetteredNas, LetterOK
  <2>2. Key = (a \o <<Colon>>) \o command.id /\ ColonAt(Key) = Len(a) + 1
    BY <1>2, KeyColon
  <2>3. ColonAt(Key) # 0 /\ ColonAt(Key) - 1 = Len(a)
    <3>1. Len(a) \in Nat
      BY <2>1, LenOK
    <3> HIDE DEF a
    <3>2. QED
      BY <2>2, <3>1
  <2>4. SubSeq(Key, 1, Len(a)) = a
    <3> HIDE DEF a
    <3>1. <<Colon>> \in OctetStrings /\ command.id \in OctetStrings
      BY <2>1
    <3> DEFINE x == <<Colon>>
               id == command.id
    <3>2. x \in OctetStrings /\ id \in OctetStrings /\ Key = (a \o x) \o id
      BY <2>2, <3>1
    <3> HIDE DEF x, id
    <3>3. QED
      BY <2>1, <3>2, HeadOfThree
  <2>5. host = command.letter \o command.nas
    BY <2>3, <2>4
  <2>6. ServerOf(Key) = IF host # << >> /\ host[1] \in {LetterS, LetterI, LetterBigI}
                        THEN Tail(host) ELSE host
    BY <2>3 DEF ServerOf
  <2> HIDE DEF host, a
  <2>7. CASE command.letter = << >>
    <3>1. host = command.nas /\ Len(command.nas) > 0
      BY <1>2, <2>1, <2>5, <2>7, EmptyPart DEF OctetStrings
    <3>2. host[1] \notin {LetterS, LetterI, LetterBigI}
      BY <2>1, <3>1, LenOK, UnletteredParts DEF Unlettered
    <3>3. QED
      BY <1>2, <2>6, <3>1, <3>2
  <2>8. CASE command.letter # << >>
    <3>1. PICK x \in {LetterS, LetterI, LetterBigI} : command.letter = <<x>>
      BY <2>8 DEF CommandOK
    <3>2. host # << >> /\ host[1] = x /\ Tail(host) = command.nas
      BY <2>1, <2>5, <3>1 DEF OctetStrings
    <3>3. QED
      BY <1>2, <2>6, <3>1, <3>2
  <2>9. QED
    BY <2>7, <2>8
<1>3. QED
  BY <1>1, <1>2

LEMMA SessionIs ==
  ASSUME CommandOK(command), command.nas # << >>
  PROVE  SubSeq(Key, ColonAt(Key) + 1, Len(Key)) = command.id
<1> DEFINE a == (command.letter \o command.nas) \o <<Colon>>
<1>1. a \in OctetStrings /\ command.id \in OctetStrings
      /\ Len(a) = Len(command.letter \o command.nas) + 1
  BY KeyParts, LetteredNas, LetterOK, Joined
<1>2. Key = a \o command.id /\ ColonAt(Key) = Len(a)
  BY <1>1, KeyColon
<1> HIDE DEF a
<1>3. SubSeq(a \o command.id, Len(a) + 1, Len(a \o command.id)) = command.id
  BY <1>1, RestIs DEF OctetStrings
<1>4. QED
  BY <1>2, <1>3

(* A text of digits only is read to its end.                               *)
LEMMA AtoiDigits ==
  ASSUME NEW text \in OctetStrings, Range(text) \subseteq 0..9 PROVE Atoi(text) = Number(text, 10)
<1>1. text \in Seq(Octets) /\ \A k \in DOMAIN text : text[k] \in 0..9
  BY DEF OctetStrings, Range
<1>2. {k \in DOMAIN text : text[k] > 9} = {}
  BY <1>1
<1>3. SubSeq(text, 1, Len(text)) = text
  BY <1>1
<1>4. QED
  BY <1>2, <1>3 DEF Atoi

(* The session in the request is the one the key names.                    *)
LEMMA NamedSession ==
  ASSUME CommandOK(command), command.nas # << >>,
         command.letter \in {<<LetterI>>, <<LetterBigI>>}
  PROVE  SessionId(Key) \in OctetStrings /\ NamesSession(SessionId(Key))
<1>1. SessionId(Key) \in OctetStrings
  BY KeyOK, SessionIdOK
<1>2. CASE command.letter = <<LetterI>>
  <2>1. Key[1] = LetterI
    BY <1>2, KeyLetter
  <2>2. SessionId(Key) = HexDigits(Atoi(command.id))
    BY <2>1, SessionIs DEF SessionId
  <2>3. Range(command.id) \subseteq 0..9 /\ Fits(Number(command.id, 10), 16, 2 * WordSize)
        /\ command.id \in OctetStrings
    BY <1>2 DEF CommandOK
  <2> DEFINE n == Number(command.id, 10)
  <2>4. Atoi(command.id) = n /\ n \in Nat
    BY <2>3, AtoiDigits, OctetStringsOK, NumberOK
  <2> HIDE DEF n
  <2>5. Number(Digits(n, 16, 2 * WordSize), 16) = n
    <3> DEFINE base == 16
               count == 2 * WordSize
    <3>1. base \in Nat \ {0} /\ count \in Nat /\ Fits(n, base, count)
      BY <2>3, Sizes DEF n
    <3> HIDE DEF base, count
    <3>2. Number(Digits(n, base, count), base) = n
      BY <2>4, <3>1, NumberOfDigits
    <3>3. QED
      BY <3>2 DEF base, count
  <2>6. QED
    BY <1>1, <1>2, <2>2, <2>4, <2>5 DEF NamesSession, HexDigits, n
<1>3. CASE command.letter # <<LetterI>>
  <2>1. Key[1] # LetterI
    BY <1>3, KeyLetter
  <2>2. SessionId(Key) = command.id
    BY <2>1, SessionIs DEF SessionId
  <2>3. QED
    BY <1>1, <1>3, <2>2 DEF NamesSession
<1>4. QED
  BY <1>2, <1>3

LEMMA SessionKey ==
  ASSUME CommandOK(command)
  PROVE  BySession(Key) <=> command.letter \in {<<LetterI>>, <<LetterBigI>>}
<1>1. CASE command.letter = << >>
  BY <1>1, KeyLetter DEF BySession
<1>2. CASE command.letter # << >>
  <2>1. Key # << >> /\ command.letter = <<Key[1]>>
    BY <1>2, KeyLetter
  <2>2. QED
    BY <2>1 DEF BySession
<1>3. QED
  BY <1>1, <1>2

LEMMA AccountIs ==
  ASSUME CommandOK(command), command.letter \notin {<<LetterI>>, <<LetterBigI>>}
  PROVE  AccountOf(Key) = <<LetterS>> \o (IF command.letter = << >> THEN Key ELSE Tail(Key))
<1>1. CASE command.letter = << >>
  BY <1>1, KeyLetter DEF AccountOf
<1>2. CASE command.letter # << >>
  <2>1. Key # << >> /\ command.letter = <<Key[1]>> /\ command.letter = <<LetterS>>
    BY <1>2, KeyLetter DEF CommandOK
  <2>2. Key[1] = LetterS /\ Key \in OctetStrings
    BY <2>1, KeyOK
  <2>3. AccountOf(Key) = Key
    BY <2>1, <2>2 DEF AccountOf
  <2>4. Key = <<LetterS>> \o Tail(Key)
    <3>1. Key \in Seq(Octets) /\ Len(Key) > 0
      BY <2>1, <2>2 DEF OctetStrings
    <3>2. QED
      BY <2>2, <3>1, HeadAndTail, Zenon
  <2>5. QED
    BY <1>2, <2>3, <2>4
<1>3. QED
  BY <1>1, <1>2

(***************************************************************************)
(* What the NAS reads: the attributes from a position to the end.          *)
(***************************************************************************)
Broken(w, p) == p = Len(w) \/ w[p + 1] < 2 \/ p + w[p + 1] > Len(w) + 1

AttributeAt(w, p) == [id |-> w[p], data |-> SubSeq(w, p + 2, p + w[p + 1] - 1)]

ReadFrom(w, from, p) ==
  IF p > Len(w) THEN << >>
  ELSE IF Broken(w, p) THEN <<Malformed>>
  ELSE <<AttributeAt(w, p)>> \o from[p + w[p + 1]]

Reads(w) == CHOOSE from : from = [p \in 1..Len(w) + 1 |-> ReadFrom(w, from, p)]

LEMMA ReadsIs ==
  ASSUME NEW w \in OctetStrings
  PROVE  Reads(w) = [p \in 1..Len(w) + 1 |-> ReadFrom(w, Reads(w), p)]
<1> DEFINE n == Len(w)
           T == {m \in 0..n : \E f : f = [p \in n + 1 - m..n + 1 |-> ReadFrom(w, f, p)]}
<1>1. n \in Nat /\ w \in Seq(Nat)
  BY LenOK, OctetStringsOK
<1>2. \A k \in 1..n : w[k] \in Nat
  BY <1>1
<1> HIDE DEF n
<1>3. 0 \in T
  <2> DEFINE f == [p \in n + 1..n + 1 |-> << >>]
  <2>1. \A p \in n + 1..n + 1 : ReadFrom(w, f, p) = << >>
    BY <1>1 DEF ReadFrom, n
  <2>2. f = [p \in n + 1..n + 1 |-> ReadFrom(w, f, p)]
    BY <2>1
  <2> HIDE DEF f
  <2>3. n + 1 - 0 = n + 1 /\ 0 \in 0..n
    BY <1>1
  <2>4. f = [p \in n + 1 - 0..n + 1 |-> ReadFrom(w, f, p)]
    BY <2>2, <2>3
  <2>5. QED
    BY <2>3, <2>4
<1>4. ASSUME NEW m \in 1..n, m - 1 \in T PROVE m \in T
  <2> DEFINE q == n + 1 - m
  <2>1. q \in 1..n /\ n + 1 - (m - 1) = q + 1 /\ m \in 0..n
    BY <1>1
  <2>2. PICK f : f = [p \in q + 1..n + 1 |-> ReadFrom(w, f, p)]
    BY <1>4, <2>1
  <2> HIDE DEF q
  <2> DEFINE g == [p \in q..n + 1 |-> IF p = q THEN ReadFrom(w, f, q) ELSE f[p]]
  <2>3. \A p \in q + 1..n + 1 : g[p] = f[p]
    BY <1>1, <2>1
  <2>4. g[q] = ReadFrom(w, f, q)
    BY <1>1, <2>1
  <2>5. ASSUME NEW p \in q..n + 1 PROVE ReadFrom(w, f, p) = ReadFrom(w, g, p)
    <3>1. CASE p > n \/ Broken(w, p)
      BY <3>1 DEF ReadFrom, n
    <3>2. CASE ~(p > n \/ Broken(w, p))
      <4>1. p \in Nat /\ p < n /\ w[p + 1] >= 2 /\ p + w[p + 1] <= n + 1 /\ w[p + 1] \in Nat
        <5>1. p \in 1..n /\ p # n
          BY <1>1, <2>1, <3>2 DEF Broken, n
        <5>2. p + 1 \in 1..n
          BY <1>1, <5>1
        <5>3. w[p + 1] \in Nat
          BY <1>2, <5>2
        <5>4. QED
          BY <1>1, <3>2, <5>1, <5>3 DEF Broken, n
      <4>2. p + w[p + 1] \in q + 1..n + 1
        BY <1>1, <2>1, <4>1
      <4> HIDE DEF g
      <4>3. g[p + w[p + 1]] = f[p + w[p + 1]]
        BY <2>3, <4>2
      <4>4. QED
        BY <4>3 DEF ReadFrom
    <3>3. QED
      BY <3>1, <3>2
  <2>6. \A p \in q..n + 1 : g[p] = ReadFrom(w, f, p)
    <3>1. \A p \in q + 1..n + 1 : f[p] = ReadFrom(w, f, p)
      BY <2>2
    <3>2. \A p \in q..n + 1 : p = q \/ p \in q + 1..n + 1
      BY <1>1, <2>1
    <3> HIDE DEF g
    <3>3. QED
      BY <2>3, <2>4, <3>1, <3>2
  <2>7. g = [p \in q..n + 1 |-> g[p]]
    OBVIOUS
  <2> HIDE DEF g
  <2>8. \A p \in q..n + 1 : g[p] = ReadFrom(w, g, p)
    BY <2>5, <2>6
  <2>9. g = [p \in q..n + 1 |-> ReadFrom(w, g, p)]
    BY <2>7, <2>8
  <2>10. QED
    BY <2>1, <2>9 DEF q
<1>5. n \in T
  <2> HIDE DEF T
  <2>1. 0..n \subseteq T
    BY <1>1, <1>3, <1>4, UpTo
  <2>2. QED
    BY <1>1, <2>1
<1>6. n + 1 - n = 1
  BY <1>1
<1>7. \E f : f = [p \in 1..n + 1 |-> ReadFrom(w, f, p)]
  BY <1>5, <1>6
<1>8. QED
  BY <1>7 DEF Reads, n

LEMMA AttributesAre == AttributesOf(wire) = Reads(wire)[HeaderSize + 1]
BY DEF AttributesOf, Reads, ReadFrom, Broken, AttributeAt

(* An attribute: its number, its size, its data.                           *)
Tagged(id, data) == <<id, 2 + Len(data)>> \o data

LEMMA TaggedIs ==
  ASSUME NEW id \in Octets, NEW data \in OctetStrings, 2 + Len(data) < OctetSize
  PROVE  /\ Tagged(id, data) \in OctetStrings
         /\ Len(Tagged(id, data)) = 2 + Len(data)
         /\ Tagged(id, data)[1] = id /\ Tagged(id, data)[2] = 2 + Len(data)
<1> DEFINE n == 2 + Len(data)
           x == <<id, n>>
<1>1. n \in Octets
  <2>1. Len(data) \in Nat
    BY LenOK
  <2>2. QED
    BY <2>1, OctetsOK
<1> HIDE DEF n
<1>2. x \in OctetStrings /\ Len(x) = 2 /\ x[1] = id /\ x[2] = n
  BY <1>1, PairOK
<1> HIDE DEF x
<1>3. x \o data \in OctetStrings /\ Len(x \o data) = Len(x) + Len(data)
  BY <1>2, Joined
<1>4. (x \o data)[1] = x[1] /\ (x \o data)[2] = x[2]
  <2>1. 1 \in 1..Len(x) /\ 2 \in 1..Len(x)
    BY <1>2
  <2>2. \A k \in 1..Len(x) : (x \o data)[k] = x[k]
    BY <1>2, FrontIs
  <2>3. QED
    BY <2>1, <2>2
<1>5. QED
  BY <1>2, <1>3, <1>4 DEF x, n, Tagged

LEMMA ReadsEnd ==
  ASSUME NEW w \in OctetStrings, NEW p, p = Len(w) + 1 PROVE Reads(w)[p] = << >>
<1>1. p \in 1..Len(w) + 1 /\ p > Len(w)
  BY LenOK
<1>2. Reads(w)[p] = ReadFrom(w, Reads(w), p)
  BY <1>1, ReadsIs, Zenon
<1>3. QED
  BY <1>1, <1>2 DEF ReadFrom

Fit(x) == x \in [id : Octets, data : OctetStrings] /\ 2 + Len(x.data) < OctetSize

OctetsOf(x) == Tagged(x.id, x.data)

LEMMA FitOK ==
  ASSUME NEW x, Fit(x)
  PROVE  OctetsOf(x) \in OctetStrings /\ Len(OctetsOf(x)) = 2 + Len(x.data) /\ Len(x.data) \in Nat
<1>1. x.id \in Octets /\ x.data \in OctetStrings /\ 2 + Len(x.data) < OctetSize
  BY DEF Fit
<1>2. QED
  BY <1>1, TaggedIs, LenOK DEF OctetsOf

(* An attribute stands between two parts of what is read.                  *)
Cut(w, a, x, b) ==
  a \in OctetStrings /\ b \in OctetStrings /\ Fit(x) /\ w = (a \o OctetsOf(x)) \o b

Leads(w, p, x, q) == Reads(w)[p] = <<x>> \o Reads(w)[q]

LEMMA ReadsNext ==
  ASSUME NEW w, NEW a, NEW y, NEW b, Cut(w, a, y, b),
         NEW p, p = Len(a) + 1, NEW q, q = Len(a) + Len(OctetsOf(y)) + 1
  PROVE  Leads(w, p, y, q)
<1> DEFINE id == y.id
           data == y.data
<1>0. /\ a \in OctetStrings /\ b \in OctetStrings
      /\ id \in Octets /\ data \in OctetStrings /\ 2 + Len(data) < OctetSize
      /\ w = (a \o Tagged(id, data)) \o b /\ q = Len(a) + Len(Tagged(id, data)) + 1
      /\ y = [id |-> id, data |-> data]
  BY DEF Cut, Fit, OctetsOf
<1> HIDE DEF id, data
<1> DEFINE x == Tagged(id, data)
           n == 2 + Len(data)
           m == Len(a)
<1>1. x \in OctetStrings /\ Len(x) = n /\ x[1] = id /\ x[2] = n
  BY <1>0, TaggedIs
<1>2. m \in Nat /\ n \in Nat /\ n >= 2 /\ Len(b) \in Nat
  BY <1>0, LenOK
<1>3. w \in OctetStrings /\ Len(w) = m + n + Len(b)
  <2> HIDE DEF x, n
  <2>1. a \o x \in OctetStrings /\ Len(a \o x) = m + n
    <3>1. x \in OctetStrings /\ Len(x) = n /\ a \in OctetStrings
      BY <1>0, <1>1
    <3>2. a \o x \in OctetStrings /\ Len(a \o x) = Len(a) + Len(x)
      BY <3>1, Joined
    <3>3. QED
      BY <3>1, <3>2
  <2>2. (a \o x) \o b \in OctetStrings /\ Len((a \o x) \o b) = Len(a \o x) + Len(b)
    BY <1>0, <2>1, Joined
  <2>3. QED
    BY <1>0, <2>1, <2>2 DEF x
<1>4. w[p] = id /\ w[p + 1] = n
  <2>1. At(w, m) = x[1] /\ At(w, m + 1) = x[2]
    <3> HIDE DEF x, n, m
    <3>1. w = (a \o x) \o b
      BY <1>0 DEF x
    <3> DEFINE zero == 0
               one == 1
               two == 2
    <3>2. zero \in Nat /\ one \in Nat /\ zero < Len(x) /\ one < Len(x)
          /\ one = zero + 1 /\ two = one + 1 /\ m = Len(a) + zero /\ m + 1 = Len(a) + one
      BY <1>1, <1>2 DEF m
    <3> HIDE DEF zero, one, two
    <3>3. At((a \o x) \o b, m) = x[one]
      BY <1>0, <1>1, <3>2, AtIs
    <3>4. At((a \o x) \o b, m + 1) = x[two]
      <4> DEFINE at == m + 1
      <4>1. at = Len(a) + one
        BY <3>2
      <4> HIDE DEF at
      <4>2. At((a \o x) \o b, at) = x[two]
        BY <1>0, <1>1, <3>2, <4>1, AtIs
      <4>3. QED
        BY <4>2 DEF at
    <3>5. QED
      BY <3>1, <3>3, <3>4 DEF one, two
  <2>2. QED
    BY <1>1, <1>2, <2>1 DEF At
<1>5. SubSeq(w, p + 2, p + n - 1) = data
  <2> DEFINE h == <<id, n>>
             c == a \o h
  <2>1. h \in OctetStrings /\ Len(h) = 2
    <3>1. n \in Octets
      BY <1>0, <1>2, OctetsOK
    <3>2. QED
      BY <1>0, <3>1, PairOK
  <2>2. x = h \o data
    BY DEF Tagged
  <2> HIDE DEF h, x
  <2>3. c \in OctetStrings /\ Len(c) = m + 2 /\ a \o x = c \o data
    <3>1. a \o (h \o data) = (a \o h) \o data
      BY <1>0, <2>1, Assoc
    <3>2. a \o h \in OctetStrings /\ Len(a \o h) = Len(a) + Len(h)
      BY <1>0, <2>1, Joined
    <3>3. QED
      BY <1>0, <2>1, <2>2, <3>1, <3>2, Joined
  <2> HIDE DEF c
  <2>4. w = (c \o data) \o b
    BY <1>0, <2>3 DEF x
  <2>5. SubSeq((c \o data) \o b, Len(c) + 1, Len(c) + Len(data)) = data
    BY <1>0, <2>3, MiddleIs
  <2>6. Len(c) + 1 = p + 2 /\ Len(c) + Len(data) = p + n - 1
    BY <1>0, <1>2, <2>3, LenOK
  <2>7. QED
    BY <2>4, <2>5, <2>6
<1>6. p \in 1..Len(w) + 1 /\ ~(p > Len(w)) /\ ~Broken(w, p)
  BY <1>2, <1>3, <1>4 DEF Broken
<1>7. p + w[p + 1] = q /\ p + w[p + 1] - 1 = p + n - 1
  BY <1>0, <1>1, <1>2, <1>4
<1>8. Reads(w)[p] = ReadFrom(w, Reads(w), p)
  BY <1>3, <1>6, ReadsIs, Zenon
<1>9. AttributeAt(w, p) = [id |-> id, data |-> data]
  BY <1>4, <1>5 DEF AttributeAt
<1>10. ReadFrom(w, Reads(w), p) = <<AttributeAt(w, p)>> \o Reads(w)[p + w[p + 1]]
  BY <1>6 DEF ReadFrom
<1>11. QED
  BY <1>0, <1>7, <1>8, <1>9, <1>10 DEF Leads

(* The last attribute, two, and four of them.                              *)
OneAt(w, p, x) == Reads(w)[p] = <<x>>

TwoAt(w, p, x, y) ==
  LET got == Reads(w)[p] IN
  got \in Seq([id : Octets, data : OctetStrings]) /\ Len(got) = 2 /\ got[1] = x /\ got[2] = y

FourAt(w, p, x, y, z, v) ==
  LET got == Reads(w)[p] IN
  Len(got) = 4 /\ got[1] = x /\ got[2] = y /\ got[3] = z /\ got[4] = v

LEMMA ReadsLast ==
  ASSUME NEW a \in OctetStrings, NEW x, Fit(x), NEW w, w = a \o OctetsOf(x), NEW p, p = Len(a) + 1
  PROVE  OneAt(w, p, x)
<1> DEFINE e == << >>
           q == Len(a) + Len(OctetsOf(x)) + 1
<1>1. OctetsOf(x) \in OctetStrings /\ w \in OctetStrings /\ q = Len(w) + 1
  <2>1. OctetsOf(x) \in OctetStrings
    BY FitOK
  <2>2. w \in OctetStrings /\ Len(w) = Len(a) + Len(OctetsOf(x))
    BY <2>1, Joined
  <2>3. QED
    BY <2>1, <2>2
<1>2. e \in OctetStrings /\ (a \o OctetsOf(x)) \o e = w
  BY <1>1, EmptyOK, EmptyPart
<1> HIDE DEF e
<1>3. Cut(w, a, x, e)
  BY <1>2 DEF Cut
<1> HIDE DEF q
<1>4. Leads(w, p, x, q)
  <2>1. q = Len(a) + Len(OctetsOf(x)) + 1
    BY DEF q
  <2>2. QED
    BY <1>3, <2>1, ReadsNext
<1>5. Reads(w)[q] = << >>
  BY <1>1, ReadsEnd
<1>6. <<x>> \o << >> = <<x>>
  <2> DEFINE S == {x}
  <2>1. <<x>> \in Seq(S)
    OBVIOUS
  <2>2. \A s \in Seq(S) : s \o << >> = s
    OBVIOUS
  <2>3. QED
    BY <2>1, <2>2
<1>7. QED
  BY <1>4, <1>5, <1>6 DEF Leads, OneAt

LEMMA Consed ==
  ASSUME NEW Q, NEW s \in Seq(Q), NEW x \in Q, NEW t, t = <<x>> \o s
  PROVE  t \in Seq(Q) /\ Len(t) = Len(s) + 1 /\ t[1] = x /\ \A k \in 1..Len(s) : t[k + 1] = s[k]
OBVIOUS

LEMMA ReadsTwo ==
  ASSUME NEW h \in OctetStrings, NEW x, Fit(x), NEW y, Fit(y),
         NEW w, w = h \o (OctetsOf(x) \o OctetsOf(y)), NEW p, p = Len(h) + 1
  PROVE  TwoAt(w, p, x, y)
<1> DEFINE a == OctetsOf(x)
           b == OctetsOf(y)
           c == h \o a
           q == Len(h) + Len(a) + 1
<1>1. a \in OctetStrings /\ b \in OctetStrings
  BY FitOK
<1> HIDE DEF a, b
<1>2. c \in OctetStrings /\ Len(c) + 1 = q
  BY <1>1, Joined
<1>3. w = c \o b
  BY <1>1, Assoc DEF a, b
<1>4. Cut(w, h, x, b)
  BY <1>1, <1>3 DEF Cut, a
<1> HIDE DEF c, q
<1>5. Leads(w, p, x, q)
  <2>1. q = Len(h) + Len(OctetsOf(x)) + 1
    BY DEF q, a
  <2>2. QED
    BY <1>4, <2>1, ReadsNext
<1>6. OneAt(w, q, y)
  <2>1. w = c \o OctetsOf(y)
    BY <1>3 DEF b
  <2>2. QED
    BY <1>2, <2>1, ReadsLast
<1>7. QED
  <2> DEFINE Q == [id : Octets, data : OctetStrings]
             s == <<y>>
             got == Reads(w)[p]
  <2>1. x \in Q /\ y \in Q
    BY DEF Fit
  <2> HIDE DEF Q
  <2>2. s \in Seq(Q) /\ Len(s) = 1 /\ s[1] = y
    BY <2>1
  <2>3. got = <<x>> \o s
    BY <1>5, <1>6 DEF Leads, OneAt
  <2> HIDE DEF got, s
  <2>4. got \in Seq(Q) /\ Len(got) = Len(s) + 1 /\ got[1] = x /\ \A k \in 1..Len(s) : got[k + 1] = s[k]
    BY <2>1, <2>2, <2>3, Consed
  <2>5. got[1 + 1] = s[1] /\ 1 + 1 = 2
    BY <2>2, <2>4
  <2>6. QED
    BY <2>2, <2>4, <2>5 DEF TwoAt, Q, got

LEMMA ReadsFour ==
  ASSUME NEW h \in OctetStrings, NEW x, Fit(x), NEW y, Fit(y), NEW z, Fit(z), NEW v, Fit(v),
         NEW w, w = h \o (OctetsOf(x) \o ((OctetsOf(y) \o OctetsOf(z)) \o OctetsOf(v))),
         NEW p, p = Len(h) + 1
  PROVE  FourAt(w, p, x, y, z, v)
<1> DEFINE a == OctetsOf(x)
           b == OctetsOf(y)
           c == OctetsOf(z)
           d == OctetsOf(v)
           e == c \o d
           f == b \o e
           g == h \o a
           k == g \o b
           q == Len(h) + Len(a) + 1
           r == Len(g) + Len(b) + 1
<1>1. a \in OctetStrings /\ b \in OctetStrings /\ c \in OctetStrings /\ d \in OctetStrings
  BY FitOK
<1> HIDE DEF a, b, c, d
<1>2. e \in OctetStrings /\ (b \o c) \o d = b \o e
  <2>1. c \o d \in OctetStrings
    BY <1>1, Joined
  <2>2. (b \o c) \o d = b \o (c \o d)
    BY <1>1, Assoc
  <2>3. QED
    BY <2>1, <2>2
<1>3. g \in OctetStrings /\ Len(g) + 1 = q
  BY <1>1, Joined
<1>4. w = h \o (a \o (b \o e))
  BY <1>2 DEF a, b, c, d
<1> HIDE DEF e, g
<1>5. f \in OctetStrings /\ k \in OctetStrings /\ Len(k) + 1 = r
  BY <1>1, <1>2, <1>3, Joined
<1>6. w = (h \o a) \o f
  <2>1. w = h \o (a \o f)
    BY <1>4
  <2> HIDE DEF f
  <2>2. QED
    BY <1>1, <1>5, <2>1, Assoc
<1>7. w = (g \o b) \o e
  <2>1. w = g \o (b \o e)
    BY <1>6 DEF g
  <2>2. (g \o b) \o e = g \o (b \o e)
    BY <1>1, <1>2, <1>3, Assoc
  <2>3. QED
    BY <2>1, <2>2
<1> HIDE DEF f, q, r
<1>8. Leads(w, p, x, q)
  <2>1. Cut(w, h, x, f)
    BY <1>5, <1>6 DEF Cut, a
  <2>2. q = Len(h) + Len(OctetsOf(x)) + 1
    BY DEF q, a
  <2>3. QED
    BY <2>1, <2>2, ReadsNext
<1>9. Leads(w, q, y, r)
  <2>1. Cut(w, g, y, e)
    BY <1>2, <1>3, <1>7 DEF Cut, b
  <2>2. r = Len(g) + Len(OctetsOf(y)) + 1
    BY DEF r, b
  <2>3. QED
    BY <1>3, <2>1, <2>2, ReadsNext
<1> HIDE DEF k
<1>10. TwoAt(w, r, z, v)
  <2>1. w = k \o (OctetsOf(z) \o OctetsOf(v))
    BY <1>7 DEF k, e, c, d
  <2>2. QED
    BY <1>5, <2>1, ReadsTwo
<1>11. QED
  <2> DEFINE Q == [id : Octets, data : OctetStrings]
             s == Reads(w)[r]
             t == Reads(w)[q]
             got == Reads(w)[p]
  <2>1. x \in Q /\ y \in Q
    BY DEF Fit
  <2>2. s \in Seq(Q) /\ Len(s) = 2 /\ s[1] = z /\ s[2] = v
    BY <1>10 DEF TwoAt
  <2>3. t = <<y>> \o s /\ got = <<x>> \o t
    BY <1>8, <1>9 DEF Leads
  <2> HIDE DEF Q, s, t, got
  <2>4. t \in Seq(Q) /\ Len(t) = 3 /\ t[1] = y /\ t[1 + 1] = z /\ t[2 + 1] = v
    <3>1. s \in Seq(Q) /\ y \in Q /\ t = <<y>> \o s
      BY <2>1, <2>2, <2>3
    <3>2. t \in Seq(Q) /\ Len(t) = Len(s) + 1 /\ t[1] = y /\ \A n \in 1..Len(s) : t[n + 1] = s[n]
      BY <3>1, Consed
    <3>3. QED
      BY <2>2, <3>2
  <2>5. Len(got) = 4 /\ got[1] = x /\ got[1 + 1] = y /\ got[2 + 1] = z /\ got[3 + 1] = v
    <3>0. t \in Seq(Q) /\ x \in Q /\ got = <<x>> \o t
      BY <2>1, <2>3, <2>4
    <3>1. Len(got) = Len(t) + 1 /\ got[1] = x /\ \A n \in 1..Len(t) : got[n + 1] = t[n]
      BY <3>0, Consed
    <3>2. t[2] = z /\ t[3] = v
      BY <2>4
    <3>3. QED
      BY <2>4, <3>1, <3>2
  <2>6. got[2] = y /\ got[3] = z /\ got[4] = v
    BY <2>5
  <2>7. QED
    BY <2>5, <2>6 DEF FourAt, got

(***************************************************************************)
(* The octets of a regular request.                                        *)
(***************************************************************************)
LEMMA PlainOctets ==
  ASSUME packet \in Packets, DictionaryOK(dict), Regular, NEW a, packet.attr = <<a>>
  PROVE  /\ Fit(Plain(a.name, a.value))
         /\ PackedAttributes(dict, packet) = OctetsOf(Plain(a.name, a.value))
<1> DEFINE t == GetAttribute(dict, a.name)
           v == a.value
<1>1. a \in Range(packet.attr) /\ a \in Attributes /\ Last(packet.attr) = a /\ packet.attr # << >>
  <2>1. packet.attr \in Seq(Attributes)
    BY DEF Packets
  <2>2. Len(packet.attr) = 1 /\ packet.attr[1] = a /\ DOMAIN packet.attr = 1..1
    OBVIOUS
  <2>3. a \in Attributes
    BY <2>1, <2>2
  <2>4. a \in Range(packet.attr)
    BY <2>2 DEF Range
  <2>5. QED
    BY <2>2, <2>3, <2>4 DEF Last
<1>2. HasAttribute(dict, a.name) /\ t.type \in {"string", "octets"} /\ Len(v) < OctetSize - 2
  BY <1>1 DEF Regular
<1>3. t.id \in Octets /\ v \in OctetStrings /\ Len(v) \in Nat
  BY <1>1, <1>2, LenOK DEF DictionaryOK, HasAttribute, GetAttribute, Attributes
<1>4. ValueOctets(t.type, v) = v
  BY <1>2 DEF ValueOctets
<1>5. 2 + Len(v) < OctetSize /\ 2 + Len(v) \in Nat
  BY <1>2, <1>3, Sizes
<1>6. Octet(2 + Len(v)) = 2 + Len(v)
  <2> DEFINE n == 2 + Len(v)
  <2> HIDE DEF n
  <2>1. n \in Nat /\ n < OctetSize
    BY <1>5 DEF n
  <2>2. QED
    BY <2>1, OctetOK DEF n
<1>7. Plain(a.name, a.value) = [id |-> t.id, data |-> v]
  BY DEF Plain
<1>8. PackedAttributes(dict, packet) = <<t.id, Octet(2 + Len(v))>> \o v
  BY <1>1, <1>2, <1>4 DEF PackedAttributes
<1> HIDE DEF t, v
<1>9. QED
  BY <1>3, <1>5, <1>6, <1>7, <1>8 DEF Fit, OctetsOf, Tagged

LEMMA CiscoOctets ==
  ASSUME packet \in Packets, DictionaryOK(dict), Regular, NEW k \in DOMAIN packet.vsattr,
         NEW a, a = packet.vsattr[k]
  PROVE  /\ Fit(Cisco(a.name, a.value))
         /\ PackedVsa(dict, a) = OctetsOf(Cisco(a.name, a.value))
<1> DEFINE t == GetAttribute(dict, a.name)
           v == a.value
           number == dict.vendors["Cisco"]
<1>1. a \in Range(packet.vsattr) /\ a \in CiscoAttributes
  <2>1. packet.vsattr \in Seq(CiscoAttributes)
    BY DEF Packets
  <2>2. QED
    BY <2>1 DEF Range
<1>2. HasAttribute(dict, a.name) /\ t.type \in {"string", "octets"}
      /\ Len(v) < OctetSize - VsaHeader
  BY <1>1 DEF Regular
<1>3. t.id \in Octets /\ v \in OctetStrings /\ Len(v) \in Nat /\ a.vendor = "Cisco"
  BY <1>1, <1>2, LenOK DEF DictionaryOK, HasAttribute, GetAttribute, CiscoAttributes
<1>4. ValueOctets(t.type, v) = v
  BY <1>2 DEF ValueOctets
<1>5. number \in Nat /\ "Cisco" \in DOMAIN dict.vendors
  BY DEF Regular, DictionaryOK
<1> DEFINE inner == 2 + Len(v)
           outer == VsaHeader + Len(v)
           w == Word(number)
           y == <<t.id, inner>>
           data == (w \o y) \o v
<1>6. inner \in Nat /\ outer \in Nat /\ inner < OctetSize /\ outer < OctetSize
  <2> DEFINE m == Len(v)
  <2>1. m \in Nat /\ m < OctetSize - VsaHeader
    BY <1>2, <1>3
  <2>2. OctetSize \in Nat /\ VsaHeader \in Nat /\ VsaHeader > 2
    BY Sizes
  <2>3. inner = 2 + m /\ outer = VsaHeader + m
    OBVIOUS
  <2> HIDE DEF m, inner, outer
  <2>4. QED
    BY <2>1, <2>2, <2>3
<1>7. PackedVsa(dict, a) = ((<<VendorSpecific, Octet(outer)>> \o w) \o <<t.id, Octet(inner)>>) \o v
  BY <1>2, <1>3, <1>4, <1>5 DEF PackedVsa, InnerSize
<1>8. Cisco(a.name, a.value) = [id |-> VendorSpecific, data |-> data]
  BY DEF Cisco
<1> HIDE DEF t, v, number
<1>9. w \in OctetStrings /\ Len(w) = WordSize
  BY <1>5, WordOK
<1>10. Len(v) \in Nat /\ outer = 2 + (WordSize + 2 + Len(v))
  BY <1>3, Sizes
<1> HIDE DEF inner, outer
<1>11. Octet(inner) = inner /\ Octet(outer) = outer /\ inner \in Octets /\ outer \in Octets
  BY <1>6, OctetOK, OctetsOK
<1>12. y \in OctetStrings /\ Len(y) = 2
  BY <1>3, <1>11, PairOK
<1> HIDE DEF w, y
<1>13. data \in OctetStrings /\ 2 + Len(data) = outer
  <2>1. w \o y \in OctetStrings /\ Len(w \o y) = Len(w) + Len(y)
    BY <1>9, <1>12, Joined
  <2>2. (w \o y) \o v \in OctetStrings /\ Len((w \o y) \o v) = Len(w \o y) + Len(v)
    BY <1>3, <2>1, Joined
  <2>3. QED
    BY <1>9, <1>10, <1>12, <2>1, <2>2, Sizes
<1>14. PackedVsa(dict, a) = <<VendorSpecific, outer>> \o data
  <2> DEFINE x == <<VendorSpecific, outer>>
  <2>1. x \in OctetStrings
    <3>1. VendorSpecific \in Octets
      BY Sizes, OctetsOK
    <3>2. QED
      BY <1>11, <3>1, PairOK
  <2>2. PackedVsa(dict, a) = ((x \o w) \o y) \o v
    BY <1>7, <1>11 DEF y
  <2> HIDE DEF x
  <2>3. (x \o w) \o y = x \o (w \o y)
    BY <1>9, <1>12, <2>1, Assoc
  <2>4. (x \o (w \o y)) \o v = x \o ((w \o y) \o v)
    <3> DEFINE z == w \o y
    <3>1. z \in OctetStrings
      BY <1>9, <1>12, Joined
    <3> HIDE DEF z
    <3>2. (x \o z) \o v = x \o (z \o v)
      BY <1>3, <2>1, <3>1, Assoc
    <3>3. QED
      BY <3>2 DEF z
  <2>5. QED
    BY <2>2, <2>3, <2>4 DEF x
<1> HIDE DEF data
<1>15. VendorSpecific \in Octets
  BY Sizes, OctetsOK
<1>16. QED
  BY <1>6, <1>8, <1>13, <1>14, <1>15 DEF Fit, OctetsOf, Tagged

LEMMA FlattenOne ==
  ASSUME NEW S, NEW list \in Seq(Seq(S)), Len(list) = 1 PROVE FlattenSeq(list) = list[1]
<1> DEFINE one == 1
<1>1. one \in 1..Len(list) /\ one - 1 = 0 /\ list[one] \in Seq(S) /\ Len(list) = one
  OBVIOUS
<1> HIDE DEF one
<1>2. Before(list, one) = Before(list, one - 1) \o list[one]
  BY <1>1, BeforeNext
<1>3. Before(list, 0) = << >> /\ Before(list, one) = FlattenSeq(list)
  BY <1>1, BeforeEnds
<1>4. << >> \o list[one] = list[one]
  BY <1>1
<1>5. QED
  BY <1>1, <1>2, <1>3, <1>4 DEF one

LEMMA FlattenTwo ==
  ASSUME NEW S, NEW list \in Seq(Seq(S)), Len(list) = 2 PROVE FlattenSeq(list) = list[1] \o list[2]
<1> DEFINE one == 1
           two == 2
<1>1. one \in 1..Len(list) /\ two \in 1..Len(list) /\ one - 1 = 0 /\ two - 1 = one
      /\ list[one] \in Seq(S) /\ Len(list) = two
  OBVIOUS
<1> HIDE DEF one, two
<1>2. Before(list, one) = Before(list, one - 1) \o list[one]
  BY <1>1, BeforeNext
<1>3. Before(list, two) = Before(list, two - 1) \o list[two]
  BY <1>1, BeforeNext
<1>4. Before(list, 0) = << >> /\ Before(list, two) = FlattenSeq(list)
  BY <1>1, BeforeEnds
<1>5. << >> \o list[one] = list[one]
  BY <1>1
<1>6. QED
  BY <1>1, <1>2, <1>3, <1>4, <1>5 DEF one, two

LEMMA FlattenThree ==
  ASSUME NEW S, NEW list \in Seq(Seq(S)), Len(list) = 3
  PROVE  FlattenSeq(list) = (list[1] \o list[2]) \o list[3]
<1> DEFINE one == 1
           two == 2
           three == 3
<1>1. one \in 1..Len(list) /\ two \in 1..Len(list) /\ three \in 1..Len(list)
      /\ one - 1 = 0 /\ two - 1 = one /\ three - 1 = two /\ list[one] \in Seq(S) /\ Len(list) = three
  OBVIOUS
<1> HIDE DEF one, two, three
<1>2. Before(list, one) = Before(list, one - 1) \o list[one]
  BY <1>1, BeforeNext
<1>3. Before(list, two) = Before(list, two - 1) \o list[two]
  BY <1>1, BeforeNext
<1>4. Before(list, three) = Before(list, three - 1) \o list[three]
  BY <1>1, BeforeNext
<1>5. Before(list, 0) = << >> /\ Before(list, three) = FlattenSeq(list)
  BY <1>1, BeforeEnds
<1>6. << >> \o list[one] = list[one]
  BY <1>1
<1>7. QED
  BY <1>1, <1>2, <1>3, <1>4, <1>5, <1>6 DEF one, two, three

(* The parts of a request.                                                 *)
Vsas == [k \in DOMAIN packet.vsattr |-> PackedVsa(dict, packet.vsattr[k])]

RequestBody == PackedAttributes(dict, packet) \o FlattenSeq(Vsas)

RequestSize == HeaderSize + Len(RequestBody)

RequestHead ==
  <<Octet(packet.code), identifier, Octet(RequestSize \div OctetSize), Octet(RequestSize)>>

RequestDigest == Md5(((RequestHead \o Zeros(BlockSize)) \o RequestBody) \o Secret)

LEMMA RequestIs ==
  Packed(dict, packet, identifier) = (RequestHead \o RequestDigest) \o RequestBody
BY DEF Packed, RequestHead, RequestDigest, RequestSize, RequestBody, Vsas

LEMMA VsasOK ==
  ASSUME packet \in Packets, DictionaryOK(dict), Packable(dict, packet)
  PROVE  Vsas \in Seq(OctetStrings) /\ Len(Vsas) = Len(packet.vsattr)
<1>1. \A k \in DOMAIN packet.vsattr : Vsas[k] \in OctetStrings
  BY PackedVsaOK DEF Vsas
<1>2. DOMAIN packet.vsattr = 1..Len(packet.vsattr) /\ Len(packet.vsattr) \in Nat
  BY DEF Packets
<1>3. Vsas \in [1..Len(packet.vsattr) -> OctetStrings]
  BY <1>1, <1>2 DEF Vsas
<1>4. QED
  BY <1>2, <1>3

LEMMA RequestParts ==
  ASSUME Md5OK, packet \in Packets, DictionaryOK(dict), Packable(dict, packet), identifier \in Octets
  PROVE  /\ RequestBody \in OctetStrings /\ RequestSize \in Nat
         /\ RequestHead \in OctetStrings /\ Len(RequestHead) = 4
         /\ RequestDigest \in OctetStrings /\ Len(RequestDigest) = BlockSize
<1>1. RequestBody \in OctetStrings
  <2>1. PackedAttributes(dict, packet) \in OctetStrings
    BY PackedAttributesOK
  <2>2. FlattenSeq(Vsas) \in OctetStrings
    BY VsasOK, FlattenOK DEF OctetStrings
  <2>3. QED
    BY <2>1, <2>2, Joined DEF RequestBody
<1>2. RequestSize \in Nat
  BY <1>1, LenOK, Sizes DEF RequestSize
<1>3. Octet(packet.code) \in Octets /\ Octet(RequestSize \div OctetSize) \in Octets
      /\ Octet(RequestSize) \in Octets
  <2>1. packet.code \in Nat /\ RequestSize \div OctetSize \in Nat
    BY <1>2, Sizes DEF Packets
  <2>2. QED
    BY <1>2, <2>1, OctetOK
<1>4. RequestHead \in OctetStrings /\ Len(RequestHead) = 4
  BY <1>3 DEF OctetStrings, RequestHead
<1>5. ((RequestHead \o Zeros(BlockSize)) \o RequestBody) \o Secret \in OctetStrings
  <2>1. Secret \in OctetStrings /\ Zeros(BlockSize) \in OctetStrings
    BY RadiusAssumption, ZerosOK DEF OctetStrings
  <2>2. RequestHead \o Zeros(BlockSize) \in OctetStrings
    BY <1>4, <2>1, Joined
  <2>3. (RequestHead \o Zeros(BlockSize)) \o RequestBody \in OctetStrings
    BY <1>1, <2>2, Joined
  <2>4. QED
    BY <2>1, <2>3, Joined
<1>6. RequestDigest \in OctetStrings /\ Len(RequestDigest) = BlockSize
  <2>1. RequestDigest \in [1..BlockSize -> Octets]
    BY <1>5 DEF Md5OK, Blocks, RequestDigest
  <2>2. QED
    BY <2>1, Sizes, ArrayOK
<1>7. QED
  BY <1>1, <1>2, <1>4, <1>6

(* The digest covers the head, the body and the secret.                    *)
LEMMA RequestAuthentic ==
  ASSUME Md5OK, packet \in Packets, DictionaryOK(dict), Packable(dict, packet), identifier \in Octets,
         NEW w, w = Packed(dict, packet, identifier)
  PROVE  Authentic(w)
<1> DEFINE h == RequestHead
           d == RequestDigest
           b == RequestBody
<1>1. h \in OctetStrings /\ d \in OctetStrings /\ b \in OctetStrings /\ Len(h) = 4 /\ Len(d) = BlockSize
  BY RequestParts
<1>2. w = (h \o d) \o b
  BY RequestIs
<1>3. d = Md5(((h \o Zeros(BlockSize)) \o b) \o Secret)
  BY DEF RequestDigest
<1> HIDE DEF h, d, b
<1>4. SubSeq(w, 5, HeaderSize) = d
  <2>1. SubSeq(w, Len(h) + 1, Len(h) + Len(d)) = d
    <3>1. SubSeq((h \o d) \o b, Len(h) + 1, Len(h) + Len(d)) = d
      BY <1>1, MiddleIs
    <3>2. QED
      BY <1>2, <3>1
  <2>2. Len(h) + 1 = 5 /\ Len(h) + Len(d) = HeaderSize
    BY <1>1, Sizes
  <2>3. QED
    BY <2>1, <2>2
<1>5. SubSeq(w, 1, 4) = h
  BY <1>1, <1>2, HeadOfThree
<1>6. SubSeq(w, HeaderSize + 1, Len(w)) = b
  <2> DEFINE x == h \o d
  <2>1. x \in OctetStrings /\ Len(x) = HeaderSize
    BY <1>1, Joined, Sizes
  <2>2. w = x \o b
    BY <1>2
  <2> HIDE DEF x
  <2>3. SubSeq(x \o b, Len(x) + 1, Len(x \o b)) = b
    BY <1>1, <2>1, RestIs DEF OctetStrings
  <2>4. QED
    BY <2>1, <2>2, <2>3
<1>7. QED
  BY <1>3, <1>4, <1>5, <1>6 DEF Authentic

(* The header says code, identifier and size.                              *)
LEMMA RequestHeader ==
  ASSUME Md5OK, packet \in Packets, DictionaryOK(dict), Packable(dict, packet), identifier \in Octets,
         packet.code \in Octets, Len(RequestBody) < 4 * OctetSize,
         NEW w, w = Packed(dict, packet, identifier)
  PROVE  w[1] = packet.code /\ w[2] = identifier /\ Len(w) = w[3] * OctetSize + w[4]
<1>1. /\ RequestHead \in OctetStrings /\ RequestDigest \in OctetStrings /\ RequestBody \in OctetStrings
      /\ Len(RequestHead) = 4 /\ Len(RequestDigest) = BlockSize /\ RequestSize \in Nat
  BY RequestParts
<1>2. w = (RequestHead \o RequestDigest) \o RequestBody
  BY RequestIs
<1> DEFINE x == RequestHead \o RequestDigest
<1>3. x \in OctetStrings /\ Len(x) = HeaderSize
  BY <1>1, Joined, Sizes
<1>4. Len(w) = RequestSize
  BY <1>1, <1>2, <1>3, Joined DEF RequestSize
<1>5. ASSUME NEW k \in 1..4 PROVE w[k] = RequestHead[k]
  <2>1. k \in 1..Len(RequestHead) /\ k \in 1..Len(x)
    BY <1>1, <1>3, Sizes
  <2>2. x[k] = RequestHead[k]
    BY <1>1, <2>1, FrontIs
  <2> HIDE DEF x
  <2>3. (x \o RequestBody)[k] = x[k]
    BY <1>1, <1>3, <2>1, FrontIs
  <2>4. QED
    BY <1>2, <2>2, <2>3 DEF x
<1>6. RequestHead[1] = Octet(packet.code) /\ RequestHead[2] = identifier
      /\ RequestHead[3] = Octet(RequestSize \div OctetSize) /\ RequestHead[4] = Octet(RequestSize)
  BY DEF RequestHead
<1>7. w[1] = Octet(packet.code) /\ w[2] = identifier
      /\ w[3] = Octet(RequestSize \div OctetSize) /\ w[4] = Octet(RequestSize)
  <2>1. 1 \in 1..4 /\ 2 \in 1..4 /\ 3 \in 1..4 /\ 4 \in 1..4
    OBVIOUS
  <2>2. QED
    BY <1>5, <1>6, <2>1
<1>8. Octet(packet.code) = packet.code
  BY OctetsOK, OctetOK
<1>9. Octet(RequestSize \div OctetSize) = RequestSize \div OctetSize
  <2>1. OctetSize \in Nat \ {0} /\ RequestSize < OctetSize * OctetSize
    <3> DEFINE n == Len(RequestBody)
               m == OctetSize * OctetSize
               k == 4 * OctetSize
    <3>1. n \in Nat /\ n < k /\ HeaderSize + k < m /\ HeaderSize \in Nat /\ RequestSize = HeaderSize + n
      BY <1>1, LenOK, Sizes DEF RequestSize
    <3>2. m \in Nat /\ k \in Nat
      BY Sizes
    <3> HIDE DEF n, m, k
    <3>3. RequestSize < m
      BY <3>1, <3>2
    <3>4. OctetSize \in Nat \ {0}
      BY Sizes
    <3>5. QED
      BY <3>3, <3>4 DEF m
  <2>2. RequestSize \div OctetSize \in Octets
    BY <1>1, <2>1, HighOctet DEF Octets
  <2>3. QED
    BY <2>2, OctetsOK, OctetOK
<1>10. (RequestSize \div OctetSize) * OctetSize + Octet(RequestSize) = RequestSize
  <2>1. OctetSize \in Nat \ {0}
    BY Sizes
  <2>2. \A b \in Nat \ {0}, n \in Nat : (n \div b) * b + (n % b) = n
    OBVIOUS
  <2>3. QED
    BY <1>1, <2>1, <2>2 DEF Octet
<1>11. QED
  BY <1>4, <1>7, <1>8, <1>9, <1>10

(***************************************************************************)
(* The password, unmasked.                                                 *)
(***************************************************************************)
LEMMA Unmasks ==
  ASSUME Md5OK, NEW block \in Blocks, NEW previous \in Blocks, NEW masked, masked = Masked(block, previous)
  PROVE  Masked(masked, previous) = block
<1> DEFINE mask == Md5(Secret \o previous)
<1>1. mask \in Blocks
  <2>1. previous \in OctetStrings
    BY Sizes, ArrayOK DEF Blocks
  <2>2. QED
    BY <2>1, Joined, RadiusAssumption DEF Md5OK, OctetStrings
<1>2. Masked(block, previous) = [k \in 1..BlockSize |-> Xor(block[k], mask[k])]
  BY DEF Masked
<1>3. Masked(masked, previous) = [k \in 1..BlockSize |-> Xor(masked[k], mask[k])]
  BY DEF Masked
<1> HIDE DEF mask
<1>4. ASSUME NEW k \in 1..BlockSize PROVE Xor(masked[k], mask[k]) = block[k]
  <2>1. block[k] \in Octets /\ mask[k] \in Octets
    BY <1>1 DEF Blocks
  <2>2. masked[k] = Xor(block[k], mask[k])
    BY <1>2
  <2>3. QED
    BY <2>1, <2>2, RadiusAssumption
<1>5. block = [k \in 1..BlockSize |-> block[k]]
  BY DEF Blocks
<1>6. QED
  BY <1>3, <1>4, <1>5

LEMMA BlocksAreTexts == \A b \in Blocks : b \in OctetStrings /\ Len(b) = BlockSize
BY Sizes, ArrayOK DEF Blocks

LEMMA BlockListOK ==
  ASSUME NEW n \in Nat, NEW list \in [1..n -> Blocks]
  PROVE  list \in Seq(OctetStrings) /\ Len(list) = n
<1>1. \A k \in 1..n : list[k] \in OctetStrings
  BY BlocksAreTexts
<1>2. list \in [1..n -> OctetStrings]
  BY <1>1
<1>3. QED
  BY <1>2

(* Blocks in a row: how long they are, and where each is.                  *)
LEMMA BeforeBlocks ==
  ASSUME NEW n \in Nat, NEW list \in [1..n -> Blocks]
  PROVE  \A k \in 0..n : Len(Before(list, k)) = k * BlockSize
<1> DEFINE T == {k \in 0..n : Len(Before(list, k)) = k * BlockSize}
<1>1. list \in Seq(OctetStrings) /\ Len(list) = n
  BY BlockListOK
<1>2. 0 \in T
  <2>1. Before(list, 0) = << >> /\ Len(<< >>) = 0 /\ 0 * BlockSize = 0 /\ 0 \in 0..n
    BY <1>1, BeforeEnds, Sizes DEF OctetStrings
  <2>2. Len(Before(list, 0)) = 0 * BlockSize
    BY <2>1
  <2>3. QED
    BY <2>1, <2>2
<1>3. ASSUME NEW k \in 1..n, k - 1 \in T PROVE k \in T
  <2>1. Before(list, k) = Before(list, k - 1) \o list[k]
    BY <1>1, BeforeNext DEF OctetStrings
  <2>2. Before(list, k - 1) \in OctetStrings /\ list[k] \in OctetStrings /\ Len(list[k]) = BlockSize
    <3>1. k - 1 \in 0..Len(list)
      BY <1>1
    <3>2. Before(list, k - 1) \in OctetStrings
      BY <1>1, <3>1, BeforeEnds DEF OctetStrings
    <3>3. QED
      BY <3>2, BlocksAreTexts
  <2>3. Len(Before(list, k)) = Len(Before(list, k - 1)) + BlockSize
    BY <2>1, <2>2, Joined
  <2>4. Len(Before(list, k - 1)) = (k - 1) * BlockSize
    BY <1>3
  <2>5. k * BlockSize = (k - 1) * BlockSize + BlockSize
    BY BlockBounds
  <2>6. QED
    BY <2>3, <2>4, <2>5
<1> HIDE DEF T
<1>4. 0..n \subseteq T
  BY <1>2, <1>3, UpTo
<1>5. QED
  BY <1>4 DEF T

LEMMA BlocksInRow ==
  ASSUME NEW n \in Nat, NEW list \in [1..n -> Blocks], NEW text, text = FlattenSeq(list)
  PROVE  /\ text \in OctetStrings /\ Len(text) = n * BlockSize
         /\ \A k \in 1..n : Block(text, k) = list[k]
<1>1. list \in Seq(OctetStrings) /\ Len(list) = n
  BY BlockListOK
<1>2. text \in OctetStrings /\ Len(text) = n * BlockSize
  <2>1. Before(list, n) = FlattenSeq(list) /\ Before(list, n) \in OctetStrings
    BY <1>1, BeforeEnds DEF OctetStrings
  <2>2. QED
    BY <2>1, BeforeBlocks
<1>3. ASSUME NEW k \in 1..n PROVE Block(text, k) = list[k]
  <2> DEFINE a == Before(list, k - 1)
             b == list[k]
             c == After(list, k)
  <2>1. k \in 1..Len(list) /\ k - 1 \in 0..Len(list) /\ k \in 0..Len(list) /\ k - 1 \in 0..n
    BY <1>1
  <2>2. a \in OctetStrings /\ b \in OctetStrings /\ Len(b) = BlockSize
    BY <1>1, <2>1, BeforeEnds, BlocksAreTexts DEF OctetStrings
  <2>3. c \in OctetStrings /\ text = Before(list, k) \o c
    BY <1>1, <2>1, AfterSplit DEF OctetStrings
  <2>4. Before(list, k) = a \o b
    BY <1>1, <2>1, BeforeNext DEF OctetStrings
  <2>5. Len(a) = (k - 1) * BlockSize
    BY <2>1, BeforeBlocks
  <2>6. Len(a) + Len(b) = k * BlockSize
    BY <2>2, <2>5, BlockBounds
  <2>7. text = (a \o b) \o c
    BY <2>3, <2>4
  <2> HIDE DEF a, b, c
  <2>8. SubSeq((a \o b) \o c, Len(a) + 1, Len(a) + Len(b)) = b
    BY <2>2, <2>3, MiddleIs
  <2>9. QED
    BY <2>5, <2>6, <2>7, <2>8 DEF Block, b
<1>4. QED
  BY <1>2, <1>3

LEMMA PartsJoin ==
  ASSUME NEW text \in OctetStrings, NEW m \in Nat, NEW n \in Nat, m <= n, n <= Len(text)
  PROVE  SubSeq(text, 1, m) \o SubSeq(text, m + 1, n) = SubSeq(text, 1, n)
<1> DEFINE a == SubSeq(text, 1, m)
           b == SubSeq(text, m + 1, n)
           c == SubSeq(text, 1, n)
<1>0. text \in Seq(Octets) /\ \A k \in 1..n : text[k] \in Octets
  BY DEF OctetStrings
<1>1. a \in Seq(Octets) /\ Len(a) = m /\ \A k \in 1..m : a[k] = text[k]
  BY <1>0
<1>2. b \in Seq(Octets) /\ Len(b) = n - m /\ \A k \in 1..n - m : b[k] = text[m + k]
  BY <1>0
<1>3. c \in Seq(Octets) /\ Len(c) = n /\ \A k \in 1..n : c[k] = text[k]
  BY <1>0
<1> HIDE DEF a, b, c
<1>4. a \in OctetStrings /\ b \in OctetStrings
  BY <1>1, <1>2 DEF OctetStrings
<1>5. a \o b \in Seq(Octets) /\ Len(a \o b) = n
  <2>1. a \o b \in OctetStrings /\ Len(a \o b) = Len(a) + Len(b)
    BY <1>4, Joined
  <2>2. Len(a) + Len(b) = n
    BY <1>1, <1>2
  <2>3. QED
    BY <2>1, <2>2 DEF OctetStrings
<1>6. ASSUME NEW k \in 1..n PROVE (a \o b)[k] = c[k]
  <2>1. CASE k <= m
    <3>1. k \in 1..Len(a)
      BY <1>1, <2>1
    <3>2. (a \o b)[k] = a[k]
      BY <1>4, <3>1, FrontIs
    <3>3. QED
      BY <1>1, <1>3, <3>1, <3>2
  <2>2. CASE ~(k <= m)
    <3> DEFINE j == k - m
    <3>1. j \in 1..Len(b) /\ k = Len(a) + j /\ m + j = k /\ j \in 1..n - m
      BY <1>1, <1>2, <2>2
    <3> HIDE DEF j
    <3>2. (a \o b)[k] = b[j]
      BY <1>4, <3>1, BackIs
    <3>3. QED
      BY <1>2, <1>3, <3>1, <3>2
  <2>3. QED
    BY <2>1, <2>2
<1>7. a \o b = c
  BY <1>3, <1>5, <1>6, SeqEqual
<1>8. QED
  BY <1>7 DEF a, b, c

LEMMA BlocksJoin ==
  ASSUME NEW count \in Nat, NEW text \in OctetStrings, Len(text) = count * BlockSize,
         NEW list, list = [k \in 1..count |-> Block(text, k)]
  PROVE  FlattenSeq(list) = text
<1> DEFINE T == {k \in 0..count : Before(list, k) = SubSeq(text, 1, k * BlockSize)}
<1>1. list \in [1..count -> Blocks] /\ \A k \in 1..count : list[k] = Block(text, k)
  <2>1. \A k \in 1..count : Block(text, k) \in Blocks
    BY BlockOK
  <2>2. QED
    BY <2>1
<1>2. list \in Seq(OctetStrings) /\ Len(list) = count
  BY <1>1, BlockListOK
<1>3. 0 \in T
  <2>1. Before(list, 0) = << >> /\ 0 * BlockSize = 0 /\ 0 \in 0..count
    <3>1. Before(list, 0) = << >>
      BY <1>2, BeforeEnds DEF OctetStrings
    <3>2. BlockSize \in Nat
      BY Sizes
    <3>3. QED
      BY <3>1, <3>2
  <2>2. SubSeq(text, 1, 0) = << >>
    BY DEF OctetStrings
  <2>3. Before(list, 0) = SubSeq(text, 1, 0 * BlockSize)
    BY <2>1, <2>2
  <2>4. QED
    BY <2>1, <2>3
<1>4. ASSUME NEW k \in 1..count, k - 1 \in T PROVE k \in T
  <2> DEFINE m == (k - 1) * BlockSize
             n == k * BlockSize
  <2>1. m \in Nat /\ n \in Nat /\ m <= n /\ n <= Len(text)
    BY BlockBounds, Sizes
  <2>2. Before(list, k - 1) = SubSeq(text, 1, m) /\ list[k] = SubSeq(text, m + 1, n)
    BY <1>1, <1>4 DEF Block
  <2>3. Before(list, k) = Before(list, k - 1) \o list[k]
    BY <1>2, BeforeNext DEF OctetStrings
  <2> HIDE DEF m, n
  <2>4. SubSeq(text, 1, m) \o SubSeq(text, m + 1, n) = SubSeq(text, 1, n)
    BY <2>1, PartsJoin
  <2>5. Before(list, k) = SubSeq(text, 1, n)
    BY <2>2, <2>3, <2>4
  <2>6. QED
    BY <2>5 DEF n
<1> HIDE DEF T
<1>5. 0..count \subseteq T
  BY <1>3, <1>4, UpTo
<1>6. Before(list, count) = SubSeq(text, 1, Len(text))
  BY <1>5 DEF T
<1>7. SubSeq(text, 1, Len(text)) = text
  BY DEF OctetStrings
<1>8. Before(list, count) = FlattenSeq(list)
  BY <1>2, BeforeEnds DEF OctetStrings
<1>9. QED
  BY <1>6, <1>7, <1>8

(* The text that the NAS unmasks, block by block.                          *)
UnmaskedList(data) ==
  [k \in 1..(Len(data) \div BlockSize) - 1 |->
     Masked(SubSeq(data, k * BlockSize + 1, (k + 1) * BlockSize),
            SubSeq(data, (k - 1) * BlockSize + 1, (k - 1 + 1) * BlockSize))]

LEMMA UnmaskedIs ==
  ASSUME NEW data
  PROVE  Unmasked(data) = SubSeq(FlattenSeq(UnmaskedList(data)), 2, 1 + FlattenSeq(UnmaskedList(data))[1])
BY DEF Unmasked, UnmaskedList

LEMMA BlocksOf ==
  ASSUME NEW n \in Nat \ {0}, NEW x, x = n * BlockSize PROVE x \div BlockSize = n
<1>1. BlockSize \in Nat \ {0}
  BY Sizes
<1>2. \A b \in Nat \ {0}, m \in Nat : (m * b) \div b = m
  OBVIOUS
<1>3. QED
  BY <1>1, <1>2

LEMMA UnmasksAll ==
  ASSUME Md5OK, NEW authenticator \in Blocks, NEW text \in OctetStrings,
         NEW count \in Nat, Len(text) = count * BlockSize,
         NEW f, f = MaskedBlocks(text, authenticator, count),
         NEW data, data = FlattenSeq([k \in 1..count + 1 |-> f[k - 1]])
  PROVE  FlattenSeq(UnmaskedList(data)) = text /\ data \in OctetStrings
         /\ Len(data) = Len(text) + BlockSize
<1> DEFINE list == [k \in 1..count + 1 |-> f[k - 1]]
           n == count + 1
<1>1. /\ f \in [0..count -> Blocks] /\ f[0] = authenticator
      /\ \A k \in 1..count : f[k] = Masked(Block(text, k), f[k - 1])
  BY MaskedBlocksOK
<1>2. list \in [1..n -> Blocks] /\ n \in Nat /\ n > 0 /\ \A k \in 1..n : list[k] = f[k - 1]
  BY <1>1
<1> HIDE DEF list, n
<1>3. /\ data \in OctetStrings /\ Len(data) = n * BlockSize
      /\ \A k \in 1..n : Block(data, k) = list[k]
  <2>1. data = FlattenSeq(list)
    BY DEF list
  <2>2. QED
    BY <1>2, <2>1, BlocksInRow
<1>4. (Len(data) \div BlockSize) - 1 = count
  <2>1. Len(data) \div BlockSize = n
    BY <1>2, <1>3, BlocksOf
  <2>2. n - 1 = count
    BY DEF n
  <2>3. QED
    BY <2>1, <2>2
<1>5. ASSUME NEW k \in 1..count
      PROVE  Masked(SubSeq(data, k * BlockSize + 1, (k + 1) * BlockSize),
                    SubSeq(data, (k - 1) * BlockSize + 1, (k - 1 + 1) * BlockSize)) = Block(text, k)
  <2> DEFINE j == k + 1
  <2>1. j \in 1..n /\ k \in 1..n /\ j - 1 = k /\ k - 1 + 1 = k
    BY DEF n
  <2>2. SubSeq(data, k * BlockSize + 1, (k + 1) * BlockSize) = Block(data, j)
    BY <2>1 DEF Block
  <2>3. SubSeq(data, (k - 1) * BlockSize + 1, (k - 1 + 1) * BlockSize) = Block(data, k)
    BY <2>1 DEF Block
  <2> HIDE DEF j
  <2>4. Block(data, j) = f[k] /\ Block(data, k) = f[k - 1]
    BY <1>2, <1>3, <2>1
  <2>5. f[k] = Masked(Block(text, k), f[k - 1]) /\ f[k - 1] \in Blocks /\ Block(text, k) \in Blocks
    BY <1>1, BlockOK
  <2>6. Masked(f[k], f[k - 1]) = Block(text, k)
    BY <2>5, Unmasks
  <2>7. QED
    BY <2>2, <2>3, <2>4, <2>6
<1>6. UnmaskedList(data) = [k \in 1..count |-> Block(text, k)]
  BY <1>4, <1>5 DEF UnmaskedList
<1>7. FlattenSeq(UnmaskedList(data)) = text
  BY <1>6, BlocksJoin
<1>8. Len(data) = Len(text) + BlockSize
  <2>1. BlockSize \in Nat /\ count \in Nat /\ n = count + 1
    BY Sizes DEF n
  <2>2. (count + 1) * BlockSize = count * BlockSize + BlockSize
    BY <2>1
  <2>3. QED
    BY <1>3, <2>1, <2>2
<1>9. QED
  BY <1>3, <1>7, <1>8

LEMMA PaddedIs ==
  ASSUME NEW password \in OctetStrings, Len(password) < OctetSize, NEW text, text = Padded(password)
  PROVE  text[1] = Len(password) /\ SubSeq(text, 2, 1 + text[1]) = password
<1> DEFINE x == <<Len(password) % OctetSize>>
           fill == BlockSize - (Len(x \o password) % BlockSize)
           z == Zeros(fill)
<1>1. Len(password) \in Nat /\ Len(password) % OctetSize = Len(password)
      /\ Len(password) % OctetSize \in Octets
  BY LenOK, Sizes DEF Octets
<1>2. x \in OctetStrings /\ Len(x) = 1 /\ x[1] = Len(password)
  BY <1>1 DEF OctetStrings
<1>3. text = (x \o password) \o z
  BY DEF Padded
<1> HIDE DEF x
<1>4. x \o password \in OctetStrings /\ Len(x \o password) = 1 + Len(password)
  BY <1>2, Joined
<1>5. z \in OctetStrings
  <2>1. fill \in Nat
    BY <1>1, <1>4, Sizes
  <2> HIDE DEF fill
  <2>2. QED
    BY <2>1, ZerosOK
<1> HIDE DEF z
<1>6. text[1] = x[1]
  <2>1. Len(x) > 0 /\ Len(x \o password) > 0
    BY <1>1, <1>2, <1>4
  <2>2. (x \o password)[1] = x[1]
    BY <1>2, <2>1, FirstJoined
  <2> DEFINE y == x \o password
  <2> HIDE DEF y
  <2>3. (y \o z)[1] = y[1]
    BY <1>4, <1>5, <2>1, FirstJoined DEF y
  <2>4. QED
    BY <1>3, <2>2, <2>3 DEF y
<1>7. SubSeq(text, 2, 1 + Len(password)) = password
  <2>1. SubSeq((x \o password) \o z, Len(x) + 1, Len(x) + Len(password)) = password
    BY <1>2, <1>5, MiddleIs
  <2>2. Len(x) + 1 = 2 /\ Len(x) + Len(password) = 1 + Len(password)
    BY <1>2
  <2>3. QED
    BY <1>3, <2>1, <2>2
<1>8. QED
  BY <1>2, <1>6, <1>7

(* What was packed can be unmasked.                                        *)
LEMMA PasswordUnmasked ==
  ASSUME Md5OK, NEW authenticator \in Blocks, NEW password \in OctetStrings,
         NEW data, data = PasswordPack(authenticator, password), Len(data) < OctetSize
  PROVE  data \in OctetStrings /\ Unmasked(data) = password
<1> DEFINE text == Padded(password)
           count == Len(text) \div BlockSize
           f == MaskedBlocks(text, authenticator, count)
<1>1. text \in OctetStrings /\ Len(text) = count * BlockSize /\ count \in Nat
      /\ Len(text) > Len(password) + 1
  BY PaddedOK, LenOK, Sizes
<1>2. data = FlattenSeq([k \in 1..count + 1 |-> f[k - 1]])
  BY DEF PasswordPack, MaskedBlocks
<1> HIDE DEF count
<1>3. /\ FlattenSeq(UnmaskedList(data)) = text /\ data \in OctetStrings
      /\ Len(data) = Len(text) + BlockSize
  <2> HIDE DEF f, text
  <2>1. f = MaskedBlocks(text, authenticator, count)
    BY DEF f
  <2>2. QED
    BY <1>1, <1>2, <2>1, UnmasksAll
<1>4. Len(password) < OctetSize
  <2>1. Len(password) \in Nat /\ Len(text) \in Nat /\ BlockSize \in Nat /\ OctetSize \in Nat
    BY <1>1, LenOK, Sizes
  <2> HIDE DEF text
  <2>2. QED
    BY <1>1, <1>3, <2>1
<1> HIDE DEF f
<1>5. text[1] = Len(password) /\ SubSeq(text, 2, 1 + text[1]) = password
  BY <1>4, PaddedIs
<1> HIDE DEF text
<1>6. QED
  BY <1>3, <1>5, UnmaskedIs

(***************************************************************************)
(* What stands in a regular request.                                       *)
(***************************************************************************)
LEMMA CodedIs ==
  ASSUME Regular
  PROVE  Coded(dict).code = GetValue(dict, "Packet-Type", "CoA-Request")
         /\ Coded(dict).attr = << >> /\ Coded(dict).vsattr = << >>
BY DEF Regular, Coded, EmptyPacket

CiscoEntryAt(k, name, value) ==
  packet.vsattr[k] = [vendor |-> "Cisco", name |-> name, value |-> value]

Requested ==
  IF Loggon
  THEN \E random \in Randoms :
         packet = LoggonRequest(dict, Key, command.login, command.password, random)
  ELSE packet = SessionRequest(dict, command.command, Key, command.service)

LEMMA WithIs ==
  ASSUME NEW p \in Packets, p.attr = << >>, NEW name \in Names, NEW value \in OctetStrings,
         NEW q, q = With(p, name, value)
  PROVE  /\ q \in Packets /\ q.code = p.code /\ q.vsattr = p.vsattr
         /\ q.attr = <<[name |-> name, value |-> value]>>
<1> DEFINE x == [name |-> name, value |-> value]
<1>1. q = [p EXCEPT !.attr = Append(p.attr, x)]
  BY DEF With
<1> HIDE DEF x
<1>2. Append(p.attr, x) = <<x>>
  OBVIOUS
<1>3. q.code = p.code /\ q.vsattr = p.vsattr /\ q.attr = Append(p.attr, x)
  BY <1>1 DEF Packets
<1>4. q \in Packets
  BY WithOK
<1>5. QED
  BY <1>2, <1>3, <1>4 DEF x

LEMMA WithCiscoIs ==
  ASSUME NEW p \in Packets, NEW name \in Names, NEW value \in OctetStrings,
         NEW q, q = WithCisco(p, name, value), NEW n, n = Len(p.vsattr) + 1
  PROVE  /\ q \in Packets /\ q.code = p.code /\ q.attr = p.attr
         /\ Len(q.vsattr) = n /\ n \in Nat
         /\ q.vsattr[n] = [vendor |-> "Cisco", name |-> name, value |-> value]
         /\ \A k \in 1..n - 1 : q.vsattr[k] = p.vsattr[k]
<1> DEFINE x == [vendor |-> "Cisco", name |-> name, value |-> value]
           s == p.vsattr
<1>1. q = [p EXCEPT !.vsattr = Append(s, x)]
  BY DEF WithCisco
<1>2. s \in Seq(CiscoAttributes) /\ x \in CiscoAttributes
  BY DEF Packets, CiscoAttributes
<1>3. q.code = p.code /\ q.attr = p.attr /\ q.vsattr = Append(s, x)
  BY <1>1 DEF Packets
<1>4. q \in Packets
  BY WithCiscoOK
<1> HIDE DEF x
<1>5. Len(s) \in Nat /\ n = Len(s) + 1
  BY <1>2
<1> HIDE DEF s
<1>6. /\ Len(Append(s, x)) = n /\ Append(s, x)[n] = x
      /\ \A k \in 1..n - 1 : Append(s, x)[k] = s[k]
  BY <1>2, <1>5
<1>7. QED
  BY <1>3, <1>4, <1>5, <1>6 DEF x, s

LEMMA KeyHasNas ==
  ASSUME CommandOK(command), Regular PROVE ~NoNas(Key)
<1>1. CASE command.letter \in {<<LetterI>>, <<LetterBigI>>}
  <2>1. command.nas # << >>
    BY <1>1 DEF Regular
  <2> DEFINE m == Len(command.letter \o command.nas)
  <2>2. ColonAt(Key) = m + 1 /\ m \in Nat
    BY <2>1, KeyColon, LetteredNas, LenOK
  <2> HIDE DEF m
  <2>3. ColonAt(Key) # 0
    BY <2>2
  <2>4. QED
    BY <2>3 DEF NoNas
<1>2. CASE command.letter \notin {<<LetterI>>, <<LetterBigI>>}
  BY <1>2, SessionKey DEF NoNas
<1>3. QED
  BY <1>1, <1>2

LEMMA SessionPacket ==
  ASSUME DictionaryOK(dict), CommandOK(command), Regular, Requested, ~Loggon,
         NEW coded, coded = CommandCode(command.command, command.service)
  PROVE  /\ packet.code = GetValue(dict, "Packet-Type", "CoA-Request")
         /\ command.letter \in {<<LetterI>>, <<LetterBigI>>} =>
              /\ packet.attr = <<[name |-> "Acct-Session-Id", value |-> SessionId(Key)]>>
              /\ Len(packet.vsattr) = 1
              /\ CiscoEntryAt(1, "Cisco-Command-Code", coded)
         /\ command.letter \notin {<<LetterI>>, <<LetterBigI>>} =>
              /\ packet.attr = << >>
              /\ Len(packet.vsattr) = 2
              /\ CiscoEntryAt(1, "Cisco-Account-Info", AccountOf(Key))
              /\ CiscoEntryAt(2, "Cisco-Command-Code", coded)
<1> DEFINE c == Coded(dict)
           a == Addressed(c, Key)
<1>1. /\ c \in Packets
      /\ c.code = GetValue(dict, "Packet-Type", "CoA-Request") /\ c.attr = << >> /\ c.vsattr = << >>
  BY CodedIs, CodedOK
<1>2. packet = WithCisco(a, "Cisco-Command-Code", coded)
  BY KeyHasNas DEF Requested, SessionRequest
<1>3. coded \in OctetStrings /\ "Cisco-Command-Code" \in Names
  BY CodeOK DEF Loggon, Names
<1>4. Key \in OctetStrings
  BY KeyOK
<1> HIDE DEF c
<1>5. CASE command.letter \in {<<LetterI>>, <<LetterBigI>>}
  <2>1. a = With(c, "Acct-Session-Id", SessionId(Key))
    BY <1>5, SessionKey DEF Addressed
  <2>2. SessionId(Key) \in OctetStrings /\ "Acct-Session-Id" \in Names
    BY <1>4, SessionIdOK DEF Names
  <2> HIDE DEF a
  <2>3. /\ a \in Packets /\ a.code = c.code /\ a.vsattr = << >>
        /\ a.attr = <<[name |-> "Acct-Session-Id", value |-> SessionId(Key)]>>
    BY <1>1, <2>1, <2>2, WithIs
  <2> DEFINE n == Len(a.vsattr) + 1
  <2>4. n = 1
    BY <2>3
  <2>8. n = Len(a.vsattr) + 1
    OBVIOUS
  <2>9. a \in Packets
    BY <2>3
  <2> HIDE DEF n
  <2>5. /\ packet.code = a.code /\ packet.attr = a.attr /\ Len(packet.vsattr) = n
        /\ packet.vsattr[n] = [vendor |-> "Cisco", name |-> "Cisco-Command-Code", value |-> coded]
    BY <1>2, <1>3, <2>8, <2>9, WithCiscoIs
  <2>6. QED
    BY <1>1, <1>5, <2>3, <2>4, <2>5 DEF CiscoEntryAt
<1>6. CASE command.letter \notin {<<LetterI>>, <<LetterBigI>>}
  <2>1. a = WithCisco(c, "Cisco-Account-Info", AccountOf(Key))
    BY <1>6, SessionKey DEF Addressed
  <2>2. AccountOf(Key) \in OctetStrings /\ "Cisco-Account-Info" \in Names
    BY <1>4, AccountOfOK DEF Names
  <2> HIDE DEF a
  <2> DEFINE m == Len(c.vsattr) + 1
             n == Len(a.vsattr) + 1
  <2>3. m = 1
    BY <1>1
  <2>9. m = Len(c.vsattr) + 1 /\ n = Len(a.vsattr) + 1
    OBVIOUS
  <2>10. c \in Packets
    BY <1>1
  <2> HIDE DEF m, n
  <2>4. /\ a \in Packets /\ a.code = c.code /\ a.attr = c.attr /\ Len(a.vsattr) = m
        /\ a.vsattr[m] = [vendor |-> "Cisco", name |-> "Cisco-Account-Info", value |-> AccountOf(Key)]
    BY <2>1, <2>2, <2>9, <2>10, WithCiscoIs
  <2>5. n = 2
    BY <2>3, <2>4 DEF n
  <2>6. /\ packet.code = a.code /\ packet.attr = a.attr /\ Len(packet.vsattr) = n
        /\ packet.vsattr[n] = [vendor |-> "Cisco", name |-> "Cisco-Command-Code", value |-> coded]
        /\ \A k \in 1..n - 1 : packet.vsattr[k] = a.vsattr[k]
    BY <1>2, <1>3, <2>4, <2>9, WithCiscoIs
  <2>7. packet.vsattr[1] = a.vsattr[1]
    BY <2>5, <2>6
  <2>8. QED
    BY <1>1, <1>6, <2>3, <2>4, <2>5, <2>6, <2>7 DEF CiscoEntryAt
<1>7. QED
  BY <1>5, <1>6

LEMMA LoggonPacket ==
  ASSUME Md5OK, DictionaryOK(dict), CommandOK(command), Regular, NEW random \in Blocks,
         packet = LoggonRequest(dict, Key, command.login, command.password, random),
         NEW masked, masked = PasswordPack(random, command.password)
  PROVE  /\ packet.code = GetValue(dict, "Packet-Type", "CoA-Request")
         /\ packet.attr = <<[name |-> "User-Name", value |-> command.login]>>
         /\ Len(packet.vsattr) = 3
         /\ CiscoEntryAt(1, "Cisco-Account-Info", AccountOf(Key))
         /\ CiscoEntryAt(2, "Cisco-Command-Code", <<1>>)
         /\ CiscoEntryAt(3, "Cisco-Subscriber-Password", masked)
<1> DEFINE c == Coded(dict)
           one == <<1>>
           p == With(c, "User-Name", command.login)
           q == WithCisco(p, "Cisco-Account-Info", AccountOf(Key))
           r == WithCisco(q, "Cisco-Command-Code", one)
<1>1. /\ c \in Packets
      /\ c.code = GetValue(dict, "Packet-Type", "CoA-Request") /\ c.attr = << >> /\ c.vsattr = << >>
  BY CodedIs, CodedOK
<1>2. packet = WithCisco(r, "Cisco-Subscriber-Password", masked)
  BY DEF LoggonRequest
<1>3. /\ command.login \in OctetStrings /\ command.password \in OctetStrings
      /\ AccountOf(Key) \in OctetStrings /\ masked \in OctetStrings
  BY KeyOK, AccountOfOK, PasswordPackOK DEF CommandOK
<1>4. one \in OctetStrings
  BY OctetsOK DEF OctetStrings
<1>5. {"User-Name", "Cisco-Account-Info", "Cisco-Command-Code", "Cisco-Subscriber-Password"}
        \subseteq Names
  BY DEF Names
<1> HIDE DEF c, one
<1>6. /\ p \in Packets /\ p.code = c.code /\ p.vsattr = << >>
      /\ p.attr = <<[name |-> "User-Name", value |-> command.login]>>
  BY <1>1, <1>3, <1>5, WithIs
<1> HIDE DEF p
<1> DEFINE k1 == Len(p.vsattr) + 1
           k2 == Len(q.vsattr) + 1
           k3 == Len(r.vsattr) + 1
<1>7. k1 = 1
  BY <1>6
<1>19. k1 = Len(p.vsattr) + 1 /\ q = WithCisco(p, "Cisco-Account-Info", AccountOf(Key))
  OBVIOUS
<1>20. p \in Packets
  BY <1>6
<1> HIDE DEF k1, q
<1>8. /\ q \in Packets /\ q.code = p.code /\ q.attr = p.attr /\ Len(q.vsattr) = k1
      /\ q.vsattr[k1] = [vendor |-> "Cisco", name |-> "Cisco-Account-Info", value |-> AccountOf(Key)]
  BY <1>3, <1>5, <1>19, <1>20, WithCiscoIs
<1>9. k2 = 2
  BY <1>7, <1>8
<1> HIDE DEF k2
<1>10. /\ r \in Packets /\ r.code = q.code /\ r.attr = q.attr /\ Len(r.vsattr) = k2
       /\ r.vsattr[k2] = [vendor |-> "Cisco", name |-> "Cisco-Command-Code", value |-> one]
       /\ \A k \in 1..k2 - 1 : r.vsattr[k] = q.vsattr[k]
  BY <1>4, <1>5, <1>8, WithCiscoIs DEF k2
<1> HIDE DEF r
<1>11. k3 = 3
  BY <1>9, <1>10
<1>21. k3 = Len(r.vsattr) + 1
  OBVIOUS
<1>22. r \in Packets
  BY <1>10
<1> HIDE DEF k3
<1>12. /\ packet.code = r.code /\ packet.attr = r.attr /\ Len(packet.vsattr) = k3
       /\ packet.vsattr[k3] = [vendor |-> "Cisco", name |-> "Cisco-Subscriber-Password", value |-> masked]
       /\ \A k \in 1..k3 - 1 : packet.vsattr[k] = r.vsattr[k]
  BY <1>2, <1>3, <1>5, <1>21, <1>22, WithCiscoIs
<1>13. packet.vsattr[1] = r.vsattr[1] /\ packet.vsattr[2] = r.vsattr[2] /\ r.vsattr[1] = q.vsattr[1]
  BY <1>9, <1>10, <1>11, <1>12
<1>14. packet.code = c.code /\ packet.attr = p.attr /\ Len(packet.vsattr) = 3
  BY <1>6, <1>8, <1>10, <1>11, <1>12
<1>15. CiscoEntryAt(1, "Cisco-Account-Info", AccountOf(Key))
  BY <1>7, <1>8, <1>13 DEF CiscoEntryAt
<1>16. CiscoEntryAt(2, "Cisco-Command-Code", <<1>>)
  BY <1>9, <1>10, <1>13 DEF CiscoEntryAt, one
<1>17. CiscoEntryAt(3, "Cisco-Subscriber-Password", masked)
  BY <1>11, <1>12 DEF CiscoEntryAt
<1>18. QED
  BY <1>1, <1>6, <1>14, <1>15, <1>16, <1>17

LEMMA RegularPackable == ASSUME Regular PROVE Packable(dict, packet)
BY DEF Regular, Packable, Types

LEMMA FrontOK ==
  ASSUME Md5OK, packet \in Packets, DictionaryOK(dict), Packable(dict, packet), identifier \in Octets,
         NEW h, h = RequestHead \o RequestDigest
  PROVE  h \in OctetStrings /\ Len(h) = HeaderSize
<1>1. /\ RequestHead \in OctetStrings /\ Len(RequestHead) = 4
      /\ RequestDigest \in OctetStrings /\ Len(RequestDigest) = BlockSize
  BY RequestParts
<1>2. h \in OctetStrings /\ Len(h) = Len(RequestHead) + Len(RequestDigest)
  BY <1>1, Joined
<1>3. HeaderSize = 4 + BlockSize /\ BlockSize \in Nat
  BY Sizes
<1>4. QED
  BY <1>1, <1>2, <1>3

HeaderArrives ==
  /\ wire[1] = packet.code /\ wire[2] = identifier
  /\ Len(wire) = wire[3] * OctetSize + wire[4]
  /\ Authentic(wire)

LEMMA HeaderIs ==
  ASSUME Md5OK, packet \in Packets, DictionaryOK(dict), Packable(dict, packet), identifier \in Octets,
         wire = Packed(dict, packet, identifier), packet.code \in Octets,
         Len(RequestBody) < 4 * OctetSize
  PROVE  HeaderArrives
<1>1. wire[1] = packet.code /\ wire[2] = identifier /\ Len(wire) = wire[3] * OctetSize + wire[4]
  BY RequestHeader
<1>2. Authentic(wire)
  BY RequestAuthentic
<1>3. QED
  BY <1>1, <1>2 DEF HeaderArrives

LEMMA TwoArrive ==
  ASSUME Md5OK, packet \in Packets, DictionaryOK(dict), Packable(dict, packet), identifier \in Octets,
         wire = Packed(dict, packet, identifier), packet.code \in Octets,
         NEW x, Fit(x), NEW y, Fit(y), RequestBody = OctetsOf(x) \o OctetsOf(y)
  PROVE  /\ HeaderArrives
         /\ Len(AttributesOf(wire)) = 2 /\ AttributesOf(wire)[1] = x /\ AttributesOf(wire)[2] = y
<1> DEFINE h == RequestHead \o RequestDigest
           b == RequestBody
           p == HeaderSize + 1
<1>1. h \in OctetStrings /\ Len(h) = HeaderSize
  BY FrontOK
<1>2. wire = h \o b
  BY RequestIs
<1>3. p = Len(h) + 1 /\ b = OctetsOf(x) \o OctetsOf(y)
  BY <1>1
<1>4. Len(b) < 4 * OctetSize
  <2> DEFINE l == Len(OctetsOf(x))
             m == Len(OctetsOf(y))
  <2>1. l \in Nat /\ m \in Nat /\ l < OctetSize /\ m < OctetSize /\ OctetSize \in Nat
    BY FitOK, LenOK, Sizes DEF Fit
  <2>2. Len(b) = l + m
    BY <1>3, FitOK, Joined
  <2> HIDE DEF l, m, b
  <2>3. QED
    BY <2>1, <2>2
<1>5. HeaderArrives
  BY <1>4, HeaderIs
<1> HIDE DEF h, b, p
<1>6. TwoAt(wire, p, x, y)
  BY <1>1, <1>2, <1>3, ReadsTwo
<1>7. AttributesOf(wire) = Reads(wire)[p]
  BY AttributesAre DEF p
<1>8. QED
  BY <1>5, <1>6, <1>7 DEF TwoAt

LEMMA FourArrive ==
  ASSUME Md5OK, packet \in Packets, DictionaryOK(dict), Packable(dict, packet), identifier \in Octets,
         wire = Packed(dict, packet, identifier), packet.code \in Octets,
         NEW x, Fit(x), NEW y, Fit(y), NEW z, Fit(z), NEW v, Fit(v),
         RequestBody = OctetsOf(x) \o ((OctetsOf(y) \o OctetsOf(z)) \o OctetsOf(v))
  PROVE  /\ HeaderArrives
         /\ Len(AttributesOf(wire)) = 4
         /\ AttributesOf(wire)[1] = x /\ AttributesOf(wire)[2] = y
         /\ AttributesOf(wire)[3] = z /\ AttributesOf(wire)[4] = v
<1> DEFINE h == RequestHead \o RequestDigest
           b == RequestBody
           p == HeaderSize + 1
<1>1. h \in OctetStrings /\ Len(h) = HeaderSize
  BY FrontOK
<1>2. wire = h \o b
  BY RequestIs
<1>3. p = Len(h) + 1 /\ b = OctetsOf(x) \o ((OctetsOf(y) \o OctetsOf(z)) \o OctetsOf(v))
  BY <1>1
<1>4. Len(b) < 4 * OctetSize
  <2> DEFINE k == Len(OctetsOf(x))
             l == Len(OctetsOf(y))
             m == Len(OctetsOf(z))
             n == Len(OctetsOf(v))
             s == OctetsOf(y) \o OctetsOf(z)
             t == s \o OctetsOf(v)
  <2>1. {OctetsOf(x), OctetsOf(y), OctetsOf(z), OctetsOf(v)} \subseteq OctetStrings
    BY FitOK
  <2>2. /\ k \in Nat /\ k < OctetSize /\ l \in Nat /\ l < OctetSize
        /\ m \in Nat /\ m < OctetSize /\ n \in Nat /\ n < OctetSize /\ OctetSize \in Nat
    BY FitOK, LenOK, Sizes DEF Fit
  <2>3. s \in OctetStrings /\ Len(s) = l + m
    BY <2>1, Joined
  <2> HIDE DEF s
  <2>4. t \in OctetStrings /\ Len(t) = Len(s) + n
    BY <2>1, <2>3, Joined
  <2>5. b = OctetsOf(x) \o t
    BY <1>3 DEF s
  <2> HIDE DEF t, b
  <2>6. Len(b) = k + Len(t)
    BY <2>1, <2>4, <2>5, Joined
  <2> HIDE DEF k, l, m, n
  <2>7. Len(b) = k + ((l + m) + n)
    BY <2>3, <2>4, <2>6
  <2>8. QED
    BY <2>2, <2>7
<1>5. HeaderArrives
  BY <1>4, HeaderIs
<1> HIDE DEF h, b, p
<1>6. FourAt(wire, p, x, y, z, v)
  BY <1>1, <1>2, <1>3, ReadsFour
<1>7. AttributesOf(wire) = Reads(wire)[p]
  BY AttributesAre DEF p
<1>8. QED
  BY <1>5, <1>6, <1>7 DEF FourAt

LEMMA MaskedRead ==
  ASSUME DictionaryOK(dict), Regular, NEW name, HasAttribute(dict, name),
         NEW value \in OctetStrings, 2 + Len(value) < OctetSize
  PROVE  From(Cisco(name, value).data, WordSize + 2, -1) = value
<1> DEFINE n == dict.vendors["Cisco"]
           t == <<GetAttribute(dict, name).id, 2 + Len(value)>>
           a == Word(n) \o t
           d == a \o value
<1>1. n \in Nat
  BY DEF DictionaryOK, Regular
<1>2. Word(n) \in OctetStrings /\ Len(Word(n)) = WordSize
  BY <1>1, WordOK
<1>3. t \in OctetStrings /\ Len(t) = 2
  <2>1. GetAttribute(dict, name).id \in Octets
    BY DEF DictionaryOK, HasAttribute, GetAttribute
  <2>2. 2 + Len(value) \in Octets
    BY LenOK, OctetsOK
  <2>3. QED
    BY <2>1, <2>2, PairOK
<1>4. Cisco(name, value).data = d
  <2>1. Cisco(name, value).data = Word(n) \o t \o value
    BY DEF Cisco
  <2>2. QED
    BY <2>1
<1> HIDE DEF t
<1>5. a \in OctetStrings /\ Len(a) = WordSize + 2
  BY <1>2, <1>3, Joined
<1> HIDE DEF a
<1>6. SubSeq(d, Len(a) + 1, Len(d)) = value
  BY <1>5, RestIs DEF OctetStrings
<1>7. From(d, WordSize + 2, -1) = SubSeq(d, WordSize + 2 + 1, Len(d))
  BY DEF From
<1> HIDE DEF d
<1>8. QED
  BY <1>4, <1>5, <1>6, <1>7

LEMMA VsaOctetsAt ==
  ASSUME packet \in Packets, DictionaryOK(dict), Regular, NEW k \in 1..Len(packet.vsattr),
         NEW name, NEW value, CiscoEntryAt(k, name, value)
  PROVE  /\ Fit(Cisco(name, value)) /\ Vsas[k] = OctetsOf(Cisco(name, value))
         /\ HasAttribute(dict, name) /\ Len(value) < OctetSize - VsaHeader
<1> DEFINE a == packet.vsattr[k]
<1>1. k \in DOMAIN packet.vsattr
  BY DEF Packets
<1>2. a.name = name /\ a.value = value
  BY DEF CiscoEntryAt
<1>3. a \in Range(packet.vsattr)
  BY <1>1 DEF Range
<1>4. HasAttribute(dict, name) /\ Len(value) < OctetSize - VsaHeader
  BY <1>2, <1>3 DEF Regular
<1>5. Fit(Cisco(a.name, a.value)) /\ PackedVsa(dict, a) = OctetsOf(Cisco(a.name, a.value))
  BY <1>1, CiscoOctets
<1>6. Vsas[k] = PackedVsa(dict, a)
  BY <1>1 DEF Vsas
<1> HIDE DEF a
<1>7. QED
  BY <1>2, <1>4, <1>5, <1>6

HeaderGiven == packet.code = GetValue(dict, "Packet-Type", "CoA-Request") /\ HeaderArrives

SessionArrives ==
  /\ HeaderGiven
  /\ Len(AttributesOf(wire)) = 2
  /\ Identified(AttributesOf(wire)[1])
  /\ AttributesOf(wire)[2] =
       Cisco("Cisco-Command-Code", CommandCode(command.command, command.service))

Sent ==
  /\ packet \in Packets /\ DictionaryOK(dict) /\ CommandOK(command) /\ identifier \in Octets
  /\ Regular /\ Packable(dict, packet) /\ wire = Packed(dict, packet, identifier)
  /\ packet.code \in Octets

LEMMA ByIdArrives ==
  ASSUME Md5OK, Sent, Requested, ~Loggon, command.letter \in {<<LetterI>>, <<LetterBigI>>}
  PROVE  SessionArrives
<1> DEFINE coded == CommandCode(command.command, command.service)
           x == Plain("Acct-Session-Id", SessionId(Key))
           y == Cisco("Cisco-Command-Code", coded)
<1>1. /\ packet.code = GetValue(dict, "Packet-Type", "CoA-Request")
      /\ packet.attr = <<[name |-> "Acct-Session-Id", value |-> SessionId(Key)]>>
      /\ Len(packet.vsattr) = 1 /\ CiscoEntryAt(1, "Cisco-Command-Code", coded)
  BY SessionPacket DEF Sent
<1>2. Fit(x) /\ PackedAttributes(dict, packet) = OctetsOf(x)
  <2> DEFINE a == [name |-> "Acct-Session-Id", value |-> SessionId(Key)]
  <2>1. packet.attr = <<a>> /\ a.name = "Acct-Session-Id" /\ a.value = SessionId(Key)
    BY <1>1
  <2> HIDE DEF a
  <2>2. Fit(Plain(a.name, a.value)) /\ PackedAttributes(dict, packet) = OctetsOf(Plain(a.name, a.value))
    BY <2>1, PlainOctets DEF Sent
  <2>3. QED
    BY <2>1, <2>2
<1> HIDE DEF coded
<1>3. Fit(y) /\ Vsas[1] = OctetsOf(y)
  <2>1. 1 \in 1..Len(packet.vsattr)
    BY <1>1
  <2>2. QED
    BY <1>1, <2>1, VsaOctetsAt DEF Sent
<1>4. FlattenSeq(Vsas) = Vsas[1]
  <2>1. Vsas \in Seq(OctetStrings) /\ Len(Vsas) = 1
    BY <1>1, VsasOK DEF Sent
  <2>2. QED
    BY <2>1, FlattenOne DEF OctetStrings
<1>5. RequestBody = OctetsOf(x) \o OctetsOf(y)
  BY <1>2, <1>3, <1>4 DEF RequestBody
<1> HIDE DEF y
<1>6. /\ HeaderArrives
      /\ Len(AttributesOf(wire)) = 2 /\ AttributesOf(wire)[1] = x /\ AttributesOf(wire)[2] = y
  <2> HIDE DEF x
  <2>1. QED
    BY <1>2, <1>3, <1>5, TwoArrive DEF Sent
<1>7. Identified(x)
  <2>1. command.nas # << >>
    BY DEF Sent, Regular
  <2>2. NamesSession(SessionId(Key))
    BY <2>1, NamedSession DEF Sent
  <2>3. x.id = GetAttribute(dict, "Acct-Session-Id").id /\ x.data = SessionId(Key)
    BY DEF Plain
  <2> HIDE DEF x
  <2>4. QED
    BY <2>2, <2>3 DEF Identified
<1>8. QED
  BY <1>1, <1>6, <1>7 DEF SessionArrives, HeaderGiven, y, coded

LEMMA AccountIdentified ==
  ASSUME CommandOK(command), command.letter \notin {<<LetterI>>, <<LetterBigI>>}
  PROVE  Identified(Cisco("Cisco-Account-Info", AccountOf(Key)))
BY AccountIs DEF Identified

LEMMA ByAccountArrives ==
  ASSUME Md5OK, Sent, Requested, ~Loggon, command.letter \notin {<<LetterI>>, <<LetterBigI>>}
  PROVE  SessionArrives
<1> DEFINE coded == CommandCode(command.command, command.service)
           x == Cisco("Cisco-Account-Info", AccountOf(Key))
           y == Cisco("Cisco-Command-Code", coded)
<1>1. /\ packet.code = GetValue(dict, "Packet-Type", "CoA-Request")
      /\ packet.attr = << >> /\ Len(packet.vsattr) = 2
      /\ CiscoEntryAt(1, "Cisco-Account-Info", AccountOf(Key))
      /\ CiscoEntryAt(2, "Cisco-Command-Code", coded)
  BY SessionPacket DEF Sent
<1> HIDE DEF coded
<1>2. Fit(x) /\ Vsas[1] = OctetsOf(x) /\ Fit(y) /\ Vsas[2] = OctetsOf(y)
  <2>1. 1 \in 1..Len(packet.vsattr) /\ 2 \in 1..Len(packet.vsattr)
    BY <1>1
  <2>2. Fit(x) /\ Vsas[1] = OctetsOf(x)
    BY <1>1, <2>1, VsaOctetsAt DEF Sent
  <2>3. Fit(y) /\ Vsas[2] = OctetsOf(y)
    BY <1>1, <2>1, VsaOctetsAt DEF Sent
  <2>4. QED
    BY <2>2, <2>3
<1>3. FlattenSeq(Vsas) = Vsas[1] \o Vsas[2]
  <2>1. Vsas \in Seq(OctetStrings) /\ Len(Vsas) = 2
    BY <1>1, VsasOK DEF Sent
  <2>2. QED
    BY <2>1, FlattenTwo DEF OctetStrings
<1> HIDE DEF x, y
<1>4. RequestBody = OctetsOf(x) \o OctetsOf(y)
  <2>1. PackedAttributes(dict, packet) = << >>
    BY <1>1 DEF PackedAttributes
  <2> DEFINE s == OctetsOf(x) \o OctetsOf(y)
  <2>2. s \in OctetStrings
    BY <1>2, FitOK, Joined
  <2>3. RequestBody = << >> \o s
    BY <1>2, <1>3, <2>1 DEF RequestBody
  <2> HIDE DEF s
  <2>4. << >> \o s = s
    BY <2>2 DEF OctetStrings
  <2>5. QED
    BY <2>3, <2>4 DEF s
<1>5. /\ HeaderArrives
      /\ Len(AttributesOf(wire)) = 2 /\ AttributesOf(wire)[1] = x /\ AttributesOf(wire)[2] = y
  BY <1>2, <1>4, TwoArrive DEF Sent
<1>6. Identified(x)
  BY AccountIdentified DEF Sent, x
<1>7. QED
  BY <1>1, <1>5, <1>6 DEF SessionArrives, HeaderGiven, y, coded

UserArrives ==
  /\ HeaderGiven
  /\ Len(AttributesOf(wire)) = 4
  /\ AttributesOf(wire)[1] = Plain("User-Name", command.login)
  /\ Identified(AttributesOf(wire)[2])
  /\ AttributesOf(wire)[3] = Cisco("Cisco-Command-Code", <<1>>)
  /\ LET data == From(AttributesOf(wire)[4].data, WordSize + 2, -1)
     IN  AttributesOf(wire)[4] = Cisco("Cisco-Subscriber-Password", data)
         /\ Unmasked(data) = command.password

LEMMA LoggonArrives == ASSUME Md5OK, Sent, Requested, Loggon PROVE UserArrives
<1>1. PICK random \in Randoms :
        packet = LoggonRequest(dict, Key, command.login, command.password, random)
  BY DEF Requested
<1>2. random \in Blocks
  BY CoACommandAssumption DEF Blocks
<1> DEFINE masked == PasswordPack(random, command.password)
           one == <<1>>
           x == Plain("User-Name", command.login)
           y == Cisco("Cisco-Account-Info", AccountOf(Key))
           z == Cisco("Cisco-Command-Code", one)
           v == Cisco("Cisco-Subscriber-Password", masked)
<1>3. masked = PasswordPack(random, command.password)
  OBVIOUS
<1> HIDE DEF masked
<1>4. /\ packet.code = GetValue(dict, "Packet-Type", "CoA-Request")
      /\ packet.attr = <<[name |-> "User-Name", value |-> command.login]>>
      /\ Len(packet.vsattr) = 3
      /\ CiscoEntryAt(1, "Cisco-Account-Info", AccountOf(Key))
      /\ CiscoEntryAt(2, "Cisco-Command-Code", <<1>>)
      /\ CiscoEntryAt(3, "Cisco-Subscriber-Password", masked)
  BY <1>1, <1>2, <1>3, LoggonPacket DEF Sent
<1>5. Fit(x) /\ PackedAttributes(dict, packet) = OctetsOf(x)
  <2> DEFINE a == [name |-> "User-Name", value |-> command.login]
  <2>1. packet.attr = <<a>> /\ a.name = "User-Name" /\ a.value = command.login
    BY <1>4
  <2> HIDE DEF a
  <2>2. Fit(Plain(a.name, a.value)) /\ PackedAttributes(dict, packet) = OctetsOf(Plain(a.name, a.value))
    BY <2>1, PlainOctets DEF Sent
  <2>3. QED
    BY <2>1, <2>2
<1>6. /\ 1 \in 1..Len(packet.vsattr) /\ 2 \in 1..Len(packet.vsattr) /\ 3 \in 1..Len(packet.vsattr)
      /\ CiscoEntryAt(2, "Cisco-Command-Code", one)
  BY <1>4
<1> HIDE DEF one
<1>7. /\ Fit(y) /\ Vsas[1] = OctetsOf(y)
      /\ Fit(z) /\ Vsas[2] = OctetsOf(z)
      /\ Fit(v) /\ Vsas[3] = OctetsOf(v)
      /\ HasAttribute(dict, "Cisco-Subscriber-Password") /\ Len(masked) < OctetSize - VsaHeader
  <2>1. Fit(y) /\ Vsas[1] = OctetsOf(y)
    BY <1>4, <1>6, VsaOctetsAt DEF Sent
  <2>2. Fit(z) /\ Vsas[2] = OctetsOf(z)
    BY <1>6, VsaOctetsAt DEF Sent
  <2>3. /\ Fit(v) /\ Vsas[3] = OctetsOf(v)
        /\ HasAttribute(dict, "Cisco-Subscriber-Password") /\ Len(masked) < OctetSize - VsaHeader
    BY <1>4, <1>6, VsaOctetsAt DEF Sent
  <2>4. QED
    BY <2>1, <2>2, <2>3
<1>8. FlattenSeq(Vsas) = (Vsas[1] \o Vsas[2]) \o Vsas[3]
  <2>1. Vsas \in Seq(OctetStrings) /\ Len(Vsas) = 3
    BY <1>4, VsasOK DEF Sent
  <2>2. QED
    BY <2>1, FlattenThree DEF OctetStrings
<1> HIDE DEF x, y, z, v
<1>9. RequestBody = OctetsOf(x) \o ((OctetsOf(y) \o OctetsOf(z)) \o OctetsOf(v))
  BY <1>5, <1>7, <1>8 DEF RequestBody
<1>10. /\ HeaderArrives
       /\ Len(AttributesOf(wire)) = 4
       /\ AttributesOf(wire)[1] = x /\ AttributesOf(wire)[2] = y
       /\ AttributesOf(wire)[3] = z /\ AttributesOf(wire)[4] = v
  BY <1>5, <1>7, <1>9, FourArrive DEF Sent
<1>11. Identified(y)
  <2>1. command.letter \notin {<<LetterI>>, <<LetterBigI>>}
    BY DEF Sent, Regular
  <2>2. QED
    BY <2>1, AccountIdentified DEF Sent, y
<1>12. 2 + Len(masked) < OctetSize /\ Len(masked) < OctetSize
  <2>1. Len(masked) \in Nat
    BY <1>2, <1>3, PasswordPackOK, LenOK DEF Sent, CommandOK
  <2>2. QED
    BY <1>7, <2>1, Sizes
<1>13. masked \in OctetStrings /\ Unmasked(masked) = command.password
  BY <1>2, <1>3, <1>12, PasswordUnmasked DEF Sent, CommandOK
<1>14. From(v.data, WordSize + 2, -1) = masked
  BY <1>7, <1>12, <1>13, MaskedRead DEF Sent, v
<1>15. QED
  BY <1>4, <1>10, <1>11, <1>13, <1>14 DEF UserArrives, HeaderGiven, x, z, v, one

(***************************************************************************)
(* The packet that is sent is the one that was built from the key.         *)
(***************************************************************************)
ArriveInv ==
  /\ TypeInv
  /\ phase \in {"send", "nas"} => Requested
  /\ phase = "nas" => server = ServerOf(Key) /\ wire = Packed(dict, packet, identifier)

LEMMA InitArriveInv == Init => ArriveInv
<1>1. Init => TypeInv
  BY InitTypeInv
<1>2. QED
  BY <1>1 DEF Init, ArriveInv

LEMMA SameRequest ==
  ASSUME UNCHANGED <<dict, command, packet>>, Requested PROVE Requested'
BY DEF Requested, Loggon, Key

LEMMA StepArriveInv == ASSUME Md5OK, ArriveInv, [Next]_vars PROVE ArriveInv'
<1>1. TypeInv'
  BY StepTypeInv DEF ArriveInv
<1>2. CASE Build
  <2>1. phase' = "send" /\ UNCHANGED <<dict, command>>
    BY <1>2 DEF Build
  <2>2. Requested'
    BY <1>2, <2>1 DEF Build, Requested, Loggon, Key
  <2>3. QED
    BY <1>1, <2>1, <2>2 DEF ArriveInv
<1>3. CASE Send
  <2>1. /\ phase = "send" /\ phase' = "nas" /\ UNCHANGED <<dict, command, identifier, packet>>
        /\ server' = ServerOf(Key) /\ wire' = Packed(dict, packet, identifier)
    BY <1>3 DEF Send
  <2>2. Requested'
    BY <2>1, SameRequest DEF ArriveInv
  <2>3. server' = ServerOf(Key)' /\ wire' = Packed(dict, packet, identifier)'
    BY <2>1 DEF Key
  <2>4. QED
    BY <1>1, <2>1, <2>2, <2>3 DEF ArriveInv
<1>4. CASE SendThrows \/ NasReplies \/ Unpack \/ Wrap \/ WrapThrows
  <2>1. phase' \notin {"send", "nas"}
    BY <1>4 DEF SendThrows, NasReplies, Unpack, Wrap, WrapThrows, UnpackHeader, PassOver, Reading,
                ReadAttribute, PassOverPlain, ReadVsa, LoopEnds, UnpackThrows
  <2>2. QED
    BY <1>1, <2>1 DEF ArriveInv
<1>5. CASE UNCHANGED vars
  <2>1. UNCHANGED <<phase, dict, command, identifier, packet, server, wire>>
    BY <1>5 DEF vars, requestVars
  <2>2. phase' \in {"send", "nas"} => Requested'
    BY <2>1, SameRequest DEF ArriveInv
  <2>3. phase' = "nas" => server' = ServerOf(Key)' /\ wire' = Packed(dict, packet, identifier)'
    BY <2>1 DEF ArriveInv, Key
  <2>4. QED
    BY <1>1, <2>2, <2>3 DEF ArriveInv
<1>6. QED
  BY <1>2, <1>3, <1>4, <1>5 DEF Next

LEMMA InvArrives == ASSUME Md5OK, ArriveInv PROVE CommandArrives
<1> SUFFICES ASSUME phase = "nas", Regular PROVE
      /\ server = (IF command.nas = << >> THEN DefaultServer ELSE command.nas)
      /\ HeaderGiven
      /\ IF Loggon THEN UserArrives ELSE SessionArrives
  BY DEF CommandArrives, HeaderGiven, HeaderArrives, UserArrives, SessionArrives
<1>1. CommandOK(command) /\ DictionaryOK(dict) /\ identifier \in Octets
  BY GivenOK DEF ArriveInv, TypeInv
<1>2. Requested /\ server = ServerOf(Key) /\ wire = Packed(dict, packet, identifier)
  BY DEF ArriveInv
<1>3. server = IF command.nas = << >> THEN DefaultServer ELSE command.nas
  BY <1>1, <1>2, ServerIs
<1>4. packet \in Packets /\ Packable(dict, packet)
  BY RegularPackable DEF ArriveInv, TypeInv
<1>5. packet.code \in Octets
  <2>1. packet.code = GetValue(dict, "Packet-Type", "CoA-Request")
    <3>1. CASE Loggon
      <4>1. PICK random \in Randoms :
              packet = LoggonRequest(dict, Key, command.login, command.password, random)
        BY <1>2, <3>1 DEF Requested
      <4>2. random \in Blocks
        BY CoACommandAssumption DEF Blocks
      <4>3. QED
        BY <1>1, <4>1, <4>2, LoggonPacket
    <3>2. CASE ~Loggon
      BY <1>1, <1>2, <3>2, SessionPacket
    <3>3. QED
      BY <3>1, <3>2
  <2>2. QED
    BY <2>1 DEF Regular
<1>6. Sent
  BY <1>1, <1>2, <1>4, <1>5 DEF Sent
<1>7. CASE Loggon
  <2>1. UserArrives
    BY <1>2, <1>6, <1>7, LoggonArrives
  <2>2. QED
    BY <1>3, <1>7, <2>1 DEF UserArrives
<1>8. CASE ~Loggon
  <2>1. SessionArrives
    BY <1>2, <1>6, <1>8, ByIdArrives, ByAccountArrives
  <2>2. QED
    BY <1>3, <1>8, <2>1 DEF SessionArrives
<1>9. QED
  BY <1>7, <1>8

(* The NAS that the key names receives an authentic request in which it    *)
(* finds the session of the key and the command with its service, or the   *)
(* user with a password it can unmask, and nothing else: whatever is in    *)
(* the key, the service, the login and the password, as long as the size   *)
(* octets can count it.                                                    *)
THEOREM RequestArrives == ASSUME Md5OK PROVE Spec => []CommandArrives
<1>1. ArriveInv /\ [Next]_vars => ArriveInv'
  BY StepArriveInv
<1>2. ArriveInv => CommandArrives
  BY InvArrives
<1>3. QED
  BY <1>1, <1>2, InitArriveInv, PTL DEF Spec
=============================================================================
