----------------------------- MODULE PathProofs -----------------------------
(***************************************************************************)
(* What TLAPS proves about Paths: its functions, for every character and   *)
(* every text, and the copy that uses them, for every set of names.        *)
(***************************************************************************)
EXTENDS Paths, FiniteSetTheorems, WellFoundedInduction, SequenceTheorems, TLAPS

\* The values of a code unit.
LEMMA InCode == \A x : x \in Code <=> x \in Int /\ 0 <= x /\ x <= 65535
<1>1. LastCode \in Int
  BY DEF LastCode
<1>2. \A x : x \in Code <=> x \in Int /\ 0 <= x /\ x <= LastCode
  BY <1>1 DEF Code
<1> QED BY <1>2 DEF LastCode

LEMMA CodeUnit == \A c \in Code : c \in Nat /\ c < 65536
BY InCode, SMT

\* A special character is found again where version 2 has moved it, and nothing but a
\* special character is moved there.
LEMMA MovedBack ==
  ASSUME NEW c \in Nat, c < 65536
  PROVE  /\ IsSpecial(c) => Or(c) < 65536 /\ Xor(Or(c)) = c
         /\ IsSpecial(Xor(c)) => c = Or(Xor(c))
BY SMT DEF IsSpecial, Or, Xor, Colon, Back

\* No character that is allowed on the disk is special, once it has been moved.
LEMMA MovedIsAllowed ==
  ASSUME NEW c \in Nat, IsSpecial(c)
  PROVE  Or(c) >= 61440 /\ ~IsSpecial(Or(c)) /\ Allowed(Or(c))
BY SMT DEF IsSpecial, Or, Allowed, Colon, Back

(* A text as append writes it in version 2: one character for each. *)
Written(text) == [i \in DOMAIN text |-> Encoded("v2", text[i])[1]]

\* Version 2 spells every text with characters that Windows allows and reads it back as
\* it was, unless it has a character of the range that the moved ones are taken from
\* (tests/test_path.cpp calls them reserved).
THEOREM VersionTwoSpelling ==
  ASSUME NEW text \in Seq(Code \ {0}), \A i \in DOMAIN text : ~IsSpecial(Xor(text[i]))
  PROVE  /\ \A i \in DOMAIN text : Len(Encoded("v2", text[i])) = 1 /\ Allowed(Written(text)[i])
         /\ Decoded("v2", Written(text)).chars = text
<1> DEFINE Read(x) == IF IsSpecial(Xor(x)) THEN Xor(x) ELSE IF x = Back THEN Slash ELSE x
<1>1. ASSUME NEW c \in Code \ {0}, ~IsSpecial(Xor(c))
      PROVE  /\ Len(Encoded("v2", c)) = 1 /\ Allowed(Encoded("v2", c)[1])
             /\ Read(Encoded("v2", c)[1]) = c
  <2>1. CASE IsSpecial(c)
    <3>1. Encoded("v2", c) = <<Or(c)>>
      BY <2>1 DEF Encoded
    <3>2. Xor(Or(c)) = c
      BY <2>1, CodeUnit, MovedBack
    <3>3. Allowed(Or(c))
      BY <2>1, CodeUnit, MovedIsAllowed
    <3> QED BY <2>1, <3>1, <3>2, <3>3
  <2>2. CASE ~IsSpecial(c) /\ c = Slash
    <3>1. Encoded("v2", c) = <<Back>>
      BY <2>2 DEF Encoded
    <3>2. Allowed(Back) /\ ~IsSpecial(Xor(Back))
      BY SMT DEF Allowed, Back, Xor, IsSpecial, Colon
    <3> QED BY <2>2, <3>1, <3>2
  <2>3. CASE ~IsSpecial(c) /\ c # Slash
    <3>1. Encoded("v2", c) = <<c>>
      BY <2>3 DEF Encoded
    <3>2. Allowed(c) /\ c # Back
      BY <2>3, CodeUnit, SMT DEF Allowed, IsSpecial, Slash, Back, Colon
    <3> QED BY <1>1, <3>1, <3>2
  <2> QED BY <2>1, <2>2, <2>3
<1>2. \A i \in DOMAIN text : text[i] \in Code \ {0}
  OBVIOUS
<1>3. \A i \in DOMAIN text : Len(Encoded("v2", text[i])) = 1 /\ Allowed(Written(text)[i]) /\ Read(Written(text)[i]) = text[i]
  BY <1>1, <1>2 DEF Written
<1>4. Decoded("v2", Written(text)).chars = [i \in DOMAIN text |-> Read(Written(text)[i])]
  BY DEF Decoded, Written
<1>5. text = [i \in DOMAIN text |-> text[i]]
  OBVIOUS
<1> QED BY <1>3, <1>4, <1>5

\* The digits of version 1 stand for the value that they were made of.
LEMMA DigitReturns ==
  ASSUME NEW d \in 0 .. 15
  PROVE  Hex(d) \in DOMAIN Digit /\ Digit[Hex(d)] = d /\ Allowed(Hex(d))
BY SMT DEF Hex, Digit, Allowed

\* A number of 16 bits is that of its four hexadecimal digits.
LEMMA FourDigits ==
  ASSUME NEW c \in Nat, c < 65536
  PROVE  /\ c \div 4096 \in 0 .. 15 /\ (c \div 256) % 16 \in 0 .. 15
         /\ (c \div 16) % 16 \in 0 .. 15 /\ c % 16 \in 0 .. 15
         /\ 16 * (16 * (16 * (c \div 4096) + ((c \div 256) % 16)) + ((c \div 16) % 16)) + (c % 16) = c
BY SMT

\* A quoted character is # and four hexadecimal digits that Windows allows, from the
\* highest on, and stoi, which begins at the left, is back at the character: so that
\* what append quotes is never what makes stoi throw.
THEOREM VersionOneQuotes ==
  ASSUME NEW c \in Code
  PROVE  LET q == Quoted(c)
             v(i) == Digit[q[i]]
         IN  /\ Len(q) = 5 /\ q[1] = Hash /\ \A i \in 2 .. 5 : q[i] \in DOMAIN Digit /\ Allowed(q[i])
             /\ 16 * (16 * (16 * v(2) + v(3)) + v(4)) + v(5) = c
<1> DEFINE q == Quoted(c)
<1>1. /\ c \div 4096 \in 0 .. 15 /\ (c \div 256) % 16 \in 0 .. 15
      /\ (c \div 16) % 16 \in 0 .. 15 /\ c % 16 \in 0 .. 15
  BY CodeUnit, FourDigits
<1>2. 16 * (16 * (16 * (c \div 4096) + ((c \div 256) % 16)) + ((c \div 16) % 16)) + (c % 16) = c
  BY CodeUnit, FourDigits
<1>3. /\ Digit[q[2]] = c \div 4096 /\ Digit[q[3]] = (c \div 256) % 16
      /\ Digit[q[4]] = (c \div 16) % 16 /\ Digit[q[5]] = c % 16
  BY <1>1, DigitReturns DEF Quoted
<1>4. Len(q) = 5 /\ q[1] = Hash /\ \A i \in 2 .. 5 : q[i] \in DOMAIN Digit /\ Allowed(q[i])
  <2>1. Len(q) = 5 /\ q[1] = Hash
    BY DEF Quoted
  <2>2. \A x \in {q[2], q[3], q[4], q[5]} : x \in DOMAIN Digit /\ Allowed(x)
    BY <1>1, DigitReturns DEF Quoted
  <2>3. \A i \in 2 .. 5 : i = 2 \/ i = 3 \/ i = 4 \/ i = 5
    OBVIOUS
  <2> HIDE DEF q
  <2> QED BY <2>1, <2>2, <2>3
<1> HIDE DEF q
<1>5. 16 * (16 * (16 * Digit[q[2]] + Digit[q[3]]) + Digit[q[4]]) + Digit[q[5]] = c
  BY <1>2, <1>3
<1> QED BY <1>4, <1>5 DEF q

\* check_path compares as far as the shorter of the two directories goes, and refuses
\* exactly the directories that begin with the source: a shorter one is never equal to it.
THEOREM IntoItselfIsPrefix ==
  ASSUME NEW to \in Text, NEW from \in Text
  PROVE  IntoItself(to, from) <=> IsPrefix(from, to)
<1>1. CASE Len(to) < Len(from)
  <2>1. SubSeq(to, 1, Len(to)) = to
    BY DEF Text
  <2>2. to # from
    BY <1>1 DEF Text
  <2> QED BY <1>1, <2>1, <2>2 DEF IntoItself, IsPrefix, Text
<1>2. CASE ~(Len(to) < Len(from))
  <2>1. SubSeq(from, 1, Len(from)) = from
    BY DEF Text
  <2> QED BY <1>2, <2>1 DEF IntoItself, IsPrefix, Text
<1> QED BY <1>1, <1>2

-----------------------------------------------------------------------------
(* Induction *)

\* A set of numbers up to some number has a smallest one.
LEMMA Least ==
  ASSUME NEW n \in Nat, NEW T \in SUBSET (0 .. n), T # {}
  PROVE  \E x \in T : \A y \in T : x <= y
<1> DEFINE U == {1 .. k : k \in T}
           S == 1 .. n
<1>1. IsFiniteSet(S)
  BY FS_Interval
<1>2. FiniteSubsetsOf(S) = SUBSET S
  BY <1>1, FS_FiniteSubsetsOfFinite
<1>3. IsWellFoundedOn(StrictSubsetOrdering(S), SUBSET S)
  BY <1>2, FS_StrictSubsetOrderingWellFounded
<1>4. U \subseteq SUBSET S /\ U # {}
  <2>1. \A k \in T : 1 .. k \in SUBSET S
    OBVIOUS
  <2> HIDE DEF S
  <2> QED BY <2>1
<1>5. PICK m \in U : \A v \in U : <<v, m>> \notin StrictSubsetOrdering(S)
  <2> HIDE DEF U, S
  <2> QED BY <1>3, <1>4, WFMin
<1>6. PICK x \in T : m = 1 .. x
  OBVIOUS
<1>7. ASSUME NEW y \in T PROVE x <= y
  <2>1. CASE y < x
    <3>1. 1 .. y \in SUBSET S /\ 1 .. x \in SUBSET S /\ 1 .. y \subseteq 1 .. x
      BY <2>1
    <3>2. x \in 1 .. x /\ x \notin 1 .. y
      BY <2>1
    <3>3. 1 .. y # 1 .. x
      BY <3>2
    <3>4. <<1 .. y, 1 .. x>> \in StrictSubsetOrdering(S)
      BY <3>1, <3>3 DEF StrictSubsetOrdering
    <3> QED BY <1>5, <1>6, <3>4
  <2> QED BY <2>1
<1> QED BY <1>7

\* What holds of 0 and of the number behind each one it holds of holds of all.
LEMMA Upwards ==
  ASSUME NEW S \in SUBSET Nat, 0 \in S, \A k \in S : k + 1 \in S
  PROVE  S = Nat
<1>1. SUFFICES ASSUME NEW n \in Nat, n \notin S PROVE FALSE
  OBVIOUS
<1> DEFINE T == {k \in 0 .. n : k \notin S}
<1>2. T \in SUBSET (0 .. n) /\ T # {}
  BY <1>1
<1>3. PICK x \in T : \A y \in T : x <= y
  <2> HIDE DEF T
  <2> QED BY <1>1, <1>2, Least
<1>4. x # 0 /\ x - 1 \in S
  BY <1>3
<1> QED BY <1>3, <1>4

\* A set of numbers up to some number has a largest one.
LEMMA MaxIn ==
  ASSUME NEW n \in Nat, NEW s \in SUBSET (1 .. n), s # {}
  PROVE  Max(s) \in s /\ \A y \in s : Max(s) >= y
<1> DEFINE T == {n - x : x \in s}
<1>1. T \in SUBSET (0 .. n) /\ T # {}
  <2>1. \A x \in s : x \in 1 .. n /\ n - x \in 0 .. n
    OBVIOUS
  <2> QED BY <2>1
<1>2. PICK t \in T : \A y \in T : t <= y
  <2> HIDE DEF T
  <2> QED BY <1>1, Least
<1>3. PICK x \in s : t = n - x
  OBVIOUS
<1>4. ASSUME NEW y \in s PROVE x >= y
  <2>1. n - y \in T /\ x \in 1 .. n /\ y \in 1 .. n
    OBVIOUS
  <2>2. n - x <= n - y
    BY <1>2, <1>3, <2>1
  <2> QED BY <2>1, <2>2
<1> QED BY <1>4 DEF Max

\* The largest of the numbers from 1 on.
LEMMA MaxOfRange ==
  ASSUME NEW k \in Nat \ {0}
  PROVE  Max(1 .. k) = k /\ (1 .. k) \ {k} = 1 .. (k - 1) /\ 1 .. k # {}
<1>1. k \in 1 .. k
  OBVIOUS
<1>2. Max(1 .. k) \in 1 .. k /\ \A y \in 1 .. k : Max(1 .. k) >= y
  BY <1>1, MaxIn
<1>3. Max(1 .. k) = k
  BY <1>1, <1>2
<1> QED BY <1>1, <1>3

\* What holds of the first value of a sequence and of each one behind a value it holds of.
LEMMA Along ==
  ASSUME NEW n \in Nat, NEW f, NEW X, f[0] \in X, \A k \in 1 .. n : f[k - 1] \in X => f[k] \in X
  PROVE  \A k \in 0 .. n : f[k] \in X
<1> DEFINE S == {k \in Nat : k <= n => f[k] \in X}
<1>1. 0 \in S
  OBVIOUS
<1>2. ASSUME NEW k \in S PROVE k + 1 \in S
  <2>1. k + 1 <= n => f[(k + 1) - 1] \in X /\ k + 1 \in 1 .. n
    OBVIOUS
  <2> QED BY <2>1
<1>3. S = Nat
  <2>1. S \in SUBSET Nat
    OBVIOUS
  <2> HIDE DEF S
  <2> QED BY <1>1, <1>2, <2>1, Upwards
<1> QED BY <1>3

(* The recursion that FoldLeft of SequencesExt is defined by, over the places of a text. *)
IsFold(g, k, base, step) ==
    \A s \in SUBSET (1 .. k) : g[s] = IF s = {} THEN base ELSE step[<<Max(s), g[s \ {Max(s)}]>>]
Folds(k, X, base, step) == \E g \in [SUBSET (1 .. k) -> X] : IsFold(g, k, base, step)

LEMMA FoldStep ==
  ASSUME NEW n \in Nat, NEW X, NEW base \in X, NEW step \in [(1 .. n) \X X -> X],
         NEW k \in Nat, k + 1 <= n, Folds(k, X, base, step)
  PROVE  Folds(k + 1, X, base, step)
<1>1. PICK g \in [SUBSET (1 .. k) -> X] : IsFold(g, k, base, step)
  BY DEF Folds
<1> DEFINE h == [s \in SUBSET (1 .. k + 1) |-> IF k + 1 \in s THEN step[<<k + 1, g[s \ {k + 1}]>>] ELSE g[s]]
<1>2. ASSUME NEW s \in SUBSET (1 .. k + 1)
      PROVE  h[s] \in X /\ h[s] = IF s = {} THEN base ELSE step[<<Max(s), h[s \ {Max(s)}]>>]
  <2>1. CASE k + 1 \in s
    <3>1. s \ {k + 1} \in SUBSET (1 .. k)
      OBVIOUS
    <3>2. k + 1 \in s /\ \A y \in s : k + 1 >= y
      BY <2>1
    <3>3. Max(s) \in s /\ \A y \in s : Max(s) >= y
      BY <3>2 DEF Max
    <3>4. Max(s) = k + 1
      <4>1. Max(s) \in 1 .. k + 1 /\ k + 1 >= Max(s) /\ Max(s) >= k + 1
        BY <3>2, <3>3
      <4> QED BY <4>1
    <3>5. h[s \ {k + 1}] = g[s \ {k + 1}]
      BY <3>1
    <3>6. g[s \ {k + 1}] \in X /\ k + 1 \in 1 .. n
      BY <3>1
    <3>7. step[<<k + 1, g[s \ {k + 1}]>>] \in X
      BY <3>6
    <3> QED BY <2>1, <3>4, <3>5, <3>7
  <2>2. CASE k + 1 \notin s
    <3>1. s \in SUBSET (1 .. k)
      <4>1. \A x \in s : x \in 1 .. k + 1 /\ x # k + 1
        BY <2>2
      <4> QED BY <4>1
    <3>2. h[s] = g[s] /\ g[s] \in X
      BY <2>2, <3>1
    <3>3. \A x : h[s \ {x}] = g[s \ {x}]
      BY <2>2, <3>1
    <3>4. g[s] = IF s = {} THEN base ELSE step[<<Max(s), g[s \ {Max(s)}]>>]
      BY <1>1, <3>1 DEF IsFold
    <3> QED BY <3>2, <3>3, <3>4
  <2> QED BY <2>1, <2>2
<1>3. h \in [SUBSET (1 .. k + 1) -> X]
  BY <1>2
<1> HIDE DEF h
<1> QED BY <1>2, <1>3 DEF IsFold, Folds

\* It exists.
LEMMA FoldExists ==
  ASSUME NEW n \in Nat, NEW X, NEW base \in X, NEW step \in [(1 .. n) \X X -> X]
  PROVE  Folds(n, X, base, step)
<1> DEFINE S == {k \in Nat : k <= n => Folds(k, X, base, step)}
<1>1. 0 \in S
  <2> DEFINE g == [s \in SUBSET (1 .. 0) |-> base]
  <2>1. \A s \in SUBSET (1 .. 0) : s = {}
    OBVIOUS
  <2>2. g \in [SUBSET (1 .. 0) -> X] /\ IsFold(g, 0, base, step)
    BY <2>1 DEF IsFold
  <2> QED BY <2>2 DEF Folds
<1>2. \A k \in S : k + 1 \in S
  BY FoldStep
<1>3. S = Nat
  <2>1. S \in SUBSET Nat
    OBVIOUS
  <2> HIDE DEF S
  <2> QED BY <1>1, <1>2, <2>1, Upwards
<1> QED BY <1>3

\* What holds of the beginning and is kept by every character of a text that is appended
\* holds in the end.
LEMMA AppendAllKeeps ==
  ASSUME NEW path, NEW text \in Text, NEW X, [path |-> path, ok |-> TRUE] \in X,
         \A done \in X, c \in Code : (IF done.ok THEN AppendChar(done.path, c) ELSE done) \in X
  PROVE  AppendAll(path, text) \in X
<1> DEFINE base == [path |-> path, ok |-> TRUE]
           Op(done, c) == IF done.ok THEN AppendChar(done.path, c) ELSE done
           n == Len(text)
           step == [z \in (1 .. n) \X X |-> Op(z[2], text[z[1]])]
           P(g) == g = [s \in SUBSET DOMAIN text |->
                      IF s = {} THEN base ELSE Op(g[s \ {Max(s)}], text[Max(s)])]
           iter == CHOOSE g : P(g)
<1>1. AppendAll(path, text) = iter[DOMAIN text]
  BY Zenon DEF AppendAll, FoldLeft, MapThenFoldSet
<1>2. DOMAIN text = 1 .. n /\ n \in Nat /\ \A k \in 1 .. n : text[k] \in Code
  BY DEF Text
<1>3. base \in X /\ \A done \in X, c \in Code : Op(done, c) \in X
  OBVIOUS
<1> HIDE DEF base, Op, n
<1>4. step \in [(1 .. n) \X X -> X]
  BY <1>2, <1>3
<1>5. \E g : P(g)
  <2>1. PICK g \in [SUBSET (1 .. n) -> X] : IsFold(g, n, base, step)
    <3> HIDE DEF step
    <3> QED BY <1>2, <1>3, <1>4, FoldExists DEF Folds
  <2>2. ASSUME NEW s \in SUBSET (1 .. n), s # {}
        PROVE  Max(s) \in 1 .. n /\ g[s \ {Max(s)}] \in X
    <3>1. Max(s) \in s
      BY <1>2, <2>2, MaxIn
    <3> QED BY <3>1
  <2>3. \A s \in SUBSET (1 .. n) : g[s] = IF s = {} THEN base ELSE Op(g[s \ {Max(s)}], text[Max(s)])
    BY <2>1, <2>2 DEF IsFold
  <2>4. g = [s \in SUBSET (1 .. n) |-> g[s]]
    OBVIOUS
  <2> QED BY <1>2, <2>3, <2>4, ZenonT(60)
<1>6. P(iter)
  BY <1>5
<1> HIDE DEF iter
<1>7. iter[{}] = base
  <2>1. {} \in SUBSET DOMAIN text
    OBVIOUS
  <2> QED BY <1>6, <2>1
<1>8. ASSUME NEW k \in 1 .. n PROVE iter[1 .. k] = Op(iter[1 .. (k - 1)], text[k])
  <2>1. Max(1 .. k) = k /\ (1 .. k) \ {k} = 1 .. (k - 1) /\ 1 .. k # {}
    <3>1. k \in Nat \ {0}
      BY <1>2
    <3> QED BY <3>1, MaxOfRange
  <2>2. 1 .. k \in SUBSET DOMAIN text
    BY <1>2
  <2> QED BY <1>6, <2>1, <2>2
<1>9. iter[1 .. n] \in X
  <2> DEFINE f == [k \in 0 .. n |-> iter[1 .. k]]
  <2>1. f[0] \in X
    <3>1. 1 .. 0 = {}
      OBVIOUS
    <3> QED BY <1>2, <1>3, <1>7, <3>1
  <2>2. ASSUME NEW k \in 1 .. n, f[k - 1] \in X PROVE f[k] \in X
    BY <1>2, <1>3, <1>8, <2>2
  <2>3. f[n] \in X
    <3> HIDE DEF f
    <3> QED BY <1>2, <2>1, <2>2, Along, SMTT(60)
  <2> QED BY <1>2, <2>3
<1> QED BY <1>1, <1>2, <1>9

-----------------------------------------------------------------------------
(* Numbers *)

\* The value of a digit.
LEMMA DigitValue ==
  ASSUME NEW c \in DOMAIN Digit
  PROVE  Digit[c] \in 0 .. 15
<1>1. c \in 48 .. 57 \cup 65 .. 70 \cup 97 .. 102
  BY DEF Digit
<1> QED BY <1>1 DEF Digit

(* The digits of a number. *)
Value(text) == FoldLeft(LAMBDA v, c : 16 * v + Digit[c], 0, text)

\* What stoi makes of digits, one after the other.
LEMMA DigitsSteps ==
  ASSUME NEW text \in Seq(DOMAIN Digit)
  PROVE  \E f \in [0 .. Len(text) -> Nat] :
           /\ f[0] = 0 /\ f[Len(text)] = Value(text)
           /\ \A k \in 1 .. Len(text) : f[k] = 16 * f[k - 1] + Digit[text[k]]
<1> DEFINE Op(v, c) == 16 * v + Digit[c]
           n == Len(text)
           step == [z \in (1 .. n) \X Nat |-> Op(z[2], text[z[1]])]
           P(g) == g = [s \in SUBSET DOMAIN text |->
                      IF s = {} THEN 0 ELSE Op(g[s \ {Max(s)}], text[Max(s)])]
           iter == CHOOSE g : P(g)
<1>1. Value(text) = iter[DOMAIN text]
  BY Zenon DEF Value, FoldLeft, MapThenFoldSet
<1>2. DOMAIN text = 1 .. n /\ n \in Nat /\ \A k \in 1 .. n : text[k] \in DOMAIN Digit
  OBVIOUS
<1>3. \A v \in Nat, c \in DOMAIN Digit : Op(v, c) \in Nat
  <2>1. \A c \in DOMAIN Digit : Digit[c] \in 0 .. 15
    BY DigitValue
  <2> QED BY <2>1, SMTT(60)
<1> HIDE DEF Op, n
<1>4. step \in [(1 .. n) \X Nat -> Nat]
  BY <1>2, <1>3
<1>5. \E g : P(g)
  <2>1. PICK g \in [SUBSET (1 .. n) -> Nat] : IsFold(g, n, 0, step)
    <3> HIDE DEF step
    <3> QED BY <1>2, <1>4, FoldExists DEF Folds
  <2>2. ASSUME NEW s \in SUBSET (1 .. n), s # {}
        PROVE  Max(s) \in 1 .. n /\ g[s \ {Max(s)}] \in Nat
    <3>1. Max(s) \in s
      BY <1>2, <2>2, MaxIn
    <3> QED BY <3>1
  <2>3. \A s \in SUBSET (1 .. n) : g[s] = IF s = {} THEN 0 ELSE Op(g[s \ {Max(s)}], text[Max(s)])
    BY <2>1, <2>2 DEF IsFold
  <2>4. g = [s \in SUBSET (1 .. n) |-> g[s]]
    OBVIOUS
  <2> QED BY <1>2, <2>3, <2>4
<1>6. P(iter)
  BY <1>5
<1> HIDE DEF iter
<1> DEFINE f == [k \in 0 .. n |-> iter[1 .. k]]
<1>7. f[0] = 0
  <2>1. {} \in SUBSET DOMAIN text /\ 1 .. 0 = {}
    OBVIOUS
  <2> QED BY <1>2, <1>6, <2>1
<1>8. ASSUME NEW k \in 1 .. n PROVE f[k] = Op(f[k - 1], text[k])
  <2>1. Max(1 .. k) = k /\ (1 .. k) \ {k} = 1 .. (k - 1) /\ 1 .. k # {}
    <3>1. k \in Nat \ {0}
      BY <1>2
    <3> QED BY <3>1, MaxOfRange
  <2>2. 1 .. k \in SUBSET DOMAIN text
    BY <1>2
  <2>3. iter[1 .. k] = Op(iter[1 .. (k - 1)], text[k])
    BY <1>6, <2>1, <2>2
  <2> QED BY <1>2, <2>3
<1>9. f \in [0 .. n -> Nat]
  <2>1. \A k \in 1 .. n : f[k - 1] \in Nat => f[k] \in Nat
    BY <1>2, <1>3, <1>8, ZenonT(60)
  <2>2. \A k \in 0 .. n : f[k] \in Nat
    <3> HIDE DEF f
    <3>1. f[0] \in Nat
      BY <1>7
    <3> QED BY <1>2, <2>1, <3>1, Along
  <2> QED BY <2>2
<1>10. f[n] = Value(text)
  <2>1. f[n] = iter[DOMAIN text]
    BY <1>2
  <2> HIDE DEF f
  <2> QED BY <1>1, <2>1
<1> HIDE DEF f
<1> QED BY <1>7, <1>8, <1>9, <1>10 DEF Op, n

\* As many characters of a text as Span says are of the kind.
LEMMA SpanIs ==
  ASSUME NEW s \in Text, NEW S
  PROVE  Span(s, S) \in 0 .. Len(s) /\ \A i \in 1 .. Span(s, S) : s[i] \in S
<1> DEFINE I == {i \in 1 .. Len(s) : s[i] \notin S}
<1>1. Span(s, S) = LET k == IF I # {} THEN Min(I) ELSE 0 IN IF k = 0 THEN Len(s) ELSE k - 1
  BY DEF Span, SelectInSeq
<1>2. Len(s) \in Nat
  BY DEF Text
<1>3. CASE I = {}
  BY <1>1, <1>2, <1>3
<1>4. CASE I # {}
  <2>1. I \in SUBSET (0 .. Len(s))
    OBVIOUS
  <2>2. PICK x \in I : \A y \in I : x <= y
    <3> HIDE DEF I
    <3> QED BY <1>2, <1>4, <2>1, Least
  <2>3. Min(I) \in I /\ \A y \in I : Min(I) <= y
    <3> HIDE DEF I
    <3> QED BY <2>2 DEF Min
  <2>4. Span(s, S) = Min(I) - 1
    BY <1>1, <1>4, <2>3
  <2>5. Min(I) \in 1 .. Len(s) /\ Span(s, S) \in 0 .. Len(s)
    BY <1>2, <2>3, <2>4
  <2>6. ASSUME NEW i \in 1 .. Span(s, S) PROVE s[i] \in S
    <3>1. i \in 1 .. Len(s) /\ ~(Min(I) <= i)
      BY <1>2, <2>4, <2>5
    <3> QED BY <2>3, <3>1
  <2> QED BY <2>5, <2>6
<1> QED BY <1>3, <1>4

\* What is left of a text.
LEMMA FromType ==
  ASSUME NEW s \in Text, NEW k \in Nat \ {0}
  PROVE  From(s, k) \in Text /\ Len(From(s, k)) <= Len(s)
BY DEF From, Text

\* Four steps of 16 each.
LEMMA FourSteps ==
  ASSUME NEW n \in 0 .. 4, NEW f \in [0 .. n -> Nat], NEW d \in [1 .. n -> 0 .. 15],
         f[0] = 0, \A k \in 1 .. n : f[k] = 16 * f[k - 1] + d[k]
  PROVE  f[n] \in Code
<1>1. ASSUME NEW k \in 1 .. n, NEW m \in Nat, f[k - 1] <= m PROVE f[k] <= 16 * m + 15
  <2>1. k \in 1 .. n /\ k - 1 \in 0 .. n /\ k \in Nat
    OBVIOUS
  <2>2. f[k] = 16 * f[k - 1] + d[k] /\ d[k] \in 0 .. 15 /\ f[k - 1] \in Nat
    BY <2>1
  <2>3. \A x \in Nat, y \in 0 .. 15 : x <= m => 16 * x + y <= 16 * m + 15
    OBVIOUS
  <2> QED BY <1>1, <2>2, <2>3
<1>2. n >= 1 => f[1] <= 15
  BY <1>1
<1>3. n >= 2 => f[2] <= 255
  BY <1>1, <1>2
<1>4. n >= 3 => f[3] <= 4095
  BY <1>1, <1>3
<1>5. n >= 4 => f[4] <= 65535
  BY <1>1, <1>4
<1>6. n \in {0, 1, 2, 3, 4} /\ f[n] \in Nat
  OBVIOUS
<1>7. f[n] <= 65535
  BY <1>2, <1>3, <1>4, <1>5, <1>6, SMT
<1> QED BY <1>6, <1>7, InCode, SMT

\* Up to four digits are a number of 16 bits.
LEMMA DigitsType ==
  ASSUME NEW s \in Text, Len(s) <= 4
  PROVE  Digits(s) \in Code \cup {NoNumber}
<1> DEFINE digits == SubSeq(s, 1, Span(s, DOMAIN Digit))
<1>1. digits \in Seq(DOMAIN Digit) /\ Len(digits) <= 4
  <2>1. Span(s, DOMAIN Digit) \in 0 .. Len(s) /\ \A i \in 1 .. Span(s, DOMAIN Digit) : s[i] \in DOMAIN Digit
    BY SpanIs
  <2> HIDE DEF Text
  <2>2. s \in Seq(Code)
    BY DEF Text
  <2> QED BY <2>1, <2>2
<1> HIDE DEF digits
<1>2. \A c \in DOMAIN Digit : Digit[c] \in 0 .. 15
  BY DigitValue
<1>3. PICK f \in [0 .. Len(digits) -> Nat] :
           /\ f[0] = 0 /\ f[Len(digits)] = Value(digits)
           /\ \A k \in 1 .. Len(digits) : f[k] = 16 * f[k - 1] + Digit[digits[k]]
  BY <1>1, DigitsSteps
<1>4. \A k \in 1 .. Len(digits) : Digit[digits[k]] \in 0 .. 15
  BY <1>1, <1>2
<1>5. Len(digits) \in 0 .. 4
  <2>1. Len(digits) \in Nat
    BY <1>1
  <2> QED BY <1>1, <2>1
<1>6. f[Len(digits)] \in Code
  <2> DEFINE d == [k \in 1 .. Len(digits) |-> Digit[digits[k]]]
  <2>1. d \in [1 .. Len(digits) -> 0 .. 15] /\ \A k \in 1 .. Len(digits) : f[k] = 16 * f[k - 1] + d[k]
    BY <1>3, <1>4
  <2> HIDE DEF d
  <2>2. PICK n \in 0 .. 4 : n = Len(digits)
    BY <1>5
  <2>3. d \in [1 .. n -> 0 .. 15] /\ f \in [0 .. n -> Nat]
    BY <2>1, <2>2
  <2>4. f[0] = 0 /\ \A k \in 1 .. n : f[k] = 16 * f[k - 1] + d[k]
    BY <1>3, <2>1, <2>2
  <2>5. f[n] \in Code
    BY <2>3, <2>4, FourSteps
  <2> QED BY <2>2, <2>5
<1>7. Digits(s) = IF digits = <<>> THEN NoNumber ELSE Value(digits)
  BY Zenon DEF Digits, digits, Value
<1>8. Value(digits) \in Code
  BY <1>3, <1>6, InCode
<1> QED BY <1>7, <1>8

\* So is what stoi makes of four characters, with blanks, a sign and 0x in front or without.
LEMMA NumberType ==
  ASSUME NEW s \in Text, Len(s) <= 4
  PROVE  Number(s) \in Code \cup {NoNumber}
<1> DEFINE t == From(s, Span(s, Blanks) + 1)
<1>1. t \in Text /\ Len(t) <= 4
  <2>1. Span(s, Blanks) + 1 \in Nat \ {0} /\ Len(s) \in Nat
    BY SpanIs DEF Text
  <2> QED BY <2>1, FromType
<1>2. ASSUME NEW u \in Text, Len(u) <= 4 PROVE Unsigned(u) \in Code \cup {NoNumber}
  <2>1. From(u, 3) \in Text /\ Len(From(u, 3)) <= 4
    BY <1>2, FromType DEF Text
  <2> QED BY <1>2, <2>1, DigitsType DEF Unsigned
<1>3. t # <<>> => Tail(t) \in Text /\ Len(Tail(t)) <= 4
  BY <1>1 DEF Text
<1>4. ASSUME NEW n \in Code \cup {NoNumber} PROVE Opposite(n) \in Code \cup {NoNumber}
  <2>1. CASE n = NoNumber
    BY <2>1 DEF Opposite
  <2>2. CASE n # NoNumber
    <3>1. n \in Code
      BY <2>2
    <3>2. (-n) % 65536 \in Code
      BY <3>1, InCode, SMT
    <3> QED BY <2>2, <3>2 DEF Opposite
  <2> QED BY <2>1, <2>2
<1> HIDE DEF t
<1>5. Signed(t) \in Code \cup {NoNumber}
  BY <1>1, <1>2, <1>3, <1>4 DEF Signed
<1> QED BY <1>5 DEF Number, t

(* A function that begins with a value and makes each one from the one before it. *)
IsMade(f, n, base, step) == f[0] = base /\ \A k \in 1 .. n : f[k] = step[<<k, f[k - 1]>>]
Made(n, X, base, step) == \E f \in [0 .. n -> X] : IsMade(f, n, base, step)

\* It exists.
LEMMA Recursion ==
  ASSUME NEW n \in Nat, NEW X, NEW base \in X, NEW step \in [(1 .. n) \X X -> X]
  PROVE  Made(n, X, base, step)
<1> DEFINE S == {k \in Nat : k <= n => Made(k, X, base, step)}
<1>1. 0 \in S
  <2> DEFINE f == [k \in 0 .. 0 |-> base]
  <2>1. f \in [0 .. 0 -> X] /\ IsMade(f, 0, base, step)
    BY DEF IsMade
  <2> QED BY <2>1 DEF Made
<1>2. ASSUME NEW k \in Nat, k + 1 <= n, Made(k, X, base, step) PROVE Made(k + 1, X, base, step)
  <2>1. PICK f \in [0 .. k -> X] : IsMade(f, k, base, step)
    BY <1>2 DEF Made
  <2> DEFINE h == [i \in 0 .. k + 1 |-> IF i = k + 1 THEN step[<<k + 1, f[k]>>] ELSE f[i]]
  <2>2. f[k] \in X /\ k + 1 \in 1 .. n
    BY <1>2
  <2>3. step[<<k + 1, f[k]>>] \in X
    BY <2>2
  <2>4. h \in [0 .. k + 1 -> X]
    <3>1. \A i \in 0 .. k + 1 : i = k + 1 \/ i \in 0 .. k
      OBVIOUS
    <3> QED BY <2>3, <3>1
  <2>5. h[0] = base
    BY <2>1 DEF IsMade
  <2>6. ASSUME NEW i \in 1 .. k + 1 PROVE h[i] = step[<<i, h[i - 1]>>]
    <3>1. CASE i = k + 1
      BY <3>1, SMTT(60)
    <3>2. CASE i # k + 1
      <4>1. i \in 1 .. k /\ i - 1 \in 0 .. k /\ i - 1 # k + 1 /\ i \in 0 .. k + 1 /\ i - 1 \in 0 .. k + 1
        BY <3>2
      <4> QED BY <2>1, <3>2, <4>1 DEF IsMade
    <3> QED BY <3>1, <3>2
  <2> HIDE DEF h
  <2> QED BY <2>4, <2>5, <2>6 DEF IsMade, Made
<1>3. S = Nat
  <2>1. S \in SUBSET Nat /\ \A k \in S : k + 1 \in S
    BY <1>2
  <2> HIDE DEF S
  <2> QED BY <1>1, <2>1, Upwards
<1> QED BY <1>3

\* Texts one behind the other, one after the other.
LEMMA FlattenSteps ==
  ASSUME NEW texts \in Seq(Text)
  PROVE  \E f \in [0 .. Len(texts) -> Text] :
           /\ f[0] = <<>> /\ f[Len(texts)] = FlattenSeq(texts)
           /\ \A k \in 1 .. Len(texts) : f[k] = f[k - 1] \o texts[k]
<1> DEFINE n == Len(texts)
           P(g) == g = [i \in 1 .. n |-> IF i = 1 THEN texts[i] ELSE g[i - 1] \o texts[i]]
           flatten == CHOOSE g : P(g)
<1>1. FlattenSeq(texts) = IF n = 0 THEN texts ELSE flatten[n]
  BY Zenon DEF FlattenSeq
<1>2. n \in Nat /\ \A i \in 1 .. n : texts[i] \in Text
  OBVIOUS
<1>4. \A a, b \in Text : a \o b \in Text
  BY DEF Text
<1> DEFINE step == [z \in (1 .. n) \X Text |-> IF z[1] = 1 THEN texts[z[1]] ELSE z[2] \o texts[z[1]]]
<1> HIDE DEF n
<1>5. step \in [(1 .. n) \X Text -> Text]
  BY <1>2, <1>4
<1>6. \E g : P(g)
  <2>1. PICK f \in [0 .. n -> Text] : IsMade(f, n, <<>>, step)
    <3> HIDE DEF step
    <3>1. <<>> \in Text
      BY DEF Text
    <3> QED BY <1>2, <1>5, <3>1, Recursion DEF Made
  <2> DEFINE g == [i \in 1 .. n |-> f[i]]
  <2>2. ASSUME NEW i \in 1 .. n PROVE f[i] = IF i = 1 THEN texts[i] ELSE f[i - 1] \o texts[i]
    <3>1. i - 1 \in 0 .. n /\ f[i - 1] \in Text
      BY <1>2
    <3>2. f[i] = step[<<i, f[i - 1]>>]
      BY <2>1 DEF IsMade
    <3> QED BY <3>1, <3>2
  <2>3. ASSUME NEW i \in 1 .. n PROVE g[i] = IF i = 1 THEN texts[i] ELSE g[i - 1] \o texts[i]
    <3>1. i = 1 \/ i - 1 \in 1 .. n
      BY <1>2
    <3> QED BY <2>2, <3>1
  <2>4. g = [i \in 1 .. n |-> g[i]]
    OBVIOUS
  <2> HIDE DEF g
  <2> QED BY <2>3, <2>4, ZenonT(60)
<1>7. P(flatten)
  BY <1>6, Zenon
<1> HIDE DEF flatten
<1> DEFINE f == [i \in 0 .. n |-> IF i = 0 THEN <<>> ELSE flatten[i]]
<1>8. f[0] = <<>> /\ f[0] \in Text
  <2>1. <<>> \in Text /\ 0 \in 0 .. n
    BY <1>2 DEF Text
  <2> QED BY <2>1
<1>9. ASSUME NEW i \in 1 .. n, f[i - 1] \in Text PROVE f[i] \in Text /\ f[i] = f[i - 1] \o texts[i]
  <2>1. flatten[i] = IF i = 1 THEN texts[i] ELSE flatten[i - 1] \o texts[i]
    BY <1>7
  <2>2. i \in 0 .. n /\ i # 0 /\ i - 1 \in 0 .. n /\ texts[i] \in Text
    BY <1>2
  <2>3. f[i] = f[i - 1] \o texts[i]
    <3>1. CASE i = 1
      <4>1. f[i - 1] = <<>> /\ f[i] = texts[i]
        BY <2>1, <2>2, <3>1
      <4>2. \A t \in Text : <<>> \o t = t
        BY DEF Text
      <4> QED BY <2>2, <4>1, <4>2
    <3>2. CASE i # 1
      <4>1. i - 1 # 0
        BY <2>2, <3>2
      <4> QED BY <2>1, <2>2, <3>2, <4>1
    <3> QED BY <3>1, <3>2
  <2> QED BY <1>4, <1>9, <2>2, <2>3
<1>10. \A i \in 0 .. n : f[i] \in Text
  <2>1. \A i \in 1 .. n : f[i - 1] \in Text => f[i] \in Text
    BY <1>9
  <2>2. n \in Nat /\ f[0] \in Text
    BY <1>2, <1>8
  <2> HIDE DEF f
  <2> QED BY <2>1, <2>2, Along
<1>11. \A i \in 1 .. n : f[i] = f[i - 1] \o texts[i]
  <2>1. \A i \in 1 .. n : i - 1 \in 0 .. n
    BY <1>2
  <2> HIDE DEF f
  <2> QED BY <1>9, <1>10, <2>1
<1>12. f[n] = FlattenSeq(texts)
  <2>1. n # 0 => f[n] = flatten[n]
    BY <1>2
  <2>2. n = 0 => texts = <<>>
    BY DEF n
  <2> HIDE DEF f
  <2> QED BY <1>1, <1>8, <2>1, <2>2
<1>13. f \in [0 .. n -> Text]
  BY <1>10
<1> HIDE DEF f
<1> QED BY <1>8, <1>11, <1>12, <1>13 DEF n

\* They are a text.
LEMMA FlattenType ==
  ASSUME NEW texts \in Seq(Text)
  PROVE  FlattenSeq(texts) \in Text
<1>1. PICK f \in [0 .. Len(texts) -> Text] : f[Len(texts)] = FlattenSeq(texts)
  BY FlattenSteps
<1>2. Len(texts) \in 0 .. Len(texts)
  OBVIOUS
<1> QED BY <1>1, <1>2

-----------------------------------------------------------------------------
(* The path that an archive names *)

AllNames == Names \cup Foreign \cup Pieces

\* The signs of the module are code units.
LEMMA Signs == {0, Dot, Slash, Hash, Back, Colon} \subseteq Code
<1>1. \A c \in {0, Dot, Slash, Hash, Back, Colon} : c \in Int /\ 0 <= c /\ c <= 65535
  BY SMT DEF Dot, Slash, Hash, Back, Colon
<1> QED BY <1>1, InCode

\* The words of the module are texts.
LEMMA Words == /\ {<<>>, rootfs, home, root, mnt, <<Dot>>, <<Dot, Dot>>, <<Slash>>, <<Back>>} \subseteq Text
               /\ \A c \in Code : <<c>> \in Text
<1>1. {114, 111, 116, 102, 115, 104, 109, 101, 110} \subseteq Code
  BY InCode
<1>2. /\ rootfs \in Seq(Code) /\ home \in Seq(Code) /\ root \in Seq(Code) /\ mnt \in Seq(Code)
  BY <1>1 DEF rootfs, home, root, mnt
<1> QED BY <1>2, Signs DEF Text

\* Texts can be put together and taken apart.
LEMMA Texts ==
  /\ \A a, b \in Text : a \o b \in Text
  /\ \A a \in Text, c \in Code : Append(a, c) \in Text
  /\ \A a \in Text, k \in Nat : k <= Len(a) => SubSeq(a, 1, k) \in Text
BY DEF Text

\* The spellings of a name are texts.
LEMMA OnType ==
  ASSUME NEW n \in AllNames, NEW class
  PROVE  On(class, n) \in Text
<1>1. n \in [linux : Text, v1 : Text, v2 : Text]
  <2>1. Names \cup Foreign \cup EntryNames \subseteq [linux : Text, v1 : Text, v2 : Text]
    BY NamesAssumption
  <2>2. \A t \in Text : Same(t) \in [linux : Text, v1 : Text, v2 : Text]
    BY DEF Same
  <2>3. {<<>>, <<Dot>>, <<Dot, Dot>>} \subseteq Text
    BY Words
  <2> QED BY <2>1, <2>2, <2>3 DEF AllNames, Pieces, Empty, This, Above
<1> QED BY <1>1 DEF On

\* Names with slashes between them are a text.
LEMMA JoinedType ==
  ASSUME NEW class, NEW names \in Seq(AllNames), NEW closed \in BOOLEAN
  PROVE  Joined(class, names, closed) \in Text
<1> DEFINE slash == <<IF class = "linux" THEN Slash ELSE Back>>
           texts == [i \in DOMAIN names |->
                        On(class, names[i]) \o (IF i < Len(names) \/ closed THEN slash ELSE <<>>)]
<1>1. slash \in Text /\ <<>> \in Text
  BY Words
<1>2. \A i \in 1 .. Len(names) : On(class, names[i]) \in Text
  BY OnType
<1>3. Joined(class, names, closed) = FlattenSeq(texts)
  BY Zenon DEF Joined
<1> HIDE DEF slash
<1>4. texts \in Seq(Text)
  <2>1. DOMAIN names = 1 .. Len(names) /\ Len(names) \in Nat
    OBVIOUS
  <2>2. \A i \in 1 .. Len(names) : texts[i] \in Text
    BY <1>1, <1>2, <2>1, Texts
  <2>3. \A S : \A k \in Nat : \A s \in [1 .. k -> S] : s \in Seq(S)
    OBVIOUS
  <2> QED BY <2>1, <2>2, <2>3
<1> HIDE DEF texts
<1> QED BY <1>3, <1>4, FlattenType

\* What stands before a place in a text.
LEMMA ParentType ==
  ASSUME NEW data \in Text
  PROVE  Parent(data) \in Text
<1> DEFINE s == Front(data)
           I == {i \in 1 .. Len(s) : s[i] = Slash}
<1>1. LastSlash(data) = IF I # {} THEN Max(I) ELSE 0
  BY DEF LastSlash, SelectLastInSeq
<1>2. CASE data # <<>>
  <2>1. Len(data) \in Nat /\ Len(s) \in Nat /\ Len(s) <= Len(data)
    BY <1>2 DEF Front, Text
  <2>2. I # {} => Max(I) \in 1 .. Len(s)
    <3>1. I \in SUBSET (1 .. Len(s))
      OBVIOUS
    <3> HIDE DEF I, s
    <3> QED BY <2>1, <3>1, MaxIn
  <2>3. LastSlash(data) \in Nat /\ LastSlash(data) <= Len(data)
    <3> HIDE DEF I, s
    <3> QED BY <1>1, <2>1, <2>2
  <2> QED BY <1>2, <2>3, Texts DEF Parent
<1>3. CASE data = <<>>
  BY <1>3 DEF Parent
<1> QED BY <1>2, <1>3

(* One character of Normal. *)
Walked == [begins : BOOLEAN, pass : Nat, data : Text]
Walk(path, i, was) ==
    IF was.pass > 0 THEN [was EXCEPT !.pass = @ - 1] ELSE
    CASE was.begins /\ path[i] = Slash -> was
      [] was.begins /\ At(path, i, <<Dot, Slash>>) -> [was EXCEPT !.pass = 1]
      [] was.begins /\ At(path, i, <<Dot, Dot, Slash>>) -> [was EXCEPT !.pass = 2, !.data = Parent(@)]
      [] OTHER -> [begins |-> path[i] = Slash, pass |-> 0, data |-> Append(was.data, path[i])]

LEMMA WalkType ==
  ASSUME NEW path \in Text, NEW i \in 1 .. Len(path), NEW was \in Walked
  PROVE  Walk(path, i, was) \in Walked
<1>1. path[i] \in Code /\ was.data \in Text /\ was.pass \in Nat /\ was.begins \in BOOLEAN
  BY DEF Walked, Text
<1>2. Parent(was.data) \in Text /\ Append(was.data, path[i]) \in Text
  BY <1>1, ParentType, Texts
<1>3. was.pass > 0 => was.pass - 1 \in Nat
  BY <1>1
<1> QED BY <1>1, <1>2, <1>3 DEF Walk, Walked

\* What is left of a path is a text.
LEMMA NormalType ==
  ASSUME NEW path \in Text
  PROVE  Normal(path) \in Text
<1> DEFINE n == Len(path)
           base == [begins |-> TRUE, pass |-> 0, data |-> <<>>]
           P(g) == g = [i \in 0 .. n |-> IF i = 0 THEN base ELSE Walk(path, i, g[i - 1])]
           walk == CHOOSE g : P(g)
           step == [z \in (1 .. n) \X Walked |-> Walk(path, z[1], z[2])]
<1>1. Normal(path) = walk[n].data
  BY Zenon DEF Normal, Walk
<1>2. n \in Nat
  BY DEF Text
<1>3. base \in Walked
  BY Words DEF Walked
<1>4. \A i \in 1 .. n, was \in Walked : Walk(path, i, was) \in Walked
  BY WalkType
<1> HIDE DEF base, n
<1>5. step \in [(1 .. n) \X Walked -> Walked]
  BY <1>4
<1>6. \E g : P(g)
  <2>1. PICK f \in [0 .. n -> Walked] : IsMade(f, n, base, step)
    <3> HIDE DEF step
    <3> QED BY <1>2, <1>3, <1>5, Recursion DEF Made
  <2>2. ASSUME NEW i \in 0 .. n PROVE f[i] = IF i = 0 THEN base ELSE Walk(path, i, f[i - 1])
    <3>1. CASE i = 0
      BY <2>1, <3>1 DEF IsMade
    <3>2. CASE i # 0
      <4>1. i \in 1 .. n /\ i - 1 \in 0 .. n
        BY <1>2, <3>2
      <4>2. f[i] = step[<<i, f[i - 1]>>] /\ f[i - 1] \in Walked
        BY <2>1, <4>1 DEF IsMade
      <4> QED BY <3>2, <4>1, <4>2
    <3> QED BY <3>1, <3>2
  <2>3. f = [i \in 0 .. n |-> f[i]]
    OBVIOUS
  <2> QED BY <2>2, <2>3
<1>7. P(walk)
  BY <1>6
<1> HIDE DEF walk
<1>8. walk[0] \in Walked
  <2>1. 0 \in 0 .. n
    BY <1>2
  <2> QED BY <1>3, <1>7, <2>1
<1>9. \A k \in 1 .. n : walk[k - 1] \in Walked => walk[k] \in Walked
  <2>1. ASSUME NEW k \in 1 .. n, walk[k - 1] \in Walked PROVE walk[k] \in Walked
    <3>1. k \in 0 .. n /\ k # 0
      OBVIOUS
    <3>2. walk[k] = Walk(path, k, walk[k - 1])
      BY <1>7, <3>1
    <3> QED BY <1>4, <2>1, <3>2
  <2> QED BY <2>1
<1>10. walk[n] \in Walked
  <2>1. \A k \in 0 .. n : walk[k] \in Walked
    BY <1>2, <1>8, <1>9, Along
  <2> QED BY <1>2, <2>1
<1> QED BY <1>1, <1>10 DEF Walked

(* One name of Meant. *)
Step(pieces, closed, i, up) ==
    CASE pieces[i] = Empty \/ ((i < Len(pieces) \/ closed) /\ pieces[i] = This) -> up
      [] (i < Len(pieces) \/ closed) /\ pieces[i] = Above -> (IF up = <<>> THEN up ELSE Front(up))
      [] OTHER -> Append(up, pieces[i])

\* What is left of the names of an entry are names.
LEMMA MeantType ==
  ASSUME NEW pieces \in Seq(Pieces), NEW closed \in BOOLEAN
  PROVE  Meant(pieces, closed) \in Seq(Pieces)
<1> DEFINE n == Len(pieces)
           X == Seq(Pieces)
           P(g) == g = [i \in 0 .. n |-> IF i = 0 THEN <<>> ELSE Step(pieces, closed, i, g[i - 1])]
           left == CHOOSE g : P(g)
           step == [z \in (1 .. n) \X X |-> Step(pieces, closed, z[1], z[2])]
<1>1. Meant(pieces, closed) = left[n]
  BY Zenon DEF Meant, Step
<1>2. n \in Nat /\ <<>> \in X
  OBVIOUS
<1>3. \A i \in 1 .. n, up \in X : Step(pieces, closed, i, up) \in X
  <2>1. ASSUME NEW i \in 1 .. n, NEW up \in X PROVE Step(pieces, closed, i, up) \in X
    <3>1. pieces[i] \in Pieces
      OBVIOUS
    <3>2. Append(up, pieces[i]) \in X
      BY <3>1
    <3>3. up # <<>> => Front(up) \in X
      BY DEF Front
    <3> HIDE DEF X
    <3> QED BY <3>2, <3>3 DEF Step
  <2> QED BY <2>1
<1> HIDE DEF n, X
<1>5. step \in [(1 .. n) \X X -> X]
  BY <1>3
<1>6. \E g : P(g)
  <2>1. PICK f \in [0 .. n -> X] : IsMade(f, n, <<>>, step)
    <3> HIDE DEF step
    <3> QED BY <1>2, <1>5, Recursion DEF Made
  <2>2. ASSUME NEW i \in 0 .. n PROVE f[i] = IF i = 0 THEN <<>> ELSE Step(pieces, closed, i, f[i - 1])
    <3>1. CASE i = 0
      BY <2>1, <3>1 DEF IsMade
    <3>2. CASE i # 0
      <4>1. i \in 1 .. n /\ i - 1 \in 0 .. n
        BY <1>2, <3>2
      <4>2. f[i] = step[<<i, f[i - 1]>>] /\ f[i - 1] \in X
        BY <2>1, <4>1 DEF IsMade
      <4> QED BY <3>2, <4>1, <4>2
    <3> QED BY <3>1, <3>2
  <2>3. f = [i \in 0 .. n |-> f[i]]
    OBVIOUS
  <2> QED BY <2>2, <2>3
<1>7. P(left)
  BY <1>6
<1> HIDE DEF left
<1>8. left[0] \in X
  <2>1. 0 \in 0 .. n
    BY <1>2
  <2> QED BY <1>2, <1>7, <2>1
<1>9. \A k \in 1 .. n : left[k - 1] \in X => left[k] \in X
  <2>1. ASSUME NEW k \in 1 .. n, left[k - 1] \in X PROVE left[k] \in X
    <3>1. k \in 0 .. n /\ k # 0
      OBVIOUS
    <3>2. left[k] = Step(pieces, closed, k, left[k - 1])
      BY <1>7, <3>1
    <3> QED BY <1>3, <2>1, <3>2
  <2> QED BY <2>1
<1>10. left[n] \in X
  <2>1. \A k \in 0 .. n : left[k] \in X
    BY <1>2, <1>8, <1>9, Along
  <2> QED BY <1>2, <2>1
<1> QED BY <1>1, <1>10 DEF X

-----------------------------------------------------------------------------
(* Reading a path back *)

Reading == [chars : Text, throws : BOOLEAN]

(* One character of Decoded in front of what is read behind it. *)
Put(c, rest) == [rest EXCEPT !.chars = <<c>> \o @]
Read(data, i, near, far) ==
    CASE i > Len(data) -> [chars |-> <<>>, throws |-> FALSE]
      [] i <= Len(data) /\ data[i] = Hash ->
            LET n == Number(SubSeq(data, i + 1, IF i + 4 > Len(data) THEN Len(data) ELSE i + 4))
            IN  IF n = NoNumber THEN [chars |-> <<>>, throws |-> TRUE] ELSE Put(n, far)
      [] OTHER -> Put(IF data[i] = Back THEN Slash ELSE data[i], near)

LEMMA PutType ==
  ASSUME NEW c \in Code, NEW rest \in Reading
  PROVE  Put(c, rest) \in Reading
<1>1. rest.chars \in Text /\ rest.throws \in BOOLEAN
  BY DEF Reading
<1>2. <<c>> \o rest.chars \in Text
  BY <1>1, Texts, Words
<1> QED BY <1>1, <1>2 DEF Put, Reading

LEMMA ReadType ==
  ASSUME NEW data \in Text, NEW i \in 1 .. Len(data) + 5, NEW near, NEW far,
         i <= Len(data) => near \in Reading /\ far \in Reading
  PROVE  Read(data, i, near, far) \in Reading
<1>1. Len(data) \in Nat /\ i \in Nat /\ i >= 1
  BY DEF Text
<1>2. [chars |-> <<>>, throws |-> FALSE] \in Reading /\ [chars |-> <<>>, throws |-> TRUE] \in Reading
  BY Words DEF Reading
<1>3. CASE i > Len(data)
  BY <1>2, <1>3 DEF Read
<1>4. CASE i <= Len(data)
  <2> DEFINE end == IF i + 4 > Len(data) THEN Len(data) ELSE i + 4
             q == SubSeq(data, i + 1, end)
  <2>1. data[i] \in Code /\ near \in Reading /\ far \in Reading
    BY <1>1, <1>4 DEF Text
  <2>2. q \in Text /\ Len(q) <= 4
    <3>1. end \in Nat /\ end <= Len(data) /\ end <= i + 4
      BY <1>1, <1>4
    <3> HIDE DEF end
    <3>2. data \in Seq(Code)
      BY DEF Text
    <3>3. SubSeq(data, i + 1, end) \in Seq(Code) /\ Len(SubSeq(data, i + 1, end)) <= 4
      BY <1>1, <3>1, <3>2
    <3> QED BY <3>3 DEF Text
  <2> HIDE DEF q
  <2>3. Number(q) \in Code \cup {NoNumber}
    BY <2>2, NumberType
  <2>4. (IF data[i] = Back THEN Slash ELSE data[i]) \in Code
    BY <2>1, Signs
  <2>5. Put(IF data[i] = Back THEN Slash ELSE data[i], near) \in Reading
    BY <2>1, <2>4, PutType
  <2>6. Number(q) # NoNumber => Put(Number(q), far) \in Reading
    BY <2>1, <2>3, PutType
  <2>7. ~(i > Len(data))
    BY <1>1, <1>4
  <2>8. Read(data, i, near, far) =
          IF data[i] = Hash THEN IF Number(q) = NoNumber THEN [chars |-> <<>>, throws |-> TRUE] ELSE Put(Number(q), far)
          ELSE Put(IF data[i] = Back THEN Slash ELSE data[i], near)
    <3> HIDE DEF Back, Slash, Hash, NoNumber
    <3> QED BY <1>4, <2>7 DEF Read, q
  <2> QED BY <1>2, <2>5, <2>6, <2>8
<1> QED BY <1>1, <1>3, <1>4

(* What is read from some place on. *)
IsRead(g, data, S) == \A i \in S : g[i] = Read(data, i, g[i + 1], g[i + 5])

\* What is read from every place on, to the end.
LEMMA ReadExists ==
  ASSUME NEW data \in Text
  PROVE  \E g \in [1 .. Len(data) + 5 -> Reading] : IsRead(g, data, 1 .. Len(data) + 5)
<1> DEFINE n == Len(data)
           m == n + 5
           R(k) == \E g \in [m + 1 - k .. m -> Reading] : IsRead(g, data, m + 1 - k .. m)
           S == {k \in Nat : k <= m => R(k)}
<1>1. n \in Nat
  BY DEF Text
<1>2. 0 \in S
  <2> DEFINE g == [i \in m + 1 - 0 .. m |-> 0]
  <2>1. m + 1 - 0 .. m = {}
    BY <1>1
  <2>2. g \in [m + 1 - 0 .. m -> Reading] /\ IsRead(g, data, m + 1 - 0 .. m)
    BY <2>1 DEF IsRead
  <2>3. R(0)
    BY <2>2
  <2> QED BY <2>3
<1>3. ASSUME NEW k \in Nat, k + 1 <= m, R(k) PROVE R(k + 1)
  <2>1. PICK g \in [m + 1 - k .. m -> Reading] : IsRead(g, data, m + 1 - k .. m)
    BY <1>3
  <2>2. PICK j \in 1 .. m : j = m - k
    BY <1>1, <1>3, SMTT(60)
  <2>3. m + 1 - k = j + 1 /\ m + 1 - (k + 1) = j
    BY <1>1, <2>2
  <2> DEFINE h == [i \in j .. m |-> IF i = j THEN Read(data, j, g[j + 1], g[j + 5]) ELSE g[i]]
  <2>4. g \in [j + 1 .. m -> Reading] /\ IsRead(g, data, j + 1 .. m)
    BY <2>1, <2>3
  <2>5. j <= n => g[j + 1] \in Reading /\ g[j + 5] \in Reading
    <3>1. j <= n => j + 1 \in j + 1 .. m /\ j + 5 \in j + 1 .. m
      BY <1>1, <2>2
    <3> QED BY <2>4, <3>1
  <2>6. Read(data, j, g[j + 1], g[j + 5]) \in Reading
    BY <2>5, ReadType
  <2>7. \A i \in j .. m : i = j \/ i \in j + 1 .. m
    BY <1>1
  <2>8. h \in [j .. m -> Reading]
    BY <2>4, <2>6, <2>7
  <2>9. ASSUME NEW i \in j .. m PROVE h[i] = Read(data, i, h[i + 1], h[i + 5])
    <3>1. h[i] = Read(data, i, g[i + 1], g[i + 5])
      BY <2>4, <2>7 DEF IsRead
    <3>2. CASE i > n
      BY <3>1, <3>2 DEF Read
    <3>3. CASE i <= n
      <4>1. i + 1 \in j .. m /\ i + 5 \in j .. m /\ i + 1 # j /\ i + 5 # j
        BY <1>1, <3>3
      <4>2. h[i + 1] = g[i + 1] /\ h[i + 5] = g[i + 5]
        BY <4>1
      <4> QED BY <3>1, <4>2
    <3> QED BY <1>1, <3>2, <3>3
  <2> HIDE DEF h
  <2>10. \E f \in [j .. m -> Reading] : IsRead(f, data, j .. m)
    BY <2>8, <2>9 DEF IsRead
  <2> QED BY <2>3, <2>10
<1>4. S = Nat
  <2>1. S \in SUBSET Nat /\ \A k \in S : k + 1 \in S
    <3>1. \A k \in Nat : k + 1 <= m => k <= m
      BY <1>1
    <3> HIDE DEF m, R
    <3> QED BY <1>3, <3>1
  <2> HIDE DEF S
  <2> QED BY <1>2, <2>1, Upwards
<1>5. R(m)
  <2>1. m \in Nat
    BY <1>1
  <2> HIDE DEF R, m
  <2> QED BY <1>4, <2>1
<1>6. m + 1 - m = 1
  BY <1>1
<1> QED BY <1>5, <1>6

\* What real_convert appends is a text.
LEMMA DecodedType ==
  ASSUME NEW class, NEW data \in Text
  PROVE  Decoded(class, data) \in Reading
<1> DEFINE P(g) == g = [i \in 1 .. Len(data) + 5 |-> Read(data, i, g[i + 1], g[i + 5])]
           read == CHOOSE g : P(g)
           back == [i \in DOMAIN data |-> IF IsSpecial(Xor(data[i])) THEN Xor(data[i])
                                          ELSE IF data[i] = Back THEN Slash ELSE data[i]]
<1>1. Decoded(class, data) = IF class = "v2" THEN [chars |-> back, throws |-> FALSE] ELSE read[1]
  BY Zenon DEF Decoded, Read, Put
<1>2. [chars |-> back, throws |-> FALSE] \in Reading
  <2>1. \A c \in Code : Xor(c) \in Code
    BY InCode, SMT DEF Xor
  <2>2. \A i \in 1 .. Len(data) : data[i] \in Code
    BY DEF Text
  <2>3. \A i \in 1 .. Len(data) : (IF IsSpecial(Xor(data[i])) THEN Xor(data[i])
                                   ELSE IF data[i] = Back THEN Slash ELSE data[i]) \in Code
    BY <2>1, <2>2, Signs
  <2>4. DOMAIN data = 1 .. Len(data) /\ Len(data) \in Nat
    BY DEF Text
  <2>5. back \in Text
    BY <2>3, <2>4 DEF Text
  <2> HIDE DEF back
  <2> QED BY <2>5 DEF Reading
<1>3. read[1] \in Reading
  <2>1. PICK g \in [1 .. Len(data) + 5 -> Reading] : IsRead(g, data, 1 .. Len(data) + 5)
    BY ReadExists
  <2>2. g = [i \in 1 .. Len(data) + 5 |-> Read(data, i, g[i + 1], g[i + 5])]
    <3>1. g = [i \in 1 .. Len(data) + 5 |-> g[i]]
      OBVIOUS
    <3> QED BY <2>1, <3>1 DEF IsRead
  <2>3. P(read)
    BY <2>2
  <2> HIDE DEF read
  <2> DEFINE n == Len(data)
             m == n + 5
             S == {k \in Nat : \A i \in 1 .. m : i > m - k => read[i] \in Reading}
  <2>4. n \in Nat
    BY DEF Text
  <2>5. 0 \in S
    BY <2>4
  <2>6. ASSUME NEW k \in S PROVE k + 1 \in S
    <3>1. ASSUME NEW i \in 1 .. m, i > m - (k + 1) PROVE read[i] \in Reading
      <4>1. i <= n => i + 1 \in 1 .. m /\ i + 5 \in 1 .. m /\ i + 1 > m - k /\ i + 5 > m - k
        BY <2>4, <3>1
      <4>2. i <= n => read[i + 1] \in Reading /\ read[i + 5] \in Reading
        BY <4>1
      <4>3. read[i] = Read(data, i, read[i + 1], read[i + 5])
        BY <2>3
      <4> QED BY <4>2, <4>3, ReadType
    <3> QED BY <3>1
  <2>7. S = Nat
    <3>1. S \in SUBSET Nat
      OBVIOUS
    <3> HIDE DEF S
    <3> QED BY <2>5, <2>6, <3>1, Upwards
  <2>8. m \in S /\ 1 \in 1 .. m /\ 1 > m - m
    BY <2>4, <2>7
  <2> QED BY <2>8
<1> HIDE DEF back, read
<1> QED BY <1>1, <1>2, <1>3

-----------------------------------------------------------------------------
(* Appending a character *)

DiskText == Seq({c \in Code : Allowed(c)})

\* What append writes for a character are characters that Windows allows.
LEMMA EncodedType ==
  ASSUME NEW class, NEW c \in Code
  PROVE  Encoded(class, c) \in DiskText
<1> DEFINE D == {x \in Code : Allowed(x)}
<1>1. CASE IsSpecial(c) \/ (c = Hash /\ class # "v2")
  <2>1. CASE class = "v2"
    <3>1. IsSpecial(c) /\ Encoded(class, c) = <<Or(c)>>
      BY <1>1, <2>1 DEF Encoded
    <3>2. Or(c) \in Code /\ Allowed(Or(c))
      <4>1. Or(c) \in Code
        BY InCode, SMT DEF Or
      <4> QED BY <3>1, <4>1, CodeUnit, MovedIsAllowed
    <3> QED BY <3>1, <3>2 DEF DiskText
  <2>2. CASE class # "v2"
    <3>1. Encoded(class, c) = Quoted(c)
      BY <1>1, <2>2 DEF Encoded
    <3>2. /\ c \div 4096 \in 0 .. 15 /\ (c \div 256) % 16 \in 0 .. 15
          /\ (c \div 16) % 16 \in 0 .. 15 /\ c % 16 \in 0 .. 15
      BY CodeUnit, FourDigits
    <3>3. \A d \in 0 .. 15 : Hex(d) \in D
      <4>1. \A d \in 0 .. 15 : Hex(d) \in Code
        BY InCode, SMT DEF Hex
      <4> QED BY <4>1, DigitReturns
    <3>4. Hash \in D
      <4>1. Allowed(Hash)
        BY SMT DEF Allowed, Hash
      <4> QED BY <4>1, Signs
    <3> HIDE DEF D
    <3>5. Quoted(c) \in Seq(D)
      BY <3>2, <3>3, <3>4 DEF Quoted
    <3> QED BY <3>1, <3>5 DEF D, DiskText
  <2> QED BY <2>1, <2>2
<1>2. CASE ~(IsSpecial(c) \/ (c = Hash /\ class # "v2"))
  <2>1. Allowed(Back)
    BY SMT DEF Allowed, Back
  <2>2. Back \in Code
    BY Signs
  <2>3. c # 0 /\ c # Slash => Allowed(c)
    BY <1>2, CodeUnit, SMT DEF Allowed, IsSpecial, Slash, Back, Colon
  <2>4. Encoded(class, c) = IF c = 0 THEN <<>> ELSE IF c = Slash THEN <<Back>> ELSE <<c>>
    BY <1>2 DEF Encoded
  <2>5. <<>> \in DiskText
    BY DEF DiskText
  <2>6. \A x \in D : <<x>> \in DiskText
    BY DEF DiskText
  <2> QED BY <2>1, <2>2, <2>3, <2>4, <2>5, <2>6
<1> QED BY <1>1, <1>2

Matcher == [done : BOOLEAN, seen : Seq(Code)]
Matchers(patterns) == {m \in Matcher : Matched(m, patterns)}

\* A matcher has failed, succeeded, or seen the beginning of a pattern.
LEMMA MoveType ==
  ASSUME NEW patterns, NEW m \in Matchers(patterns), NEW c \in Code
  PROVE  Move(m, c, patterns).m \in Matchers(patterns)
<1> DEFINE seen == Append(m.seen, c)
<1>1. m.done \in BOOLEAN /\ m.seen \in Seq(Code) /\ seen \in Seq(Code) /\ m = [done |-> m.done, seen |-> m.seen]
  BY DEF Matchers, Matcher
<1>2. Over \in Matchers(patterns)
  BY DEF Matchers, Matcher, Over, Matched
<1>3. ASSUME ~m.done, \E p \in patterns : IsStrictPrefix(seen, p)
      PROVE  [m EXCEPT !.seen = seen] \in Matchers(patterns)
  <2> HIDE DEF seen
  <2>1. [m EXCEPT !.seen = seen] = [done |-> m.done, seen |-> seen]
    BY <1>1
  <2> QED BY <1>1, <1>3, <2>1 DEF Matchers, Matcher, Matched
<1> HIDE DEF seen
<1> QED BY <1>2, <1>3 DEF Move, seen

Matcher1(class) == IF class = "linux" THEN LinuxPatterns ELSE MovedPatterns
PathRec == [class : Classes, data : Text, skip : BOOLEAN, m1 : Matcher, m2 : Matcher]
PathType == {p \in PathRec :
                p.m1 \in Matchers(Matcher1(p.class)) /\ p.m2 \in Matchers(NestedPatterns)}

(* The paths of a class whose text can be on its disk. *)
DiskPaths(class) == {p \in PathType : p.class = class /\ (class # "linux" => p.data \in DiskText)}

\* A new matcher has seen the beginning of its patterns.
LEMMA FreshType ==
  /\ \A class \in Classes : Fresh \in Matchers(Matcher1(class))
  /\ Fresh \in Matchers(NestedPatterns)
<1>1. \A p : Len(p) \in Nat /\ Len(p) > 0 => IsStrictPrefix(<<>>, p)
  <2>1. ASSUME NEW p, Len(p) \in Nat, Len(p) > 0 PROVE IsStrictPrefix(<<>>, p)
    <3>1. SubSeq(<<>>, 1, 0) = SubSeq(p, 1, 0)
      OBVIOUS
    <3>2. Len(<<>>) = 0 /\ p # <<>>
      BY <2>1
    <3> QED BY <2>1, <3>1, <3>2 DEF IsStrictPrefix, IsPrefix
  <2> QED BY <2>1
<1>2. \E p \in LinuxPatterns : IsStrictPrefix(<<>>, p)
  <2>1. Append(rootfs, Slash) \in LinuxPatterns
    BY DEF LinuxPatterns
  <2>2. Len(Append(rootfs, Slash)) \in Nat /\ Len(Append(rootfs, Slash)) > 0
    BY DEF rootfs
  <2> QED BY <1>1, <2>1, <2>2
<1>3. \E p \in MovedPatterns : IsStrictPrefix(<<>>, p)
  <2>1. Append(home, Slash) \in MovedPatterns
    BY DEF MovedPatterns
  <2>2. Len(Append(home, Slash)) \in Nat /\ Len(Append(home, Slash)) > 0
    BY DEF home
  <2> QED BY <1>1, <2>1, <2>2
<1>4. \E p \in NestedPatterns : IsStrictPrefix(<<>>, p)
  <2> DEFINE q == rootfs \o <<Slash>> \o home \o <<Slash>>
  <2>1. q \in NestedPatterns
    BY DEF NestedPatterns
  <2>2. q \in Text
    BY Words, Texts
  <2>3. Len(q) = Len(rootfs) + 1 + Len(home) + 1
    BY DEF rootfs, home
  <2>4. Len(rootfs) = 6 /\ Len(home) = 4
    BY DEF rootfs, home
  <2> HIDE DEF q
  <2>5. Len(q) \in Nat /\ Len(q) > 0
    BY <2>3, <2>4
  <2> QED BY <1>1, <2>1, <2>5
<1>5. Fresh \in Matcher /\ Fresh.seen = <<>>
  BY DEF Fresh, Matcher
<1> QED BY <1>2, <1>3, <1>4, <1>5 DEF Matchers, Matched, Matcher1

(* A path and what it is made of. *)
HasParts(p, class, data, skip, m1, m2) ==
    p \in PathRec /\ p.class = class /\ p.data = data /\ p.skip = skip /\ p.m1 = m1 /\ p.m2 = m2

\* What the handlers change in a path.
LEMMA PathChanges ==
  ASSUME NEW p \in PathRec, NEW data \in Text, NEW skip \in BOOLEAN, NEW m1 \in Matcher, NEW m2 \in Matcher
  PROVE  /\ HasParts([p EXCEPT !.data = data], p.class, data, p.skip, p.m1, p.m2)
         /\ HasParts([p EXCEPT !.m1 = m1], p.class, p.data, p.skip, m1, p.m2)
         /\ HasParts([p EXCEPT !.skip = skip], p.class, p.data, skip, p.m1, p.m2)
         /\ HasParts([p EXCEPT !.m1 = m1, !.data = data], p.class, data, p.skip, m1, p.m2)
         /\ HasParts([p EXCEPT !.data = data, !.skip = skip], p.class, data, skip, p.m1, p.m2)
         /\ HasParts([p EXCEPT !.data = data, !.m1 = m1, !.m2 = m2], p.class, data, p.skip, m1, m2)
         /\ HasParts([p EXCEPT !.m1 = m1, !.m2 = m2, !.data = data], p.class, data, p.skip, m1, m2)
<1>1. p.class \in Classes /\ p.data \in Text /\ p.skip \in BOOLEAN /\ p.m1 \in Matcher /\ p.m2 \in Matcher
  BY DEF PathRec
<1>2. HasParts([p EXCEPT !.data = data], p.class, data, p.skip, p.m1, p.m2)
  BY DEF PathRec, HasParts
<1>3. HasParts([p EXCEPT !.m1 = m1], p.class, p.data, p.skip, m1, p.m2)
  BY DEF PathRec, HasParts
<1>4. HasParts([p EXCEPT !.skip = skip], p.class, p.data, skip, p.m1, p.m2)
  BY DEF PathRec, HasParts
<1>5. HasParts([p EXCEPT !.m1 = m1, !.data = data], p.class, data, p.skip, m1, p.m2)
  BY DEF PathRec, HasParts
<1>6. HasParts([p EXCEPT !.data = data, !.skip = skip], p.class, data, skip, p.m1, p.m2)
  BY DEF PathRec, HasParts
<1>7. HasParts([p EXCEPT !.data = data, !.m1 = m1, !.m2 = m2], p.class, data, p.skip, m1, m2)
  BY DEF PathRec, HasParts
<1>8. HasParts([p EXCEPT !.m1 = m1, !.m2 = m2, !.data = data], p.class, data, p.skip, m1, m2)
  BY DEF PathRec, HasParts
<1> QED BY <1>2, <1>3, <1>4, <1>5, <1>6, <1>7, <1>8

\* A path of matchers that are on their way.
LEMMA PathOf ==
  ASSUME NEW p, NEW class, NEW data, NEW skip, NEW m1, NEW m2, HasParts(p, class, data, skip, m1, m2),
         m1 \in Matchers(Matcher1(class)), m2 \in Matchers(NestedPatterns),
         class # "linux" => data \in DiskText
  PROVE  p \in DiskPaths(class)
BY DEF HasParts, PathType, DiskPaths

\* The parts of a path.
LEMMA PathParts ==
  ASSUME NEW p \in PathType
  PROVE  /\ p \in PathRec /\ p.class \in Classes /\ p.data \in Text /\ p.skip \in BOOLEAN
         /\ p.m1 \in Matchers(Matcher1(p.class)) /\ p.m2 \in Matchers(NestedPatterns)
BY DEF PathType, PathRec

\* The texts of a disk can be put together and taken apart.
LEMMA DiskTexts ==
  /\ \A a, b \in DiskText : a \o b \in DiskText
  /\ \A a \in DiskText, k \in Nat \ {0} : From(a, k) \in DiskText
  /\ DiskText \subseteq Text /\ <<>> \in DiskText
<1> DEFINE D == {c \in Code : Allowed(c)}
<1>1. D \subseteq Code
  OBVIOUS
<1> HIDE DEF D
<1>2. \A a, b \in Seq(D) : a \o b \in Seq(D)
  OBVIOUS
<1>3. \A a \in Seq(D), k \in Nat \ {0} : From(a, k) \in Seq(D)
  BY DEF From
<1>4. Seq(D) \subseteq Seq(Code) /\ <<>> \in Seq(D)
  <2>1. ASSUME NEW s \in Seq(D) PROVE s \in Seq(Code)
    <3>1. s \in [1 .. Len(s) -> Code] /\ Len(s) \in Nat
      BY <1>1
    <3> QED BY <3>1
  <2> QED BY <2>1
<1> QED BY <1>2, <1>3, <1>4 DEF D, DiskText, Text

\* A character appended to a path of a class makes a path of the class.
LEMMA AppendType ==
  ASSUME NEW class \in Classes, NEW path \in DiskPaths(class), NEW c \in Code
  PROVE  AppendChar(path, c).path \in DiskPaths(class) /\ AppendChar(path, c).ok \in BOOLEAN
<1>1. path \in PathType /\ path.class = class /\ (class # "linux" => path.data \in DiskText)
  BY DEF DiskPaths
<1>2. /\ path \in PathRec /\ path.data \in Text /\ path.skip \in BOOLEAN
      /\ path.m1 \in Matchers(Matcher1(class)) /\ path.m2 \in Matchers(NestedPatterns)
  BY <1>1, PathParts
<1>3. CASE class = "linux"
  <2> DEFINE move == Move(path.m1, c, LinuxPatterns)
             data == CASE move.result = "succeeded" -> <<>>
                       [] move.result = "unknown" /\ c # 0 -> Append(path.data, c)
                       [] OTHER -> path.data
  <2>1. move.m \in Matchers(Matcher1(class)) /\ move.m \in Matcher
    BY <1>2, <1>3, MoveType DEF Matcher1, Matchers
  <2>2. <<>> \in Text /\ Append(path.data, c) \in Text
    BY <1>2, Words, Texts
  <2>3. data \in Text
    BY <1>2, <2>2
  <2>4. AppendChar(path, c) = [path |-> [path EXCEPT !.m1 = move.m, !.data = data], ok |-> move.result # "failed"]
    BY <1>1, <1>3 DEF AppendChar, AppendLinux
  <2> HIDE DEF data, move
  <2>5. HasParts([path EXCEPT !.m1 = move.m, !.data = data], class, data, path.skip, move.m, path.m2)
    BY <1>1, <1>2, <2>1, <2>3, PathChanges, Zenon
  <2>6. [path EXCEPT !.m1 = move.m, !.data = data] \in DiskPaths(class)
    BY <1>2, <1>3, <2>1, <2>5, PathOf
  <2> QED BY <2>4, <2>6
<1>4. CASE class # "linux"
  <2> DEFINE data == path.data \o Encoded(class, c)
             new == [path EXCEPT !.data = data]
  <2>1. data \in DiskText /\ data \in Text
    BY <1>1, <1>4, EncodedType, DiskTexts
  <2>2. AppendWsl(path, c).path = new /\ AppendWsl(path, c).ok = TRUE
    BY <1>1 DEF AppendWsl
  <2> HIDE DEF data
  <2>3. HasParts(new, class, data, path.skip, path.m1, path.m2)
    BY <1>1, <1>2, <2>1, PathChanges, Zenon DEF Matchers
  <2> HIDE DEF new
  <2>4. CASE class # "legacy"
    <3>1. AppendChar(path, c) = AppendWsl(path, c)
      BY <1>1, <1>4, <2>4 DEF AppendChar
    <3>2. new \in DiskPaths(class)
      BY <1>2, <2>1, <2>3, PathOf
    <3> QED BY <2>2, <3>1, <3>2
  <2>5. CASE class = "legacy"
    <3> DEFINE moved == Move(path.m1, c, MovedPatterns)
               nested == Move(path.m2, c, NestedPatterns)
               cut == IF nested.result = "succeeded" THEN From(new.data, 8) ELSE new.data
    <3>1. /\ moved.m \in Matchers(Matcher1(class)) /\ nested.m \in Matchers(NestedPatterns)
          /\ moved.m \in Matcher /\ nested.m \in Matcher
      BY <1>2, <2>5, MoveType DEF Matcher1, Matchers
    <3>2. cut \in DiskText /\ cut \in Text
      <4>1. new.data = data
        BY <2>3 DEF HasParts
      <4> QED BY <2>1, <4>1, DiskTexts
    <3>3. AppendChar(path, c) =
            IF moved.result = "succeeded" THEN [path |-> [new EXCEPT !.m1 = moved.m], ok |-> FALSE]
            ELSE [path |-> [new EXCEPT !.m1 = moved.m, !.m2 = nested.m, !.data = cut], ok |-> TRUE]
      BY <1>1, <2>2, <2>5 DEF AppendChar, AppendLegacy
    <3> HIDE DEF moved, nested, cut
    <3>4. new \in PathRec /\ new.class = class /\ new.data = data /\ new.skip = path.skip /\ new.m2 = path.m2
      BY <2>3 DEF HasParts
    <3>5. HasParts([new EXCEPT !.m1 = moved.m], class, data, path.skip, moved.m, path.m2)
      BY <1>2, <2>1, <3>1, <3>4, PathChanges, Zenon
    <3>6. HasParts([new EXCEPT !.m1 = moved.m, !.m2 = nested.m, !.data = cut], class, cut, path.skip, moved.m, nested.m)
      BY <3>1, <3>2, <3>4, PathChanges, Zenon
    <3>7. [new EXCEPT !.m1 = moved.m] \in DiskPaths(class)
      BY <1>2, <2>1, <3>1, <3>5, PathOf
    <3>8. [new EXCEPT !.m1 = moved.m, !.m2 = nested.m, !.data = cut] \in DiskPaths(class)
      BY <1>2, <3>1, <3>2, <3>6, PathOf
    <3> QED BY <3>3, <3>7, <3>8
  <2> QED BY <2>4, <2>5
<1> QED BY <1>3, <1>4

\* So does a text.
LEMMA AppendAllType ==
  ASSUME NEW class \in Classes, NEW path \in DiskPaths(class), NEW text \in Text
  PROVE  AppendAll(path, text).path \in DiskPaths(class) /\ AppendAll(path, text).ok \in BOOLEAN
<1> DEFINE X == {done \in [path : DiskPaths(class), ok : BOOLEAN] : TRUE}
<1>1. [path |-> path, ok |-> TRUE] \in X
  OBVIOUS
<1>2. ASSUME NEW done \in X, NEW c \in Code
      PROVE  (IF done.ok THEN AppendChar(done.path, c) ELSE done) \in X
  <2>1. done.path \in DiskPaths(class)
    OBVIOUS
  <2>2. AppendChar(done.path, c).path \in DiskPaths(class) /\ AppendChar(done.path, c).ok \in BOOLEAN
    BY <2>1, AppendType
  <2>3. AppendChar(done.path, c) = [path |-> AppendChar(done.path, c).path, ok |-> AppendChar(done.path, c).ok]
    BY DEF AppendChar, AppendLinux, AppendWsl, AppendLegacy
  <2> QED BY <2>2, <2>3
<1>3. \A done \in X, c \in Code : (IF done.ok THEN AppendChar(done.path, c) ELSE done) \in X
  BY <1>2
<1>4. AppendAll(path, text) \in X
  <2> HIDE DEF X
  <2> QED BY <1>1, <1>3, AppendAllKeeps
<1> QED BY <1>4

-----------------------------------------------------------------------------
(* Converting a path *)

\* A new path is one of its class.
LEMMA NewType ==
  ASSUME NEW class \in Classes
  PROVE  New(class) \in DiskPaths(class)
<1>1. Fresh \in Matchers(Matcher1(class)) /\ Fresh \in Matchers(NestedPatterns) /\ Fresh \in Matcher
  BY FreshType DEF Matchers
<1>2. <<>> \in Text /\ <<>> \in DiskText
  BY DiskTexts
<1>3. HasParts(New(class), class, <<>>, FALSE, Fresh, Fresh)
  BY <1>1, <1>2 DEF HasParts, New, PathRec
<1> QED BY <1>1, <1>2, <1>3, PathOf

\* So is one that has been reset.
LEMMA ResetType ==
  ASSUME NEW class \in Classes, NEW to \in DiskPaths(class)
  PROVE  Reset(to) \in DiskPaths(class)
<1>1. to \in PathRec /\ to.class = class /\ to.skip \in BOOLEAN
  BY PathParts DEF DiskPaths
<1>2. Fresh \in Matchers(Matcher1(class)) /\ Fresh \in Matchers(NestedPatterns) /\ Fresh \in Matcher
  BY FreshType DEF Matchers
<1>3. <<>> \in Text /\ <<>> \in DiskText
  BY DiskTexts
<1>4. HasParts(Reset(to), class, <<>>, to.skip, Fresh, Fresh)
  BY <1>1, <1>2, <1>3, PathChanges, Zenon DEF Reset
<1> QED BY <1>2, <1>3, <1>4, PathOf

\* What a path is spelled as is a text.
LEMMA SpelledType ==
  ASSUME NEW from \in PathType
  PROVE  Spelled(from) \in Reading
<1> DEFINE text == Decoded(from.class, from.data)
           under == rootfs \o <<Slash>>
<1>1. from.data \in Text /\ under \in Text
  BY PathParts, Words, Texts
<1>2. text \in Reading
  BY <1>1, DecodedType
<1> HIDE DEF text, under
<1>3. text.chars \in Text
  BY <1>2 DEF Reading
<1>4. under \o text.chars \in Text /\ under \o from.data \in Text
  BY <1>1, <1>3, Texts
<1>5. [chars |-> under \o from.data, throws |-> FALSE] \in Reading
  BY <1>4 DEF Reading
<1>6. [text EXCEPT !.chars = under \o text.chars] \in Reading
  BY <1>2, <1>4 DEF Reading
<1>7. Spelled(from) = CASE from.class = "linux" -> [chars |-> under \o from.data, throws |-> FALSE]
                        [] from.class = "legacy" /\ IsMoved(from.data) -> [text EXCEPT !.chars = under \o text.chars]
                        [] OTHER -> text
  BY DEF Spelled, text, under
<1> QED BY <1>2, <1>5, <1>6, <1>7

\* A path that is converted into is one of its class afterwards.
LEMMA ConvertType ==
  ASSUME NEW class \in Classes, NEW from \in PathType, NEW to \in DiskPaths(class)
  PROVE  /\ Convert(from, to).path \in DiskPaths(class)
         /\ Convert(from, to).outcome \in {"done", "refused", "throws"}
<1>1. CASE IsSkipped(from)
  BY <1>1 DEF Convert
<1>2. CASE ~IsSkipped(from)
  <2> DEFINE text == Spelled(from)
             done == AppendAll(Reset(to), text.chars)
             last == AppendChar(done.path, 0)
  <2>1. text.chars \in Text
    BY SpelledType DEF Reading
  <2> HIDE DEF text
  <2>2. done.path \in DiskPaths(class) /\ done.ok \in BOOLEAN
    BY <2>1, ResetType, AppendAllType
  <2> HIDE DEF done
  <2>3. last.path \in DiskPaths(class) /\ last.ok \in BOOLEAN
    BY <2>2, Signs, AppendType
  <2> HIDE DEF last
  <2>4. Convert(from, to) = IF done.ok /\ ~text.throws THEN Attempt(last, "done") ELSE Attempt(done, "throws")
    BY <1>2 DEF Convert, Feed, Appended, text, done, last
  <2> QED BY <2>2, <2>3, <2>4 DEF Attempt
<1> QED BY <1>1, <1>2

\* The path of an entry is one of Linux.
LEMMA LinuxPathType ==
  ASSUME NEW path \in Text, NEW prefix \in Text
  PROVE  LinuxPath(path, prefix) \in PathType /\ LinuxPath(path, prefix).class = "linux"
<1> DEFINE rest == IF prefix = <<>> THEN path ELSE From(path, Len(Slashed(prefix)) + 1)
           data == Normal(rest)
           n == New("linux")
<1>1. rest \in Text
  <2>1. CASE prefix # <<>>
    <3>1. Slashed(prefix) \in Text
      BY Signs, Texts DEF Slashed
    <3>2. Len(Slashed(prefix)) + 1 \in Nat \ {0}
      BY <3>1 DEF Text
    <3>3. From(path, Len(Slashed(prefix)) + 1) \in Text
      BY <3>2, FromType
    <3> QED BY <2>1, <3>3
  <2> QED BY <2>1
<1>2. data \in Text
  BY <1>1, NormalType
<1>3. n \in PathRec /\ n.class = "linux" /\ n.m1 = Fresh /\ n.m2 = Fresh
  <2>1. "linux" \in Classes
    BY DEF Classes
  <2> QED BY <2>1, NewType, PathParts DEF DiskPaths, New
<1>4. Fresh \in Matchers(Matcher1("linux")) /\ Fresh \in Matchers(NestedPatterns) /\ Fresh \in Matcher
  BY FreshType DEF Matchers, Classes
<1>5. LinuxPath(path, prefix) = [n EXCEPT !.data = data, !.skip = (data = <<>>)]
      \/ LinuxPath(path, prefix) = [n EXCEPT !.skip = TRUE]
  BY DEF LinuxPath
<1> HIDE DEF n, data
<1>6. \A skip \in BOOLEAN :
        /\ HasParts([n EXCEPT !.data = data, !.skip = skip], "linux", data, skip, Fresh, Fresh)
        /\ HasParts([n EXCEPT !.skip = skip], "linux", n.data, skip, Fresh, Fresh)
  BY <1>2, <1>3, <1>4, PathChanges, ZenonT(60)
<1>7. \E skip \in BOOLEAN : \E text : HasParts(LinuxPath(path, prefix), "linux", text, skip, Fresh, Fresh)
  <2>1. (data = <<>>) \in BOOLEAN /\ TRUE \in BOOLEAN
    OBVIOUS
  <2> QED BY <1>5, <1>6, <2>1, ZenonT(60)
<1>8. LinuxPath(path, prefix) \in DiskPaths("linux")
  BY <1>4, <1>7, PathOf
<1> QED BY <1>8 DEF DiskPaths

-----------------------------------------------------------------------------
(* The copy *)

Kinds ==
    /\ bases \in Bases /\ rootPath \in Roots \cup {NoRoot} /\ phase \in {"new", "open", "over"}
    /\ source \in PathType /\ target \in DiskPaths(target.class)
    /\ outcome \in {"none", "done", "refused", "throws"}
    /\ trail \in Seq(AllNames) /\ dir \in BOOLEAN

(* The directories that are open are the beginnings of the path, one below the other. *)
OpenDirectories ==
    /\ sizes \in Seq(Nat) /\ sizes # <<>> /\ Len(sizes) <= Len(trail) + 1
    /\ \A i, j \in 1 .. Len(sizes) : i <= j => sizes[i] <= sizes[j]
    /\ IF source.class = "linux" THEN Len(sizes) = 1 ELSE Last(sizes) <= Len(source.data)

CopyInv == Kinds /\ OpenDirectories

\* The invariant says more than the types.
LEMMA InvTypes == CopyInv => TypeOK
<1> SUFFICES ASSUME CopyInv PROVE TypeOK
  OBVIOUS
<1>1. source \in PathType /\ target \in PathType /\ target \in DiskPaths(target.class)
  BY DEF CopyInv, Kinds, DiskPaths
<1>2. PathOK(source) /\ PathOK(target)
  <2>1. ASSUME NEW p \in PathType PROVE PathOK(p)
    BY PathParts DEF PathOK, Matchers, Matcher1
  <2> QED BY <1>1, <2>1
<1>3. target.class # "linux" => \A i \in DOMAIN target.data : Allowed(target.data[i])
  <2>1. target.class # "linux" => target.data \in DiskText
    BY <1>1 DEF DiskPaths
  <2> QED BY <2>1 DEF DiskText
<1> QED BY <1>2, <1>3 DEF TypeOK, CopyInv, Kinds, OpenDirectories, AllNames

\* It holds at the beginning.
LEMMA InitInv == Init => CopyInv
<1> SUFFICES ASSUME Init PROVE CopyInv
  OBVIOUS
<1>1. PICK c \in Sources : source = New(c) /\ rootPath \in (IF c = "linux" THEN Roots ELSE {NoRoot})
  BY DEF Init
<1>2. PICK d \in Targets : target = New(d)
  BY DEF Init
<1>3. c \in Classes /\ d \in Classes /\ Bases # {}
  BY NamesAssumption
<1>4. source \in PathType /\ target \in DiskPaths(target.class)
  <2>1. New(c) \in DiskPaths(c) /\ New(d) \in DiskPaths(d)
    BY <1>3, NewType
  <2> QED BY <1>1, <1>2, <2>1 DEF DiskPaths
<1>5. bases \in Bases
  <2>1. (CHOOSE b \in Bases : TRUE) \in Bases
    BY <1>3
  <2> QED BY <2>1 DEF Init
<1>6. source.data = <<>>
  BY <1>1 DEF New
<1>7. sizes = <<0>> /\ phase = "new" /\ outcome = "none" /\ trail = <<>> /\ dir = TRUE
  BY DEF Init
<1>8. OpenDirectories
  BY <1>6, <1>7 DEF OpenDirectories, Last
<1>9. Kinds
  BY <1>1, <1>4, <1>5, <1>7 DEF Kinds
<1> QED BY <1>8, <1>9 DEF CopyInv

\* A path converted into the target leaves both paths what they are.
LEMMA IntoType ==
  ASSUME CopyInv, NEW from \in PathType, Into(from)
  PROVE  /\ source' = from /\ target' \in DiskPaths(target'.class) /\ target'.class = target.class
         /\ outcome' \in {"done", "refused", "throws"} /\ phase' \in {phase, "over"}
         /\ bases' \in Bases /\ rootPath' \in Roots \cup {NoRoot}
<1>1. target \in DiskPaths(target.class) /\ target.class \in Classes /\ phase \in {"new", "open", "over"}
  BY PathParts DEF CopyInv, Kinds, DiskPaths
<1> DEFINE converted == Convert(from, target)
<1>2. converted.path \in DiskPaths(target.class) /\ converted.outcome \in {"done", "refused", "throws"}
  BY <1>1, ConvertType
<1> HIDE DEF converted
<1>3. /\ target' = converted.path /\ outcome' = converted.outcome /\ source' = from
      /\ phase' = (IF converted.outcome = "throws" THEN "over" ELSE phase)
      /\ bases' = bases /\ rootPath' = rootPath
  BY DEF Into, Outcome, converted
<1>4. converted.path.class = target.class
  BY <1>2 DEF DiskPaths
<1> QED BY <1>2, <1>3, <1>4 DEF CopyInv, Kinds

\* The next entry of the innermost directory.
LEMMA VisitInv ==
  ASSUME CopyInv, NEW n \in Names \cup Foreign, NEW isDir \in BOOLEAN, Visit(n, isDir)
  PROVE  CopyInv' /\ \E from \in PathType : Into(from) /\ from.class = source.class
<1> DEFINE here == Here(source.data)
           data == here \o On(source.class, n) \o (IF isDir THEN <<Back>> ELSE <<>>)
           from == [source EXCEPT !.data = data]
           k == Len(sizes)
<1>1. /\ source \in PathType /\ source.class # "linux" /\ source.data \in Text
      /\ sizes \in Seq(Nat) /\ sizes # <<>> /\ k <= Len(trail) + 1 /\ Last(sizes) <= Len(source.data)
      /\ \A i, j \in 1 .. Len(sizes) : i <= j => sizes[i] <= sizes[j]
      /\ trail \in Seq(AllNames)
  BY PathParts DEF CopyInv, Kinds, OpenDirectories, Visit
<1>2. k \in Nat /\ k >= 1 /\ Last(sizes) \in Nat
  BY <1>1 DEF Last
<1>3. here \in Text /\ Len(here) = Last(sizes)
  <2>1. here \in Text
    BY <1>1, <1>2, Texts DEF Here
  <2>2. Len(here) = Last(sizes)
    BY <1>1, <1>2 DEF Here, Text
  <2> QED BY <2>1, <2>2
<1>4. n \in AllNames /\ On(source.class, n) \in Text
  BY OnType DEF AllNames
<1>5. data \in Text /\ Last(sizes) <= Len(data)
  <2> DEFINE a == On(source.class, n)
             b == IF isDir THEN <<Back>> ELSE <<>>
  <2>1. a \in Seq(Code) /\ b \in Seq(Code) /\ here \in Seq(Code)
    BY <1>3, <1>4, Words DEF Text
  <2> HIDE DEF a, b, here
  <2>2. here \o a \o b \in Seq(Code) /\ Len(here \o a \o b) = Len(here) + Len(a) + Len(b)
    BY <2>1
  <2>3. Len(a) \in Nat /\ Len(b) \in Nat
    BY <2>1
  <2> QED BY <1>2, <1>3, <2>2, <2>3 DEF a, b, Text
<1>6. from \in PathType /\ from.class = source.class /\ from.data = data
  <2> HIDE DEF data
  <2>1. HasParts(from, source.class, data, source.skip, source.m1, source.m2)
    BY <1>1, <1>5, PathParts, PathChanges, Zenon DEF Matchers
  <2> QED BY <1>1, <2>1, PathParts DEF HasParts, PathType
<1>7. /\ Into(from) /\ sizes' = (IF isDir THEN Append(sizes, Len(data)) ELSE sizes)
      /\ trail' = Append(SubSeq(trail, 1, k - 1), n) /\ dir' = isDir
  BY DEF Visit
<1> HIDE DEF from, data, here
<1>8. /\ source' = from /\ target' \in DiskPaths(target'.class)
      /\ outcome' \in {"none", "done", "refused", "throws"} /\ phase' \in {"new", "open", "over"}
      /\ bases' \in Bases /\ rootPath' \in Roots \cup {NoRoot}
  BY <1>6, <1>7, IntoType DEF CopyInv, Kinds
<1>9. trail' \in Seq(AllNames) /\ Len(trail') = k
  <2>1. SubSeq(trail, 1, k - 1) \in Seq(AllNames) /\ Len(SubSeq(trail, 1, k - 1)) = k - 1
    <3>1. \A S : \A s \in Seq(S), m \in Nat : m <= Len(s) => SubSeq(s, 1, m) \in Seq(S) /\ Len(SubSeq(s, 1, m)) = m
      OBVIOUS
    <3>2. k - 1 \in Nat /\ k - 1 <= Len(trail)
      BY <1>1, <1>2
    <3> HIDE DEF k
    <3> QED BY <1>1, <3>1, <3>2
  <2> QED BY <1>2, <1>4, <1>7, <2>1
<1>10. Len(data) \in Nat
  BY <1>5 DEF Text
<1>11. /\ sizes' \in Seq(Nat) /\ sizes' # <<>> /\ Len(sizes') <= k + 1 /\ Last(sizes') <= Len(data)
       /\ \A i, j \in 1 .. Len(sizes') : i <= j => sizes'[i] <= sizes'[j]
  <2>1. CASE isDir
    <3>1. sizes' = Append(sizes, Len(data))
      BY <1>7, <2>1
    <3>2. /\ sizes' \in Seq(Nat) /\ Len(sizes') = k + 1 /\ sizes'[k + 1] = Len(data)
          /\ \A i \in 1 .. k : sizes'[i] = sizes[i]
      BY <1>1, <1>10, <3>1
    <3>3. \A i \in 1 .. k : sizes[i] \in Nat /\ sizes[i] <= Len(data)
      <4>1. ASSUME NEW i \in 1 .. k PROVE sizes[i] \in Nat /\ sizes[i] <= Len(data)
        <5>1. sizes[i] \in Nat /\ sizes[i] <= sizes[k]
          BY <1>1, <1>2
        <5>2. sizes[k] <= Len(data) /\ sizes[k] \in Nat
          BY <1>2, <1>5 DEF Last
        <5> QED BY <1>10, <5>1, <5>2
      <4> QED BY <4>1
    <3>4. ASSUME NEW i \in 1 .. k + 1, NEW j \in 1 .. k + 1, i <= j PROVE sizes'[i] <= sizes'[j]
      <4>1. CASE j = k + 1 /\ i = k + 1
        BY <1>10, <3>2, <4>1
      <4>2. CASE j = k + 1 /\ i # k + 1
        <5>1. i \in 1 .. k
          BY <1>2, <4>2
        <5> QED BY <3>2, <3>3, <4>2, <5>1
      <4>3. CASE j # k + 1
        <5>1. i \in 1 .. k /\ j \in 1 .. k
          BY <1>2, <3>4, <4>3
        <5> QED BY <1>1, <3>2, <3>4, <5>1
      <4> QED BY <4>1, <4>2, <4>3
    <3>5. sizes' # <<>> /\ Last(sizes') = Len(data)
      BY <1>2, <3>2 DEF Last
    <3> QED BY <1>2, <1>10, <3>2, <3>4, <3>5
  <2>2. CASE ~isDir
    BY <1>1, <1>2, <1>5, <1>7, <2>2
  <2> QED BY <2>1, <2>2
<1>12. OpenDirectories'
  <2>1. source'.class # "linux" /\ source'.data = data
    BY <1>1, <1>6, <1>8
  <2> QED BY <1>9, <1>11, <2>1 DEF OpenDirectories
<1>13. Kinds'
  BY <1>6, <1>7, <1>8, <1>9 DEF Kinds
<1> QED BY <1>6, <1>7, <1>12, <1>13 DEF CopyInv

\* The directory that is left.
LEMMA LeaveInv ==
  ASSUME CopyInv, Leave
  PROVE  CopyInv'
<1> DEFINE k == Len(sizes)
<1>1. /\ sizes \in Seq(Nat) /\ k > 1 /\ k <= Len(trail) + 1 /\ Last(sizes) <= Len(source.data)
      /\ \A i, j \in 1 .. Len(sizes) : i <= j => sizes[i] <= sizes[j]
      /\ source.class # "linux" /\ source \in PathType /\ trail \in Seq(AllNames)
  BY DEF CopyInv, Kinds, OpenDirectories, Leave
<1>2. k \in Nat /\ Len(trail) \in Nat /\ Len(source.data) \in Nat
  BY <1>1, PathParts DEF Text
<1>3. sizes' = SubSeq(sizes, 1, k - 1) /\ UNCHANGED <<bases, rootPath, phase, source, target, outcome, trail, dir>>
  BY DEF Leave, Front
<1>4. sizes' \in Seq(Nat) /\ Len(sizes') = k - 1 /\ \A i \in 1 .. k - 1 : sizes'[i] = sizes[i] /\ i \in 1 .. k
  BY <1>1, <1>2, <1>3, SMTT(60)
<1>5. sizes' # <<>> /\ Len(sizes') <= Len(trail) + 1
  BY <1>1, <1>2, <1>4
<1>6. \A i, j \in 1 .. Len(sizes') : i <= j => sizes'[i] <= sizes'[j]
  BY <1>1, <1>4
<1>7. Last(sizes') <= Len(source.data)
  <2>1. k - 1 \in 1 .. k /\ k \in 1 .. k /\ k - 1 <= k /\ k - 1 \in 1 .. k - 1
    BY <1>1, <1>2
  <2>2. sizes[k - 1] <= sizes[k] /\ sizes[k - 1] \in Nat /\ sizes[k] \in Nat
    BY <1>1, <2>1, SMTT(60)
  <2>3. Last(sizes') = sizes[k - 1]
    BY <1>4, <2>1 DEF Last
  <2>4. sizes[k] <= Len(source.data)
    BY <1>1 DEF Last
  <2> QED BY <1>2, <2>2, <2>3, <2>4
<1>8. OpenDirectories'
  BY <1>1, <1>3, <1>4, <1>5, <1>6, <1>7 DEF OpenDirectories
<1>9. Kinds'
  BY <1>3 DEF CopyInv, Kinds
<1> QED BY <1>8, <1>9 DEF CopyInv

\* rootfs, which the archive does not hold.
LEMMA RootEntryInv ==
  ASSUME CopyInv, RootEntry
  PROVE  CopyInv'
<1>1. New("linux") \in PathType /\ New("linux").class = "linux"
  BY NewType DEF DiskPaths, Classes
<1>2. Into(New("linux")) /\ trail' = <<Rootfs>> /\ sizes' = sizes /\ dir' = dir /\ source.class = "linux"
  BY DEF RootEntry
<1>3. Kinds'
  <2>1. Rootfs \in AllNames
    BY NamesAssumption DEF AllNames
  <2> QED BY <1>1, <1>2, <2>1, IntoType DEF CopyInv, Kinds
<1>4. OpenDirectories'
  <2>1. source'.class = "linux"
    BY <1>1, <1>2, IntoType
  <2>2. sizes \in Seq(Nat) /\ sizes # <<>> /\ Len(sizes) = 1
    BY <1>2 DEF CopyInv, OpenDirectories
  <2>3. \A i, j \in 1 .. Len(sizes) : i <= j => sizes[i] <= sizes[j]
    BY DEF CopyInv, OpenDirectories
  <2>4. Len(trail') = 1
    BY <1>2
  <2> QED BY <1>2, <2>1, <2>2, <2>3, <2>4 DEF OpenDirectories
<1> QED BY <1>3, <1>4 DEF CopyInv

\* The next entry of the archive.
LEMMA EntryInv ==
  ASSUME CopyInv, Entry
  PROVE  CopyInv' /\ \E from \in PathType : Into(from) /\ from.class = "linux"
<1> DEFINE prefix == IF rootPath = NoRoot THEN <<>> ELSE rootPath.linux
<1>1. PICK k \in 1 .. MaxDepth, closed \in BOOLEAN : \E pieces \in [1 .. k -> Pieces] :
         /\ Into(LinuxPath(Joined("linux", pieces, closed), prefix))
         /\ LET below == IF rootPath = NoRoot THEN Meant(pieces, closed)
                         ELSE IF pieces[1] = rootPath /\ (k > 1 \/ closed) THEN Meant(Tail(pieces), closed) ELSE <<>>
            IN  trail' = IF below = <<>> THEN <<>> ELSE <<Rootfs>> \o below
         /\ dir' = (closed \/ pieces[k] = Empty)
  BY DEF Entry
<1>2. PICK pieces \in [1 .. k -> Pieces] :
         /\ Into(LinuxPath(Joined("linux", pieces, closed), prefix))
         /\ LET below == IF rootPath = NoRoot THEN Meant(pieces, closed)
                         ELSE IF pieces[1] = rootPath /\ (k > 1 \/ closed) THEN Meant(Tail(pieces), closed) ELSE <<>>
            IN  trail' = IF below = <<>> THEN <<>> ELSE <<Rootfs>> \o below
         /\ dir' = (closed \/ pieces[k] = Empty)
  BY <1>1
<1>3. k \in Nat /\ k >= 1 /\ pieces \in Seq(Pieces) /\ Len(pieces) = k
  <2>1. k \in Nat /\ k >= 1
    BY NamesAssumption
  <2>2. \A S : \A s \in [1 .. k -> S] : s \in Seq(S) /\ Len(s) = k
    BY <2>1
  <2> QED BY <2>1, <2>2
<1>4. Pieces \subseteq AllNames /\ Rootfs \in AllNames
  BY NamesAssumption DEF AllNames
<1>5. pieces \in Seq(AllNames)
  <2>1. \A i \in 1 .. k : pieces[i] \in AllNames
    BY <1>4
  <2> QED BY <1>3, <2>1
<1> DEFINE from == LinuxPath(Joined("linux", pieces, closed), prefix)
<1>6. from \in PathType /\ from.class = "linux"
  <2>1. prefix \in Text
    <3>1. rootPath # NoRoot => rootPath \in Names
      BY NamesAssumption DEF CopyInv, Kinds
    <3>2. Names \subseteq [linux : Text, v1 : Text, v2 : Text]
      BY NamesAssumption
    <3> QED BY <3>1, <3>2, Words
  <2>2. Joined("linux", pieces, closed) \in Text
    BY <1>5, JoinedType
  <2> HIDE DEF prefix
  <2> QED BY <2>1, <2>2, LinuxPathType
<1> HIDE DEF prefix, from
<1>7. Into(from)
  BY <1>2 DEF from
<1>8. trail' \in Seq(AllNames) /\ dir' \in BOOLEAN
  <2> DEFINE below == IF rootPath = NoRoot THEN Meant(pieces, closed)
                      ELSE IF pieces[1] = rootPath /\ (k > 1 \/ closed) THEN Meant(Tail(pieces), closed) ELSE <<>>
  <2>1. below \in Seq(Pieces)
    <3>1. Tail(pieces) \in Seq(Pieces) /\ <<>> \in Seq(Pieces)
      <4>1. \A S : \A s \in Seq(S) : Len(s) >= 1 => Tail(s) \in Seq(S)
        OBVIOUS
      <4> QED BY <1>3, <4>1
    <3>2. Meant(pieces, closed) \in Seq(Pieces) /\ Meant(Tail(pieces), closed) \in Seq(Pieces)
      BY <1>3, <3>1, MeantType
    <3> QED BY <3>1, <3>2
  <2>2. trail' = (IF below = <<>> THEN <<>> ELSE <<Rootfs>> \o below) /\ dir' = (closed \/ pieces[k] = Empty)
    BY <1>2
  <2> HIDE DEF below
  <2>3. below \in Seq(AllNames) /\ <<Rootfs>> \in Seq(AllNames)
    <3>1. \A S, T : S \subseteq T => \A s \in Seq(S) : s \in Seq(T)
      <4>1. ASSUME NEW S, NEW T, S \subseteq T, NEW s \in Seq(S) PROVE s \in Seq(T)
        <5>1. s \in [1 .. Len(s) -> T] /\ Len(s) \in Nat
          BY <4>1
        <5> QED BY <5>1
      <4> QED BY <4>1
    <3> HIDE DEF AllNames
    <3> QED BY <1>4, <2>1, <3>1
  <2>4. <<Rootfs>> \o below \in Seq(AllNames) /\ <<>> \in Seq(AllNames)
    BY <2>3
  <2> QED BY <2>2, <2>4
<1>9. Kinds'
  <2>1. phase = "open"
    BY DEF Entry
  <2> QED BY <1>6, <1>7, <1>8, <2>1, IntoType DEF Kinds
<1>10. OpenDirectories'
  <2>1. source'.class = "linux"
    BY <1>6, <1>7, IntoType
  <2>2. sizes \in Seq(Nat) /\ sizes # <<>> /\ Len(sizes) = 1 /\ sizes' = sizes
    BY DEF CopyInv, OpenDirectories, Entry
  <2>3. \A i, j \in 1 .. Len(sizes) : i <= j => sizes[i] <= sizes[j]
    BY DEF CopyInv, OpenDirectories
  <2>4. Len(sizes) <= Len(trail') + 1
    <3>1. Len(trail') \in Nat
      BY <1>8
    <3> QED BY <2>2, <3>1
  <2> QED BY <2>1, <2>2, <2>3, <2>4 DEF OpenDirectories
<1> QED BY <1>6, <1>7, <1>9, <1>10 DEF CopyInv

\* Every step keeps the invariant.
LEMMA StepInv == CopyInv /\ [Next]_vars => CopyInv'
<1> SUFFICES ASSUME CopyInv, [Next]_vars PROVE CopyInv'
  OBVIOUS
<1>1. CASE Begin
  BY <1>1 DEF Begin, CopyInv, Kinds, OpenDirectories
<1>2. CASE Leave
  BY <1>2, LeaveInv
<1>3. CASE RootEntry
  BY <1>3, RootEntryInv
<1>4. CASE Entry
  BY <1>4, EntryInv
<1>5. CASE Finish
  BY <1>5 DEF Finish, CopyInv, Kinds, OpenDirectories
<1>6. CASE Finished \/ UNCHANGED vars
  BY <1>6 DEF Finished, vars, CopyInv, Kinds, OpenDirectories
<1>7. ASSUME NEW n \in Names \cup Foreign, NEW isDir \in BOOLEAN, Visit(n, isDir) PROVE CopyInv'
  BY <1>7, VisitInv
<1> QED BY <1>1, <1>2, <1>3, <1>4, <1>5, <1>6, <1>7 DEF Next

\* Every variable keeps its kind, and every path for a disk holds only characters that
\* Windows allows, whatever the names and however long the paths: what append writes of
\* any character, what real_convert reads of any path on a disk (stoi on any four
\* characters stays within 16 bits), the cut of the legacy version and linux_path.
THEOREM PathTypes == Spec => []TypeOK
<1>1. Init => CopyInv
  BY InitInv
<1>2. CopyInv /\ [Next]_vars => CopyInv'
  BY StepInv
<1>3. CopyInv => TypeOK
  BY InvTypes
<1> QED BY <1>1, <1>2, <1>3, PTL DEF Spec

-----------------------------------------------------------------------------
(* Directories *)

\* A text is the beginning of another one if their characters agree as far as it goes.
LEMMA PrefixIs ==
  ASSUME NEW a \in Text, NEW b \in Text
  PROVE  IsPrefix(a, b) <=> Len(a) <= Len(b) /\ \A i \in 1 .. Len(a) : a[i] = b[i]
<1>1. Len(a) \in Nat /\ Len(b) \in Nat /\ a \in Seq(Code) /\ b \in Seq(Code)
  BY DEF Text
<1>2. CASE Len(a) <= Len(b)
  <2>1. /\ DOMAIN SubSeq(a, 1, Len(a)) = 1 .. Len(a) /\ DOMAIN SubSeq(b, 1, Len(a)) = 1 .. Len(a)
        /\ SubSeq(a, 1, Len(a)) \in Seq(Code) /\ SubSeq(b, 1, Len(a)) \in Seq(Code)
        /\ Len(SubSeq(a, 1, Len(a))) = Len(a) /\ Len(SubSeq(b, 1, Len(a))) = Len(a)
        /\ \A i \in 1 .. Len(a) : SubSeq(a, 1, Len(a))[i] = a[i] /\ SubSeq(b, 1, Len(a))[i] = b[i]
    BY <1>1, <1>2
  <2>2. \A S : \A s, t \in Seq(S) : Len(s) = Len(t) /\ (\A i \in 1 .. Len(s) : s[i] = t[i]) => s = t
    OBVIOUS
  <2> QED BY <1>2, <2>1, <2>2 DEF IsPrefix
<1>3. CASE ~(Len(a) <= Len(b))
  BY <1>3 DEF IsPrefix
<1> QED BY <1>2, <1>3

\* The beginning of a beginning is one.
LEMMA PrefixTrans ==
  ASSUME NEW a \in Text, NEW b \in Text, NEW c \in Text, IsPrefix(a, b), IsPrefix(b, c)
  PROVE  IsPrefix(a, c)
<1>1. Len(a) \in Nat /\ Len(b) \in Nat /\ Len(c) \in Nat
  BY DEF Text
<1>2. Len(a) <= Len(b) /\ \A i \in 1 .. Len(a) : a[i] = b[i]
  BY PrefixIs
<1>3. Len(b) <= Len(c) /\ \A i \in 1 .. Len(b) : b[i] = c[i]
  BY PrefixIs
<1>4. \A i \in 1 .. Len(a) : i \in 1 .. Len(b)
  BY <1>1, <1>2
<1> QED BY <1>1, <1>2, <1>3, <1>4, PrefixIs

\* What is appended to a text leaves its beginning.
LEMMA AppendedIs ==
  ASSUME NEW a \in Text, NEW b \in Text
  PROVE  /\ a \o b \in Text /\ Len(a \o b) = Len(a) + Len(b)
         /\ \A i \in 1 .. Len(a) : (a \o b)[i] = a[i]
         /\ \A i \in 1 .. Len(b) : (a \o b)[Len(a) + i] = b[i]
         /\ IsPrefix(a, a \o b)
<1>1. /\ a \o b \in Text /\ Len(a \o b) = Len(a) + Len(b)
      /\ \A i \in 1 .. Len(a) : (a \o b)[i] = a[i]
      /\ \A i \in 1 .. Len(b) : (a \o b)[Len(a) + i] = b[i]
  BY DEF Text
<1>2. Len(a) \in Nat /\ Len(b) \in Nat
  BY DEF Text
<1>3. IsPrefix(a, a \o b)
  <2>1. PICK c \in Text : c = a \o b
    BY <1>1
  <2>2. Len(a) <= Len(c) /\ \A i \in 1 .. Len(a) : a[i] = c[i]
    BY <1>1, <1>2, <2>1
  <2> QED BY <2>1, <2>2, PrefixIs
<1> QED BY <1>1, <1>3

(* The names of a directory, each with a backslash behind it, from the first on. *)
IsLong(f, parts) ==
    /\ f \in [0 .. Len(parts) -> Text] /\ f[0] = <<>> /\ f[Len(parts)] = Long(parts)
    /\ \A k \in 1 .. Len(parts) : f[k] = f[k - 1] \o Append(parts[k], Back)

Parts == {p \in Seq(Text) : \A i \in 1 .. Len(p) : \A k \in 1 .. Len(p[i]) : p[i][k] # Back}

LEMMA LongSteps ==
  ASSUME NEW parts \in Parts
  PROVE  \E f : IsLong(f, parts)
<1> DEFINE texts == [i \in DOMAIN parts |-> Append(parts[i], Back)]
           n == Len(parts)
<1>1. parts \in Seq(Text) /\ n \in Nat /\ DOMAIN parts = 1 .. n
  BY DEF Parts
<1>2. \A i \in 1 .. n : Append(parts[i], Back) \in Text
  BY <1>1, Texts, Signs
<1>3. texts \in Seq(Text) /\ Len(texts) = n
  <2>1. texts \in [1 .. n -> Text]
    BY <1>1, <1>2
  <2>2. \A S : \A s \in [1 .. n -> S] : s \in Seq(S) /\ Len(s) = n
    BY <1>1
  <2> HIDE DEF texts, n
  <2> QED BY <2>1, <2>2
<1>4. \A i \in 1 .. n : texts[i] = Append(parts[i], Back)
  BY <1>1
<1>5. Long(parts) = FlattenSeq(texts)
  BY Zenon DEF Long
<1> HIDE DEF texts, n
<1>6. PICK f \in [0 .. n -> Text] :
        /\ f[0] = <<>> /\ f[n] = FlattenSeq(texts)
        /\ \A k \in 1 .. n : f[k] = f[k - 1] \o texts[k]
  BY <1>3, FlattenSteps
<1> QED BY <1>4, <1>5, <1>6 DEF IsLong, n

\* They are beginnings of one another.
LEMMA LongGrows ==
  ASSUME NEW parts \in Parts, NEW f, IsLong(f, parts), NEW j \in 0 .. Len(parts)
  PROVE  \A k \in j .. Len(parts) : IsPrefix(f[j], f[k])
<1> DEFINE n == Len(parts)
           S == {k \in Nat : j <= k /\ k <= n => IsPrefix(f[j], f[k])}
<1>1. n \in Nat /\ j \in Nat /\ j <= n
  BY DEF Parts
<1>2. \A k \in 0 .. n : f[k] \in Text
  BY DEF IsLong
<1>3. \A t \in Text : IsPrefix(t, t)
  <2>1. ASSUME NEW t \in Text PROVE IsPrefix(t, t)
    <3>1. Len(t) \in Nat
      BY DEF Text
    <3> QED BY <3>1, PrefixIs
  <2> QED BY <2>1
<1>4. 0 \in S
  <2>1. j <= 0 => j = 0
    BY <1>1
  <2> QED BY <1>1, <1>2, <1>3, <2>1
<1>5. ASSUME NEW k \in S PROVE k + 1 \in S
  <2>1. CASE j = k + 1
    BY <1>2, <1>3, <2>1
  <2>2. CASE j <= k /\ k + 1 <= n
    <3>1. k + 1 \in 1 .. n /\ k \in 0 .. n /\ k <= n
      BY <1>1, <2>2
    <3>2. f[k + 1] = f[k] \o Append(parts[k + 1], Back)
      <4>1. (k + 1) - 1 = k
        BY <3>1
      <4> QED BY <3>1, <4>1 DEF IsLong
    <3>3. Append(parts[k + 1], Back) \in Text
      BY <3>1, Texts, Signs DEF Parts
    <3>4. IsPrefix(f[k], f[k + 1]) /\ f[k + 1] \in Text /\ f[k] \in Text /\ f[j] \in Text
      BY <1>1, <1>2, <3>1, <3>2, <3>3, AppendedIs
    <3>5. IsPrefix(f[j], f[k])
      BY <2>2, <3>1
    <3>6. IsPrefix(f[j], f[k + 1])
      BY <3>4, <3>5, PrefixTrans
    <3> QED BY <3>6
  <2>3. CASE ~(j <= k + 1 /\ k + 1 <= n)
    BY <2>3
  <2> QED BY <1>1, <2>1, <2>2, <2>3
<1>6. S = Nat
  <2>1. S \in SUBSET Nat
    OBVIOUS
  <2> HIDE DEF S
  <2> QED BY <1>4, <1>5, <2>1, Upwards
<1>7. \A k \in j .. n : k \in Nat /\ j <= k /\ k <= n
  BY <1>1
<1> QED BY <1>6, <1>7

\* A text that begins with a name and a character that ends names begins with no other name.
LEMMA SameName ==
  ASSUME NEW z \in Code, NEW base \in Text, NEW a \in Text, NEW b \in Text, NEW text \in Text,
         \A i \in 1 .. Len(a) : a[i] # z, \A i \in 1 .. Len(b) : b[i] # z,
         IsPrefix(base \o Append(a, z), text), IsPrefix(base \o Append(b, z), text)
  PROVE  a = b
<1> DEFINE n == Len(base)
<1>1. n \in Nat /\ Len(a) \in Nat /\ Len(b) \in Nat
  BY DEF Text
<1>2. ASSUME NEW x \in Text, IsPrefix(base \o Append(x, z), text)
      PROVE  (\A i \in 1 .. Len(x) : text[n + i] = x[i]) /\ text[n + Len(x) + 1] = z
  <2> DEFINE y == Append(x, z)
  <2>1. y \in Text /\ Len(y) = Len(x) + 1 /\ y[Len(x) + 1] = z /\ \A i \in 1 .. Len(x) : y[i] = x[i]
    BY DEF Text
  <2> HIDE DEF y
  <2>2. base \o y \in Text /\ Len(base \o y) = n + Len(y) /\ \A i \in 1 .. Len(y) : (base \o y)[n + i] = y[i]
    BY <2>1, AppendedIs, ZenonT(60)
  <2>3. \A i \in 1 .. Len(base \o y) : (base \o y)[i] = text[i]
    BY <1>2, <2>2, PrefixIs DEF y
  <2>4. Len(x) \in Nat
    BY DEF Text
  <2>5. ASSUME NEW i \in 1 .. Len(x) + 1 PROVE text[n + i] = y[i]
    <3>1. n + i \in 1 .. Len(base \o y) /\ i \in 1 .. Len(y)
      BY <1>1, <2>1, <2>2, <2>4
    <3> QED BY <2>2, <2>3, <3>1
  <2>6. \A i \in 1 .. Len(x) : i \in 1 .. Len(x) + 1
    BY <2>4
  <2>7. Len(x) + 1 \in 1 .. Len(x) + 1 /\ n + (Len(x) + 1) = n + Len(x) + 1
    BY <1>1, <2>4
  <2> QED BY <2>1, <2>5, <2>6, <2>7
<1>3. ASSUME NEW x \in Text, NEW y \in Text, \A i \in 1 .. Len(y) : y[i] # z,
             \A i \in 1 .. Len(y) : text[n + i] = y[i], text[n + Len(x) + 1] = z
      PROVE  ~(Len(x) < Len(y))
  <2>1. SUFFICES ASSUME Len(x) < Len(y) PROVE FALSE
    OBVIOUS
  <2>2. Len(x) + 1 \in 1 .. Len(y) /\ n + (Len(x) + 1) = n + Len(x) + 1
    BY <1>1, <2>1 DEF Text
  <2> QED BY <1>3, <2>2
<1>4. Len(a) = Len(b)
  <2>1. ~(Len(a) < Len(b)) /\ ~(Len(b) < Len(a))
    <3>1. (\A i \in 1 .. Len(a) : text[n + i] = a[i]) /\ text[n + Len(a) + 1] = z
      BY <1>2
    <3>2. (\A i \in 1 .. Len(b) : text[n + i] = b[i]) /\ text[n + Len(b) + 1] = z
      BY <1>2
    <3> HIDE DEF n
    <3> QED BY <1>3, <3>1, <3>2
  <2> QED BY <1>1, <2>1
<1>5. \A i \in 1 .. Len(a) : a[i] = b[i]
  BY <1>2, <1>4
<1> QED BY <1>4, <1>5 DEF Text

\* The names of one directory are the beginning of those of another if and only if its
\* text is: a backslash ends every name and is in none.
LEMMA LongPrefix ==
  ASSUME NEW p \in Parts, NEW q \in Parts
  PROVE  IsPrefix(Long(p), Long(q)) <=> IsPrefix(p, q)
<1> DEFINE m == Len(p)
           n == Len(q)
<1>1. m \in Nat /\ n \in Nat /\ p \in Seq(Text) /\ q \in Seq(Text)
  BY DEF Parts
<1>2. /\ \A k \in 1 .. m : p[k] \in Text /\ \A i \in 1 .. Len(p[k]) : p[k][i] # Back
      /\ \A k \in 1 .. n : q[k] \in Text /\ \A i \in 1 .. Len(q[k]) : q[k][i] # Back
  BY <1>1 DEF Parts
<1>3. PICK f : IsLong(f, p)
  BY LongSteps
<1>4. PICK g : IsLong(g, q)
  BY LongSteps
<1> DEFINE Agree(k) == k <= n /\ f[k] = g[k] /\ \A i \in 1 .. k : p[i] = q[i]
<1>5. (\A k \in 0 .. m : f[k] \in Text) /\ (\A k \in 0 .. n : g[k] \in Text)
      /\ f[0] = <<>> /\ g[0] = <<>> /\ f[m] = Long(p) /\ g[n] = Long(q)
      /\ (\A k \in 1 .. m : f[k] = f[k - 1] \o Append(p[k], Back))
      /\ (\A k \in 1 .. n : g[k] = g[k - 1] \o Append(q[k], Back))
  BY <1>3, <1>4 DEF IsLong
<1>6. IsPrefix(p, q) <=> m <= n /\ \A i \in 1 .. m : p[i] = q[i]
  <2>1. ASSUME IsPrefix(p, q) PROVE m <= n /\ \A i \in 1 .. m : p[i] = q[i]
    <3>1. m <= n /\ SubSeq(p, 1, m) = SubSeq(q, 1, m)
      BY <2>1 DEF IsPrefix
    <3>2. \A i \in 1 .. m : SubSeq(p, 1, m)[i] = p[i] /\ SubSeq(q, 1, m)[i] = q[i]
      BY <1>1, <3>1
    <3> QED BY <3>1, <3>2
  <2>2. ASSUME m <= n, \A i \in 1 .. m : p[i] = q[i] PROVE IsPrefix(p, q)
    <3>1. SubSeq(p, 1, m) = [i \in 1 .. m |-> p[i]] /\ SubSeq(q, 1, m) = [i \in 1 .. m |-> q[i]]
      BY <1>1, <2>2
    <3>2. SubSeq(p, 1, m) = SubSeq(q, 1, m)
      BY <2>2, <3>1
    <3> QED BY <2>2, <3>2 DEF IsPrefix
  <2> QED BY <2>1, <2>2
<1>7. ASSUME IsPrefix(Long(p), Long(q)) PROVE IsPrefix(p, q)
  <2> DEFINE S == {k \in Nat : k <= m => Agree(k)}
  <2>1. 0 \in S
    BY <1>1, <1>5
  <2>2. ASSUME NEW k \in S PROVE k + 1 \in S
    <3>1. SUFFICES ASSUME k + 1 <= m PROVE Agree(k + 1)
      BY <2>2
    <3>2. k \in Nat /\ k <= m /\ Agree(k) /\ k + 1 \in 1 .. m /\ k \in 0 .. m /\ k + 1 \in 0 .. m /\ (k + 1) - 1 = k
      BY <1>1, <2>2, <3>1
    <3>3. f[k + 1] = f[k] \o Append(p[k + 1], Back) /\ p[k + 1] \in Text /\ f[k] \in Text /\ f[k + 1] \in Text
      BY <1>2, <1>5, <3>2
    <3>4. IsPrefix(f[k + 1], g[n])
      <4>1. IsPrefix(f[k + 1], f[m])
        <5>1. m \in k + 1 .. Len(p)
          BY <1>1, <3>1, <3>2
        <5> QED BY <1>3, <3>2, <5>1, LongGrows
      <4>2. IsPrefix(f[m], g[n]) /\ f[m] \in Text /\ g[n] \in Text
        <5>1. m \in 0 .. m /\ n \in 0 .. n
          BY <1>1
        <5> QED BY <1>5, <1>7, <5>1
      <4> QED BY <3>3, <4>1, <4>2, PrefixTrans
    <3>5. Append(p[k + 1], Back) \in Text /\ Len(Append(p[k + 1], Back)) = Len(p[k + 1]) + 1 /\ Len(p[k + 1]) \in Nat
      BY <3>3, Signs DEF Text
    <3>6. Len(f[k + 1]) > Len(f[k])
      <4>1. Len(f[k + 1]) = Len(f[k]) + Len(Append(p[k + 1], Back)) /\ Len(f[k]) \in Nat
        BY <3>3, <3>5, AppendedIs DEF Text
      <4>2. \A x, y, z, w : y \in Nat /\ w \in Nat /\ x = y + z /\ z = w + 1 => x > y
        OBVIOUS
      <4> QED BY <3>5, <4>1, <4>2, Zenon
    <3>7. k # n
      <4>1. Len(f[k + 1]) <= Len(g[n])
        BY <3>4 DEF IsPrefix
      <4>2. Len(f[k]) \in Nat /\ Len(f[k + 1]) \in Nat
        <5>1. \A t \in Text : Len(t) \in Nat
          BY DEF Text
        <5> QED BY <3>3, <5>1
      <4> QED BY <3>2, <3>6, <4>1, <4>2
    <3>8. k + 1 \in 1 .. n /\ k + 1 \in 0 .. n /\ n \in k + 1 .. Len(q)
      BY <1>1, <3>2, <3>7
    <3>9. g[k + 1] = g[k] \o Append(q[k + 1], Back) /\ q[k + 1] \in Text /\ g[n] \in Text
      <4>1. n \in 0 .. n
        BY <1>1
      <4> QED BY <1>2, <1>5, <3>2, <3>8, <4>1
    <3>10. IsPrefix(g[k + 1], g[n])
      BY <1>4, <3>8, LongGrows
    <3>11. p[k + 1] = q[k + 1]
      <4>1. IsPrefix(f[k] \o Append(p[k + 1], Back), g[n]) /\ IsPrefix(f[k] \o Append(q[k + 1], Back), g[n])
        BY <3>2, <3>3, <3>4, <3>9, <3>10
      <4>2. (\A i \in 1 .. Len(p[k + 1]) : p[k + 1][i] # Back) /\ (\A i \in 1 .. Len(q[k + 1]) : q[k + 1][i] # Back)
        BY <1>2, <3>2, <3>8
      <4> QED BY <3>3, <3>9, <4>1, <4>2, SameName, Signs, SMTT(60)
    <3>12. f[k + 1] = g[k + 1] /\ k + 1 <= n
      BY <3>2, <3>3, <3>8, <3>9, <3>11
    <3>13. \A i \in 1 .. k + 1 : i = k + 1 \/ i \in 1 .. k
      BY <3>2
    <3> QED BY <3>2, <3>11, <3>12, <3>13
  <2>3. S = Nat
    <3>1. S \in SUBSET Nat
      OBVIOUS
    <3> HIDE DEF S
    <3> QED BY <2>1, <2>2, <3>1, Upwards
  <2>4. Agree(m)
    BY <1>1, <2>3
  <2> QED BY <1>6, <2>4
<1>8. ASSUME IsPrefix(p, q) PROVE IsPrefix(Long(p), Long(q))
  <2> DEFINE S == {k \in Nat : k <= m => f[k] = g[k]}
  <2>1. 0 \in S
    BY <1>5
  <2>2. ASSUME NEW k \in S PROVE k + 1 \in S
    <3>1. SUFFICES ASSUME k + 1 <= m PROVE f[k + 1] = g[k + 1]
      BY <2>2
    <3>2. k + 1 \in 1 .. m /\ k + 1 \in 1 .. n /\ (k + 1) - 1 = k /\ f[k] = g[k]
      BY <1>1, <1>6, <1>8, <2>2, <3>1
    <3>3. f[k + 1] = f[k] \o Append(p[k + 1], Back) /\ g[k + 1] = g[k] \o Append(q[k + 1], Back)
      BY <1>5, <3>2
    <3> QED BY <1>6, <1>8, <3>2, <3>3
  <2>3. S = Nat
    <3>1. S \in SUBSET Nat
      OBVIOUS
    <3> HIDE DEF S
    <3> QED BY <2>1, <2>2, <3>1, Upwards
  <2>4. f[m] = g[m] /\ n \in m .. Len(q) /\ m \in 0 .. Len(q)
    BY <1>1, <1>6, <1>8, <2>3
  <2>5. IsPrefix(g[m], g[n])
    BY <1>4, <2>4, LongGrows
  <2> QED BY <1>5, <2>4, <2>5
<1> QED BY <1>7, <1>8

\* The text of a directory: a drive first, then its names, and a backslash behind a name last.
LEMMA LongIs ==
  ASSUME NEW d, IsDirectory(d)
  PROVE  /\ d.parts \in Parts /\ Long(d.parts) \in Text /\ Len(Long(d.parts)) >= 3
         /\ Long(d.parts)[1] \in Letters /\ Long(d.parts)[2] = Colon /\ Long(d.parts)[3] = Back
         /\ Len(Long(d.parts)) = 3 <=> Len(d.parts) = 1
         /\ \E t \in Text : t # <<>> /\ Last(t) # Back /\ Long(d.parts) = Append(t, Back)
<1> DEFINE parts == d.parts
           n == Len(parts)
           text == Long(parts)
<1>1. parts \in Parts /\ n \in Nat /\ n >= 1
  BY DEF IsDirectory, Parts
<1>2. PICK letter \in Letters : parts[1] = <<letter, Colon>>
  BY DEF IsDirectory
<1>3. PICK f : IsLong(f, parts)
  BY <1>1, LongSteps
<1>4. (\A k \in 0 .. n : f[k] \in Text) /\ f[0] = <<>> /\ f[n] = text
      /\ (\A k \in 1 .. n : f[k] = f[k - 1] \o Append(parts[k], Back))
  BY <1>3 DEF IsLong
<1>5. \A k \in 1 .. n : parts[k] \in Text /\ parts[k] # <<>> /\ \A i \in 1 .. Len(parts[k]) : parts[k][i] # Back
  BY <1>1 DEF IsDirectory, Parts
<1> HIDE DEF parts, n, text
<1>6. \A t \in Text : Len(t) \in Nat /\ (t # <<>> => Len(t) >= 1)
  BY DEF Text
<1>7. 1 \in 1 .. n /\ 1 \in 0 .. n /\ n \in 1 .. n /\ n \in 0 .. n /\ n - 1 \in 0 .. n
  BY <1>1
<1>8. Len(f[1]) = 3 /\ f[1][1] = letter /\ f[1][2] = Colon /\ f[1][3] = Back
  <2>1. f[1] = <<>> \o Append(parts[1], Back)
    <3>1. 1 - 1 = 0
      OBVIOUS
    <3> QED BY <1>4, <1>7, <3>1
  <2>2. parts[1] \in Seq(Code) /\ Len(parts[1]) = 2 /\ parts[1][1] = letter /\ parts[1][2] = Colon
    <3>1. parts[1] \in Seq(Code)
      BY <1>5, <1>7 DEF Text
    <3>2. Len(parts[1]) = 2 /\ parts[1][1] = letter /\ parts[1][2] = Colon
      BY <1>2
    <3> QED BY <3>1, <3>2
  <2>3. ASSUME NEW s \in Seq(Code), NEW c \in Code, Len(s) = 2
        PROVE  /\ Append(s, c) \in Seq(Code) /\ Len(Append(s, c)) = 3
               /\ Append(s, c)[1] = s[1] /\ Append(s, c)[2] = s[2] /\ Append(s, c)[3] = c
    <3>1. 1 \in 1 .. Len(s) /\ 2 \in 1 .. Len(s) /\ Len(s) + 1 = 3
      BY <2>3
    <3>2. /\ Append(s, c) \in Seq(Code) /\ Len(Append(s, c)) = Len(s) + 1 /\ Append(s, c)[Len(s) + 1] = c
          /\ \A i \in 1 .. Len(s) : Append(s, c)[i] = s[i]
      OBVIOUS
    <3> QED BY <3>1, <3>2
  <2>4. \A s \in Seq(Code) : <<>> \o s = s
    OBVIOUS
  <2> QED BY <2>1, <2>2, <2>3, <2>4, Signs
<1>9. text \in Text /\ f[1] \in Text /\ f[n - 1] \in Text
  BY <1>4, <1>7
<1>10. Len(text) >= 3 /\ text[1] = letter /\ text[2] = Colon /\ text[3] = Back
  <2>1. IsPrefix(f[1], text)
    <3>1. n \in 1 .. Len(parts) /\ 1 \in 0 .. Len(parts)
      BY <1>7 DEF n
    <3>2. IsPrefix(f[1], f[n])
      BY <1>1, <1>3, <3>1, LongGrows
    <3> QED BY <1>4, <3>2
  <2>2. 3 <= Len(text) /\ \A i \in 1 .. 3 : f[1][i] = text[i]
    BY <1>8, <1>9, <2>1, PrefixIs
  <2>3. 1 \in 1 .. 3 /\ 2 \in 1 .. 3 /\ 3 \in 1 .. 3 /\ Len(text) \in Nat
    BY <1>6, <1>9
  <2> QED BY <1>8, <2>2, <2>3
<1> DEFINE last == parts[n]
           t == f[n - 1] \o last
<1>11. last \in Text /\ Len(last) \in Nat /\ Len(last) >= 1 /\ \A i \in 1 .. Len(last) : last[i] # Back
  BY <1>5, <1>6, <1>7
<1>12. text = f[n - 1] \o Append(last, Back)
  BY <1>4, <1>7
<1> HIDE DEF last
<1>13. t \in Text /\ Len(t) = Len(f[n - 1]) + Len(last) /\ t[Len(f[n - 1]) + Len(last)] = last[Len(last)]
  <2>1. Len(last) \in 1 .. Len(last)
    BY <1>11
  <2> QED BY <1>9, <1>11, <2>1, AppendedIs
<1>14. text = Append(t, Back) /\ Len(text) = Len(t) + 1
  <2>1. \A a, b \in Seq(Code) : \A c \in Code : a \o Append(b, c) = Append(a \o b, c) /\ Len(Append(a \o b, c)) = Len(a \o b) + 1
    OBVIOUS
  <2>2. f[n - 1] \in Seq(Code) /\ last \in Seq(Code) /\ Back \in Code
    BY <1>9, <1>11, Signs DEF Text
  <2> QED BY <1>12, <2>1, <2>2, ZenonT(60)
<1>15. t # <<>> /\ Last(t) # Back
  <2>1. Len(last) \in 1 .. Len(last) /\ Len(f[n - 1]) \in Nat
    BY <1>6, <1>9, <1>11
  <2>2. Len(t) >= 1
    BY <1>11, <1>13, <2>1
  <2>3. t # <<>>
    BY <2>2
  <2> QED BY <1>11, <1>13, <2>1, <2>3 DEF Last
<1>16. Len(text) = 3 <=> n = 1
  <2>1. n = 1 => Len(text) = 3
    BY <1>4, <1>8
  <2>2. n # 1 => Len(text) # 3
    <3>1. SUFFICES ASSUME n # 1 PROVE Len(text) # 3
      OBVIOUS
    <3>2. n - 1 \in 1 .. Len(parts) /\ 1 \in 0 .. Len(parts)
      <4>1. n - 1 \in 1 .. n /\ 1 \in 0 .. n
        BY <1>1, <3>1
      <4> QED BY <4>1 DEF n
    <3>3. IsPrefix(f[1], f[n - 1])
      BY <1>1, <1>3, <3>2, LongGrows
    <3>4. Len(f[n - 1]) >= 3 /\ Len(f[n - 1]) \in Nat
      BY <1>6, <1>8, <1>9, <3>3 DEF IsPrefix
    <3> HIDE DEF t
    <3> QED BY <1>11, <1>13, <1>14, <3>4
  <2> QED BY <2>1, <2>2
<1>17. \E x \in Text : x # <<>> /\ Last(x) # Back /\ text = Append(x, Back)
  BY <1>13, <1>14, <1>15
<1> QED BY <1>1, <1>2, <1>9, <1>10, <1>16, <1>17 DEF parts, n, text

\* However the user spells a directory, it is the same after normalize_path.
LEMMA NormalizeIs ==
  ASSUME NEW d, IsDirectory(d)
  PROVE  Normalize(d.text) = Verbatim \o Long(d.parts)
<1> DEFINE text == Long(d.parts)
<1>1. text \in Text /\ Len(text) >= 3 /\ text[1] \in Letters
  BY LongIs
<1>2. PICK t \in Text : t # <<>> /\ Last(t) # Back /\ text = Append(t, Back)
  BY LongIs
<1>3. d.text \in Spellings(d.parts)
  BY DEF IsDirectory
<1> HIDE DEF text
<1>4. Front(text) = t
  BY <1>2 DEF Front, Text
<1>5. PICK a \in {<<>>, Verbatim}, x \in {text, t} : d.text = a \o x
  BY <1>3, <1>4, SMTT(60) DEF Spellings, text
<1>6. Verbatim \in Text /\ Len(Verbatim) = 4 /\ Verbatim[1] = Back
  <2>1. 63 \in Code /\ Back \in Code
    BY InCode, Signs
  <2> QED BY <2>1 DEF Verbatim, Text
<1>7. x \in Text /\ x # <<>> /\ x[1] \in Letters
  <2>1. x = text => x # <<>>
    BY <1>1
  <2>2. text[1] = t[1]
    BY <1>2 DEF Text
  <2> QED BY <1>1, <1>2, <1>5, <2>1, <2>2
<1> DEFINE o == IF IsPrefix(Verbatim, d.text) THEN d.text ELSE Verbatim \o d.text
<1>8. o = Verbatim \o x
  <2>1. CASE a = Verbatim
    <3>1. IsPrefix(Verbatim, Verbatim \o x)
      BY <1>6, <1>7, AppendedIs
    <3> QED BY <1>5, <2>1, <3>1
  <2>2. CASE a = <<>>
    <3>1. d.text = x
      BY <1>5, <1>7, <2>2 DEF Text
    <3>2. ~IsPrefix(Verbatim, x)
      <4>1. Back \notin Letters
        BY DEF Back, Letters
      <4>2. 1 \in 1 .. 4
        OBVIOUS
      <4>3. IsPrefix(Verbatim, x) => Verbatim[1] = x[1]
        BY <1>6, <1>7, <4>2, PrefixIs
      <4> QED BY <1>6, <1>7, <4>1, <4>3
    <3> QED BY <3>1, <3>2
  <2> QED BY <1>5, <2>1, <2>2
<1>9. Normalize(d.text) = IF Last(o) = Back THEN o ELSE Append(o, Back)
  BY DEF Normalize
<1> HIDE DEF o
<1>10. Last(o) = Last(x)
  <2>1. Len(x) \in Nat /\ Len(x) \in 1 .. Len(x)
    BY <1>7 DEF Text
  <2> QED BY <1>6, <1>7, <1>8, <2>1, AppendedIs DEF Last
<1>11. CASE x = text
  <2>1. Last(text) = Back
    BY <1>2 DEF Last, Text
  <2> QED BY <1>8, <1>9, <1>10, <1>11, <2>1 DEF text
<1>12. CASE x = t
  <2>1. \A s, r \in Seq(Code) : \A c \in Code : s \o Append(r, c) = Append(s \o r, c)
    OBVIOUS
  <2>2. Append(Verbatim \o t, Back) = Verbatim \o Append(t, Back)
    BY <1>6, <2>1, Signs DEF Text
  <2> QED BY <1>2, <1>8, <1>9, <1>10, <1>12, <2>2 DEF text
<1> QED BY <1>5, <1>11, <1>12

\* check_path refuses a copy into the source directory, into one below it, and into the
\* root of a drive, however the two directories were spelled, and no other copy.
LEMMA CheckPathIs ==
  ASSUME NEW b \in Bases
  PROVE  CheckPath(Normalize(b.to.text), Normalize(b.from.text)) <=>
            ~IsPrefix(b.from.parts, b.to.parts) /\ Len(b.to.parts) # 1
<1> DEFINE p == Long(b.from.parts)
           q == Long(b.to.parts)
           from == Verbatim \o p
           to == Verbatim \o q
<1>1. IsDirectory(b.from) /\ IsDirectory(b.to)
  BY DirectoriesAssumption
<1>2. Normalize(b.from.text) = from /\ Normalize(b.to.text) = to
  BY <1>1, NormalizeIs
<1>3. /\ p \in Text /\ q \in Text /\ b.from.parts \in Parts /\ b.to.parts \in Parts
      /\ Len(q) >= 3 /\ q[1] \in Letters /\ q[2] = Colon /\ q[3] = Back
      /\ Len(q) = 3 <=> Len(b.to.parts) = 1
  BY <1>1, LongIs
<1>4. Verbatim \in Text /\ Len(Verbatim) = 4
  <2>1. 63 \in Code /\ Back \in Code
    BY InCode, Signs
  <2> QED BY <2>1 DEF Verbatim, Text
<1>5. IsPrefix(p, q) <=> IsPrefix(b.from.parts, b.to.parts)
  BY <1>3, LongPrefix
<1> HIDE DEF p, q
<1>6. from \in Text /\ Len(from) = 4 + Len(p) /\ to \in Text /\ Len(to) = 4 + Len(q)
      /\ (\A i \in 1 .. 4 : from[i] = Verbatim[i] /\ to[i] = Verbatim[i])
      /\ (\A i \in 1 .. Len(p) : from[4 + i] = p[i]) /\ (\A i \in 1 .. Len(q) : to[4 + i] = q[i])
  <2>1. ASSUME NEW x \in Text
        PROVE  /\ Verbatim \o x \in Text /\ Len(Verbatim \o x) = 4 + Len(x)
               /\ \A i \in 1 .. 4 : (Verbatim \o x)[i] = Verbatim[i]
               /\ \A i \in 1 .. Len(x) : (Verbatim \o x)[4 + i] = x[i]
    <3>1. /\ Verbatim \o x \in Text /\ Len(Verbatim \o x) = Len(Verbatim) + Len(x)
          /\ \A i \in 1 .. Len(Verbatim) : (Verbatim \o x)[i] = Verbatim[i]
          /\ \A i \in 1 .. Len(x) : (Verbatim \o x)[Len(Verbatim) + i] = x[i]
      BY <1>4, AppendedIs
    <3> QED BY <1>4, <3>1
  <2> QED BY <1>3, <2>1
<1>7. Len(p) \in Nat /\ Len(q) \in Nat
  BY <1>3 DEF Text
<1> HIDE DEF from, to
<1>8. IsPrefix(from, to) <=> IsPrefix(p, q)
  <2>1. ASSUME IsPrefix(from, to) PROVE IsPrefix(p, q)
    <3>1. Len(from) <= Len(to) /\ \A i \in 1 .. Len(from) : from[i] = to[i]
      BY <1>6, <2>1, PrefixIs
    <3>2. Len(p) <= Len(q)
      BY <1>6, <1>7, <3>1
    <3>3. ASSUME NEW i \in 1 .. Len(p) PROVE p[i] = q[i]
      <4>1. 4 + i \in 1 .. Len(from) /\ i \in 1 .. Len(q)
        BY <1>6, <1>7, <3>2
      <4> QED BY <1>6, <3>1, <4>1
    <3> QED BY <1>3, <3>2, <3>3, PrefixIs
  <2>2. ASSUME IsPrefix(p, q) PROVE IsPrefix(from, to)
    <3>1. Len(p) <= Len(q) /\ \A i \in 1 .. Len(p) : p[i] = q[i]
      BY <1>3, <2>2, PrefixIs
    <3>2. Len(from) <= Len(to)
      BY <1>6, <1>7, <3>1
    <3>3. ASSUME NEW i \in 1 .. Len(from) PROVE from[i] = to[i]
      <4>1. CASE i <= 4
        <5>1. i \in 1 .. 4
          BY <4>1
        <5> QED BY <1>6, <5>1
      <4>2. CASE ~(i <= 4)
        <5>1. i - 4 \in 1 .. Len(p) /\ i - 4 \in 1 .. Len(q) /\ 4 + (i - 4) = i
          BY <1>6, <1>7, <3>1, <4>2
        <5>2. from[4 + (i - 4)] = p[i - 4] /\ to[4 + (i - 4)] = q[i - 4]
          BY <1>6, <5>1
        <5> QED BY <3>1, <5>1, <5>2
      <4> QED BY <4>1, <4>2
    <3> QED BY <1>6, <3>2, <3>3, PrefixIs
  <2> QED BY <2>1, <2>2
<1>9. IsDrive(to) <=> Len(q) = 3
  <2>1. to[5] = q[1] /\ to[6] = q[2] /\ to[7] = q[3]
    <3>1. 1 \in 1 .. Len(q) /\ 2 \in 1 .. Len(q) /\ 3 \in 1 .. Len(q)
      BY <1>3, <1>7
    <3>2. to[4 + 1] = q[1] /\ to[4 + 2] = q[2] /\ to[4 + 3] = q[3]
      BY <1>6, <3>1
    <3> QED BY <3>2
  <2>2. Len(From(to, 6)) = Len(to) - 5 /\ From(to, 6) = [i \in 1 .. Len(to) - 5 |-> to[i + 5]]
    <3>1. to \in Seq(Code) /\ Len(to) >= 7 /\ Len(to) \in Nat
      BY <1>3, <1>6, <1>7 DEF Text
    <3>2. SubSeq(to, 6, Len(to)) = [i \in 1 .. Len(to) - 5 |-> to[i + 5]] /\ Len(SubSeq(to, 6, Len(to))) = Len(to) - 5
      BY <3>1
    <3> QED BY <3>2 DEF From
  <2>3. Len(q) # 3 => From(to, 6) # <<Colon, Back>>
    <3>1. Len(<<Colon, Back>>) = 2
      OBVIOUS
    <3>2. Len(q) # 3 => Len(From(to, 6)) # 2
      <4>1. \A x, y, z : x \in Nat /\ y = 4 + x /\ z = y - 5 /\ z = 2 => x = 3
        OBVIOUS
      <4> QED BY <1>6, <1>7, <2>2, <4>1, ZenonT(60)
    <3> QED BY <3>1, <3>2
  <2>4. Len(q) = 3 => From(to, 6) = <<Colon, Back>>
    <3>1. SUFFICES ASSUME Len(q) = 3 PROVE From(to, 6) = <<Colon, Back>>
      OBVIOUS
    <3>2. Len(to) - 5 = 2
      BY <1>6, <3>1
    <3>3. From(to, 6) = [i \in 1 .. 2 |-> to[i + 5]]
      BY <2>2, <3>2
    <3>4. to[1 + 5] = Colon /\ to[2 + 5] = Back
      BY <1>3, <2>1
    <3>5. \A g : g = [i \in 1 .. 2 |-> to[i + 5]] => g = <<to[1 + 5], to[2 + 5]>>
      OBVIOUS
    <3> QED BY <3>3, <3>4, <3>5
  <2> QED BY <1>3, <2>1, <2>3, <2>4 DEF IsDrive
<1>10. IntoItself(to, from) <=> IsPrefix(from, to)
  BY <1>6, IntoItselfIsPrefix
<1> QED BY <1>2, <1>3, <1>5, <1>8, <1>9, <1>10 DEF CheckPath

(* check_path has decided, and what it has let through goes on. *)
Within == IsPrefix(bases.from.parts, bases.to.parts) \/ Len(bases.to.parts) = 1
Decided ==
    /\ phase = "new" => outcome = "none"
    /\ phase = "open" /\ Checked => ~Within
    /\ phase = "over" /\ Checked => (Within <=> outcome = "none")

\* An action that converts happens only in a copy that was let through.
LEMMA IntoDecided ==
  ASSUME CopyInv, Decided, NEW from \in PathType, Into(from), phase = "open",
         from.class = source.class
  PROVE  Decided'
<1>1. /\ source' = from /\ target'.class = target.class /\ outcome' \in {"done", "refused", "throws"}
      /\ phase' \in {"open", "over"}
  BY IntoType
<1>2. bases' = bases
  BY DEF Into
<1>3. Checked' <=> Checked
  BY <1>1 DEF Checked
<1>4. Within' <=> Within
  BY <1>2 DEF Within
<1>5. Checked => ~Within
  BY DEF Decided
<1> QED BY <1>1, <1>3, <1>4, <1>5 DEF Decided

\* A copy is refused if and only if its target is the source directory, lies in it or is
\* the root of a drive, whatever directories the user names, however deep they are, and
\* with the prefix \\?\ and the last backslash or without: no name that only begins like
\* the source is taken for it, and a copy that is let through stays so.
THEOREM NeverIntoItself == Spec => []NotIntoItself
<1>1. Init => CopyInv /\ Decided
  <2>1. Init => CopyInv
    BY InitInv
  <2>2. Init => Decided
    BY DEF Init, Decided
  <2> QED BY <2>1, <2>2
<1>2. CopyInv /\ Decided /\ [Next]_vars => Decided'
  <2> SUFFICES ASSUME CopyInv, Decided, [Next]_vars PROVE Decided'
    OBVIOUS
  <2>1. CASE Begin
    <3>1. bases \in Bases
      BY DEF CopyInv, Kinds
    <3>2. CheckPath(Normalize(bases.to.text), Normalize(bases.from.text)) <=> ~Within
      BY <3>1, CheckPathIs DEF Within
    <3>3. /\ phase = "new" /\ UNCHANGED <<bases, source, target, outcome>>
          /\ phase' = IF Checked => CheckPath(Normalize(bases.to.text), Normalize(bases.from.text))
                      THEN "open" ELSE "over"
      BY <2>1 DEF Begin
    <3>4. (Checked' <=> Checked) /\ (Within' <=> Within) /\ outcome' = "none"
      BY <3>3 DEF Checked, Within, Decided
    <3> QED BY <3>2, <3>3, <3>4 DEF Decided
  <2>2. CASE Leave
    BY <2>2 DEF Leave, Decided, Checked, Within
  <2>3. CASE RootEntry
    <3>1. New("linux") \in PathType /\ New("linux").class = "linux"
      BY NewType DEF DiskPaths, Classes
    <3> QED BY <2>3, <3>1, IntoDecided DEF RootEntry
  <2>4. CASE Entry
    <3>1. phase = "open" /\ source.class = "linux"
      BY <2>4 DEF Entry
    <3>2. PICK from \in PathType : Into(from) /\ from.class = "linux"
      BY <2>4, EntryInv
    <3> QED BY <3>1, <3>2, IntoDecided
  <2>5. CASE Finish
    BY <2>5 DEF Finish, Decided, Checked, Within
  <2>6. CASE Finished \/ UNCHANGED vars
    BY <2>6 DEF Finished, vars, Decided, Checked, Within
  <2>7. ASSUME NEW n \in Names \cup Foreign, NEW isDir \in BOOLEAN, Visit(n, isDir) PROVE Decided'
    <3>1. PICK from \in PathType : Into(from) /\ from.class = source.class
      BY <2>7, VisitInv
    <3> QED BY <2>7, <3>1, IntoDecided DEF Visit
  <2> QED BY <2>1, <2>2, <2>3, <2>4, <2>5, <2>6, <2>7 DEF Next
<1>3. CopyInv /\ [Next]_vars => CopyInv'
  BY StepInv
<1>4. CopyInv /\ Decided => NotIntoItself
  BY DEF CopyInv, Kinds, Decided, NotIntoItself, Within
<1> QED BY <1>1, <1>2, <1>3, <1>4, PTL DEF Spec

-----------------------------------------------------------------------------
(* Sequences *)

\* What holds of the empty sequence and stays when something is appended holds of all.
LEMMA SeqInduction ==
  ASSUME NEW X, NEW S \in SUBSET Seq(X), <<>> \in S, \A s \in S, x \in X : Append(s, x) \in S
  PROVE  S = Seq(X)
<1>1. SUFFICES ASSUME NEW t \in Seq(X) PROVE t \in S
  OBVIOUS
<1> DEFINE n == Len(t)
           K == {k \in Nat : k <= n => SubSeq(t, 1, k) \in S}
<1>2. n \in Nat /\ SubSeq(t, 1, 0) = <<>> /\ SubSeq(t, 1, n) = t
  OBVIOUS
<1>3. 0 \in K
  BY <1>2
<1>4. ASSUME NEW k \in K PROVE k + 1 \in K
  <2>1. SUFFICES ASSUME k + 1 <= n PROVE SubSeq(t, 1, k + 1) \in S
    BY <1>4
  <2>2. SubSeq(t, 1, k) \in S
    BY <1>2, <1>4, <2>1
  <2>3. k \in Nat /\ k + 1 \in 1 .. n /\ (k + 1) - 1 = k
    BY <1>2, <2>1
  <2>4. t[k + 1] \in X
    BY <2>3
  <2>5. SubSeq(t, 1, k + 1) = SubSeq(t, 1, k) \o <<t[k + 1]>>
    <3>1. 1 \in 1 .. n /\ k + 1 \in 1 .. n
      BY <1>2, <2>3
    <3> QED BY <2>3, <3>1, SubSeqRecursiveSecond
  <2>6. SubSeq(t, 1, k + 1) = Append(SubSeq(t, 1, k), t[k + 1])
    <3>1. SubSeq(t, 1, k) \in Seq(X)
      BY <2>2
    <3> QED BY <2>4, <2>5, <3>1, AppendIsConcat
  <2> QED BY <2>2, <2>4, <2>6
<1>5. K = Nat
  <2>1. K \in SUBSET Nat
    OBVIOUS
  <2> HIDE DEF K
  <2> QED BY <1>3, <1>4, <2>1, Upwards
<1>6. n \in K
  BY <1>2, <1>5
<1> HIDE DEF n
<1>7. SubSeq(t, 1, n) \in S
  BY <1>6
<1> QED BY <1>2, <1>7

\* A sequence that goes one further.
LEMMA OneMore ==
  ASSUME NEW T, NEW s \in Seq(T), NEW d \in T, NEW f \in Seq(T), Len(f) = Len(s) + 1,
         \A i \in 1 .. Len(s) : f[i] = s[i], f[Len(s) + 1] = d
  PROVE  f = Append(s, d)
<1>1. /\ Append(s, d) \in Seq(T) /\ Len(Append(s, d)) = Len(s) + 1 /\ Append(s, d)[Len(s) + 1] = d
      /\ \A i \in 1 .. Len(s) : Append(s, d)[i] = s[i]
  BY AppendProperties
<1>2. Len(s) \in Nat
  OBVIOUS
<1>3. \A i \in 1 .. Len(s) + 1 : i = Len(s) + 1 \/ i \in 1 .. Len(s)
  BY <1>2
<1>4. \A i \in 1 .. Len(f) : f[i] = Append(s, d)[i]
  BY <1>1, <1>3
<1> QED BY <1>1, <1>4, SeqEqual

\* Texts put together are what they are one by one.
LEMMA FlattenAppend ==
  ASSUME NEW texts \in Seq(Text), NEW t \in Text
  PROVE  FlattenSeq(Append(texts, t)) = FlattenSeq(texts) \o t
<1> DEFINE n == Len(texts)
           more == Append(texts, t)
<1>1. /\ n \in Nat /\ more \in Seq(Text) /\ Len(more) = n + 1 /\ more[n + 1] = t
      /\ \A k \in 1 .. n : more[k] = texts[k]
  OBVIOUS
<1> HIDE DEF n, more
<1>2. PICK f \in [0 .. n -> Text] :
        f[0] = <<>> /\ f[n] = FlattenSeq(texts) /\ \A k \in 1 .. n : f[k] = f[k - 1] \o texts[k]
  BY FlattenSteps DEF n
<1>3. PICK g \in [0 .. n + 1 -> Text] :
        g[0] = <<>> /\ g[n + 1] = FlattenSeq(more) /\ \A k \in 1 .. n + 1 : g[k] = g[k - 1] \o more[k]
  BY <1>1, FlattenSteps
<1> DEFINE S == {k \in Nat : k <= n => f[k] = g[k]}
<1>4. 0 \in S
  BY <1>2, <1>3
<1>5. ASSUME NEW k \in S PROVE k + 1 \in S
  <2>1. SUFFICES ASSUME k + 1 <= n PROVE f[k + 1] = g[k + 1]
    BY <1>5
  <2>2. k + 1 \in 1 .. n /\ k + 1 \in 1 .. n + 1 /\ (k + 1) - 1 = k /\ f[k] = g[k]
    BY <1>1, <1>5, <2>1
  <2>3. f[k + 1] = f[k] \o texts[k + 1] /\ g[k + 1] = g[k] \o more[k + 1]
    BY <1>2, <1>3, <2>2
  <2> QED BY <1>1, <2>2, <2>3
<1>6. S = Nat
  <2>1. S \in SUBSET Nat
    OBVIOUS
  <2> HIDE DEF S
  <2> QED BY <1>4, <1>5, <2>1, Upwards
<1>7. f[n] = g[n] /\ n + 1 \in 1 .. n + 1 /\ (n + 1) - 1 = n
  BY <1>1, <1>6
<1>8. g[n + 1] = g[n] \o more[n + 1]
  BY <1>3, <1>7
<1> QED BY <1>1, <1>2, <1>3, <1>7, <1>8 DEF more

\* No texts make an empty text.
LEMMA FlattenEmpty == FlattenSeq(<<>>) = <<>>
<1>1. <<>> \in Seq(Text) /\ Len(<<>>) = 0
  OBVIOUS
<1> QED BY <1>1, FlattenSteps

\* Texts form a monoid.
LEMMA Joining ==
  /\ \A a, b, c \in Text : (a \o b) \o c = a \o (b \o c)
  /\ \A a \in Text : a \o <<>> = a /\ <<>> \o a = a
  /\ \A a, b \in Text, c \in Code : Append(a \o b, c) = a \o Append(b, c)
  /\ \A a \in Text, c \in Code : Append(a, c) = a \o <<c>>
BY SMTT(60) DEF Text

-----------------------------------------------------------------------------
(* Texts as append writes them *)

Enc(class, text) == FlattenSeq([i \in DOMAIN text |-> Encoded(class, text[i])])

\* Each character is spelled for itself.
LEMMA EncSteps ==
  ASSUME NEW class
  PROVE  /\ Enc(class, <<>>) = <<>>
         /\ \A text \in Text : Enc(class, text) \in DiskText
         /\ \A text \in Text, c \in Code : Enc(class, Append(text, c)) = Enc(class, text) \o Encoded(class, c)
<1>1. \A c \in Code : Encoded(class, c) \in DiskText
  BY EncodedType
<1>2. DiskText \subseteq Text /\ <<>> \in DiskText /\ \A a, b \in DiskText : a \o b \in DiskText
  BY DiskTexts
<1>3. Enc(class, <<>>) = <<>>
  <2>1. [i \in DOMAIN <<>> |-> Encoded(class, <<>>[i])] = <<>>
    OBVIOUS
  <2> QED BY <2>1, FlattenEmpty, Zenon DEF Enc
<1>4. ASSUME NEW text \in Text, NEW c \in Code
      PROVE  Enc(class, Append(text, c)) = Enc(class, text) \o Encoded(class, c)
  <2> DEFINE e(t) == [i \in DOMAIN t |-> Encoded(class, t[i])]
             d == Encoded(class, c)
             n == Len(text)
  <2>1. n \in Nat /\ DOMAIN text = 1 .. n /\ \A i \in 1 .. n : text[i] \in Code
    BY DEF Text
  <2>2. /\ DOMAIN Append(text, c) = 1 .. n + 1 /\ Append(text, c)[n + 1] = c
        /\ \A i \in 1 .. n : Append(text, c)[i] = text[i]
    BY DEF Text
  <2>3. \A i \in 1 .. n : Encoded(class, text[i]) \in Text
    BY <1>1, <1>2, <2>1
  <2>4. e(text) \in Seq(Text) /\ Len(e(text)) = n /\ d \in Text
    <3>1. e(text) \in [1 .. n -> Text]
      BY <2>1, <2>3
    <3>2. \A T : \A s \in [1 .. n -> T] : s \in Seq(T) /\ Len(s) = n
      BY <2>1
    <3>3. d \in Text
      BY <1>1, <1>2
    <3> HIDE DEF e, d, n
    <3> QED BY <3>1, <3>2, <3>3
  <2>5. e(Append(text, c)) = Append(e(text), d)
    <3>1. e(Append(text, c)) \in [1 .. n + 1 -> Text]
      <4>1. \A i \in 1 .. n + 1 : Append(text, c)[i] \in Code
        BY <2>1, <2>2
      <4>2. \A i \in 1 .. n + 1 : Encoded(class, Append(text, c)[i]) \in Text
        BY <1>1, <1>2, <4>1
      <4> QED BY <2>2, <4>2
    <3>2. e(Append(text, c))[n + 1] = d /\ \A i \in 1 .. n : e(Append(text, c))[i] = e(text)[i]
      BY <2>1, <2>2
    <3>3. \A T : \A s \in [1 .. n + 1 -> T] : s \in Seq(T) /\ Len(s) = n + 1
      BY <2>1
    <3> HIDE DEF e, d, n
    <3> QED BY <2>4, <3>1, <3>2, <3>3, OneMore
  <2> HIDE DEF d, n
  <2>6. Enc(class, Append(text, c)) = FlattenSeq(e(Append(text, c))) /\ Enc(class, text) = FlattenSeq(e(text))
    BY Zenon DEF Enc
  <2> HIDE DEF e
  <2> QED BY <2>4, <2>5, <2>6, FlattenAppend DEF d
<1> DEFINE S == {text \in Text : Enc(class, text) \in DiskText}
<1>5. S = Text
  <2>1. S \in SUBSET Seq(Code) /\ <<>> \in S
    BY <1>2, <1>3 DEF Text
  <2>2. ASSUME NEW s \in S, NEW x \in Code PROVE Append(s, x) \in S
    <3>1. s \in Text /\ Append(s, x) \in Text /\ Enc(class, Append(s, x)) = Enc(class, s) \o Encoded(class, x)
      BY <1>4, Texts
    <3> QED BY <1>1, <1>2, <3>1
  <2> HIDE DEF S
  <2> QED BY <2>1, <2>2, SeqInduction DEF Text
<1> QED BY <1>3, <1>4, <1>5

\* So a text put together is spelled part by part.
LEMMA EncJoins ==
  ASSUME NEW class, NEW a \in Text, NEW b \in Text
  PROVE  Enc(class, a \o b) = Enc(class, a) \o Enc(class, b)
<1>1. \A t \in Text : Enc(class, t) \in Text
  BY EncSteps, DiskTexts
<1> DEFINE S == {t \in Text : Enc(class, a \o t) = Enc(class, a) \o Enc(class, t)}
<1>2. <<>> \in S
  <2>1. a \o <<>> = a /\ Enc(class, a) \o <<>> = Enc(class, a) /\ <<>> \in Text
    BY <1>1, Joining, Words
  <2> QED BY <2>1, EncSteps
<1>3. ASSUME NEW s \in S, NEW x \in Code PROVE Append(s, x) \in S
  <2>1. s \in Text /\ Append(s, x) \in Text /\ a \o s \in Text /\ Encoded(class, x) \in Text
    BY Texts, EncodedType, DiskTexts
  <2>2. a \o Append(s, x) = Append(a \o s, x)
    BY <2>1, Joining, ZenonT(60)
  <2>3. Enc(class, Append(a \o s, x)) = Enc(class, a \o s) \o Encoded(class, x)
    BY <2>1, EncSteps
  <2>4. Enc(class, Append(s, x)) = Enc(class, s) \o Encoded(class, x)
    BY <2>1, EncSteps
  <2>5. Enc(class, a \o s) = Enc(class, a) \o Enc(class, s)
    OBVIOUS
  <2>6. (Enc(class, a) \o Enc(class, s)) \o Encoded(class, x) = Enc(class, a) \o (Enc(class, s) \o Encoded(class, x))
    <3>1. Enc(class, a) \in Text /\ Enc(class, s) \in Text /\ Encoded(class, x) \in Text
      BY <1>1, <2>1
    <3> QED BY <3>1, Joining, ZenonT(60)
  <2> QED BY <2>1, <2>2, <2>3, <2>4, <2>5, <2>6
<1>4. S = Text
  <2>1. S \in SUBSET Seq(Code)
    BY DEF Text
  <2> HIDE DEF S
  <2> QED BY <1>2, <1>3, <2>1, SeqInduction DEF Text
<1> QED BY <1>4

\* Version 2 has one character for each.
LEMMA EncIsWritten ==
  ASSUME NEW text \in Seq(Code \ {0})
  PROVE  Enc("v2", text) = Written(text)
<1> DEFINE D == Code \ {0}
           S == {t \in Seq(D) : t \in Text /\ Written(t) \in Text /\ Len(Written(t)) = Len(t) /\ Enc("v2", t) = Written(t)}
<1>1. <<>> \in S
  <2>1. Written(<<>>) = <<>> /\ Len(<<>>) = 0
    BY DEF Written
  <2> QED BY <2>1, EmptySeq, EncSteps, Words
<1>2. ASSUME NEW t \in S, NEW c \in D PROVE Append(t, c) \in S
  <2> DEFINE x == Encoded("v2", c)[1]
             k == Len(t)
             more == Append(t, c)
  <2>1. t \in Seq(D) /\ t \in Text /\ Written(t) \in Text /\ Len(Written(t)) = k /\ Enc("v2", t) = Written(t) /\ c \in Code
    OBVIOUS
  <2> HIDE DEF S
  <2>2. more \in Seq(D) /\ more \in Text /\ Len(more) = k + 1 /\ more[k + 1] = c /\ \A i \in 1 .. k : more[i] = t[i]
    BY <2>1, Texts, AppendProperties
  <2>3. DOMAIN t = 1 .. k /\ DOMAIN more = 1 .. k + 1 /\ k \in Nat
    BY <2>1, <2>2, LenProperties
  <2>4. Encoded("v2", c) = <<x>>
    BY DEF Encoded
  <2>5. x \in Code
    <3>1. <<x>> \in Text
      BY <2>1, <2>4, EncodedType, DiskTexts
    <3>2. 1 \in 1 .. Len(<<x>>) /\ <<x>>[1] = x
      OBVIOUS
    <3> HIDE DEF x
    <3> QED BY <3>1, <3>2, ElementOfSeq DEF Text
  <2> HIDE DEF more, k
  <2>6. Written(more)[k + 1] = x /\ \A i \in 1 .. k : Written(more)[i] = Written(t)[i]
    <3>1. k + 1 \in 1 .. k + 1 /\ \A i \in 1 .. k : i \in 1 .. k + 1
      BY <2>3
    <3> QED BY <2>2, <2>3, <3>1 DEF Written
  <2>7. Written(more) \in Seq(Code) /\ Len(Written(more)) = k + 1
    <3>1. DOMAIN Written(more) = 1 .. k + 1 /\ Written(more) = [i \in 1 .. k + 1 |-> Written(more)[i]]
      BY <2>3 DEF Written
    <3>2. \A i \in 1 .. k + 1 : i = k + 1 \/ i \in 1 .. k
      BY <2>3
    <3>3. \A i \in 1 .. k : Written(t)[i] \in Code
      BY <2>1, ElementOfSeq DEF Text
    <3> HIDE DEF x
    <3>4. \A i \in 1 .. k + 1 : Written(more)[i] \in Code
      BY <2>5, <2>6, <3>2, <3>3
    <3>5. Written(more) \in [1 .. k + 1 -> Code]
      BY <3>1, <3>4
    <3>6. \A T : \A s \in [1 .. k + 1 -> T] : s \in Seq(T) /\ Len(s) = k + 1
      BY <2>3
    <3> QED BY <3>5, <3>6
  <2> HIDE DEF x
  <2>8. Written(more) = Append(Written(t), x)
    BY <2>1, <2>5, <2>6, <2>7, OneMore DEF Text
  <2>9. Enc("v2", more) = Enc("v2", t) \o <<x>>
    BY <2>1, <2>4, EncSteps DEF more
  <2>10. Append(Written(t), x) = Written(t) \o <<x>>
    BY <2>1, <2>5, Joining
  <2>11. Enc("v2", more) = Written(more) /\ Len(Written(more)) = Len(more) /\ Written(more) \in Text
    BY <2>1, <2>2, <2>7, <2>8, <2>9, <2>10 DEF Text
  <2> QED BY <2>2, <2>11 DEF S, more
<1>3. S = Seq(D)
  <2>1. S \in SUBSET Seq(D)
    OBVIOUS
  <2> HIDE DEF S, D
  <2> QED BY <1>1, <1>2, <2>1, SeqInduction
<1> QED BY <1>3

-----------------------------------------------------------------------------
(* Names *)

\* What WSL spells otherwise is what append does.
LEMMA UnusualIsSpecial == \A c \in Code \ {0, Slash} : Unusual(c) <=> IsSpecial(c)
<1>1. \A c \in Nat : c # 0 /\ c # 47 => ((c \in 0 .. 31 \cup {34, 42, 47, 58, 60, 62, 63, 124}) \/ c = 92
          <=> c \in 1 .. 31 \cup {60, 62, 58, 34, 92, 124, 42, 63})
  OBVIOUS
<1>2. \A c \in Code : c \in Nat
  BY CodeUnit
<1> QED BY <1>1, <1>2, ZenonT(60) DEF Unusual, Allowed, IsSpecial, Slash, Back, Colon

\* A name is spelled on the disks as append would.
LEMMA NameSpelled ==
  ASSUME NEW n, MadeByWSL(n), n.linux \in Text
  PROVE  n.v1 = Enc("v1", n.linux) /\ n.v1 = Enc("legacy", n.linux) /\ n.v2 = Enc("v2", n.linux)
<1> DEFINE t == n.linux
<1>1. DOMAIN t = 1 .. Len(t) /\ \A i \in DOMAIN t : t[i] \in Code \ {0, Slash}
  BY DEF MadeByWSL, Text
<1> HIDE DEF t
<1>2. \A i \in DOMAIN t : Unusual(t[i]) <=> IsSpecial(t[i])
  BY <1>1, UnusualIsSpecial
<1>3. \A c \in Code \ {0, Slash}, class \in {"v1", "legacy"} :
         Encoded(class, c) = IF IsSpecial(c) \/ c = Hash THEN Quoted(c) ELSE <<c>>
  BY DEF Encoded
<1>4. \A c \in Code \ {0, Slash} : Encoded("v2", c) = IF IsSpecial(c) THEN <<Or(c)>> ELSE <<c>>
  BY DEF Encoded
<1>5. ASSUME NEW class \in {"v1", "legacy"} PROVE n.v1 = Enc(class, t)
  <2>1. \A i \in DOMAIN t : Encoded(class, t[i]) = IF Unusual(t[i]) \/ t[i] = Hash THEN Quoted(t[i]) ELSE <<t[i]>>
    BY <1>1, <1>2, <1>3
  <2>2. [i \in DOMAIN t |-> Encoded(class, t[i])]
            = [i \in DOMAIN t |-> IF Unusual(t[i]) \/ t[i] = Hash THEN Quoted(t[i]) ELSE <<t[i]>>]
    BY <2>1
  <2>3. n.v1 = FlattenSeq([i \in DOMAIN t |-> IF Unusual(t[i]) \/ t[i] = Hash THEN Quoted(t[i]) ELSE <<t[i]>>])
    BY DEF MadeByWSL, t
  <2> QED BY <2>2, <2>3, Zenon DEF Enc
<1>6. n.v2 = Enc("v2", t)
  <2>1. t \in Seq(Code \ {0})
    <3>1. \A X, Y : \A s \in Seq(X) : (\A i \in 1 .. Len(s) : s[i] \in Y) => s \in Seq(Y)
      BY SeqDef, LenProperties
    <3> QED BY <1>1, <3>1 DEF t, Text
  <2>2. \A i \in DOMAIN t : Encoded("v2", t[i])[1] = IF Unusual(t[i]) THEN Or(t[i]) ELSE t[i]
    BY <1>1, <1>2, <1>4
  <2>3. Written(t) = [i \in DOMAIN t |-> IF Unusual(t[i]) THEN Or(t[i]) ELSE t[i]]
    BY <2>2 DEF Written
  <2>4. n.v2 = [i \in DOMAIN t |-> IF Unusual(t[i]) THEN Or(t[i]) ELSE t[i]]
    BY DEF MadeByWSL, t
  <2> QED BY <2>1, <2>3, <2>4, EncIsWritten
<1> QED BY <1>5, <1>6 DEF t

\* What is spelled as it is.
Plain(c) == c \in Code /\ ~IsSpecial(c) /\ c \notin {0, Hash, Slash}

\* A text without them is spelled as it is.
LEMMA PlainText ==
  ASSUME NEW class, NEW text \in Seq({c \in Code : Plain(c)})
  PROVE  Enc(class, text) = text
<1> DEFINE P == {c \in Code : Plain(c)}
           S == {t \in Seq(P) : t \in Text /\ Enc(class, t) = t}
<1>1. <<>> \in S
  <2>1. Enc(class, <<>>) = <<>>
    BY EncSteps
  <2>2. <<>> \in Seq(P) /\ <<>> \in Text
    BY EmptySeq DEF Text
  <2> QED BY <2>1, <2>2
<1>2. ASSUME NEW t \in S, NEW c \in P PROVE Append(t, c) \in S
  <2>1. Encoded(class, c) = <<c>>
    BY DEF Encoded, Plain
  <2>2. t \in Text /\ c \in Code /\ t \in Seq(P) /\ Enc(class, t) = t
    OBVIOUS
  <2>3. Append(t, c) \in Seq(P) /\ Append(t, c) \in Text /\ Append(t, c) = t \o <<c>>
    BY <2>2, Texts, Joining, AppendProperties
  <2>4. Enc(class, Append(t, c)) = Enc(class, t) \o Encoded(class, c)
    BY <2>2, EncSteps
  <2> QED BY <2>1, <2>2, <2>3, <2>4
<1>3. S = Seq(P)
  <2>1. S \in SUBSET Seq(P)
    OBVIOUS
  <2> HIDE DEF S, P
  <2> QED BY <1>1, <1>2, <2>1, SeqInduction
<1> QED BY <1>3

\* What the spelling of a name contains: no backslash, as its characters are no slash.
LEMMA NoBackslash ==
  ASSUME NEW class, NEW text \in Text, \A i \in 1 .. Len(text) : text[i] # Slash
  PROVE  \A i \in 1 .. Len(Enc(class, text)) : Enc(class, text)[i] # Back
<1> DEFINE C == {c \in Code : c # Slash}
           D == {c \in Code : c # Back}
           S == {t \in Seq(C) : t \in Text /\ Enc(class, t) \in Seq(D)}
<1>1. <<>> \in S
  <2>1. Enc(class, <<>>) = <<>>
    BY EncSteps
  <2>2. <<>> \in Seq(C) /\ <<>> \in Seq(D) /\ <<>> \in Text
    BY EmptySeq DEF Text
  <2> QED BY <2>1, <2>2
<1>2. ASSUME NEW c \in C PROVE Encoded(class, c) \in Seq(D)
  <2>1. Encoded(class, c) \in Seq(Code)
    BY EncodedType, DiskTexts DEF Text
  <2>2. \A i \in 1 .. Len(Encoded(class, c)) : Encoded(class, c)[i] # Back
    <3>1. c \in Nat /\ c < 65536
      BY CodeUnit
    <3>2. CASE Encoded(class, c) = <<Or(c)>>
      <4>1. Or(c) # 92
        BY <3>1 DEF Or
      <4> QED BY <3>2, <4>1 DEF Back
    <3>3. CASE Encoded(class, c) = Quoted(c)
      <4> DEFINE q == Quoted(c)
      <4>1. Len(q) = 5 /\ q[1] = Hash /\ \A i \in 2 .. 5 : q[i] \in DOMAIN Digit
        BY VersionOneQuotes
      <4>2. Hash # Back /\ \A x \in DOMAIN Digit : x # Back
        BY DEF Hash, Back, Digit
      <4>3. \A i \in 1 .. 5 : i = 1 \/ i \in 2 .. 5
        OBVIOUS
      <4> HIDE DEF q
      <4>4. \A i \in 1 .. Len(q) : q[i] # Back
        BY <4>1, <4>2, <4>3
      <4> QED BY <3>3, <4>4 DEF q
    <3>4. CASE Encoded(class, c) = <<>>
      BY <3>4
    <3>5. CASE Encoded(class, c) = <<c>> /\ ~IsSpecial(c)
      BY <3>5 DEF IsSpecial
    <3> QED BY <3>2, <3>3, <3>4, <3>5 DEF Encoded
  <2>3. \A X, Y : \A s \in Seq(X) : (\A i \in 1 .. Len(s) : s[i] \in Y) => s \in Seq(Y)
    BY SeqDef, LenProperties
  <2>4. \A i \in 1 .. Len(Encoded(class, c)) : Encoded(class, c)[i] \in D
    BY <2>1, <2>2, ElementOfSeq
  <2> HIDE DEF D
  <2> QED BY <2>1, <2>3, <2>4
<1>3. ASSUME NEW t \in S, NEW c \in C PROVE Append(t, c) \in S
  <2>1. t \in Seq(C) /\ t \in Text /\ Enc(class, t) \in Seq(D) /\ c \in Code
    OBVIOUS
  <2>2. Enc(class, Append(t, c)) = Enc(class, t) \o Encoded(class, c)
    BY <2>1, EncSteps
  <2>3. Append(t, c) \in Seq(C) /\ Append(t, c) \in Text
    <3> HIDE DEF C, S
    <3> QED BY <2>1, Texts, AppendProperties
  <2>4. Enc(class, t) \o Encoded(class, c) \in Seq(D)
    <3> HIDE DEF D, S
    <3> QED BY <1>2, <2>1, ConcatProperties
  <2> QED BY <2>2, <2>3, <2>4
<1>4. S = Seq(C)
  <2>1. S \in SUBSET Seq(C)
    OBVIOUS
  <2> HIDE DEF S, C
  <2> QED BY <1>1, <1>3, <2>1, SeqInduction
<1>5. text \in Seq(C)
  <2>1. \A X, Y : \A s \in Seq(X) : (\A i \in 1 .. Len(s) : s[i] \in Y) => s \in Seq(Y)
    BY SeqDef, LenProperties
  <2>2. text \in Seq(Code) /\ \A i \in 1 .. Len(text) : text[i] \in C
    BY DEF Text
  <2> HIDE DEF C
  <2> QED BY <2>1, <2>2
<1>6. Enc(class, text) \in Seq(D)
  BY <1>4, <1>5
<1>7. \A i \in 1 .. Len(Enc(class, text)) : Enc(class, text)[i] \in D
  <2> HIDE DEF D
  <2> QED BY <1>6, ElementOfSeq
<1> QED BY <1>7

(* Names as WSL makes them. *)
NameRec == [linux : Text, v1 : Text, v2 : Text]
Disks == {"v1", "v2", "legacy"}
Named == {n \in NameRec :
            /\ n.linux # <<>> /\ \A i \in 1 .. Len(n.linux) : n.linux[i] \notin {0, Slash}
            /\ \A class \in Disks : On(class, n) = Enc(class, n.linux)}

\* The names that legacy moves, rootfs and the dots are spelled as they are.
LEMMA PlainWords == {rootfs, home, root, mnt, <<Dot>>, <<Dot, Dot>>} \subseteq Seq({c \in Code : Plain(c)})
<1>1. \A c \in {114, 111, 116, 102, 115, 104, 109, 101, 110, 46} : Plain(c)
  BY InCode DEF Plain, IsSpecial, Hash, Slash, Colon, Back
<1>2. {114, 111, 116, 102, 115, 104, 109, 101, 110, 46} \subseteq {c \in Code : Plain(c)}
  BY <1>1 DEF Plain
<1> DEFINE P == {c \in Code : Plain(c)}
<1> HIDE DEF P
<1>3. {114, 111, 116, 102, 115, 104, 109, 101, 110, 46} \subseteq P
  BY <1>2 DEF P
<1>4. rootfs \in Seq(P) /\ home \in Seq(P) /\ root \in Seq(P) /\ mnt \in Seq(P) /\ <<Dot>> \in Seq(P) /\ <<Dot, Dot>> \in Seq(P)
  BY <1>3 DEF rootfs, home, root, mnt, Dot
<1> QED BY <1>4 DEF P

\* The names of the model, those of tar programs and the moved ones are all names WSL may
\* make.
LEMMA NamedNames == Names \cup {This, Above, Rootfs} \cup Moved \subseteq Named
<1>1. ASSUME NEW n \in Names PROVE n \in Named
  <2>1. MadeByWSL(n) /\ n \in NameRec
    BY SpellingAssumption, NamesAssumption DEF NameRec
  <2>2. n.linux \in Text /\ n.linux # <<>> /\ \A i \in DOMAIN n.linux : n.linux[i] \notin {0, Slash}
    BY <2>1 DEF MadeByWSL, NameRec
  <2>3. DOMAIN n.linux = 1 .. Len(n.linux)
    BY <2>2 DEF Text
  <2>4. n.v1 = Enc("v1", n.linux) /\ n.v1 = Enc("legacy", n.linux) /\ n.v2 = Enc("v2", n.linux)
    BY <2>1, <2>2, NameSpelled
  <2>5. \A class \in Disks : On(class, n) = Enc(class, n.linux)
    BY <2>4 DEF Disks, On
  <2> QED BY <2>1, <2>2, <2>3, <2>5 DEF Named
<1>2. ASSUME NEW t \in {rootfs, home, root, mnt, <<Dot>>, <<Dot, Dot>>} PROVE Same(t) \in Named
  <2>1. t \in Seq({c \in Code : Plain(c)}) /\ t \in Text /\ t # <<>>
    <3>1. rootfs # <<>> /\ home # <<>> /\ root # <<>> /\ mnt # <<>> /\ <<Dot>> # <<>> /\ <<Dot, Dot>> # <<>>
      BY DEF rootfs, home, root, mnt
    <3> QED BY <3>1, PlainWords, Words
  <2>2. \A class : Enc(class, t) = t
    BY <2>1, PlainText
  <2>3. \A i \in 1 .. Len(t) : t[i] \notin {0, Slash}
    <3>1. \A i \in 1 .. Len(t) : t[i] \in {c \in Code : Plain(c)}
      BY <2>1, ElementOfSeq
    <3> QED BY <3>1 DEF Plain
  <2>4. Same(t) \in NameRec /\ Same(t).linux = t /\ \A class : On(class, Same(t)) = t
    BY <2>1 DEF Same, NameRec, On
  <2> QED BY <2>1, <2>2, <2>3, <2>4 DEF Named
<1> QED BY <1>1, <1>2 DEF This, Above, Rootfs, Moved

\* A name is known from what it is called in Linux.
LEMMA NameByLinux ==
  ASSUME NEW m \in Named, NEW n \in Named, m.linux = n.linux
  PROVE  m = n
<1>1. On("v1", m) = On("v1", n) /\ On("v2", m) = On("v2", n)
  BY DEF Named, Disks
<1>2. m.v1 = n.v1 /\ m.v2 = n.v2
  BY <1>1 DEF On
<1>3. m \in NameRec /\ n \in NameRec
  BY DEF Named
<1> QED BY <1>2, <1>3 DEF NameRec

Sep(class) == IF class = "linux" THEN Slash ELSE Back
End(class, closed) == IF closed THEN <<Sep(class)>> ELSE <<>>

\* What ends a name is text.
LEMMA EndType == \A class, closed : Sep(class) \in Code /\ End(class, closed) \in Text
BY Signs, Words DEF Sep, End

\* What a name is in a class is text.
LEMMA OnIsText == \A class : \A n \in NameRec : On(class, n) \in Text
BY DEF On, NameRec

\* The last of several names.
LEMMA JoinedLast ==
  ASSUME NEW class, NEW closed \in BOOLEAN
  PROVE  /\ Joined(class, <<>>, closed) = <<>>
         /\ \A ns \in Seq(NameRec) : Joined(class, ns, closed) \in Text
         /\ \A ns \in Seq(NameRec), n \in NameRec :
              Joined(class, Append(ns, n), closed) = Joined(class, ns, TRUE) \o (On(class, n) \o End(class, closed))
<1> DEFINE e(ns, c) == [i \in DOMAIN ns |-> On(class, ns[i]) \o
                          (IF i < Len(ns) \/ c THEN <<IF class = "linux" THEN Slash ELSE Back>> ELSE <<>>)]
<1>1. \A ns, c : Joined(class, ns, c) = FlattenSeq(e(ns, c))
  BY Zenon DEF Joined
<1>2. ASSUME NEW ns \in Seq(NameRec), NEW c \in BOOLEAN
      PROVE  /\ e(ns, c) \in Seq(Text) /\ Len(e(ns, c)) = Len(ns)
             /\ \A i \in 1 .. Len(ns) : e(ns, c)[i] = On(class, ns[i]) \o End(class, i < Len(ns) \/ c)
  <2>1. DOMAIN ns = 1 .. Len(ns) /\ Len(ns) \in Nat /\ \A i \in 1 .. Len(ns) : ns[i] \in NameRec
    OBVIOUS
  <2>2. \A i \in 1 .. Len(ns) : e(ns, c)[i] = On(class, ns[i]) \o End(class, i < Len(ns) \/ c)
    BY <2>1 DEF End, Sep
  <2>3. \A i \in 1 .. Len(ns) : e(ns, c)[i] \in Text
    <3> HIDE DEF e
    <3> QED BY <2>1, <2>2, OnIsText, EndType, Texts
  <2>4. e(ns, c) = [i \in 1 .. Len(ns) |-> e(ns, c)[i]]
    BY <2>1
  <2>5. \A T : \A k \in Nat : \A u : u = [i \in 1 .. k |-> u[i]] /\ (\A i \in 1 .. k : u[i] \in T) => u \in Seq(T) /\ Len(u) = k
    <3>1. ASSUME NEW T, NEW k \in Nat, NEW u, u = [i \in 1 .. k |-> u[i]], \A i \in 1 .. k : u[i] \in T
          PROVE  u \in Seq(T) /\ Len(u) = k
      <4>1. u \in [1 .. k -> T]
        BY <3>1
      <4>2. \A w \in [1 .. k -> T] : w \in Seq(T) /\ Len(w) = k
        OBVIOUS
      <4> QED BY <4>1, <4>2
    <3> QED BY <3>1
  <2> HIDE DEF e
  <2> QED BY <2>1, <2>2, <2>3, <2>4, <2>5
<1>3. Joined(class, <<>>, closed) = <<>>
  <2>1. e(<<>>, closed) = <<>>
    OBVIOUS
  <2> HIDE DEF e
  <2>2. Joined(class, <<>>, closed) = FlattenSeq(e(<<>>, closed))
    BY <1>1
  <2> QED BY <2>1, <2>2, FlattenEmpty
<1> HIDE DEF e
<1>4. \A ns \in Seq(NameRec) : Joined(class, ns, closed) \in Text
  BY <1>1, <1>2, FlattenType
<1>5. ASSUME NEW ns \in Seq(NameRec), NEW n \in NameRec
      PROVE  Joined(class, Append(ns, n), closed) = Joined(class, ns, TRUE) \o (On(class, n) \o End(class, closed))
  <2> DEFINE d == On(class, n) \o End(class, closed)
             more == Append(ns, n)
             k == Len(ns)
  <2>1. k \in Nat /\ more \in Seq(NameRec) /\ Len(more) = k + 1 /\ more[k + 1] = n /\ \A i \in 1 .. k : more[i] = ns[i]
    BY AppendProperties
  <2>2. d \in Text
    BY OnIsText, EndType, Texts
  <2> HIDE DEF k, more
  <2>3. e(more, closed)[k + 1] = d
    <3>1. k + 1 \in 1 .. Len(more) /\ ~(k + 1 < Len(more))
      BY <2>1
    <3>2. e(more, closed)[k + 1] = On(class, more[k + 1]) \o End(class, k + 1 < Len(more) \/ closed)
      BY <1>2, <2>1, <3>1
    <3> QED BY <2>1, <3>1, <3>2
  <2>4. \A i \in 1 .. k : e(more, closed)[i] = e(ns, TRUE)[i]
    <3>1. ASSUME NEW i \in 1 .. k PROVE e(more, closed)[i] = e(ns, TRUE)[i]
      <4>1. i \in 1 .. Len(more) /\ i < Len(more) /\ i \in 1 .. Len(ns)
        BY <2>1 DEF k
      <4>2. e(more, closed)[i] = On(class, more[i]) \o End(class, i < Len(more) \/ closed)
        BY <1>2, <2>1, <4>1
      <4>3. e(ns, TRUE)[i] = On(class, ns[i]) \o End(class, i < Len(ns) \/ TRUE)
        BY <1>2, <4>1
      <4>4. End(class, i < Len(more) \/ closed) = End(class, i < Len(ns) \/ TRUE)
        BY <4>1 DEF End
      <4> QED BY <2>1, <4>2, <4>3, <4>4
    <3> QED BY <3>1
  <2>5. e(ns, TRUE) \in Seq(Text) /\ Len(e(ns, TRUE)) = k /\ e(more, closed) \in Seq(Text) /\ Len(e(more, closed)) = k + 1
    BY <1>2, <2>1 DEF k
  <2> HIDE DEF d
  <2>6. e(more, closed) = Append(e(ns, TRUE), d)
    BY <2>2, <2>3, <2>4, <2>5, OneMore
  <2>7. FlattenSeq(e(more, closed)) = FlattenSeq(e(ns, TRUE)) \o d
    BY <2>2, <2>5, <2>6, FlattenAppend
  <2> QED BY <1>1, <2>7 DEF d, more
<1> QED BY <1>3, <1>4, <1>5

\* A sequence of names that is not empty has a first and a last one.
LEMMA FirstAndLast ==
  ASSUME NEW T, NEW s \in Seq(T), s # <<>>
  PROVE  /\ s[1] \in T /\ Tail(s) \in Seq(T) /\ s = <<s[1]>> \o Tail(s) /\ Len(Tail(s)) = Len(s) - 1
         /\ \E f \in Seq(T), l \in T : s = Append(f, l)
<1>1. Len(s) \in Nat \ {0}
  BY EmptySeq
<1>2. Tail(s) \in Seq(T) /\ Len(Tail(s)) = Len(s) - 1 /\ Head(s) \in T
  BY HeadTailProperties
<1>3. s[1] \in T
  BY <1>1
<1>4. s = <<s[1]>> \o Tail(s)
  <2>1. 1 \in 1 .. Len(s) /\ Len(s) \in 1 .. Len(s)
    BY <1>1
  <2>2. SubSeq(s, 1, Len(s)) = <<s[1]>> \o SubSeq(s, 2, Len(s))
    <3>1. SubSeq(s, 1, Len(s)) = <<s[1]>> \o SubSeq(s, 1 + 1, Len(s))
      BY <2>1, SubSeqRecursiveFirst
    <3> QED BY <3>1
  <2> QED BY <2>2, TailIsSubSeq, SubSeqFull
<1> QED BY <1>2, <1>3, <1>4, SequenceEmptyOrAppend, ZenonT(60)

\* The first of several names.
LEMMA JoinedFirst ==
  ASSUME NEW class, NEW n \in NameRec, NEW ns \in Seq(NameRec), NEW closed \in BOOLEAN
  PROVE  Joined(class, <<n>> \o ns, closed)
           = (On(class, n) \o End(class, ns # <<>> \/ closed)) \o Joined(class, ns, closed)
<1> DEFINE a == On(class, n) \o End(class, TRUE)
           S == {s \in Seq(NameRec) : Joined(class, <<n>> \o s, TRUE) = a \o Joined(class, s, TRUE)}
<1>1. a \in Text /\ On(class, n) \in Text
  BY OnIsText, EndType, Texts
<1>2. <<n>> \in Seq(NameRec) /\ <<>> \in Seq(NameRec) /\ <<n>> = Append(<<>>, n) /\ <<n>> \o <<>> = <<n>>
  BY EmptySeq
<1>3. ASSUME NEW c \in BOOLEAN PROVE Joined(class, <<n>>, c) = On(class, n) \o End(class, c)
  <2>1. Joined(class, <<n>>, c) = Joined(class, <<>>, TRUE) \o (On(class, n) \o End(class, c))
    <3>1. ASSUME NEW one, NEW none \in Seq(NameRec), one = Append(none, n)
          PROVE  Joined(class, one, c) = Joined(class, none, TRUE) \o (On(class, n) \o End(class, c))
      BY ONLY <3>1, JoinedLast
    <3> QED BY ONLY <1>2, <3>1
  <2>2. On(class, n) \o End(class, c) \in Text
    BY <1>1, EndType, Texts
  <2> QED BY <2>1, <2>2, JoinedLast, Joining
<1>4. <<>> \in S
  <2>1. Joined(class, <<n>> \o <<>>, TRUE) = a /\ a \o Joined(class, <<>>, TRUE) = a
    <3>1. a \o <<>> = a
      BY <1>1, Joining
    <3> QED BY <1>2, <1>3, <3>1, JoinedLast
  <2> QED BY <1>2, <2>1
<1>5. ASSUME NEW s \in Seq(NameRec), NEW m \in NameRec, NEW c \in BOOLEAN,
             Joined(class, <<n>> \o s, TRUE) = a \o Joined(class, s, TRUE)
      PROVE  Joined(class, <<n>> \o Append(s, m), c) = a \o Joined(class, Append(s, m), c)
  <2> DEFINE d == On(class, m) \o End(class, c)
  <2>1. d \in Text /\ Joined(class, s, TRUE) \in Text
    BY OnIsText, EndType, Texts, JoinedLast
  <2>2. <<n>> \o Append(s, m) = Append(<<n>> \o s, m) /\ <<n>> \o s \in Seq(NameRec)
    <3>1. \A X : \A x, y \in Seq(X), z \in X : x \o Append(y, z) = Append(x \o y, z) /\ x \o y \in Seq(X)
      OBVIOUS
    <3> QED BY <1>2, <3>1
  <2>3. Joined(class, Append(<<n>> \o s, m), c) = Joined(class, <<n>> \o s, TRUE) \o d
    BY <2>2, JoinedLast
  <2>4. Joined(class, Append(s, m), c) = Joined(class, s, TRUE) \o d
    BY JoinedLast
  <2> HIDE DEF a, d
  <2>5. (a \o Joined(class, s, TRUE)) \o d = a \o (Joined(class, s, TRUE) \o d)
    BY <1>1, <2>1, Joining, ZenonT(60)
  <2> QED BY <1>5, <2>2, <2>3, <2>4, <2>5
<1>6. S = Seq(NameRec)
  <2>1. S \in SUBSET Seq(NameRec)
    OBVIOUS
  <2>2. ASSUME NEW s \in S, NEW m \in NameRec PROVE Append(s, m) \in S
    <3>1. s \in Seq(NameRec) /\ Joined(class, <<n>> \o s, TRUE) = a \o Joined(class, s, TRUE)
      OBVIOUS
    <3>2. Append(s, m) \in Seq(NameRec)
      BY <3>1
    <3> HIDE DEF a
    <3> QED BY <1>5, <3>1, <3>2
  <2> HIDE DEF S
  <2> QED BY <1>4, <2>1, <2>2, SeqInduction
<1>7. CASE ns = <<>>
  <2>1. Joined(class, ns, closed) = <<>> /\ (ns # <<>> \/ closed) = closed
    BY <1>7, JoinedLast
  <2>2. On(class, n) \o End(class, closed) \in Text
    BY <1>1, EndType, Texts
  <2> QED BY <1>2, <1>3, <1>7, <2>1, <2>2, Joining
<1>8. CASE ns # <<>>
  <2>1. PICK f \in Seq(NameRec), l \in NameRec : ns = Append(f, l)
    BY <1>8, FirstAndLast, ZenonT(60)
  <2>2. Joined(class, <<n>> \o f, TRUE) = a \o Joined(class, f, TRUE)
    BY <1>6
  <2>3. (ns # <<>> \/ closed) = TRUE
    BY <1>8
  <2> HIDE DEF S
  <2>4. Joined(class, <<n>> \o ns, closed) = a \o Joined(class, ns, closed)
    <3> HIDE DEF a
    <3> QED BY <1>5, <2>1, <2>2
  <2> QED BY <2>3, <2>4
<1> QED BY <1>7, <1>8

(* The text of names closed by z, first to last: what it begins with. *)
Free(z) == {t \in Text : \A i \in 1 .. Len(t) : t[i] # z}

Cell(u, z, v) == (u \o <<z>>) \o v

\* The same beginning makes no difference.
LEMMA PrefixCancel ==
  ASSUME NEW w \in Text, NEW v \in Text, NEW x \in Text
  PROVE  IsPrefix(w \o v, w \o x) <=> IsPrefix(v, x)
<1>1. Len(w) \in Nat /\ Len(v) \in Nat /\ Len(x) \in Nat
  BY DEF Text
<1>2. /\ w \o v \in Text /\ Len(w \o v) = Len(w) + Len(v)
      /\ w \o x \in Text /\ Len(w \o x) = Len(w) + Len(x)
      /\ \A i \in 1 .. Len(w) : (w \o v)[i] = w[i] /\ (w \o x)[i] = w[i]
      /\ \A i \in 1 .. Len(v) : (w \o v)[Len(w) + i] = v[i]
      /\ \A i \in 1 .. Len(x) : (w \o x)[Len(w) + i] = x[i]
  BY AppendedIs
<1> DEFINE a == w \o v
           b == w \o x
           l == Len(w)
           m == Len(v)
           n == Len(x)
<1> HIDE DEF a, b, l, m, n
<1>3. l \in Nat /\ m \in Nat /\ n \in Nat /\ Len(a) = l + m /\ Len(b) = l + n
      /\ (\A i \in 1 .. l : a[i] = w[i] /\ b[i] = w[i])
      /\ (\A i \in 1 .. m : a[l + i] = v[i]) /\ \A i \in 1 .. n : b[l + i] = x[i]
  BY <1>1, <1>2 DEF a, b, l, m, n
<1>4. IsPrefix(a, b) <=> Len(a) <= Len(b) /\ \A i \in 1 .. Len(a) : a[i] = b[i]
  BY <1>2, PrefixIs DEF a, b
<1>5. IsPrefix(v, x) <=> m <= n /\ \A i \in 1 .. m : v[i] = x[i]
  BY PrefixIs DEF m, n
<1>6. ASSUME Len(a) <= Len(b), \A i \in 1 .. Len(a) : a[i] = b[i] PROVE m <= n /\ \A i \in 1 .. m : v[i] = x[i]
  <2>1. m <= n
    BY <1>3, <1>6
  <2>2. \A i \in 1 .. m : l + i \in 1 .. Len(a) /\ i \in 1 .. n
    BY <1>3, <2>1
  <2> QED BY <1>3, <1>6, <2>1, <2>2
<1>7. ASSUME m <= n, \A i \in 1 .. m : v[i] = x[i] PROVE Len(a) <= Len(b) /\ \A i \in 1 .. Len(a) : a[i] = b[i]
  <2>1. ASSUME NEW i \in 1 .. Len(a) PROVE a[i] = b[i]
    <3>1. CASE i <= l
      BY <1>3, <3>1
    <3>2. CASE i > l
      <4>1. i - l \in 1 .. m /\ i - l \in 1 .. n /\ l + (i - l) = i
        BY <1>3, <1>7, <3>2
      <4>2. a[l + (i - l)] = v[i - l] /\ b[l + (i - l)] = x[i - l]
        BY <1>3, <4>1
      <4> QED BY <1>7, <4>1, <4>2
    <3> QED BY <1>3, <3>1, <3>2
  <2> QED BY <1>3, <1>7, <2>1
<1> QED BY <1>4, <1>5, <1>6, <1>7 DEF a, b

\* A text begins with itself.
LEMMA PrefixSelf == \A t \in Text : IsPrefix(t, t)
<1>1. \A t \in Text : Len(t) \in Nat
  BY DEF Text
<1> QED BY <1>1, PrefixIs

\* What a text that begins with a name and a z begins with.
LEMMA Peel ==
  ASSUME NEW z \in Code, NEW u \in Free(z), NEW a \in Free(z), NEW v \in Text, NEW x \in Text
  PROVE  /\ IsPrefix(Cell(u, z, v), Cell(a, z, x)) <=> u = a /\ IsPrefix(v, x)
         /\ Cell(u, z, v) = Cell(a, z, x) <=> u = a /\ v = x
         /\ ~IsPrefix(Cell(u, z, v), a)
<1>1. u \in Text /\ a \in Text /\ <<z>> \in Text /\ u \o <<z>> \in Text /\ a \o <<z>> \in Text
  BY Words, Texts DEF Free
<1> DEFINE p == (u \o <<z>>) \o v
           q == (a \o <<z>>) \o x
<1>2. p \in Text /\ q \in Text /\ IsPrefix(u \o <<z>>, p) /\ IsPrefix(a \o <<z>>, q)
  BY <1>1, AppendedIs
<1>3. ASSUME IsPrefix(p, q) PROVE u = a
  <2>1. IsPrefix(u \o <<z>>, q)
    BY <1>1, <1>2, <1>3, PrefixTrans
  <2>2. <<>> \o Append(u, z) = u \o <<z>> /\ <<>> \o Append(a, z) = a \o <<z>> /\ <<>> \in Text
    BY <1>1, Joining, Texts, Words, ZenonT(60)
  <2> HIDE DEF p, q
  <2> QED BY <1>1, <1>2, <2>1, <2>2, SameName DEF Free
<1>4. ASSUME u = a PROVE IsPrefix(p, q) <=> IsPrefix(v, x)
  BY <1>1, <1>4, PrefixCancel
<1>5. p = q <=> u = a /\ v = x
  <2>1. \A t \in Text : IsPrefix(t, t)
    BY PrefixSelf
  <2>2. ASSUME p = q PROVE u = a /\ v = x
    <3>1. IsPrefix(p, q)
      BY <1>2, <2>1, <2>2
    <3>2. u = a
      BY <1>3, <3>1
    <3>3. \A s, t, w \in Seq(Code) : s \o t = s \o w => t = w
      BY ConcatSimplifications
    <3> QED BY <1>1, <2>2, <3>2, <3>3 DEF Text
  <2> QED BY <2>2
<1>6. ~IsPrefix(p, a)
  <2>1. SUFFICES ASSUME IsPrefix(p, a) PROVE FALSE
    OBVIOUS
  <2>2. IsPrefix(u \o <<z>>, a)
    BY <1>1, <1>2, <2>1, PrefixTrans
  <2>3. Len(u \o <<z>>) = Len(u) + 1 /\ (u \o <<z>>)[Len(u) + 1] = z /\ Len(u) \in Nat
    <3>1. Append(u, z) = u \o <<z>>
      BY <1>1, Joining
    <3> QED BY <1>1, <3>1, AppendProperties DEF Text
  <2>4. Len(u) + 1 \in 1 .. Len(u \o <<z>>) /\ Len(u) + 1 <= Len(a)
    <3>1. Len(u \o <<z>>) <= Len(a)
      BY <1>1, <2>2, PrefixIs
    <3> QED BY <2>3, <3>1
  <2>5. a[Len(u) + 1] = z /\ Len(u) + 1 \in 1 .. Len(a)
    <3>1. (u \o <<z>>)[Len(u) + 1] = a[Len(u) + 1]
      BY <1>1, <2>2, <2>4, PrefixIs
    <3>2. Len(a) \in Nat
      BY <1>1 DEF Text
    <3> QED BY <2>3, <2>4, <3>1, <3>2
  <2> QED BY <2>5 DEF Free
<1> QED BY <1>3, <1>4, <1>5, <1>6 DEF Cell

(* The same for names. *)
LEMMA OnFree == \A class \in Classes : \A n \in Named : On(class, n) \in Free(Sep(class)) /\ On(class, n) # <<>>
<1> SUFFICES ASSUME NEW class \in Classes, NEW n \in Named
             PROVE  On(class, n) \in Free(Sep(class)) /\ On(class, n) # <<>>
  OBVIOUS
<1>1. n \in NameRec /\ n.linux \in Text /\ n.linux # <<>> /\ \A i \in 1 .. Len(n.linux) : n.linux[i] \notin {0, Slash}
  BY DEF Named, NameRec
<1>2. CASE class = "linux"
  BY <1>1, <1>2 DEF On, Free, Sep
<1>3. CASE class # "linux"
  <2>1. class \in Disks /\ On(class, n) = Enc(class, n.linux) /\ On(class, n) \in Text
    BY <1>1, <1>3, OnIsText DEF Disks, Classes, Named
  <2>2. \A i \in 1 .. Len(On(class, n)) : On(class, n)[i] # Back
    BY <1>1, <2>1, NoBackslash
  <2>3. On(class, n) # <<>>
    <3>1. PICK f \in Seq(Code), l \in Code : n.linux = Append(f, l)
      BY <1>1, SequenceEmptyOrAppend DEF Text
    <3>2. l # 0
      <4>1. Len(n.linux) \in 1 .. Len(n.linux) /\ n.linux[Len(n.linux)] = l
        BY <3>1
      <4> QED BY <1>1, <4>1
    <3>3. Enc(class, n.linux) = Enc(class, f) \o Encoded(class, l) /\ Enc(class, f) \in Text /\ Encoded(class, l) \in Text
      BY <3>1, EncSteps, EncodedType, DiskTexts DEF Text
    <3>4. Encoded(class, l) # <<>>
      BY <3>2 DEF Encoded, Quoted
    <3>5. \A s, t \in Seq(Code) : s \o t = <<>> => t = <<>>
      BY ConcatSimplifications
    <3> QED BY <2>1, <3>3, <3>4, <3>5 DEF Text
  <2> QED BY <1>3, <2>1, <2>2, <2>3 DEF Free, Sep
<1> QED BY <1>2, <1>3

Goes(ns, closed) == Len(ns) > 1 \/ closed

\* What the names of a text are at its beginning.
LEMMA Begins ==
  ASSUME NEW class \in Classes, NEW ns \in Seq(Named), NEW closed \in BOOLEAN,
         NEW w \in Free(Sep(class)), NEW v \in Text
  PROVE  LET text == Joined(class, ns, closed)
             p == Cell(w, Sep(class), v)
         IN  /\ IsPrefix(p, text) <=> /\ ns # <<>> /\ Goes(ns, closed) /\ On(class, ns[1]) = w
                                      /\ IsPrefix(v, Joined(class, Tail(ns), closed))
             /\ text = p <=> /\ ns # <<>> /\ Goes(ns, closed) /\ On(class, ns[1]) = w
                             /\ Joined(class, Tail(ns), closed) = v
             /\ w # <<>> => (text = w <=> ns # <<>> /\ ~Goes(ns, closed) /\ On(class, ns[1]) = w)
<1> DEFINE text == Joined(class, ns, closed)
           z == Sep(class)
           p == Cell(w, z, v)
<1>1. Named \subseteq NameRec /\ ns \in Seq(NameRec)
  <2>1. Named \subseteq NameRec
    BY DEF Named
  <2> QED BY <2>1, SeqMonotonic
<1>2. z \in Code /\ w \in Text /\ <<z>> \in Text /\ p \in Text
  BY EndType, Words, Texts DEF Free, Cell
<1>3. p # <<>> /\ p # w
  <2>1. w \o <<z>> # w /\ w \o <<z>> # <<>>
    BY <1>2, ConcatEqualIffEmpty DEF Text
  <2>2. Len((w \o <<z>>) \o v) = Len(w \o <<z>>) + Len(v) /\ Len(w \o <<z>>) = Len(w) + 1
    <3>1. w \o <<z>> \in Text /\ Len(<<z>>) = 1
      BY <1>2, Texts
    <3> QED BY <1>2, <3>1, AppendedIs
  <2>3. Len(w) \in Nat /\ Len(v) \in Nat
    BY <1>2 DEF Text
  <2>4. Len(p) # Len(w) /\ Len(p) # 0
    BY <2>2, <2>3 DEF Cell
  <2> QED BY <2>4
<1>4. CASE ns = <<>>
  <2>1. text = <<>>
    BY <1>4, JoinedLast
  <2>2. ~IsPrefix(p, <<>>)
    <3>1. Len(p) \in Nat /\ Len(p) # 0 /\ <<>> \in Text
      <4> HIDE DEF p
      <4> QED BY <1>2, <1>3, EmptySeq DEF Text
    <3>2. ~(Len(p) <= Len(<<>>))
      <4> HIDE DEF p
      <4> QED BY <3>1
    <3> QED BY <1>2, <3>1, <3>2, PrefixIs
  <2> QED BY <1>3, <1>4, <2>1, <2>2
<1>5. CASE ns # <<>>
  <2> DEFINE a == On(class, ns[1])
             x == Joined(class, Tail(ns), closed)
  <2>1. ns[1] \in Named /\ Tail(ns) \in Seq(Named) /\ ns = <<ns[1]>> \o Tail(ns) /\ Len(Tail(ns)) = Len(ns) - 1
    BY <1>5, FirstAndLast
  <2>2. Tail(ns) \in Seq(NameRec) /\ ns[1] \in NameRec
    BY <1>1, <2>1, SeqMonotonic
  <2>3. Goes(ns, closed) <=> Tail(ns) # <<>> \/ closed
    <3>1. Len(Tail(ns)) \in Nat /\ (Tail(ns) # <<>> <=> Len(Tail(ns)) # 0) /\ Len(ns) \in Nat
      BY <2>1, EmptySeq
    <3> QED BY <2>1, <3>1 DEF Goes
  <2>4. a \in Free(z) /\ a # <<>> /\ a \in Text /\ x \in Text
    BY <2>1, <2>2, OnFree, JoinedLast DEF Free
  <2>5. text = (a \o End(class, Tail(ns) # <<>> \/ closed)) \o x
    BY <2>1, <2>2, JoinedFirst, ZenonT(60)
  <2>6. CASE Goes(ns, closed)
    <3>1. text = Cell(a, z, x)
      BY <2>3, <2>5, <2>6 DEF End, Cell
    <3> HIDE DEF a, x, z
    <3>2. /\ IsPrefix(Cell(w, z, v), Cell(a, z, x)) <=> w = a /\ IsPrefix(v, x)
          /\ Cell(w, z, v) = Cell(a, z, x) <=> w = a /\ v = x
      <4>1. w \in Free(z) /\ v \in Text /\ z \in Code /\ a \in Free(z) /\ x \in Text
        BY <1>2, <2>4 DEF z
      <4> HIDE DEF p, text
      <4>2. IsPrefix(Cell(w, z, v), Cell(a, z, x)) <=> w = a /\ IsPrefix(v, x)
        BY <1>2, <2>4, <4>1, Peel
      <4>3. Cell(w, z, v) = Cell(a, z, x) <=> w = a /\ v = x
        BY <4>1, Peel
      <4> QED BY <4>2, <4>3
    <3>3. Cell(a, z, x) # w
      <4>1. IsPrefix(Cell(a, z, x), Cell(a, z, x))
        <5>1. Cell(a, z, x) \in Text
          BY <1>2, <2>4, Texts DEF Cell
        <5> QED BY <5>1, PrefixSelf
      <4>2. ~IsPrefix(Cell(a, z, x), w)
        BY <1>2, <2>4, Peel DEF z
      <4> QED BY <4>1, <4>2
    <3>4. IsPrefix(p, text) <=> On(class, ns[1]) = w /\ IsPrefix(v, Joined(class, Tail(ns), closed))
      <4>1. IsPrefix(p, text) <=> w = a /\ IsPrefix(v, x)
        BY <3>1, <3>2
      <4> QED BY <4>1 DEF a, x
    <3>5. text = p <=> On(class, ns[1]) = w /\ Joined(class, Tail(ns), closed) = v
      <4>1. text = p <=> w = a /\ v = x
        BY <3>1, <3>2
      <4> QED BY <4>1 DEF a, x
    <3>6. text # w
      BY <3>1, <3>3
    <3> HIDE DEF p, text
    <3>7. /\ IsPrefix(p, text) <=> /\ ns # <<>> /\ Goes(ns, closed) /\ On(class, ns[1]) = w
                                   /\ IsPrefix(v, Joined(class, Tail(ns), closed))
          /\ text = p <=> /\ ns # <<>> /\ Goes(ns, closed) /\ On(class, ns[1]) = w
                          /\ Joined(class, Tail(ns), closed) = v
          /\ w # <<>> => (text = w <=> ns # <<>> /\ ~Goes(ns, closed) /\ On(class, ns[1]) = w)
      BY <1>5, <2>6, <3>4, <3>5, <3>6
    <3> QED BY <3>7 DEF p, text, z
  <2>7. CASE ~Goes(ns, closed)
    <3>1. Tail(ns) = <<>> /\ ~closed
      BY <2>3, <2>7
    <3>2. text = a
      <4>1. x = <<>> /\ End(class, Tail(ns) # <<>> \/ closed) = <<>>
        BY <3>1, JoinedLast DEF End
      <4> HIDE DEF a, x
      <4> QED BY <2>4, <2>5, <4>1, Joining, ZenonT(60)
    <3>3. ~IsPrefix(p, a)
      BY <1>2, <2>4, Peel
    <3>4. a # p
      <4>1. IsPrefix(p, p)
        <5>1. Len(p) \in Nat
          <6> HIDE DEF p
          <6> QED BY <1>2 DEF Text
        <5> HIDE DEF p
        <5> QED BY <1>2, <5>1, PrefixIs
      <4> QED BY <3>3, <4>1
    <3> QED BY <1>5, <2>7, <3>2, <3>3, <3>4
  <2> QED BY <2>6, <2>7
<1> QED BY <1>4, <1>5

\* Names are spelled one by one.
LEMMA JoinedSpelled ==
  ASSUME NEW class \in Disks, NEW ns \in Seq(Named), NEW closed \in BOOLEAN
  PROVE  Joined(class, ns, closed) = Enc(class, Joined("linux", ns, closed))
<1> DEFINE J(s, c) == Joined("linux", s, c)
           S == {s \in Seq(Named) : Joined(class, s, TRUE) = Enc(class, J(s, TRUE))}
<1>1. Named \subseteq NameRec
  BY DEF Named
<1>2. Enc(class, <<Slash>>) = <<Back>>
  <2>1. Encoded(class, Slash) = <<Back>>
    BY DEF Encoded, IsSpecial, Slash, Hash, Colon, Back
  <2>2. <<>> \in Text /\ <<Slash>> = Append(<<>>, Slash) /\ Slash \in Code
    BY Words, Signs
  <2>3. Enc(class, Append(<<>>, Slash)) = Enc(class, <<>>) \o Encoded(class, Slash)
    BY <2>2, EncSteps
  <2>4. <<>> \o <<Back>> = <<Back>>
    BY Words, Joining
  <2> QED BY <2>1, <2>2, <2>3, <2>4, EncSteps
<1>3. ASSUME NEW s \in Seq(Named), NEW n \in Named, NEW c \in BOOLEAN, Joined(class, s, TRUE) = Enc(class, J(s, TRUE))
      PROVE  Joined(class, Append(s, n), c) = Enc(class, J(Append(s, n), c))
  <2> DEFINE d == On("linux", n) \o End("linux", c)
  <2>1. s \in Seq(NameRec) /\ n \in NameRec /\ class # "linux"
    BY <1>1, SeqMonotonic DEF Disks
  <2>2. On("linux", n) \in Text /\ End("linux", c) \in Text /\ d \in Text /\ J(s, TRUE) \in Text
    BY <2>1, OnIsText, EndType, Texts, JoinedLast
  <2>3. On(class, n) = Enc(class, On("linux", n))
    BY DEF Named, On
  <2>4. End(class, c) = Enc(class, End("linux", c))
    BY <1>2, <2>1, EncSteps DEF End, Sep
  <2>5. Enc(class, d) = On(class, n) \o End(class, c)
    <3>1. Enc(class, On("linux", n) \o End("linux", c)) = Enc(class, On("linux", n)) \o Enc(class, End("linux", c))
      BY <2>2, EncJoins
    <3> QED BY <2>3, <2>4, <3>1
  <2>6. Enc(class, J(s, TRUE) \o d) = Enc(class, J(s, TRUE)) \o Enc(class, d)
    BY <2>2, EncJoins
  <2>7. J(Append(s, n), c) = J(s, TRUE) \o d
    BY <2>1, JoinedLast
  <2>8. Joined(class, Append(s, n), c) = Joined(class, s, TRUE) \o (On(class, n) \o End(class, c))
    BY <2>1, JoinedLast
  <2> QED BY <1>3, <2>5, <2>6, <2>7, <2>8
<1>4. \A c \in BOOLEAN : Joined(class, <<>>, c) = Enc(class, J(<<>>, c))
  BY JoinedLast, EncSteps
<1>5. S = Seq(Named)
  <2>1. S \in SUBSET Seq(Named) /\ <<>> \in S
    BY <1>4, EmptySeq
  <2>2. ASSUME NEW s \in S, NEW n \in Named PROVE Append(s, n) \in S
    <3>1. s \in Seq(Named) /\ Joined(class, s, TRUE) = Enc(class, J(s, TRUE))
      OBVIOUS
    <3>2. Append(s, n) \in Seq(Named)
      BY <3>1
    <3> QED BY <1>3, <3>1, <3>2
  <2> HIDE DEF S
  <2> QED BY <2>1, <2>2, SeqInduction
<1>6. CASE ns # <<>>
  <2>1. PICK f \in Seq(Named), l \in Named : ns = Append(f, l)
    BY <1>6, FirstAndLast, ZenonT(60)
  <2>2. Joined(class, f, TRUE) = Enc(class, J(f, TRUE))
    BY <1>5
  <2> QED BY <1>3, <2>1, <2>2
<1> QED BY <1>4, <1>6

(* Reading back what append has written. *)

\* A text has a length.
LEMMA LenIsNat == \A t \in Text : Len(t) \in Nat
BY DEF Text

\* All of a text may be of the kind.
LEMMA SpanAll ==
  ASSUME NEW s \in Text, NEW S, \A i \in 1 .. Len(s) : s[i] \in S
  PROVE  Span(s, S) = Len(s)
<1> DEFINE I == {i \in 1 .. Len(s) : s[i] \notin S}
<1>1. Span(s, S) = LET k == IF I # {} THEN Min(I) ELSE 0 IN IF k = 0 THEN Len(s) ELSE k - 1
  BY DEF Span, SelectInSeq
<1>2. I = {}
  OBVIOUS
<1> QED BY <1>1, <1>2

\* What stoi makes of four digits: the number that they are.
LEMMA NumberOfDigits ==
  ASSUME NEW s \in Text, Len(s) = 4, \A i \in 1 .. 4 : s[i] \in DOMAIN Digit
  PROVE  Number(s) = 16 * (16 * (16 * Digit[s[1]] + Digit[s[2]]) + Digit[s[3]]) + Digit[s[4]]
<1>1. \A c \in DOMAIN Digit : c \notin Blanks /\ c \notin {43, 45, 88, 120}
  BY DEF Digit, Blanks
<1>2. Span(s, Blanks) = 0
  <2>1. Span(s, Blanks) \in 0 .. 4 /\ \A i \in 1 .. Span(s, Blanks) : s[i] \in Blanks
    BY SpanIs
  <2>2. s[1] \notin Blanks
    BY <1>1
  <2> QED BY <2>1, <2>2
<1>3. From(s, 0 + 1) = s
  BY DEF From, Text
<1>4. s # <<>> /\ Head(s) = s[1] /\ s[1] \notin {43, 45} /\ s[2] \notin {88, 120}
  <2>1. s # <<>> /\ Head(s) = s[1]
    <3>1. \A u \in Seq(Code) : u # <<>> => Head(u) = u[1]
      BY HeadTailProperties
    <3>2. \A u : u = <<>> => Len(u) # 4
      OBVIOUS
    <3> QED BY <3>1, <3>2 DEF Text
  <2>2. s[1] \in DOMAIN Digit /\ s[2] \in DOMAIN Digit
    OBVIOUS
  <2> QED BY <1>1, <2>1, <2>2
<1>5. Number(s) = Digits(s)
  <2>1. Number(s) = Signed(s)
    BY <1>2, <1>3 DEF Number
  <2>2. Signed(s) = Unsigned(s)
    BY <1>4 DEF Signed
  <2>3. Unsigned(s) = Digits(s)
    BY <1>4 DEF Unsigned
  <2> QED BY <2>1, <2>2, <2>3
<1>6. Span(s, DOMAIN Digit) = 4 /\ SubSeq(s, 1, 4) = s
  <2>1. Span(s, DOMAIN Digit) = 4
    BY SpanAll
  <2> QED BY <2>1 DEF Text
<1>7. Digits(s) = Value(s)
  BY <1>4, <1>6, ZenonT(60) DEF Digits, Value
<1>8. s \in Seq(DOMAIN Digit)
  <2>1. \A X, Y : \A t \in Seq(X) : (\A i \in 1 .. Len(t) : t[i] \in Y) => t \in Seq(Y)
    BY SeqDef, LenProperties
  <2> QED BY <2>1 DEF Text
<1>9. PICK f \in [0 .. 4 -> Nat] :
        f[0] = 0 /\ f[4] = Value(s) /\ \A k \in 1 .. 4 : f[k] = 16 * f[k - 1] + Digit[s[k]]
  BY <1>8, DigitsSteps
<1>10. \A i \in 1 .. 4 : Digit[s[i]] \in 0 .. 15
  BY DigitValue
<1>11. f[1] = Digit[s[1]] /\ f[2] = 16 * f[1] + Digit[s[2]] /\ f[3] = 16 * f[2] + Digit[s[3]] /\ f[4] = 16 * f[3] + Digit[s[4]]
  <2>1. f[1] = 16 * f[0] + Digit[s[1]] /\ f[2] = 16 * f[1] + Digit[s[2]]
        /\ f[3] = 16 * f[2] + Digit[s[3]] /\ f[4] = 16 * f[3] + Digit[s[4]]
    BY <1>9
  <2> QED BY <1>9, <1>10, <2>1
<1> QED BY <1>5, <1>7, <1>9, <1>11

\* Decoded is the function that Read describes, from its first character on.
LEMMA DecodedIs ==
  ASSUME NEW class, NEW data \in Text, class # "v2"
  PROVE  \E g : IsRead(g, data, 1 .. Len(data) + 5) /\ Decoded(class, data) = g[1]
<1> DEFINE P(g) == g = [i \in 1 .. Len(data) + 5 |-> Read(data, i, g[i + 1], g[i + 5])]
           read == CHOOSE g : P(g)
<1>1. Decoded(class, data) = read[1]
  <2>1. Decoded(class, data) =
          IF class = "v2" THEN [chars |-> [i \in DOMAIN data |-> IF IsSpecial(Xor(data[i])) THEN Xor(data[i])
                                            ELSE IF data[i] = Back THEN Slash ELSE data[i]], throws |-> FALSE]
          ELSE read[1]
    BY Zenon DEF Decoded, Read, Put
  <2> HIDE DEF read
  <2> QED BY <2>1
<1>2. P(read)
  <2>1. PICK g \in [1 .. Len(data) + 5 -> Reading] : IsRead(g, data, 1 .. Len(data) + 5)
    BY ReadExists
  <2>2. g = [i \in 1 .. Len(data) + 5 |-> Read(data, i, g[i + 1], g[i + 5])]
    <3>1. g = [i \in 1 .. Len(data) + 5 |-> g[i]]
      OBVIOUS
    <3> QED BY <2>1, <3>1 DEF IsRead
  <2> QED BY <2>2
<1>3. IsRead(read, data, 1 .. Len(data) + 5)
  <2> HIDE DEF read
  <2> QED BY <1>2 DEF IsRead
<1> HIDE DEF read
<1> QED BY <1>1, <1>3

\* Where a text begins behind another one.
LEMMA PlaceBehind ==
  ASSUME NEW a \in Text, NEW b \in Text, NEW c \in Text
  PROVE  /\ a \o (b \o c) \in Text /\ Len(a \o (b \o c)) = Len(a) + Len(b) + Len(c)
         /\ \A i \in 1 .. Len(b) : (a \o (b \o c))[Len(a) + i] = b[i]
<1>1. b \o c \in Text /\ Len(b \o c) = Len(b) + Len(c) /\ \A i \in 1 .. Len(b) : (b \o c)[i] = b[i]
  BY AppendedIs
<1>2. a \o (b \o c) \in Text /\ Len(a \o (b \o c)) = Len(a) + Len(b \o c)
      /\ \A i \in 1 .. Len(b \o c) : (a \o (b \o c))[Len(a) + i] = (b \o c)[i]
  BY <1>1, AppendedIs
<1>3. Len(a) \in Nat /\ Len(b) \in Nat /\ Len(c) \in Nat
  BY DEF Text
<1>4. \A i \in 1 .. Len(b) : i \in 1 .. Len(b \o c)
  BY <1>1, <1>3
<1> QED BY <1>1, <1>2, <1>3, <1>4

\* Reading one more character puts it before the others.
LEMMA PutBefore ==
  ASSUME NEW c, NEW t
  PROVE  Put(c, [chars |-> t, throws |-> FALSE]) = [chars |-> <<c>> \o t, throws |-> FALSE]
<1> DEFINE was == [chars |-> t, throws |-> FALSE]
           y == <<c>> \o t
<1>1. Put(c, was) = [was EXCEPT !.chars = y]
  <2>1. was.chars = t
    OBVIOUS
  <2> HIDE DEF was
  <2> QED BY <2>1, Zenon DEF Put
<1> HIDE DEF y
<1>2. [was EXCEPT !.chars = y] = [chars |-> y, throws |-> FALSE]
  <2> DEFINE new == [was EXCEPT !.chars = y]
             R == [chars : {t, y}, throws : {FALSE}]
  <2>1. new \in R /\ new.chars = y /\ new.throws = FALSE
    OBVIOUS
  <2>2. \A r \in R : r = [chars |-> r.chars, throws |-> r.throws]
    OBVIOUS
  <2> HIDE DEF new
  <2> QED BY <2>1, <2>2 DEF new
<1> QED BY <1>1, <1>2 DEF y

\* What version 1 and legacy make of a text is read back as the text, and stoi never throws.
THEOREM VersionOneSpelling ==
  ASSUME NEW class \in {"v1", "legacy"}, NEW text \in Seq(Code \ {0})
  PROVE  Decoded(class, Enc(class, text)) = [chars |-> text, throws |-> FALSE]
<1> DEFINE D == Code \ {0}
           data == Enc(class, text)
           n == Len(text)
           m == Len(data)
           Is(r, t) == r = [chars |-> t, throws |-> FALSE]
<1>1. \A t \in Seq(D) : t \in Text
  <2>1. D \subseteq Code
    OBVIOUS
  <2> HIDE DEF D
  <2> QED BY <2>1, SeqMonotonic DEF Text
<1>2. data \in Text /\ n \in Nat /\ m \in Nat
  <2>1. text \in Text /\ data \in Text
    BY <1>1, EncSteps, DiskTexts
  <2> HIDE DEF data
  <2> QED BY <2>1, LenIsNat
<1>3. PICK g : IsRead(g, data, 1 .. m + 5) /\ Decoded(class, data) = g[1]
  BY <1>2, DecodedIs
<1> HIDE DEF data, m
<1> DEFINE K == {k \in Nat : \A a, b \in Seq(D) : text = a \o b /\ Len(b) = k => Is(g[Len(Enc(class, a)) + 1], b)}
<1>4. 0 \in K
  <2>1. ASSUME NEW a \in Seq(D), NEW b \in Seq(D), text = a \o b, Len(b) = 0 PROVE Is(g[Len(Enc(class, a)) + 1], b)
    <3>1. b = <<>> /\ text = a
      BY <1>1, <2>1, EmptySeq, Joining
    <3>2. Enc(class, a) = data
      BY <3>1 DEF data
    <3>3. m + 1 \in 1 .. m + 5 /\ m + 1 > m
      BY <1>2
    <3>4. g[m + 1] = Read(data, m + 1, g[m + 1 + 1], g[m + 1 + 5])
      BY <1>3, <3>3 DEF IsRead
    <3> QED BY <3>1, <3>2, <3>3, <3>4 DEF Read, m
  <2> QED BY <2>1
<1>5. ASSUME NEW k \in K PROVE k + 1 \in K
  <2>1. ASSUME NEW a \in Seq(D), NEW b \in Seq(D), text = a \o b, Len(b) = k + 1
        PROVE  Is(g[Len(Enc(class, a)) + 1], b)
    <3> DEFINE c == b[1]
               r == Tail(b)
               p == Len(Enc(class, a))
               e == Encoded(class, c)
               rest == Enc(class, r)
    <3>1. k \in Nat /\ b # <<>>
      BY <2>1
    <3>2. c \in D /\ r \in Seq(D) /\ b = <<c>> \o r /\ Len(r) = k
      BY <2>1, <3>1, FirstAndLast
    <3>3. c \in Code /\ c # 0 /\ a \in Text /\ r \in Text /\ Append(a, c) \in Seq(D)
      BY <1>1, <3>2, AppendProperties
    <3> HIDE DEF c, r
    <3>4. text = Append(a, c) \o r
      <4>1. a \in Text /\ <<c>> \in Text /\ r \in Text
        BY <3>3, Words, Texts
      <4>2. (a \o <<c>>) \o r = a \o (<<c>> \o r) /\ Append(a, c) = a \o <<c>>
        BY <3>3, <4>1, Joining
      <4> QED BY <2>1, <3>2, <4>2
    <3>5. Is(g[Len(Enc(class, Append(a, c))) + 1], r)
      BY <3>2, <3>3, <3>4
    <3>6. e \in Text /\ Enc(class, a) \in Text /\ rest \in Text /\ p \in Nat /\ Len(e) \in Nat
      <4>1. e \in Text /\ Enc(class, a) \in Text /\ rest \in Text
        BY <3>3, EncSteps, EncodedType, DiskTexts
      <4> HIDE DEF e
      <4> QED BY <4>1, LenIsNat
    <3>7. Enc(class, Append(a, c)) = Enc(class, a) \o e
      BY <3>3, EncSteps
    <3>8. data = Enc(class, a) \o (e \o rest)
      <4>1. data = Enc(class, Append(a, c)) \o rest
        BY <1>1, <3>3, <3>4, EncJoins DEF data
      <4> HIDE DEF e, rest
      <4>2. (Enc(class, a) \o e) \o rest = Enc(class, a) \o (e \o rest)
        BY <3>6, Joining, Zenon
      <4> QED BY <3>7, <4>1, <4>2
    <3>9. Len(Enc(class, Append(a, c))) = p + Len(e)
      <4> HIDE DEF e
      <4> QED BY <3>6, <3>7, AppendedIs
    <3>10. m = p + Len(e) + Len(rest) /\ Len(rest) \in Nat /\ \A i \in 1 .. Len(e) : data[p + i] = e[i]
      <4> HIDE DEF e, rest
      <4>1. Len(rest) \in Nat
        BY <3>6, LenIsNat
      <4> DEFINE x == Enc(class, a)
                 whole == x \o (e \o rest)
      <4>2. x \in Text /\ p = Len(x) /\ data = whole
        BY <3>6, <3>8
      <4> HIDE DEF x, p
      <4>3. Len(whole) = Len(x) + Len(e) + Len(rest) /\ \A i \in 1 .. Len(e) : whole[Len(x) + i] = e[i]
        BY <3>6, <4>2, PlaceBehind, ZenonT(60)
      <4> HIDE DEF whole
      <4> QED BY <4>1, <4>2, <4>3 DEF m
    <3> HIDE DEF e, rest, p
    <3>11. p + 1 \in 1 .. m + 5
      BY <3>6, <3>10
    <3>12. g[p + 1] = Read(data, p + 1, g[p + 1 + 1], g[p + 1 + 5])
      BY <1>3, <3>11 DEF IsRead
    <3>13. Put(c, [chars |-> r, throws |-> FALSE]) = [chars |-> b, throws |-> FALSE]
      BY <3>2, PutBefore
    <3>14. Is(g[p + Len(e) + 1], r)
      BY <3>5, <3>9
    <3>15. CASE IsSpecial(c) \/ c = Hash
      <4>1. e = Quoted(c)
        BY <3>15 DEF Encoded, e
      <4>2. Len(e) = 5 /\ e[1] = Hash /\ (\A i \in 2 .. 5 : e[i] \in DOMAIN Digit)
            /\ 16 * (16 * (16 * Digit[e[2]] + Digit[e[3]]) + Digit[e[4]]) + Digit[e[5]] = c
        BY <3>3, <4>1, VersionOneQuotes
      <4>3. p + 1 <= m /\ p + 1 + 4 <= m /\ data[p + 1] = Hash
        BY <3>6, <3>10, <4>2
      <4> DEFINE q == SubSeq(data, p + 1 + 1, p + 1 + 4)
      <4>4. q \in Text /\ Len(q) = 4 /\ \A i \in 1 .. 4 : q[i] = data[p + 1 + i]
        <5>1. \A s \in Seq(Code) : \A x \in Nat : x + 4 <= Len(s) =>
                /\ SubSeq(s, x + 1, x + 4) \in Seq(Code) /\ Len(SubSeq(s, x + 1, x + 4)) = 4
                /\ \A i \in 1 .. 4 : SubSeq(s, x + 1, x + 4)[i] = s[x + i]
          <6>1. SUFFICES ASSUME NEW s \in Seq(Code), NEW x \in Nat, x + 4 <= Len(s)
                         PROVE  /\ SubSeq(s, x + 1, x + 4) \in Seq(Code) /\ Len(SubSeq(s, x + 1, x + 4)) = 4
                                /\ \A i \in 1 .. 4 : SubSeq(s, x + 1, x + 4)[i] = s[x + i]
            OBVIOUS
          <6>2. \A i \in x + 1 .. x + 4 : i \in 1 .. Len(s)
            BY <6>1
          <6>3. x + 4 - (x + 1) + 1 = 4 /\ x + 1 <= x + 4 + 1 /\ \A i \in 1 .. 4 : (x + 1) + i - 1 = x + i
            OBVIOUS
          <6> QED BY <6>2, <6>3, SubSeqProperties
        <5>2. p + 1 \in Nat
          BY <3>6
        <5>3. data \in Seq(Code) /\ p + 1 + 4 <= Len(data)
          BY <1>2, <4>3 DEF Text, m
        <5> HIDE DEF q
        <5>4. q = SubSeq(data, p + 1 + 1, p + 1 + 4)
          BY DEF q
        <5> QED BY <5>1, <5>2, <5>3, <5>4 DEF Text
      <4>5. \A i \in 1 .. 4 : q[i] = e[1 + i]
        <5>1. \A i \in 1 .. 4 : 1 + i \in 1 .. Len(e) /\ p + 1 + i = p + (1 + i)
          BY <3>6, <4>2
        <5> HIDE DEF q
        <5> QED BY <3>10, <4>4, <5>1
      <4> HIDE DEF q
      <4>6. Number(q) = c
        <5>1. q[1] = e[2] /\ q[2] = e[3] /\ q[3] = e[4] /\ q[4] = e[5]
          BY <4>5
        <5>2. \A i \in 1 .. 4 : q[i] \in DOMAIN Digit
          BY <4>2, <4>5
        <5> QED BY <4>2, <4>4, <5>1, <5>2, NumberOfDigits
      <4>7. c # NoNumber
        BY <3>3, CodeUnit DEF NoNumber
      <4>8. Read(data, p + 1, g[p + 1 + 1], g[p + 1 + 5]) = Put(c, g[p + 1 + 5])
        <5>1. ~(p + 1 > Len(data)) /\ p + 1 <= Len(data) /\ ~(p + 1 + 4 > Len(data))
          BY <1>2, <3>6, <4>3 DEF m
        <5> HIDE DEF Hash, NoNumber
        <5> QED BY <4>3, <4>6, <4>7, <5>1 DEF Read, q
      <4>9. p + 1 + 5 = p + Len(e) + 1
        BY <3>6, <4>2
      <4> QED BY <3>12, <3>13, <3>14, <4>8, <4>9 DEF p
    <3>16. CASE ~(IsSpecial(c) \/ c = Hash)
      <4> DEFINE x == IF c = Slash THEN Back ELSE c
      <4>1. e = <<x>>
        BY <3>3, <3>16 DEF Encoded, e
      <4>2. x # Hash /\ (IF x = Back THEN Slash ELSE x) = c
        BY <3>16 DEF IsSpecial, Hash, Slash, Back
      <4> HIDE DEF x
      <4>3. Len(e) = 1 /\ e[1] = x
        BY <4>1
      <4>4. data[p + 1] = x /\ p + 1 <= m
        BY <3>6, <3>10, <4>3
      <4>5. Read(data, p + 1, g[p + 1 + 1], g[p + 1 + 5]) = Put(c, g[p + 1 + 1])
        <5>1. ~(p + 1 > Len(data)) /\ data[p + 1] # Hash
          BY <1>2, <3>6, <4>2, <4>4 DEF m
        <5> HIDE DEF Hash, Back, Slash
        <5> QED BY <4>2, <4>4, <5>1 DEF Read
      <4>6. p + Len(e) + 1 = p + 1 + 1
        BY <3>6, <4>3
      <4> QED BY <3>12, <3>13, <3>14, <4>5, <4>6 DEF p
    <3> QED BY <3>15, <3>16 DEF p
  <2> HIDE DEF Is
  <2>2. k + 1 \in Nat
    OBVIOUS
  <2> QED BY <2>1, <2>2, Zenon
<1>6. K = Nat
  <2>1. K \in SUBSET Nat
    OBVIOUS
  <2> HIDE DEF K
  <2> QED BY <1>4, <1>5, <2>1, Upwards
<1>7. Is(g[Len(Enc(class, <<>>)) + 1], text)
  <2>1. <<>> \in Seq(D) /\ text \in Seq(D) /\ text = <<>> \o text
    <3>1. <<>> \in Seq(D) /\ text \in Text
      BY <1>1, EmptySeq
    <3> QED BY <3>1, Joining
  <2>2. n \in K
    BY <1>2, <1>6
  <2> HIDE DEF Is
  <2> QED BY <2>1, <2>2
<1>8. Len(Enc(class, <<>>)) + 1 = 1
  BY EncSteps
<1> QED BY <1>3, <1>7, <1>8 DEF data

(* Appending a text *)

Next1(done, c) == IF done.ok THEN AppendChar(done.path, c) ELSE done

\* The paths that appending a text goes through.
LEMMA AppendAllSteps ==
  ASSUME NEW path, NEW text \in Text, NEW X, [path |-> path, ok |-> TRUE] \in X,
         \A done \in X, c \in Code : Next1(done, c) \in X
  PROVE  \E f \in [0 .. Len(text) -> X] :
           /\ f[0] = [path |-> path, ok |-> TRUE] /\ f[Len(text)] = AppendAll(path, text)
           /\ \A k \in 1 .. Len(text) : f[k] = Next1(f[k - 1], text[k])
<1> DEFINE base == [path |-> path, ok |-> TRUE]
           Op(done, c) == IF done.ok THEN AppendChar(done.path, c) ELSE done
           n == Len(text)
           step == [z \in (1 .. n) \X X |-> Op(z[2], text[z[1]])]
           P(g) == g = [s \in SUBSET DOMAIN text |->
                      IF s = {} THEN base ELSE Op(g[s \ {Max(s)}], text[Max(s)])]
           iter == CHOOSE g : P(g)
<1>1. AppendAll(path, text) = iter[DOMAIN text]
  BY Zenon DEF AppendAll, FoldLeft, MapThenFoldSet
<1>2. DOMAIN text = 1 .. n /\ n \in Nat /\ \A k \in 1 .. n : text[k] \in Code
  BY DEF Text
<1>3. base \in X /\ \A done \in X, c \in Code : Op(done, c) \in X
  BY DEF Next1
<1> HIDE DEF base, Op, n
<1>4. step \in [(1 .. n) \X X -> X]
  BY <1>2, <1>3
<1>5. \E g : P(g)
  <2>1. PICK g \in [SUBSET (1 .. n) -> X] : IsFold(g, n, base, step)
    <3> HIDE DEF step
    <3> QED BY <1>2, <1>3, <1>4, FoldExists DEF Folds
  <2>2. ASSUME NEW s \in SUBSET (1 .. n), s # {}
        PROVE  Max(s) \in 1 .. n /\ g[s \ {Max(s)}] \in X
    <3>1. Max(s) \in s
      BY <1>2, <2>2, MaxIn
    <3> QED BY <3>1
  <2>3. \A s \in SUBSET (1 .. n) : g[s] = IF s = {} THEN base ELSE Op(g[s \ {Max(s)}], text[Max(s)])
    BY <2>1, <2>2 DEF IsFold
  <2>4. g = [s \in SUBSET (1 .. n) |-> g[s]]
    OBVIOUS
  <2> QED BY <1>2, <2>3, <2>4
<1>6. P(iter)
  BY <1>5
<1> HIDE DEF iter
<1> DEFINE f == [k \in 0 .. n |-> iter[1 .. k]]
<1>7. f[0] = base
  <2>1. {} \in SUBSET DOMAIN text /\ 1 .. 0 = {}
    OBVIOUS
  <2> QED BY <1>2, <1>6, <2>1
<1>8. ASSUME NEW k \in 1 .. n PROVE f[k] = Op(f[k - 1], text[k])
  <2>1. Max(1 .. k) = k /\ (1 .. k) \ {k} = 1 .. (k - 1) /\ 1 .. k # {}
    <3>1. k \in Nat \ {0}
      BY <1>2
    <3> QED BY <3>1, MaxOfRange
  <2>2. 1 .. k \in SUBSET DOMAIN text
    BY <1>2
  <2>3. iter[1 .. k] = Op(iter[1 .. (k - 1)], text[k])
    BY <1>6, <2>1, <2>2
  <2> QED BY <1>2, <2>3
<1>9. f \in [0 .. n -> X]
  <2>1. \A k \in 1 .. n : f[k - 1] \in X => f[k] \in X
    BY <1>2, <1>3, <1>8, ZenonT(60)
  <2>2. \A k \in 0 .. n : f[k] \in X
    <3> HIDE DEF f
    <3>1. f[0] \in X
      BY <1>3, <1>7
    <3> QED BY <1>2, <2>1, <3>1, Along
  <2> QED BY <2>2
<1>10. f[n] = AppendAll(path, text)
  <2>1. f[n] = iter[DOMAIN text]
    BY <1>2
  <2> HIDE DEF f
  <2> QED BY <1>1, <2>1
<1> HIDE DEF f
<1> QED BY <1>7, <1>8, <1>9, <1>10 DEF Op, n, base, Next1

Appendings(class) == [path : DiskPaths(class), ok : BOOLEAN]

\* Appending leads from a path and a result to a path and a result.
LEMMA NextType ==
  ASSUME NEW class \in Classes, NEW done \in Appendings(class), NEW c \in Code
  PROVE  Next1(done, c) \in Appendings(class)
<1>1. done.path \in DiskPaths(class)
  BY DEF Appendings
<1>2. AppendChar(done.path, c).path \in DiskPaths(class) /\ AppendChar(done.path, c).ok \in BOOLEAN
  BY <1>1, AppendType
<1>3. AppendChar(done.path, c) = [path |-> AppendChar(done.path, c).path, ok |-> AppendChar(done.path, c).ok]
  BY DEF AppendChar, AppendLinux, AppendWsl, AppendLegacy
<1> QED BY <1>2, <1>3 DEF Appendings, Next1

\* A text is appended one character after the other.
LEMMA AppendAllAppend ==
  ASSUME NEW class \in Classes, NEW path \in DiskPaths(class)
  PROVE  /\ AppendAll(path, <<>>) = [path |-> path, ok |-> TRUE]
         /\ \A text \in Text, c \in Code : AppendAll(path, Append(text, c)) = Next1(AppendAll(path, text), c)
<1> DEFINE X == Appendings(class)
           base == [path |-> path, ok |-> TRUE]
           Is(f, text) == /\ f[0] = base /\ f[Len(text)] = AppendAll(path, text)
                          /\ \A k \in 1 .. Len(text) : f[k] = Next1(f[k - 1], text[k])
<1>1. base \in X /\ \A done \in X, c \in Code : Next1(done, c) \in X
  <2>1. base \in X
    BY DEF Appendings
  <2> HIDE DEF base
  <2> QED BY <2>1, NextType
<1>2. \A text \in Text : \E f \in [0 .. Len(text) -> X] : Is(f, text)
  <2>1. base \in X => [path |-> path, ok |-> TRUE] \in X
    OBVIOUS
  <2> HIDE DEF X
  <2> QED BY <1>1, AppendAllSteps
<1> HIDE DEF X
<1>3. AppendAll(path, <<>>) = base
  <2>1. <<>> \in Text /\ Len(<<>>) = 0
    BY Words
  <2>2. PICK f \in [0 .. Len(<<>>) -> X] : Is(f, <<>>)
    BY <1>2, <2>1
  <2> QED BY <2>1, <2>2
<1>4. ASSUME NEW text \in Text, NEW c \in Code
      PROVE  AppendAll(path, Append(text, c)) = Next1(AppendAll(path, text), c)
  <2> DEFINE n == Len(text)
             more == Append(text, c)
  <2>1. n \in Nat /\ more \in Text /\ Len(more) = n + 1 /\ more[n + 1] = c /\ \A k \in 1 .. n : more[k] = text[k]
    BY AppendProperties DEF Text
  <2> HIDE DEF n, more
  <2>2. PICK f \in [0 .. n -> X] : Is(f, text)
    BY <1>2 DEF n
  <2>3. PICK g \in [0 .. n + 1 -> X] : Is(g, more)
    BY <1>2, <2>1, ZenonT(60)
  <2>4. /\ f[0] = base /\ f[n] = AppendAll(path, text) /\ \A k \in 1 .. n : f[k] = Next1(f[k - 1], text[k])
        /\ g[0] = base /\ g[n + 1] = AppendAll(path, more) /\ \A k \in 1 .. n + 1 : g[k] = Next1(g[k - 1], more[k])
    BY <2>1, <2>2, <2>3 DEF n
  <2> DEFINE S == {k \in Nat : k <= n => f[k] = g[k]}
  <2>5. 0 \in S
    BY <2>4
  <2>6. ASSUME NEW k \in S PROVE k + 1 \in S
    <3>1. SUFFICES ASSUME k + 1 <= n PROVE f[k + 1] = g[k + 1]
      BY <2>6
    <3>2. k + 1 \in 1 .. n /\ k + 1 \in 1 .. n + 1 /\ (k + 1) - 1 = k /\ f[k] = g[k]
      BY <2>1, <2>6, <3>1
    <3> QED BY <2>1, <2>4, <3>2
  <2>7. S = Nat
    <3>1. S \in SUBSET Nat
      OBVIOUS
    <3> HIDE DEF S
    <3> QED BY <2>5, <2>6, <3>1, Upwards
  <2>8. f[n] = g[n] /\ n + 1 \in 1 .. n + 1 /\ (n + 1) - 1 = n
    BY <2>1, <2>7
  <2>9. g[n + 1] = Next1(g[n], more[n + 1])
    BY <2>4, <2>8
  <2> QED BY <2>1, <2>4, <2>8, <2>9 DEF more
<1> QED BY <1>3, <1>4

-----------------------------------------------------------------------------
(* Matchers *)

Live(t, patterns) == \E p \in patterns : IsStrictPrefix(t, p)
After(t, patterns) == IF Live(t, patterns) THEN [done |-> FALSE, seen |-> t] ELSE Over
Pure(patterns) == patterns \subseteq Text /\ \A p, q \in patterns : ~IsStrictPrefix(p, q)

\* The beginnings of a text with one character more.
LEMMA PrefixOfAppend ==
  ASSUME NEW p \in Text, NEW t \in Text, NEW c \in Code
  PROVE  /\ IsPrefix(p, Append(t, c)) <=> IsPrefix(p, t) \/ p = Append(t, c)
         /\ IsPrefix(Append(t, c), p) => IsStrictPrefix(t, p)
         /\ IsStrictPrefix(t, Append(t, c))
<1> DEFINE n == Len(t)
           u == Append(t, c)
<1>1. n \in Nat /\ u \in Text /\ Len(u) = n + 1 /\ (\A i \in 1 .. n : u[i] = t[i]) /\ Len(p) \in Nat
  BY AppendProperties, LenIsNat DEF Text
<1> HIDE DEF n, u
<1>2. IsPrefix(t, u) /\ t # u
  <2>1. n <= Len(u)
    BY <1>1
  <2> QED BY <1>1, <2>1, PrefixIs DEF n
<1>3. ASSUME IsPrefix(p, u), p # u PROVE IsPrefix(p, t)
  <2>1. Len(p) <= n + 1 /\ \A i \in 1 .. Len(p) : p[i] = u[i]
    BY <1>1, <1>3, PrefixIs
  <2>2. Len(p) # n + 1
    <3>1. \A a, b \in Text : Len(a) = Len(b) /\ (\A i \in 1 .. Len(a) : a[i] = b[i]) => a = b
      BY SeqEqual DEF Text
    <3> QED BY <1>1, <1>3, <2>1, <3>1
  <2>3. Len(p) <= n /\ \A i \in 1 .. Len(p) : i \in 1 .. n
    BY <1>1, <2>1, <2>2
  <2> QED BY <1>1, <2>1, <2>3, PrefixIs DEF n
<1>4. IsPrefix(p, t) => IsPrefix(p, u)
  BY <1>1, <1>2, PrefixTrans
<1>5. IsPrefix(u, u)
  BY <1>1, PrefixSelf
<1>6. ASSUME IsPrefix(u, p) PROVE IsPrefix(t, p) /\ t # p
  <2>1. IsPrefix(t, p)
    BY <1>1, <1>2, <1>6, PrefixTrans
  <2>2. n + 1 <= Len(p)
    BY <1>1, <1>6, PrefixIs
  <2> QED BY <1>1, <2>1, <2>2 DEF n
<1> QED BY <1>2, <1>3, <1>4, <1>5, <1>6 DEF u, IsStrictPrefix

\* A matcher that goes on has seen one more character.
LEMMA SeenChanges ==
  ASSUME NEW t \in Text, NEW u \in Text
  PROVE  [[done |-> FALSE, seen |-> t] EXCEPT !.seen = u] = [done |-> FALSE, seen |-> u]
<1> DEFINE m == [[done |-> FALSE, seen |-> t] EXCEPT !.seen = u]
           R == [done : {FALSE}, seen : Text]
<1>1. m \in R /\ m.seen = u /\ m.done = FALSE
  OBVIOUS
<1>2. \A r \in R : r = [done |-> r.done, seen |-> r.seen]
  OBVIOUS
<1> HIDE DEF m
<1> QED BY <1>1, <1>2 DEF m

\* What a matcher makes of one character more.
LEMMA MoveSteps ==
  ASSUME NEW patterns, Pure(patterns), NEW t \in Text, NEW c \in Code
  PROVE  LET move == Move(After(t, patterns), c, patterns)
             more == Append(t, c)
         IN  /\ move.m = After(more, patterns)
             /\ move.result = IF more \in patterns THEN "succeeded"
                              ELSE IF Live(t, patterns) /\ ~Live(more, patterns) THEN "failed" ELSE "unknown"
<1> DEFINE more == Append(t, c)
           m == After(t, patterns)
<1>1. more \in Text
  BY Texts
<1>2. Live(more, patterns) \/ more \in patterns => Live(t, patterns)
  <2>1. \A p \in patterns : IsPrefix(more, p) => IsStrictPrefix(t, p)
    BY PrefixOfAppend DEF Pure
  <2>2. \A p \in patterns : p \in Text => IsPrefix(p, p)
    BY PrefixSelf
  <2> HIDE DEF more
  <2> QED BY <2>1, <2>2 DEF Live, IsStrictPrefix, Pure
<1>3. more \in patterns => ~Live(more, patterns)
  BY DEF Pure, Live
<1>4. CASE ~Live(t, patterns)
  <2>1. m = Over /\ Over.done /\ After(more, patterns) = Over
    BY <1>2, <1>4 DEF After, Over
  <2>2. Move(m, c, patterns) = [m |-> m, result |-> "unknown"]
    <3> HIDE DEF m
    <3> QED BY <2>1, Zenon DEF Move
  <2> QED BY <1>2, <1>4, <2>1, <2>2
<1>5. CASE Live(t, patterns)
  <2>1. m = [done |-> FALSE, seen |-> t]
    BY <1>5 DEF After
  <2>2. ~m.done /\ m.seen = t
    BY <2>1
  <2>3. [m EXCEPT !.seen = more] = [done |-> FALSE, seen |-> more]
    BY <1>1, <2>1, SeenChanges
  <2> HIDE DEF m
  <2>4. Move(m, c, patterns) =
          CASE more \in patterns -> [m |-> Over, result |-> "succeeded"]
            [] Live(more, patterns) -> [m |-> [m EXCEPT !.seen = more], result |-> "unknown"]
            [] OTHER -> [m |-> Over, result |-> "failed"]
    <3>1. Append(m.seen, c) = more
      BY <2>2
    <3> HIDE DEF more
    <3> QED BY <2>2, <3>1 DEF Move, Live
  <2> HIDE DEF more
  <2>5. CASE more \in patterns
    BY <1>3, <2>4, <2>5 DEF After, m, more
  <2>6. CASE more \notin patterns /\ Live(more, patterns)
    <3>1. Move(m, c, patterns) = [m |-> [m EXCEPT !.seen = more], result |-> "unknown"]
      BY <2>4, <2>6
    <3>2. Move(m, c, patterns).m = After(more, patterns) /\ Move(m, c, patterns).result = "unknown"
      BY <2>3, <2>6, <3>1 DEF After
    <3> QED BY <2>6, <3>2 DEF m, more
  <2>7. CASE more \notin patterns /\ ~Live(more, patterns)
    <3>1. Move(m, c, patterns) = [m |-> Over, result |-> "failed"]
      BY <2>4, <2>7
    <3> QED BY <1>5, <2>7, <3>1 DEF After, m, more
  <2> QED BY <2>5, <2>6, <2>7 DEF m, more
<1> QED BY <1>4, <1>5

(* The patterns *)

MovedWords == {home, root, mnt}
Under(t) == Cell(rootfs, Slash, t)
Some(t, patterns) == \E p \in patterns : IsPrefix(p, t)

\* A text spelled as it is has no 0 and no character that ends a name.
LEMMA PlainIsFree ==
  ASSUME NEW w \in Seq({c \in Code : Plain(c)})
  PROVE  w \in Free(0) /\ w \in Free(Slash) /\ w \in Free(Back) /\ w \in Seq(Code \ {0})
<1> DEFINE P == {c \in Code : Plain(c)}
<1>1. P \subseteq Code \ {0} /\ P \subseteq Code
  BY DEF Plain
<1>2. \A c \in P : c # 0 /\ c # Slash /\ c # Back
  BY DEF Plain, IsSpecial
<1> HIDE DEF P
<1>3. w \in Seq(P)
  BY DEF P
<1>4. w \in Seq(Code \ {0}) /\ w \in Text
  BY <1>1, <1>3, SeqMonotonic DEF Text
<1>5. \A i \in 1 .. Len(w) : w[i] \in P
  BY <1>3, ElementOfSeq
<1> QED BY <1>2, <1>4, <1>5 DEF Free

\* So have the names that legacy moves, and rootfs.
LEMMA WordsAreFree ==
  /\ \A w \in MovedWords \cup {rootfs} : w \in Free(0) /\ w \in Free(Slash) /\ w \in Free(Back) /\ w \in Seq(Code \ {0}) /\ w \in Text /\ w # <<>>
  /\ Len(rootfs) = 6
<1>1. \A w \in MovedWords \cup {rootfs} : w \in Seq({c \in Code : Plain(c)})
  BY PlainWords DEF MovedWords
<1>2. \A w \in MovedWords \cup {rootfs} : w # <<>>
  <2>1. home # <<>> /\ root # <<>> /\ mnt # <<>> /\ rootfs # <<>>
    BY DEF home, root, mnt, rootfs
  <2> QED BY <2>1 DEF MovedWords
<1>3. Len(rootfs) = 6
  BY DEF rootfs
<1>4. \A w \in Free(0) : w \in Text
  BY DEF Free
<1> QED BY <1>1, <1>2, <1>3, <1>4, PlainIsFree

\* The patterns as texts that are closed.
LEMMA PatternsAre ==
  /\ LinuxPatterns = {Under(<<>>)}
  /\ MovedPatterns = {Append(w, c) : w \in MovedWords, c \in {Slash, 0}}
  /\ NestedPatterns = {Under(Append(w, Slash)) : w \in MovedWords}
  /\ \A t \in Text : Under(t) \in Text /\ Under(t) = rootfs \o <<Slash>> \o t
<1>1. rootfs \in Text /\ <<Slash>> \in Text /\ rootfs \o <<Slash>> \in Text /\ Slash \in Code /\ <<>> \in Text
  BY Words, Signs, Texts
<1>2. Append(rootfs, Slash) = rootfs \o <<Slash>> /\ (rootfs \o <<Slash>>) \o <<>> = rootfs \o <<Slash>>
  BY <1>1, Joining
<1>3. LinuxPatterns = {Under(<<>>)}
  BY <1>2 DEF LinuxPatterns, Under, Cell
<1>4. ASSUME NEW w \in MovedWords
      PROVE  rootfs \o <<Slash>> \o w \o <<Slash>> = Under(Append(w, Slash))
  <2>1. w \in Text
    BY WordsAreFree
  <2> DEFINE x == rootfs \o <<Slash>>
  <2>2. x \in Text
    BY <1>1
  <2> HIDE DEF x
  <2>3. (x \o w) \o <<Slash>> = x \o (w \o <<Slash>>) /\ Append(w, Slash) = w \o <<Slash>>
    <3>1. <<Slash>> \in Text /\ Slash \in Code
      BY <1>1, Signs DEF Text
    <3>2. (x \o w) \o <<Slash>> = x \o (w \o <<Slash>>)
      BY ONLY <2>1, <2>2, <3>1, Joining
    <3> QED BY ONLY <2>1, <3>1, <3>2, Joining
  <2> QED BY <2>3 DEF Under, Cell, x
<1>5. NestedPatterns = {Under(Append(w, Slash)) : w \in MovedWords}
  BY <1>4 DEF NestedPatterns, MovedWords
<1>6. ASSUME NEW t \in Text PROVE Under(t) \in Text /\ Under(t) = rootfs \o <<Slash>> \o t
  BY <1>1, Texts DEF Under, Cell
<1> QED BY <1>3, <1>5, <1>6 DEF MovedPatterns, MovedWords

\* A text without a character does not go beyond it.
LEMMA NotBeyond ==
  ASSUME NEW c \in Code, NEW t \in Text, NEW u \in Free(c)
  PROVE  ~IsPrefix(Append(t, c), u)
<1>1. Append(t, c) \in Text /\ u \in Text /\ Len(Append(t, c)) = Len(t) + 1 /\ Append(t, c)[Len(t) + 1] = c /\ Len(t) \in Nat /\ Len(u) \in Nat
  BY AppendProperties, LenIsNat DEF Text, Free
<1>2. SUFFICES ASSUME IsPrefix(Append(t, c), u) PROVE FALSE
  OBVIOUS
<1> DEFINE v == Append(t, c)
<1> HIDE DEF v
<1>3. Len(v) = Len(t) + 1 /\ v[Len(t) + 1] = c /\ v \in Text /\ IsPrefix(v, u)
  BY <1>1, <1>2 DEF v
<1>4. Len(v) <= Len(u) /\ \A i \in 1 .. Len(v) : v[i] = u[i]
  BY <1>1, <1>3, PrefixIs
<1>5. Len(t) + 1 \in 1 .. Len(v) /\ Len(t) + 1 \in 1 .. Len(u)
  BY <1>1, <1>3, <1>4
<1> QED BY <1>3, <1>4, <1>5 DEF Free

\* No pattern of a matcher goes on where another one ends.
LEMMA PatternsArePure == Pure(LinuxPatterns) /\ Pure(MovedPatterns) /\ Pure(NestedPatterns)
<1>1. <<>> \in Text /\ Slash \in Code /\ 0 \in Code
  BY Words, Signs
<1>2. Pure(LinuxPatterns)
  BY <1>1, PatternsAre DEF Pure, IsStrictPrefix
<1>3. ASSUME NEW v \in MovedWords, NEW w \in MovedWords, NEW c \in {Slash, 0}, NEW d \in {Slash, 0}
      PROVE  Append(v, c) \in Text /\ ~IsStrictPrefix(Append(v, c), Append(w, d))
  <2>1. v \in Text /\ w \in Text /\ c \in Code /\ d \in Code /\ w \in Free(c)
    BY <1>1, WordsAreFree
  <2>2. Append(v, c) \in Text
    BY <2>1, Texts
  <2>3. ~IsPrefix(Append(v, c), w)
    BY <2>1, NotBeyond
  <2> QED BY <2>1, <2>2, <2>3, PrefixOfAppend DEF IsStrictPrefix
<1>4. Pure(MovedPatterns)
  <2>1. \A p \in MovedPatterns : \E v \in MovedWords, c \in {Slash, 0} : p = Append(v, c)
    BY PatternsAre
  <2>2. ASSUME NEW p \in MovedPatterns, NEW q \in MovedPatterns PROVE p \in Text /\ ~IsStrictPrefix(p, q)
    <3>1. PICK v \in MovedWords, c \in {Slash, 0} : p = Append(v, c)
      BY <2>1
    <3>2. PICK w \in MovedWords, d \in {Slash, 0} : q = Append(w, d)
      BY <2>1
    <3> QED BY <1>3, <3>1, <3>2
  <2> HIDE DEF MovedPatterns
  <2> QED BY <2>2 DEF Pure
<1>5. ASSUME NEW v \in MovedWords, NEW w \in MovedWords
      PROVE  Under(Append(v, Slash)) \in Text /\ ~IsStrictPrefix(Under(Append(v, Slash)), Under(Append(w, Slash)))
  <2> DEFINE a == Append(v, Slash)
             b == Append(w, Slash)
             x == rootfs \o <<Slash>>
  <2>1. a \in Text /\ b \in Text /\ ~IsStrictPrefix(a, b)
    BY <1>3
  <2>2. x \in Text /\ Under(a) \in Text
    BY <2>1, Words, Texts, PatternsAre
  <2> HIDE DEF a, b, x
  <2>3. IsPrefix(x \o a, x \o b) <=> IsPrefix(a, b)
    BY <2>1, <2>2, PrefixCancel
  <2>4. Under(a) = x \o a /\ Under(b) = x \o b
    BY DEF Under, Cell, x
  <2> QED BY <2>1, <2>2, <2>3, <2>4 DEF IsStrictPrefix, a, b
<1>6. Pure(NestedPatterns)
  BY <1>5, PatternsAre DEF Pure
<1> QED BY <1>2, <1>4, <1>6

\* A matcher is new before its first character, and succeeds at most once.
LEMMA AtFirst ==
  /\ After(<<>>, LinuxPatterns) = Fresh /\ After(<<>>, MovedPatterns) = Fresh /\ After(<<>>, NestedPatterns) = Fresh
  /\ \A patterns : \A t \in Text : After(t, patterns) \in Matcher
<1>1. Fresh = [done |-> FALSE, seen |-> <<>>] /\ ~Fresh.done /\ Fresh.seen = <<>>
  BY DEF Fresh
<1>2. Matched(Fresh, LinuxPatterns) /\ Matched(Fresh, MovedPatterns) /\ Matched(Fresh, NestedPatterns)
  BY FreshType DEF Matchers, Matcher1, Classes
<1>3. \A patterns : Matched(Fresh, patterns) => Live(<<>>, patterns)
  BY <1>1 DEF Matched, Live
<1>4. ASSUME NEW patterns, NEW t \in Text PROVE After(t, patterns) \in Matcher
  BY Words DEF After, Over, Matcher, Text
<1> QED BY <1>1, <1>2, <1>3, <1>4 DEF After

\* While a pattern is still possible none was there, and each is found at its last
\* character.
LEMMA SomeSteps ==
  ASSUME NEW patterns, Pure(patterns), NEW t \in Text
  PROVE  /\ Live(t, patterns) => ~Some(t, patterns)
         /\ \A c \in Code : /\ Some(Append(t, c), patterns) <=> Some(t, patterns) \/ Append(t, c) \in patterns
                            /\ Live(Append(t, c), patterns) \/ Append(t, c) \in patterns => Live(t, patterns)
<1>1. ASSUME NEW p \in patterns, NEW q \in patterns, IsPrefix(p, t), IsStrictPrefix(t, q) PROVE FALSE
  <2>1. p \in Text /\ q \in Text /\ IsPrefix(t, q) /\ t # q
    BY <1>1 DEF Pure, IsStrictPrefix
  <2>2. IsPrefix(p, q)
    BY <1>1, <2>1, PrefixTrans
  <2>3. p = q
    BY <2>2 DEF Pure, IsStrictPrefix
  <2>4. Len(p) <= Len(t) /\ Len(t) <= Len(p) /\ \A i \in 1 .. Len(p) : p[i] = t[i]
    BY <1>1, <2>1, <2>3, PrefixIs
  <2>5. Len(p) = Len(t)
    BY <2>1, <2>4, LenIsNat
  <2> QED BY <2>1, <2>3, <2>4, <2>5, SeqEqual DEF Text
<1>2. ASSUME NEW c \in Code
      PROVE  /\ Some(Append(t, c), patterns) <=> Some(t, patterns) \/ Append(t, c) \in patterns
             /\ Live(Append(t, c), patterns) \/ Append(t, c) \in patterns => Live(t, patterns)
  <2>1. \A p \in patterns : /\ p \in Text
                            /\ IsPrefix(p, Append(t, c)) <=> IsPrefix(p, t) \/ p = Append(t, c)
                            /\ IsPrefix(Append(t, c), p) => IsStrictPrefix(t, p)
    BY PrefixOfAppend DEF Pure
  <2>2. \A p \in patterns : p = Append(t, c) => IsPrefix(Append(t, c), p)
    BY <2>1, PrefixSelf
  <2> QED BY <2>1, <2>2 DEF Some, Live, IsStrictPrefix
<1> QED BY <1>1, <1>2 DEF Live, Some

\* What is left of a text behind its beginning.
LEMMA FromBehind ==
  ASSUME NEW a \in Text, NEW b \in Text
  PROVE  From(a \o b, Len(a) + 1) = b
<1> DEFINE s == a \o b
           n == Len(a)
           u == From(s, n + 1)
<1>1. s \in Text /\ Len(s) = n + Len(b) /\ n \in Nat /\ Len(b) \in Nat /\ \A i \in 1 .. Len(b) : s[n + i] = b[i]
  BY AppendedIs, LenIsNat
<1> HIDE DEF s, n
<1>2. u \in Text /\ Len(u) = Len(b) /\ \A i \in 1 .. Len(b) : u[i] = s[n + i]
  <2>1. \A i \in n + 1 .. Len(s) : s[i] \in Code
    BY <1>1, ElementOfSeq DEF Text
  <2>2. n + 1 \in Int /\ Len(s) \in Int /\ \A i \in 1 .. Len(b) : n + 1 + i - 1 = n + i
    BY <1>1
  <2>3. /\ SubSeq(s, n + 1, Len(s)) \in Seq(Code)
        /\ Len(SubSeq(s, n + 1, Len(s))) = IF n + 1 <= Len(s) THEN Len(s) - (n + 1) + 1 ELSE 0
        /\ \A i \in 1 .. Len(s) - (n + 1) + 1 : SubSeq(s, n + 1, Len(s))[i] = s[n + 1 + i - 1]
    BY <2>1, <2>2, SubSeqProperties
  <2>4. Len(s) - (n + 1) + 1 = Len(b) /\ (IF n + 1 <= Len(s) THEN Len(s) - (n + 1) + 1 ELSE 0) = Len(b)
    BY <1>1
  <2> QED BY <2>2, <2>3, <2>4 DEF From, Text
<1> HIDE DEF u
<1>3. \A i \in 1 .. Len(u) : u[i] = b[i]
  BY <1>1, <1>2
<1>4. u = b
  BY <1>2, <1>3, SeqEqual DEF Text
<1> QED BY <1>4 DEF u, s, n

\* A text begins with another one if it is that one and something more.
LEMMA PrefixRest ==
  ASSUME NEW a \in Text, NEW t \in Text, IsPrefix(a, t)
  PROVE  t = a \o From(t, Len(a) + 1) /\ From(t, Len(a) + 1) \in Text
<1> DEFINE n == Len(a)
           m == Len(t)
           u == From(t, n + 1)
<1>1. n \in Nat /\ m \in Nat /\ n <= m /\ \A i \in 1 .. n : a[i] = t[i]
  BY LenIsNat, PrefixIs
<1>2. u \in Text
  BY <1>1, FromType
<1>3. Len(u) = m - n /\ \A i \in 1 .. m - n : u[i] = t[n + i]
  <2>1. \A i \in n + 1 .. m : t[i] \in Code
    BY <1>1, ElementOfSeq DEF Text
  <2>2. /\ Len(SubSeq(t, n + 1, m)) = IF n + 1 <= m THEN m - (n + 1) + 1 ELSE 0
        /\ \A i \in 1 .. m - (n + 1) + 1 : SubSeq(t, n + 1, m)[i] = t[n + 1 + i - 1]
    <3>1. n + 1 \in Int /\ m \in Int
      BY <1>1
    <3> HIDE DEF n, m
    <3> QED BY <2>1, <3>1, SubSeqProperties
  <2>3. m - (n + 1) + 1 = m - n /\ (IF n + 1 <= m THEN m - (n + 1) + 1 ELSE 0) = m - n
        /\ \A i \in 1 .. m - n : n + 1 + i - 1 = n + i
    BY <1>1
  <2> QED BY <2>2, <2>3 DEF From
<1> HIDE DEF u, m, n
<1>4. a \o u \in Text /\ Len(a \o u) = m
  BY <1>1, <1>2, <1>3, AppendedIs DEF n
<1>5. \A i \in 1 .. m : (a \o u)[i] = t[i]
  <2>1. SUFFICES ASSUME NEW i \in 1 .. m PROVE (a \o u)[i] = t[i]
    OBVIOUS
  <2>2. CASE i \in 1 .. n
    BY <1>1, <1>2, <2>2, AppendedIs DEF n
  <2>3. CASE i \notin 1 .. n
    <3>1. PICK j \in 1 .. m - n : i = n + j
      <4>1. i - n \in 1 .. m - n /\ i = n + (i - n)
        BY <1>1, <2>3
      <4> QED BY <4>1
    <3>2. j \in 1 .. Len(u)
      BY <1>3
    <3>3. (a \o u)[n + j] = u[j]
      BY <1>2, <3>2, AppendedIs DEF n
    <3> QED BY <1>3, <3>1, <3>3
  <2> QED BY <2>2, <2>3
<1>6. t = a \o u
  <2>1. Len(t) = m
    BY DEF m
  <2> QED BY <1>4, <1>5, <2>1, SeqEqual DEF Text
<1> QED BY <1>2, <1>6 DEF u, n

\* Texts under rootfs.
LEMMA UnderIs ==
  /\ Under(<<>>) \in Text /\ <<>> \in Text
  /\ \A x \in Text : Under(x) \in Text /\ From(Under(x), 8) = x /\ IsPrefix(Under(<<>>), Under(x))
  /\ \A t \in Text : IsPrefix(Under(<<>>), t) => t = Under(From(t, 8)) /\ From(t, 8) \in Text
<1> DEFINE a == rootfs \o <<Slash>>
<1>1. a \in Text /\ Len(a) = 7 /\ <<>> \in Text
  <2>1. rootfs \in Text /\ <<Slash>> \in Text /\ Len(rootfs) = 6 /\ <<>> \in Text
    BY WordsAreFree, Words
  <2>2. Len(<<Slash>>) = 1
    OBVIOUS
  <2>3. a \in Text /\ Len(a) = Len(rootfs) + Len(<<Slash>>)
    BY <2>1, AppendedIs
  <2> HIDE DEF a
  <2> QED BY <2>1, <2>2, <2>3
<1>2. \A x : Under(x) = a \o x
  BY DEF Under, Cell
<1> HIDE DEF a
<1>3. Under(<<>>) = a
  BY <1>1, <1>2, Joining
<1>4. ASSUME NEW x \in Text PROVE Under(x) \in Text /\ From(Under(x), 8) = x /\ IsPrefix(Under(<<>>), Under(x))
  <2>1. a \o x \in Text /\ IsPrefix(a, a \o x)
    BY <1>1, AppendedIs
  <2>2. From(a \o x, Len(a) + 1) = x
    BY <1>1, FromBehind
  <2>3. Len(a) + 1 = 8
    BY <1>1
  <2> QED BY <1>2, <1>3, <2>1, <2>2, <2>3
<1>5. ASSUME NEW t \in Text, IsPrefix(Under(<<>>), t) PROVE t = Under(From(t, 8)) /\ From(t, 8) \in Text
  <2>1. t = a \o From(t, Len(a) + 1) /\ From(t, Len(a) + 1) \in Text
    BY <1>1, <1>3, <1>5, PrefixRest
  <2>2. Len(a) + 1 = 8
    BY <1>1
  <2> QED BY <1>2, <2>1, <2>2
<1> QED BY <1>1, <1>3, <1>4, <1>5

(* What becomes of a text without 0 that is appended to a new path. *)

Letters0 == Code \ {0}

\* Characters but 0 make a text.
LEMMA LettersAreText == \A t \in Seq(Letters0) : t \in Text
<1>1. Letters0 \subseteq Code
  BY DEF Letters0
<1> QED BY <1>1, SeqMonotonic DEF Text

\* What a reset path is, by its parts.
LEMMA ResetIs ==
  ASSUME NEW class \in Classes, NEW to \in DiskPaths(class)
  PROVE  HasParts(Reset(to), class, <<>>, to.skip, Fresh, Fresh) /\ Reset(to) \in DiskPaths(class)
<1>1. to \in PathRec /\ to.class = class /\ to.skip \in BOOLEAN
  BY PathParts DEF DiskPaths
<1>2. Fresh \in Matcher /\ <<>> \in Text
  BY FreshType, Words DEF Matchers
<1> QED BY <1>1, <1>2, ResetType, PathChanges, Zenon DEF Reset

\* What a path is, by its parts.
LEMMA DiskPathIs ==
  ASSUME NEW class \in Classes, NEW p \in DiskPaths(class)
  PROVE  p \in PathRec /\ p.class = class /\ p.data \in Text /\ p.skip \in BOOLEAN /\ p.m1 \in Matcher /\ p.m2 \in Matcher
BY PathParts DEF DiskPaths, Matchers

\* One character more in a path of WSL.
LEMMA WslChar ==
  ASSUME NEW class \in {"v1", "v2"}, NEW p \in DiskPaths(class), NEW c \in Code
  PROVE  AppendChar(p, c).ok = TRUE /\ AppendChar(p, c).path.data = p.data \o Encoded(class, c)
<1>1. class \in Classes
  BY DEF Classes
<1>2. p \in PathRec /\ p.class = class /\ p.data \in Text /\ p.skip \in BOOLEAN /\ p.m1 \in Matcher /\ p.m2 \in Matcher
  BY <1>1, DiskPathIs
<1>3. p.data \o Encoded(class, c) \in Text
  BY <1>2, EncodedType, DiskTexts, Texts
<1>4. AppendChar(p, c) = [path |-> [p EXCEPT !.data = p.data \o Encoded(class, c)], ok |-> TRUE]
  BY <1>2 DEF AppendChar, AppendWsl
<1> DEFINE data == p.data \o Encoded(class, c)
<1> HIDE DEF data
<1>5. data \in Text /\ AppendChar(p, c) = [path |-> [p EXCEPT !.data = data], ok |-> TRUE]
  BY <1>3, <1>4 DEF data
<1>6. HasParts([p EXCEPT !.data = data], p.class, data, p.skip, p.m1, p.m2)
  BY <1>2, <1>5, PathChanges, Zenon
<1>7. AppendChar(p, c).ok = TRUE /\ AppendChar(p, c).path.data = data
  <2> DEFINE new == [p EXCEPT !.data = data]
  <2>1. new.data = data
    <3> HIDE DEF new
    <3> QED BY <1>6 DEF HasParts, new
  <2>2. AppendChar(p, c) = [path |-> new, ok |-> TRUE]
    BY <1>5
  <2> HIDE DEF new
  <2> QED BY <2>1, <2>2
<1> QED BY <1>7 DEF data

\* One character more in a path of Linux.
LEMMA LinuxChar ==
  ASSUME NEW p \in DiskPaths("linux"), NEW c \in Code, NEW t \in Text, p.m1 = After(t, LinuxPatterns)
  PROVE  LET next == AppendChar(p, c)
             more == Append(t, c)
         IN  /\ next.path.m1 = After(more, LinuxPatterns)
             /\ next.ok <=> more \in LinuxPatterns \/ ~(Live(t, LinuxPatterns) /\ ~Live(more, LinuxPatterns))
             /\ next.ok => next.path.data = IF more \in LinuxPatterns THEN <<>> ELSE IF c # 0 THEN Append(p.data, c) ELSE p.data
<1> DEFINE move == Move(p.m1, c, LinuxPatterns)
           more == Append(t, c)
           data == CASE move.result = "succeeded" -> <<>>
                     [] move.result = "unknown" /\ c # 0 -> Append(p.data, c)
                     [] OTHER -> p.data
<1>1. p \in PathRec /\ p.class = "linux" /\ p.data \in Text /\ p.skip \in BOOLEAN /\ p.m1 \in Matcher /\ p.m2 \in Matcher
  BY DiskPathIs DEF Classes
<1>2. /\ move.m = After(more, LinuxPatterns)
      /\ move.result = IF more \in LinuxPatterns THEN "succeeded"
                       ELSE IF Live(t, LinuxPatterns) /\ ~Live(more, LinuxPatterns) THEN "failed" ELSE "unknown"
  BY PatternsArePure, MoveSteps
<1>3. more \in Text /\ move.m \in Matcher
  BY <1>2, AtFirst, Texts
<1>4. data \in Text
  BY <1>1, Words, Texts
<1>5. AppendChar(p, c) = [path |-> [p EXCEPT !.m1 = move.m, !.data = data], ok |-> move.result # "failed"]
  BY <1>1 DEF AppendChar, AppendLinux
<1>6. \A m \in Matcher, d \in Text : HasParts([p EXCEPT !.m1 = m, !.data = d], p.class, d, p.skip, m, p.m2)
  BY <1>1, PathChanges, Zenon
<1>7. data = IF more \in LinuxPatterns THEN <<>> ELSE IF move.result # "failed" /\ c # 0 THEN Append(p.data, c) ELSE p.data
  <2> HIDE DEF more, move
  <2> QED BY <1>2
<1> HIDE DEF data, move, more
<1>8. AppendChar(p, c).path.m1 = move.m /\ AppendChar(p, c).path.data = data /\ AppendChar(p, c).ok = (move.result # "failed")
  <2> DEFINE new == [p EXCEPT !.m1 = move.m, !.data = data]
  <2>1. HasParts(new, p.class, data, p.skip, move.m, p.m2)
    BY <1>3, <1>4, <1>6
  <2>2. new.m1 = move.m /\ new.data = data
    <3> HIDE DEF new
    <3> QED BY <2>1 DEF HasParts
  <2>3. AppendChar(p, c) = [path |-> new, ok |-> move.result # "failed"]
    BY <1>5
  <2> HIDE DEF new
  <2> QED BY <2>2, <2>3
<1>9. move.result # "failed" <=> more \in LinuxPatterns \/ ~(Live(t, LinuxPatterns) /\ ~Live(more, LinuxPatterns))
  BY <1>2
<1> QED BY <1>2, <1>7, <1>8, <1>9 DEF more

\* One character more in a path of the legacy version.
LEMMA LegacyChar ==
  ASSUME NEW p \in DiskPaths("legacy"), NEW c \in Code, NEW t \in Text,
         p.m1 = After(t, MovedPatterns), p.m2 = After(t, NestedPatterns)
  PROVE  LET next == AppendChar(p, c)
             more == Append(t, c)
             all == p.data \o Encoded("legacy", c)
         IN  /\ next.ok <=> more \notin MovedPatterns
             /\ next.ok => /\ next.path.m1 = After(more, MovedPatterns) /\ next.path.m2 = After(more, NestedPatterns)
                           /\ next.path.data = IF more \in NestedPatterns THEN From(all, 8) ELSE all
<1> DEFINE moved == Move(p.m1, c, MovedPatterns)
           nested == Move(p.m2, c, NestedPatterns)
           more == Append(t, c)
           all == p.data \o Encoded("legacy", c)
           new == [p EXCEPT !.data = all]
           cut == IF nested.result = "succeeded" THEN From(new.data, 8) ELSE new.data
<1>1. p \in PathRec /\ p.class = "legacy" /\ p.data \in Text /\ p.skip \in BOOLEAN /\ p.m1 \in Matcher /\ p.m2 \in Matcher
  BY DiskPathIs DEF Classes
<1>2. /\ moved.m = After(more, MovedPatterns) /\ (moved.result = "succeeded" <=> more \in MovedPatterns)
      /\ nested.m = After(more, NestedPatterns) /\ (nested.result = "succeeded" <=> more \in NestedPatterns)
  <2>1. /\ moved.m = After(more, MovedPatterns)
        /\ moved.result = IF more \in MovedPatterns THEN "succeeded"
                          ELSE IF Live(t, MovedPatterns) /\ ~Live(more, MovedPatterns) THEN "failed" ELSE "unknown"
    BY PatternsArePure, MoveSteps
  <2>2. /\ nested.m = After(more, NestedPatterns)
        /\ nested.result = IF more \in NestedPatterns THEN "succeeded"
                          ELSE IF Live(t, NestedPatterns) /\ ~Live(more, NestedPatterns) THEN "failed" ELSE "unknown"
    BY PatternsArePure, MoveSteps
  <2> HIDE DEF moved, nested, more
  <2> QED BY <2>1, <2>2
<1>3. more \in Text /\ moved.m \in Matcher /\ nested.m \in Matcher
  BY <1>2, AtFirst, Texts
<1>4. all \in Text
  BY <1>1, EncodedType, DiskTexts, Texts
<1> HIDE DEF all
<1>5. HasParts(new, p.class, all, p.skip, p.m1, p.m2)
  BY <1>1, <1>4, PathChanges, Zenon
<1>6. AppendWsl(p, c).path = new
  BY <1>1 DEF AppendWsl, all
<1> HIDE DEF new
<1>7. new \in PathRec /\ new.class = "legacy" /\ new.data = all /\ new.skip = p.skip /\ new.m2 = p.m2
  BY <1>1, <1>5 DEF HasParts
<1>8. AppendChar(p, c) =
        IF moved.result = "succeeded" THEN [path |-> [new EXCEPT !.m1 = moved.m], ok |-> FALSE]
        ELSE [path |-> [new EXCEPT !.m1 = moved.m, !.m2 = nested.m, !.data = cut], ok |-> TRUE]
  BY <1>1, <1>6 DEF AppendChar, AppendLegacy
<1>9. cut \in Text /\ cut = IF more \in NestedPatterns THEN From(all, 8) ELSE all
  BY <1>2, <1>4, <1>7, FromType
<1> HIDE DEF moved, nested, cut, more
<1>10. HasParts([new EXCEPT !.m1 = moved.m, !.m2 = nested.m, !.data = cut], new.class, cut, new.skip, moved.m, nested.m)
  BY <1>1, <1>3, <1>7, <1>9, PathChanges, Zenon
<1> QED BY <1>2, <1>8, <1>9, <1>10 DEF HasParts, more, all

\* What a text is in a path of WSL.
LEMMA WslText ==
  ASSUME NEW class \in {"v1", "v2"}, NEW to \in DiskPaths(class), NEW text \in Seq(Letters0)
  PROVE  LET all == AppendAll(Reset(to), text)
         IN  all \in Appendings(class) /\ all.ok = TRUE /\ all.path.data = Enc(class, text)
<1> DEFINE r == Reset(to)
           Is(all, t) == all \in Appendings(class) /\ all.ok = TRUE /\ all.path.data = Enc(class, t)
           S == {t \in Seq(Letters0) : Is(AppendAll(r, t), t)}
<1>1. class \in Classes /\ r \in DiskPaths(class) /\ r.data = <<>>
  <2>1. class \in Classes
    BY DEF Classes
  <2> QED BY <2>1, ResetIs DEF HasParts
<1> HIDE DEF r
<1>2. <<>> \in S
  <2>1. AppendAll(r, <<>>) = [path |-> r, ok |-> TRUE]
    BY <1>1, AppendAllAppend
  <2>2. Is([path |-> r, ok |-> TRUE], <<>>)
    BY <1>1, EncSteps DEF Appendings
  <2> HIDE DEF Is
  <2> QED BY <2>1, <2>2, EmptySeq
<1>3. ASSUME NEW t \in S, NEW c \in Letters0 PROVE Append(t, c) \in S
  <2> DEFINE done == AppendAll(r, t)
             next == AppendAll(r, Append(t, c))
  <2>1. t \in Seq(Letters0) /\ t \in Text /\ c \in Code /\ Is(done, t)
    BY LettersAreText DEF Letters0
  <2> HIDE DEF S
  <2>2. next = Next1(done, c)
    BY <1>1, <2>1, AppendAllAppend
  <2> HIDE DEF done, next
  <2>3. done.path \in DiskPaths(class) /\ next \in Appendings(class)
    BY <1>1, <2>1, <2>2, NextType DEF Appendings
  <2>4. next = AppendChar(done.path, c)
    BY <2>1, <2>2 DEF Next1
  <2>5. next.ok = TRUE /\ next.path.data = done.path.data \o Encoded(class, c)
    BY <2>1, <2>3, <2>4, WslChar
  <2>6. next.path.data = Enc(class, Append(t, c))
    BY <2>1, <2>5, EncSteps
  <2>7. Append(t, c) \in Seq(Letters0)
    BY <2>1, AppendProperties
  <2> QED BY <2>3, <2>5, <2>6, <2>7 DEF S, next
<1>4. S = Seq(Letters0)
  <2>1. S \in SUBSET Seq(Letters0)
    OBVIOUS
  <2> HIDE DEF S
  <2> QED BY <1>2, <1>3, <2>1, SeqInduction
<1>5. Is(AppendAll(r, text), text)
  BY <1>4
<1> QED BY <1>5 DEF r

\* What a text is in a path of Linux.
LEMMA LinuxText ==
  ASSUME NEW to \in DiskPaths("linux"), NEW text \in Seq(Letters0)
  PROVE  LET all == AppendAll(Reset(to), text)
         IN  /\ all \in Appendings("linux")
             /\ all.ok <=> Live(text, LinuxPatterns) \/ Some(text, LinuxPatterns)
             /\ all.ok => /\ all.path.m1 = After(text, LinuxPatterns)
                          /\ all.path.data = IF Some(text, LinuxPatterns) THEN From(text, 8) ELSE text
<1> DEFINE P == LinuxPatterns
           r == Reset(to)
           Is(all, t) == /\ all \in Appendings("linux")
                         /\ all.ok <=> Live(t, P) \/ Some(t, P)
                         /\ all.ok => /\ all.path.m1 = After(t, P)
                                      /\ all.path.data = IF Some(t, P) THEN From(t, 8) ELSE t
           S == {t \in Seq(Letters0) : Is(AppendAll(r, t), t)}
<1>1. "linux" \in Classes /\ r \in DiskPaths("linux") /\ r.data = <<>> /\ r.m1 = Fresh
  <2>1. "linux" \in Classes
    BY DEF Classes
  <2> QED BY <2>1, ResetIs DEF HasParts
<1>2. Pure(P) /\ P = {Under(<<>>)} /\ After(<<>>, P) = Fresh
  BY PatternsArePure, PatternsAre, AtFirst
<1> HIDE DEF r, P
<1>3. <<>> \in S
  <2>1. AppendAll(r, <<>>) = [path |-> r, ok |-> TRUE]
    BY <1>1, AppendAllAppend
  <2>2. Live(<<>>, P)
    BY <1>2 DEF After, Fresh, Over
  <2>3. ~Some(<<>>, P)
    BY <1>2, <2>2, SomeSteps, Words
  <2>4. Is([path |-> r, ok |-> TRUE], <<>>)
    BY <1>1, <1>2, <2>2, <2>3 DEF Appendings
  <2> HIDE DEF Is
  <2> QED BY <2>1, <2>4, EmptySeq
<1>4. ASSUME NEW t \in S, NEW c \in Letters0 PROVE Append(t, c) \in S
  <2> DEFINE done == AppendAll(r, t)
             more == Append(t, c)
             next == AppendAll(r, more)
  <2>1. t \in Seq(Letters0) /\ t \in Text /\ c \in Code /\ c # 0 /\ Is(done, t)
    BY LettersAreText DEF Letters0
  <2> HIDE DEF S
  <2>2. next = Next1(done, c)
    BY <1>1, <2>1, AppendAllAppend
  <2>3. more \in Seq(Letters0) /\ more \in Text
    BY <2>1, AppendProperties, LettersAreText
  <2>4. /\ Live(t, P) => ~Some(t, P)
        /\ Some(more, P) <=> Some(t, P) \/ more \in P
        /\ Live(more, P) \/ more \in P => Live(t, P)
        /\ Live(more, P) => ~Some(more, P)
    BY <1>2, <2>1, <2>3, SomeSteps
  <2>5. more \in P => From(more, 8) = <<>>
    <3> HIDE DEF more
    <3> QED BY <1>2, UnderIs
  <2>6. Some(t, P) => From(more, 8) = Append(From(t, 8), c)
    <3>1. ASSUME IsPrefix(Under(<<>>), t) PROVE From(more, 8) = Append(From(t, 8), c)
      <4> DEFINE b == From(t, 8)
      <4>1. t = Under(b) /\ b \in Text
        BY <2>1, <3>1, UnderIs
      <4> HIDE DEF b
      <4>2. more = Under(Append(b, c)) /\ Append(b, c) \in Text
        <5> DEFINE a == rootfs \o <<Slash>>
        <5>1. a \in Text
          BY Words, Texts
        <5>2. t = a \o b
          BY <4>1 DEF Under, Cell
        <5> HIDE DEF a
        <5>3. more = a \o Append(b, c) /\ Append(b, c) \in Text
          <6>1. Append(b, c) \in Text
            BY <2>1, <4>1, Texts
          <6>2. Append(a \o b, c) = a \o Append(b, c)
            BY <2>1, <4>1, <5>1, Joining
          <6> QED BY <5>2, <6>1, <6>2
        <5> QED BY <5>3 DEF Under, Cell, a
      <4> QED BY <4>2, UnderIs DEF b
    <3> QED BY <1>2, <3>1 DEF Some
  <2> HIDE DEF done, next, more
  <2>7. next \in Appendings("linux") /\ done.path \in DiskPaths("linux")
    BY <1>1, <2>1, <2>2, NextType DEF Appendings
  <2>8. CASE ~done.ok
    <3>1. next = done /\ ~Live(t, P) /\ ~Some(t, P)
      BY <2>1, <2>2, <2>8 DEF Next1
    <3>2. Is(next, more)
      BY <2>4, <2>7, <2>8, <3>1
    <3> QED BY <2>3, <3>2 DEF S, next, more
  <2>9. CASE done.ok
    <3>1. next = AppendChar(done.path, c) /\ done.path.m1 = After(t, P)
      BY <2>1, <2>2, <2>9 DEF Next1
    <3>2. /\ next.path.m1 = After(more, P)
          /\ next.ok <=> more \in P \/ ~(Live(t, P) /\ ~Live(more, P))
          /\ next.ok => next.path.data = IF more \in P THEN <<>> ELSE IF c # 0 THEN Append(done.path.data, c) ELSE done.path.data
      BY <2>1, <2>7, <3>1, LinuxChar DEF more, P
    <3>3. done.path.data = IF Some(t, P) THEN From(t, 8) ELSE t
      BY <2>1, <2>9
    <3>4. Live(t, P) \/ Some(t, P)
      BY <2>1, <2>9
    <3>5. next.ok => next.path.data = IF Some(more, P) THEN From(more, 8) ELSE more
      <4>1. CASE more \in P
        BY <2>4, <2>5, <3>2, <4>1
      <4>2. CASE more \notin P /\ Some(t, P)
        BY <2>1, <2>4, <2>6, <3>2, <3>3, <4>2
      <4>3. CASE more \notin P /\ ~Some(t, P)
        BY <2>1, <2>4, <3>2, <3>3, <4>3 DEF more
      <4> QED BY <4>1, <4>2, <4>3
    <3>6. next.ok <=> Live(more, P) \/ Some(more, P)
      BY <2>4, <3>2, <3>4
    <3>7. Is(next, more)
      BY <2>7, <3>2, <3>5, <3>6
    <3> QED BY <2>3, <3>7 DEF S, next, more
  <2> QED BY <2>8, <2>9 DEF more
<1>5. S = Seq(Letters0)
  <2>1. S \in SUBSET Seq(Letters0)
    OBVIOUS
  <2> HIDE DEF S
  <2> QED BY <1>3, <1>4, <2>1, SeqInduction
<1>6. Is(AppendAll(r, text), text)
  BY <1>5
<1> QED BY <1>6 DEF r, P

\* A text under rootfs on a disk.
LEMMA EncUnder ==
  ASSUME NEW class \in Disks, NEW x \in Text
  PROVE  /\ Enc(class, Under(x)) = Cell(rootfs, Back, Enc(class, x))
         /\ From(Enc(class, Under(x)), 8) = Enc(class, x) /\ Enc(class, x) \in Text
<1> DEFINE a == rootfs \o <<Slash>>
           d == rootfs \o <<Back>>
<1>1. rootfs \in Text /\ <<Slash>> \in Text /\ <<Back>> \in Text /\ a \in Text /\ d \in Text /\ Slash \in Code
  BY Words, Texts, Signs
<1>2. Enc(class, rootfs) = rootfs
  BY PlainWords, PlainText
<1>3. Enc(class, a) = d
  <2>1. a = Append(rootfs, Slash)
    BY <1>1, Joining
  <2>2. Enc(class, Append(rootfs, Slash)) = Enc(class, rootfs) \o Encoded(class, Slash)
    BY <1>1, EncSteps
  <2>3. Encoded(class, Slash) = <<Back>>
    BY DEF Encoded, IsSpecial, Slash, Hash, Colon, Back, Disks
  <2> HIDE DEF a
  <2> QED BY <1>2, <2>1, <2>2, <2>3
<1>4. Len(d) = 7
  <2>1. Len(rootfs) = 6 /\ Len(<<Back>>) = 1
    BY WordsAreFree
  <2>2. Len(d) = Len(rootfs) + Len(<<Back>>)
    BY <1>1, AppendedIs
  <2> HIDE DEF d
  <2> QED BY <2>1, <2>2
<1> HIDE DEF a, d
<1>5. Under(x) = a \o x
  BY DEF Under, Cell, a
<1>6. Enc(class, x) \in Text
  BY EncSteps, DiskTexts
<1>7. Enc(class, a \o x) = d \o Enc(class, x)
  BY <1>1, <1>3, EncJoins
<1>8. From(d \o Enc(class, x), Len(d) + 1) = Enc(class, x)
  BY <1>1, <1>6, FromBehind
<1>9. Len(d) + 1 = 8
  BY <1>4
<1> QED BY <1>5, <1>6, <1>7, <1>8, <1>9 DEF Cell, d

\* One character more under rootfs.
LEMMA UnderMore ==
  ASSUME NEW t \in Text, NEW c \in Code, IsPrefix(Under(<<>>), t)
  PROVE  From(Append(t, c), 8) = Append(From(t, 8), c) /\ From(t, 8) \in Text
<1> DEFINE b == From(t, 8)
<1>1. t = Under(b) /\ b \in Text
  BY UnderIs
<1> HIDE DEF b
<1>2. Append(t, c) = Under(Append(b, c)) /\ Append(b, c) \in Text
  <2> DEFINE a == rootfs \o <<Slash>>
  <2>1. a \in Text
    BY Words, Texts
  <2>2. t = a \o b
    BY <1>1 DEF Under, Cell
  <2> HIDE DEF a
  <2>3. Append(b, c) \in Text
    BY <1>1, Texts
  <2>4. Append(a \o b, c) = a \o Append(b, c)
    BY <1>1, <2>1, Joining, ZenonT(60)
  <2> QED BY <2>2, <2>3, <2>4 DEF Under, Cell, a
<1> QED BY <1>1, <1>2, UnderIs DEF b

\* The patterns of matcher2 lie under rootfs.
LEMMA NestedIsUnder ==
  \A t \in Text : Some(t, NestedPatterns) \/ t \in NestedPatterns => IsPrefix(Under(<<>>), t)
<1> SUFFICES ASSUME NEW t \in Text, NEW p \in NestedPatterns, IsPrefix(p, t) \/ t = p
             PROVE  IsPrefix(Under(<<>>), t)
  BY DEF Some
<1>1. PICK w \in MovedWords : p = Under(Append(w, Slash))
  BY PatternsAre
<1>2. Append(w, Slash) \in Text
  BY WordsAreFree, Texts, Signs
<1>3. p \in Text /\ IsPrefix(Under(<<>>), p) /\ Under(<<>>) \in Text
  BY <1>1, <1>2, UnderIs
<1> QED BY <1>3, PrefixTrans

\* What a text is in a path of the legacy version.
LEMMA LegacyText ==
  ASSUME NEW to \in DiskPaths("legacy"), NEW text \in Seq(Letters0)
  PROVE  LET all == AppendAll(Reset(to), text)
         IN  /\ all \in Appendings("legacy")
             /\ all.ok <=> ~Some(text, MovedPatterns)
             /\ all.ok => /\ all.path.m1 = After(text, MovedPatterns) /\ all.path.m2 = After(text, NestedPatterns)
                          /\ all.path.data = Enc("legacy", IF Some(text, NestedPatterns) THEN From(text, 8) ELSE text)
<1> DEFINE P == MovedPatterns
           Q == NestedPatterns
           r == Reset(to)
           Is(all, t) == /\ all \in Appendings("legacy")
                         /\ all.ok <=> ~Some(t, P)
                         /\ all.ok => /\ all.path.m1 = After(t, P) /\ all.path.m2 = After(t, Q)
                                      /\ all.path.data = Enc("legacy", IF Some(t, Q) THEN From(t, 8) ELSE t)
           S == {t \in Seq(Letters0) : Is(AppendAll(r, t), t)}
<1>1. "legacy" \in Classes /\ r \in DiskPaths("legacy") /\ r.data = <<>> /\ r.m1 = Fresh /\ r.m2 = Fresh
  <2>1. "legacy" \in Classes
    BY DEF Classes
  <2> QED BY <2>1, ResetIs DEF HasParts
<1>2. Pure(P) /\ Pure(Q) /\ After(<<>>, P) = Fresh /\ After(<<>>, Q) = Fresh
  BY PatternsArePure, AtFirst
<1>3. \A t \in Text : Some(t, Q) \/ t \in Q => IsPrefix(Under(<<>>), t)
  BY NestedIsUnder
<1> HIDE DEF r, P, Q
<1>4. <<>> \in S
  <2>1. AppendAll(r, <<>>) = [path |-> r, ok |-> TRUE]
    BY <1>1, AppendAllAppend
  <2>2. Live(<<>>, P) /\ Live(<<>>, Q)
    BY <1>2 DEF After, Fresh, Over
  <2>3. ~Some(<<>>, P) /\ ~Some(<<>>, Q)
    BY <1>2, <2>2, SomeSteps, Words
  <2>4. Is([path |-> r, ok |-> TRUE], <<>>)
    BY <1>1, <1>2, <2>3, EncSteps DEF Appendings
  <2> HIDE DEF Is
  <2> QED BY <2>1, <2>4, EmptySeq
<1>5. ASSUME NEW t \in S, NEW c \in Letters0 PROVE Append(t, c) \in S
  <2> DEFINE done == AppendAll(r, t)
             more == Append(t, c)
             next == AppendAll(r, more)
  <2>1. t \in Seq(Letters0) /\ t \in Text /\ c \in Code /\ c # 0 /\ Is(done, t)
    BY LettersAreText DEF Letters0
  <2> HIDE DEF S
  <2>2. next = Next1(done, c)
    BY <1>1, <2>1, AppendAllAppend
  <2>3. more \in Seq(Letters0) /\ more \in Text
    BY <2>1, AppendProperties, LettersAreText
  <2>4. /\ Live(t, P) => ~Some(t, P)
        /\ Some(more, P) <=> Some(t, P) \/ more \in P
        /\ Live(t, Q) => ~Some(t, Q)
        /\ Some(more, Q) <=> Some(t, Q) \/ more \in Q
        /\ Live(more, Q) \/ more \in Q => Live(t, Q)
    BY <1>2, <2>1, <2>3, SomeSteps
  <2>5. Enc("legacy", more) = Enc("legacy", t) \o Encoded("legacy", c)
    BY <2>1, EncSteps
  <2>6. more \in Q => From(Enc("legacy", more), 8) = Enc("legacy", From(more, 8))
    <3> HIDE DEF more
    <3>1. SUFFICES ASSUME more \in Q PROVE From(Enc("legacy", more), 8) = Enc("legacy", From(more, 8))
      OBVIOUS
    <3>2. more = Under(From(more, 8)) /\ From(more, 8) \in Text
      BY <1>3, <2>3, <3>1, UnderIs
    <3> DEFINE x == From(more, 8)
    <3> HIDE DEF x
    <3>3. more = Under(x) /\ x \in Text
      BY <3>2 DEF x
    <3>4. From(Enc("legacy", Under(x)), 8) = Enc("legacy", x)
      BY <3>3, EncUnder DEF Disks
    <3> QED BY <3>3, <3>4 DEF x
  <2>7. Some(t, Q) => Enc("legacy", From(t, 8)) \o Encoded("legacy", c) = Enc("legacy", From(more, 8))
    <3>1. SUFFICES ASSUME Some(t, Q) PROVE Enc("legacy", From(t, 8)) \o Encoded("legacy", c) = Enc("legacy", From(more, 8))
      OBVIOUS
    <3>2. From(more, 8) = Append(From(t, 8), c) /\ From(t, 8) \in Text
      BY <1>3, <2>1, <3>1, UnderMore
    <3> QED BY <2>1, <3>2, EncSteps
  <2> HIDE DEF done, next
  <2>8. next \in Appendings("legacy") /\ done.path \in DiskPaths("legacy")
    BY <1>1, <2>1, <2>2, NextType DEF Appendings
  <2> HIDE DEF more
  <2>9. CASE ~done.ok
    <3>1. next = done /\ Some(t, P)
      BY <2>1, <2>2, <2>9 DEF Next1
    <3>2. Is(next, more)
      BY <2>4, <2>8, <2>9, <3>1
    <3> QED BY <2>3, <3>2 DEF S, next, more
  <2>10. CASE done.ok
    <3>1. next = AppendChar(done.path, c) /\ done.path.m1 = After(t, P) /\ done.path.m2 = After(t, Q)
      BY <2>1, <2>2, <2>10 DEF Next1
    <3>2. /\ next.ok <=> more \notin P
          /\ next.ok => /\ next.path.m1 = After(more, P) /\ next.path.m2 = After(more, Q)
                        /\ next.path.data = IF more \in Q THEN From(done.path.data \o Encoded("legacy", c), 8)
                                            ELSE done.path.data \o Encoded("legacy", c)
      BY <2>1, <2>8, <3>1, LegacyChar DEF more, P, Q
    <3>3. done.path.data = Enc("legacy", IF Some(t, Q) THEN From(t, 8) ELSE t) /\ ~Some(t, P)
      BY <2>1, <2>10
    <3>4. next.ok => next.path.data = Enc("legacy", IF Some(more, Q) THEN From(more, 8) ELSE more)
      <4>1. CASE more \in Q
        <5>1. ~Some(t, Q) /\ Some(more, Q)
          BY <2>4, <4>1
        <5> QED BY <2>5, <2>6, <3>2, <3>3, <4>1, <5>1
      <4>2. CASE more \notin Q /\ Some(t, Q)
        BY <2>4, <2>7, <3>2, <3>3, <4>2
      <4>3. CASE more \notin Q /\ ~Some(t, Q)
        BY <2>4, <2>5, <3>2, <3>3, <4>3
      <4> QED BY <4>1, <4>2, <4>3
    <3>5. Is(next, more)
      BY <2>4, <2>8, <3>2, <3>3, <3>4
    <3> QED BY <2>3, <3>5 DEF S, next, more
  <2> QED BY <2>9, <2>10 DEF more
<1>6. S = Seq(Letters0)
  <2>1. S \in SUBSET Seq(Letters0)
    OBVIOUS
  <2> HIDE DEF S
  <2> QED BY <1>4, <1>5, <2>1, SeqInduction
<1>7. Is(AppendAll(r, text), text)
  BY <1>6
<1> QED BY <1>7 DEF r, P, Q

(* The whole of Feed: the text, then 0. *)

Fed(to, text) == Feed(to, [chars |-> text, throws |-> FALSE])

\* Feed appends the text and then 0.
LEMMA FedIs ==
  ASSUME NEW to, NEW text
  PROVE  LET all == AppendAll(Reset(to), text)
             last == AppendChar(all.path, 0)
         IN  /\ all.ok /\ last.ok => Fed(to, text) = [path |-> last.path, outcome |-> "done"]
             /\ ~(all.ok /\ last.ok) => Fed(to, text).outcome = "refused"
BY DEF Fed, Feed, Appended, Attempt

\* In versions 1 and 2 every text has a place.
LEMMA FedWsl ==
  ASSUME NEW class \in {"v1", "v2"}, NEW to \in DiskPaths(class), NEW text \in Seq(Letters0)
  PROVE  Fed(to, text).outcome = "done" /\ Fed(to, text).path.data = Enc(class, text)
<1> DEFINE all == AppendAll(Reset(to), text)
           last == AppendChar(all.path, 0)
<1>1. all.path \in DiskPaths(class) /\ all.ok = TRUE /\ all.path.data = Enc(class, text)
  BY WslText, ZenonT(60) DEF Appendings
<1>2. /\ all.ok /\ last.ok => Fed(to, text) = [path |-> last.path, outcome |-> "done"]
      /\ ~(all.ok /\ last.ok) => Fed(to, text).outcome = "refused"
  BY FedIs
<1> HIDE DEF all
<1>3. last.ok = TRUE /\ last.path.data = all.path.data \o Encoded(class, 0)
  BY <1>1, WslChar, Signs
<1>4. Encoded(class, 0) = <<>>
  BY DEF Encoded, IsSpecial, Hash, Colon, Back
<1>5. Enc(class, text) \o <<>> = Enc(class, text)
  BY EncSteps, DiskTexts, LettersAreText, Joining
<1> HIDE DEF last
<1>6. last.path.data = Enc(class, text)
  BY <1>1, <1>3, <1>4, <1>5, Zenon
<1>7. Fed(to, text) = [path |-> last.path, outcome |-> "done"]
  BY <1>1, <1>2, <1>3
<1> QED BY <1>6, <1>7

\* A text without 0 is free of it.
LEMMA FreeOfZero == \A t \in Seq(Letters0) : t \in Free(0)
<1> SUFFICES ASSUME NEW t \in Seq(Letters0) PROVE t \in Free(0)
  OBVIOUS
<1>1. \A i \in 1 .. Len(t) : t[i] \in Letters0
  BY ElementOfSeq
<1> QED BY <1>1, LettersAreText DEF Free, Letters0

\* In Linux what lies in rootfs has one.
LEMMA FedLinux ==
  ASSUME NEW to \in DiskPaths("linux"), NEW text \in Seq(Letters0)
  PROVE  /\ IsPrefix(Under(<<>>), text) => Fed(to, text).outcome = "done" /\ Fed(to, text).path.data = From(text, 8)
         /\ ~IsPrefix(Under(<<>>), text) => Fed(to, text).outcome = "refused"
<1> DEFINE P == LinuxPatterns
           all == AppendAll(Reset(to), text)
           more == Append(text, 0)
           last == AppendChar(all.path, 0)
<1>1. /\ all.path \in DiskPaths("linux")
      /\ all.ok <=> Live(text, P) \/ Some(text, P)
      /\ all.ok => /\ all.path.m1 = After(text, P)
                   /\ all.path.data = IF Some(text, P) THEN From(text, 8) ELSE text
  BY LinuxText DEF Appendings
<1>2. /\ all.ok /\ last.ok => Fed(to, text) = [path |-> last.path, outcome |-> "done"]
      /\ ~(all.ok /\ last.ok) => Fed(to, text).outcome = "refused"
  BY FedIs
<1>3. text \in Text /\ 0 \in Code
  BY LettersAreText, Signs
<1>4. Live(text, P) => ~Some(text, P)
  BY <1>3, PatternsArePure, SomeSteps
<1>5. Under(<<>>) \in Free(0)
  <2>1. rootfs \o <<Slash>> \in Text /\ rootfs \in Text
    BY Words, Texts
  <2>2. Under(<<>>) = Append(rootfs, Slash)
    BY <2>1, Joining DEF Under, Cell
  <2>3. rootfs \in Seq(Letters0) /\ Slash \in Letters0
    BY WordsAreFree, Signs DEF Letters0, Slash
  <2>4. Append(rootfs, Slash) \in Seq(Letters0)
    BY <2>3, AppendProperties
  <2> QED BY <2>2, <2>4, FreeOfZero
<1>6. ~IsPrefix(more, Under(<<>>)) /\ IsPrefix(more, more)
  <2>1. more \in Text
    BY <1>3, Texts
  <2> QED BY <1>3, <1>5, <2>1, NotBeyond, PrefixSelf
<1>7. more \notin P /\ ~Live(more, P) /\ (Some(text, P) <=> IsPrefix(Under(<<>>), text))
  <2> HIDE DEF more
  <2> QED BY <1>6, PatternsAre DEF Live, IsStrictPrefix, Some
<1> HIDE DEF all
<1>8. all.ok => /\ last.ok <=> more \in P \/ ~(Live(text, P) /\ ~Live(more, P))
                /\ last.ok => last.path.data = IF more \in P THEN <<>> ELSE IF 0 # 0 THEN Append(all.path.data, 0) ELSE all.path.data
  BY <1>1, <1>3, LinuxChar
<1> HIDE DEF last, more, P
<1>9. CASE Some(text, P)
  <2>1. all.ok /\ last.ok /\ last.path.data = From(text, 8)
    BY <1>1, <1>4, <1>7, <1>8, <1>9
  <2> QED BY <1>2, <1>7, <1>9, <2>1
<1>10. CASE ~Some(text, P)
  <2>1. ~(all.ok /\ last.ok)
    BY <1>1, <1>7, <1>8, <1>10
  <2> QED BY <1>2, <1>7, <1>10, <2>1
<1> QED BY <1>9, <1>10

\* In the legacy version what does not lie in /home, /root or /mnt beside rootfs has one.
Occupied(text) == text \in MovedWords \/ \E w \in MovedWords : IsPrefix(Append(w, Slash), text)

\* A text that begins with a place of Linux is refused beside rootfs, any other is
\* written, without rootfs if it begins with a place in it.
LEMMA FedLegacy ==
  ASSUME NEW to \in DiskPaths("legacy"), NEW text \in Seq(Letters0)
  PROVE  /\ Occupied(text) => Fed(to, text).outcome = "refused"
         /\ ~Occupied(text) => /\ Fed(to, text).outcome = "done"
                               /\ Fed(to, text).path.data
                                    = Enc("legacy", IF Some(text, NestedPatterns) THEN From(text, 8) ELSE text)
<1> DEFINE all == AppendAll(Reset(to), text)
           more == Append(text, 0)
           last == AppendChar(all.path, 0)
           u == IF Some(text, NestedPatterns) THEN From(text, 8) ELSE text
<1>1. /\ all.path \in DiskPaths("legacy")
      /\ all.ok <=> ~Some(text, MovedPatterns)
      /\ all.ok => /\ all.path.m1 = After(text, MovedPatterns) /\ all.path.m2 = After(text, NestedPatterns)
                   /\ all.path.data = Enc("legacy", u)
  BY LegacyText DEF Appendings
<1>2. /\ all.ok /\ last.ok => Fed(to, text) = [path |-> last.path, outcome |-> "done"]
      /\ ~(all.ok /\ last.ok) => Fed(to, text).outcome = "refused"
  BY FedIs
<1>3. text \in Text /\ 0 \in Code /\ Slash \in Code /\ Slash # 0 /\ text \in Free(0)
  BY LettersAreText, Signs, FreeOfZero DEF Slash
<1>4. more \in Text /\ more[Len(more)] = 0
  BY <1>3, Texts, AppendProperties DEF Text
<1>5. \A w \in MovedWords : /\ w \in Text
                            /\ ~IsPrefix(Append(w, 0), text)
                            /\ more = Append(w, 0) <=> text = w
                            /\ more # Append(w, Slash)
  <2> SUFFICES ASSUME NEW w \in MovedWords
               PROVE  w \in Text /\ ~IsPrefix(Append(w, 0), text) /\ (more = Append(w, 0) <=> text = w) /\ more # Append(w, Slash)
    OBVIOUS
  <2>1. w \in Text
    BY WordsAreFree
  <2>2. \A a, b \in Text, c, d \in Code : Append(a, c) = Append(b, d) <=> a = b /\ c = d
    <3>1. \A T : \A a, b \in Seq(T), c, d \in T : Append(a, c) = Append(b, d) => a = b /\ c = d
      <4>1. ASSUME NEW T, NEW a \in Seq(T), NEW b \in Seq(T), NEW c \in T, NEW d \in T, Append(a, c) = Append(b, d)
            PROVE  a = b /\ c = d
        <5>1. /\ Len(Append(a, c)) = Len(a) + 1 /\ Append(a, c)[Len(a) + 1] = c /\ \A i \in 1 .. Len(a) : Append(a, c)[i] = a[i]
              /\ Len(Append(b, d)) = Len(b) + 1 /\ Append(b, d)[Len(b) + 1] = d /\ \A i \in 1 .. Len(b) : Append(b, d)[i] = b[i]
              /\ Len(a) \in Nat /\ Len(b) \in Nat
          BY AppendProperties, LenProperties
        <5>2. Len(a) = Len(b)
          BY <4>1, <5>1
        <5> QED BY <4>1, <5>1, <5>2, SeqEqual
      <4> QED BY <4>1
    <3> QED BY <3>1 DEF Text
  <2>3. ~IsPrefix(Append(w, 0), text)
    BY <1>3, <2>1, NotBeyond
  <2> QED BY <1>3, <2>1, <2>2, <2>3
<1>6. Some(text, MovedPatterns) <=> \E w \in MovedWords : IsPrefix(Append(w, Slash), text)
  <2>1. ASSUME Some(text, MovedPatterns) PROVE \E w \in MovedWords : IsPrefix(Append(w, Slash), text)
    <3>1. PICK p \in MovedPatterns : IsPrefix(p, text)
      BY <2>1 DEF Some
    <3>2. PICK w \in MovedWords, c \in {Slash, 0} : p = Append(w, c)
      BY PatternsAre
    <3>3. c = Slash
      BY <1>5, <3>1, <3>2
    <3> QED BY <3>1, <3>2, <3>3
  <2>2. ASSUME NEW w \in MovedWords, IsPrefix(Append(w, Slash), text) PROVE Some(text, MovedPatterns)
    <3>1. Append(w, Slash) \in MovedPatterns
      BY PatternsAre
    <3> QED BY <2>2, <3>1 DEF Some
  <2> QED BY <2>1, <2>2
<1>7. more \in MovedPatterns <=> text \in MovedWords
  <2> HIDE DEF more
  <2>1. ASSUME more \in MovedPatterns PROVE text \in MovedWords
    <3>1. PICK w \in MovedWords, c \in {Slash, 0} : more = Append(w, c)
      BY <2>1, PatternsAre
    <3> QED BY <1>5, <3>1
  <2>2. ASSUME text \in MovedWords PROVE more \in MovedPatterns
    <3>1. Append(text, 0) \in MovedPatterns
      BY <2>2, PatternsAre
    <3> QED BY <3>1 DEF more
  <2> QED BY <2>1, <2>2
<1>8. more \notin NestedPatterns
  <2>1. SUFFICES ASSUME NEW w \in MovedWords, more = Under(Append(w, Slash)) PROVE FALSE
    <3> HIDE DEF more
    <3> QED BY PatternsAre
  <2> DEFINE a == rootfs \o <<Slash>>
             b == Append(w, Slash)
  <2>2. a \in Text /\ b \in Text /\ Len(b) \in Nat \ {0} /\ b[Len(b)] = Slash
    <3>1. a \in Text /\ b \in Text /\ w \in Text
      BY WordsAreFree, Words, Signs, Texts
    <3>2. Len(b) = Len(w) + 1 /\ b[Len(w) + 1] = Slash /\ Len(w) \in Nat
      BY <1>3, <3>1, AppendProperties, LenIsNat DEF Text
    <3> QED BY <3>1, <3>2
  <2> HIDE DEF a, b
  <2>3. more = a \o b
    BY <2>1 DEF Under, Cell, a, b
  <2>4. Len(a) \in Nat /\ Len(a \o b) = Len(a) + Len(b) /\ (a \o b)[Len(a) + Len(b)] = b[Len(b)]
    <3>1. Len(b) \in 1 .. Len(b)
      BY <2>2
    <3> QED BY <2>2, <3>1, AppendedIs, LenIsNat
  <2> HIDE DEF more
  <2> QED BY <1>3, <1>4, <2>2, <2>3, <2>4
<1>9. Enc("legacy", u) \o Encoded("legacy", 0) = Enc("legacy", u)
  <2>1. u \in Text
    BY <1>3, FromType
  <2>2. Encoded("legacy", 0) = <<>>
    BY DEF Encoded, IsSpecial, Hash, Colon, Back
  <2>3. Enc("legacy", u) \in Text
    BY <2>1, EncSteps, DiskTexts
  <2> HIDE DEF u
  <2> QED BY <2>2, <2>3, Joining
<1> HIDE DEF all, u
<1>10. all.ok => /\ last.ok <=> more \notin MovedPatterns
                 /\ last.ok => last.path.data = IF more \in NestedPatterns THEN From(all.path.data \o Encoded("legacy", 0), 8)
                                                ELSE all.path.data \o Encoded("legacy", 0)
  BY <1>1, <1>3, LegacyChar
<1> HIDE DEF last, more
<1>11. CASE Occupied(text)
  <2>1. ~(all.ok /\ last.ok)
    BY <1>1, <1>6, <1>7, <1>10, <1>11 DEF Occupied
  <2> QED BY <1>2, <1>11, <2>1
<1>12. CASE ~Occupied(text)
  <2>1. all.ok /\ last.ok /\ last.path.data = Enc("legacy", u)
    BY <1>1, <1>6, <1>7, <1>8, <1>9, <1>10, <1>12 DEF Occupied
  <2> QED BY <1>2, <1>12, <2>1 DEF u
<1> QED BY <1>11, <1>12

=============================================================================
