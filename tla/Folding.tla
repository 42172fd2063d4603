------------------------------- MODULE Folding -------------------------------
(***************************************************************************)
(* A loop over a sequence that carries a value along: for (const e of s)   *)
(* acc = step(acc, e).  The stream codec, the translators and the readers  *)
(* are instances of it, and what is proved here of every base and step is  *)
(* what lets their results be proved about for inputs of any length.       *)
(***************************************************************************)
EXTENDS Integers, Sequences, SequenceTheorems, WellFoundedInduction, TLAPS

CONSTANTS base, step(_, _)

(* What has been carried along when the loop is over.                       *)
folded(s) ==
  LET fold[i \in 0 .. Len(s)] == IF i = 0 THEN base ELSE step(fold[i - 1], s[i])
  IN fold[Len(s)]

-----------------------------------------------------------------------------
(* Every set of numbers that is not empty has a least one, so what holds of *)
(* 0 and of the next holds of all.                                          *)
LEMMA Least ==
  ASSUME NEW T \in SUBSET Nat, T # {}
  PROVE  \E n \in T : \A m \in T : n <= m
<1>1. IsWellFoundedOn(OpToRel(<, Nat), Nat)
  BY NatLessThanWellFounded
<1>2. \A x, y \in Nat : y < x => <<y, x>> \in OpToRel(<, Nat)
  BY DEF OpToRel
<1>3. PICK R : IsWellFoundedOn(R, Nat) /\ \A x, y \in Nat : y < x => <<y, x>> \in R
  BY <1>1, <1>2
<1>4. PICK x \in T : \A y \in T : ~ (<<y, x>> \in R)
  BY <1>3, WFMin
<1>5. \A m, n \in Nat : m < n => <<m, n>> \in R
  BY <1>3
<1>6. \A y \in T : x <= y
  <2>1. ASSUME NEW y \in T PROVE ~ (y < x)
    <3>1. x \in Nat /\ y \in Nat
      OBVIOUS
    <3> QED BY <1>4, <1>5, <3>1, Zenon
  <2>2. \A y \in T : y \in Nat /\ x \in Nat
    OBVIOUS
  <2> QED BY <2>1, <2>2
<1> QED BY <1>6

LEMMA Induction ==
  ASSUME NEW S, 0 \in S, \A n \in Nat : n \in S => n + 1 \in S
  PROVE  \A n \in Nat : n \in S
<1>1. SUFFICES ASSUME Nat \ S # {} PROVE FALSE
  OBVIOUS
<1>2. PICK n \in Nat \ S : \A m \in Nat \ S : n <= m
  BY <1>1, Least
<1>3. n # 0 /\ n - 1 \in Nat /\ n - 1 \in S
  BY <1>2
<1>4. (n - 1) + 1 \in S
  BY <1>3
<1> QED BY <1>2, <1>4

(* A recursive function exists, and is what its definition says. *)
LEMMA Exists ==
  ASSUME NEW s, NEW n \in Nat
  PROVE  \E f : f = [i \in 0 .. n |-> IF i = 0 THEN base ELSE step(f[i - 1], s[i])]
<1> DEFINE Is(g, m) == g = [i \in 0 .. m |-> IF i = 0 THEN base ELSE step(g[i - 1], s[i])]
           Defined == {m \in Nat : \E g : Is(g, m)}
<1>1. 0 \in Defined
  <2>1. Is([i \in 0 .. 0 |-> base], 0)
    OBVIOUS
  <2> QED BY <2>1
<1>2. ASSUME NEW m \in Nat, m \in Defined PROVE m + 1 \in Defined
  <2>1. PICK g : Is(g, m)
    BY <1>2
  <2>2. PICK h : h = [i \in 0 .. m + 1 |-> IF i = m + 1 THEN step(g[m], s[m + 1]) ELSE g[i]]
    OBVIOUS
  <2>3. \A i \in 0 .. m : g[i] = IF i = 0 THEN base ELSE step(g[i - 1], s[i])
    BY <2>1
  <2>4. ASSUME NEW i \in 0 .. m + 1
        PROVE  h[i] = IF i = 0 THEN base ELSE step(h[i - 1], s[i])
    <3>1. CASE i = m + 1
      <4>1. i - 1 = m /\ m \in 0 .. m + 1 /\ m # m + 1 /\ i # 0
        BY <3>1
      <4>2. h[m] = g[m] /\ h[i] = step(g[m], s[m + 1])
        BY <2>2, <3>1, <4>1
      <4> QED BY <3>1, <4>1, <4>2
    <3>2. CASE i # m + 1
      <4>1. i \in 0 .. m
        BY <3>2
      <4>2. h[i] = g[i]
        BY <2>2, <3>2
      <4>3. CASE i = 0
        BY <2>3, <4>1, <4>2, <4>3
      <4>4. CASE i # 0
        <5>1. i - 1 \in 0 .. m /\ i - 1 \in 0 .. m + 1 /\ i - 1 # m + 1
          BY <4>1, <4>4
        <5>2. h[i - 1] = g[i - 1]
          BY <2>2, <5>1
        <5> QED BY <2>3, <4>1, <4>2, <4>4, <5>2
      <4> QED BY <4>3, <4>4
    <3> QED BY <3>1, <3>2
  <2>5. Is(h, m + 1)
    BY <2>2, <2>4
  <2>6. m + 1 \in Nat
    OBVIOUS
  <2> HIDE DEF Is
  <2> QED BY <2>5, <2>6
<1>3. n \in Defined
  <2> HIDE DEF Defined
  <2> QED BY <1>1, <1>2, Induction
<1> QED BY <1>3

(* The loop, turn by turn.                                                  *)
LEMMA FoldedIs ==
  ASSUME NEW s, Len(s) \in Nat
  PROVE  \E f : /\ f = [i \in 0 .. Len(s) |-> IF i = 0 THEN base ELSE step(f[i - 1], s[i])]
                /\ folded(s) = f[Len(s)]
<1> DEFINE f == CHOOSE g : g = [i \in 0 .. Len(s) |-> IF i = 0 THEN base ELSE step(g[i - 1], s[i])]
<1>1. f = [i \in 0 .. Len(s) |-> IF i = 0 THEN base ELSE step(f[i - 1], s[i])]
  BY Exists
<1>2. folded(s) = f[Len(s)]
  BY DEF folded
<1> HIDE DEF f
<1> QED BY <1>1, <1>2

LEMMA FoldedEmpty == folded(<<>>) = base
<1>1. Len(<<>>) = 0
  OBVIOUS
<1>2. PICK f : /\ f = [i \in 0 .. 0 |-> IF i = 0 THEN base ELSE step(f[i - 1], <<>>[i])]
               /\ folded(<<>>) = f[0]
  BY <1>1, FoldedIs
<1> QED BY <1>2

LEMMA FoldedAppend ==
  ASSUME NEW S, NEW s \in Seq(S), NEW e \in S
  PROVE  folded(Append(s, e)) = step(folded(s), e)
<1>1. PICK n \in Nat : n = Len(s)
  OBVIOUS
<1>2. PICK t : t = Append(s, e)
  OBVIOUS
<1>3. Len(t) = n + 1 /\ t[n + 1] = e /\ \A i \in 1 .. n : t[i] = s[i]
  BY <1>1, <1>2
<1>4. PICK f : /\ f = [i \in 0 .. n |-> IF i = 0 THEN base ELSE step(f[i - 1], s[i])]
               /\ folded(s) = f[n]
  BY <1>1, FoldedIs
<1>5. PICK g : /\ g = [i \in 0 .. n + 1 |-> IF i = 0 THEN base ELSE step(g[i - 1], t[i])]
               /\ folded(t) = g[n + 1]
  BY <1>3, FoldedIs
<1>6. \A i \in 0 .. n : f[i] = IF i = 0 THEN base ELSE step(f[i - 1], s[i])
  BY <1>4
<1>7. \A i \in 0 .. n + 1 : g[i] = IF i = 0 THEN base ELSE step(g[i - 1], t[i])
  BY <1>5
<1> DEFINE Same == {i \in Nat : i <= n => f[i] = g[i]}
<1>8. n \in Same
  <2>1. 0 \in Same
    BY <1>6, <1>7
  <2>2. ASSUME NEW i \in Nat, i \in Same PROVE i + 1 \in Same
    <3>1. SUFFICES ASSUME i + 1 <= n PROVE f[i + 1] = g[i + 1]
      OBVIOUS
    <3>2. i + 1 \in 0 .. n /\ i + 1 \in 0 .. n + 1 /\ i + 1 # 0 /\ i + 1 - 1 = i /\ i + 1 \in 1 .. n
      BY <3>1
    <3>3. f[i] = g[i]
      BY <2>2, <3>1
    <3>4. f[i + 1] = step(f[i], s[i + 1])
      BY <1>6, <3>2
    <3>5. g[i + 1] = step(g[i], t[i + 1])
      BY <1>7, <3>2
    <3> QED BY <1>3, <3>2, <3>3, <3>4, <3>5
  <2> HIDE DEF Same
  <2> QED BY <2>1, <2>2, Induction
<1>9. f[n] = g[n]
  BY <1>8
<1>10. g[n + 1] = step(g[n], t[n + 1])
  <2>1. n + 1 \in 0 .. n + 1 /\ n + 1 # 0 /\ n + 1 - 1 = n
    OBVIOUS
  <2> QED BY <1>7, <2>1
<1> QED BY <1>2, <1>3, <1>4, <1>5, <1>9, <1>10

(* What holds of no element and of one more holds of every sequence.        *)
LEMMA SeqInduction ==
  ASSUME NEW S, NEW Good, <<>> \in Good,
         \A s \in Seq(S), e \in S : s \in Good => Append(s, e) \in Good
  PROVE  \A s \in Seq(S) : s \in Good
<1> DEFINE Short == {n \in Nat : \A s \in Seq(S) : Len(s) = n => s \in Good}
<1>1. 0 \in Short
  BY EmptySeq
<1>2. ASSUME NEW n \in Nat, n \in Short PROVE n + 1 \in Short
  <2> SUFFICES ASSUME NEW s \in Seq(S), Len(s) = n + 1 PROVE s \in Good
    OBVIOUS
  <2>1. s # <<>>
    OBVIOUS
  <2>2. PICK t \in Seq(S), e \in S : s = Append(t, e)
    BY <2>1, SequenceEmptyOrAppend
  <2>3. Len(s) = Len(t) + 1 /\ Len(t) \in Nat
    BY <2>2, AppendProperties
  <2> QED BY <1>2, <2>2, <2>3
<1>3. \A n \in Nat : n \in Short
  <2> HIDE DEF Short
  <2> QED BY <1>1, <1>2, Induction
<1>4. \A s \in Seq(S) : Len(s) \in Nat
  OBVIOUS
<1> QED BY <1>3, <1>4

(* What every step keeps holds at the end.                                  *)
LEMMA FoldedIn ==
  ASSUME NEW S, NEW T, base \in T, \A acc \in T, e \in S : step(acc, e) \in T,
         NEW s \in Seq(S)
  PROVE  folded(s) \in T
<1> DEFINE Good == {t \in Seq(S) : folded(t) \in T}
<1>1. <<>> \in Good
  BY FoldedEmpty, EmptySeq
<1>2. \A t \in Seq(S), e \in S : t \in Good => Append(t, e) \in Good
  BY FoldedAppend, AppendProperties
<1> HIDE DEF Good
<1>3. s \in Good
  BY <1>1, <1>2, SeqInduction
<1> QED BY <1>3 DEF Good

=============================================================================
