----------------------------- MODULE ListLemmas -----------------------------
(***************************************************************************)
(* Facts about sequences that the proofs of several components share.  The *)
(* least counterexample takes the place of induction over numbers, and     *)
(* what a recursive function computes along a sequence is a walk.          *)
(***************************************************************************)
EXTENDS ListOps, SequencesExt, WellFoundedInduction, SequenceTheorems, TLAPS

(* There is a least number in every set that is not empty.                 *)
LEMMA LeastExists ==
  ASSUME NEW S \in SUBSET Nat, S # {}
  PROVE  \E x \in S : \A y \in S : x <= y
  <1> DEFINE R == OpToRel(<, Nat)
  <1>1. \A x, y \in Nat : x < y => <<x, y>> \in R
    BY DEF OpToRel
  <1>2. IsWellFoundedOn(R, Nat)
    BY NatLessThanWellFounded
  <1> HIDE DEF R
  <1>3. PICK x \in S : \A y \in S : ~(<<y, x>> \in R)
    BY <1>2, WFMin
  <1>4. \A y \in S : ~(y < x)
    BY <1>1, <1>3
  <1>5. \A y \in S : x <= y
    BY <1>4
  <1>6. QED
    BY <1>5

(* There is a greatest number in every set of numbers with a bound.        *)
LEMMA MaxFacts ==
  ASSUME NEW S \in SUBSET Nat, S # {}, NEW n \in Nat, \A x \in S : x <= n
  PROVE  Max(S) \in S /\ \A y \in S : y <= Max(S)
  <1> DEFINE D == {n - x : x \in S}
  <1>0. \A x \in S : x \in Nat /\ n - x \in Nat
    OBVIOUS
  <1>1. D \in SUBSET Nat /\ D # {}
    <2>1. \A d \in D : d \in Nat
      BY <1>0
    <2>2. PICK x \in S : TRUE
      OBVIOUS
    <2>3. n - x \in D
      OBVIOUS
    <2>4. QED
      BY <2>1, <2>3
  <1>2. PICK d \in D : \A y \in D : d <= y
    BY <1>1, LeastExists
  <1>3. PICK m \in S : d = n - m
    BY <1>2
  <1>4. \A y \in S : m >= y
    <2> SUFFICES ASSUME NEW y \in S PROVE m >= y
      OBVIOUS
    <2>1. n - m <= n - y
      BY <1>2, <1>3
    <2>2. m \in Nat /\ y \in Nat
      OBVIOUS
    <2>3. QED
      BY <2>1, <2>2
  <1>5. Max(S) \in S /\ \A y \in S : Max(S) >= y
    BY <1>4, Zenon DEF Max
  <1>6. QED
    BY <1>5

(* What closing the gap at position j does to a table.                     *)
LEMMA RemoveAtFacts ==
  ASSUME NEW S, NEW s \in Seq(S), NEW j \in 1 .. Len(s)
  PROVE  /\ RemoveAt(s, j) \in Seq(S)
         /\ Len(RemoveAt(s, j)) = Len(s) - 1
         /\ \A n \in 1 .. Len(s) - 1 :
               RemoveAt(s, j)[n] = IF n < j THEN s[n] ELSE s[n + 1]
  <1> DEFINE a == SubSeq(s, 1, j - 1)
             b == SubSeq(s, j + 1, Len(s))
  <1>0. Len(s) \in Nat
    OBVIOUS
  <1>1. /\ a \in Seq(S) /\ Len(a) = j - 1
        /\ \A n \in 1 .. j - 1 : a[n] = s[n]
    BY <1>0, SubSeqProperties
  <1>2. /\ b \in Seq(S) /\ Len(b) = Len(s) - j
        /\ \A n \in 1 .. Len(s) - j : b[n] = s[n + j]
    BY <1>0, SubSeqProperties
  <1>3. /\ a \o b \in Seq(S) /\ Len(a \o b) = Len(s) - 1
        /\ \A n \in 1 .. Len(s) - 1 : (a \o b)[n] = IF n <= j - 1 THEN a[n] ELSE b[n - (j - 1)]
    <2> HIDE DEF a, b
    <2>1. /\ a \o b \in Seq(S) /\ Len(a \o b) = Len(a) + Len(b)
          /\ \A n \in 1 .. Len(a) + Len(b) :
                (a \o b)[n] = IF n <= Len(a) THEN a[n] ELSE b[n - Len(a)]
      BY <1>1, <1>2, ConcatProperties
    <2>2. j \in Nat /\ Len(a) + Len(b) = Len(s) - 1
      BY <1>0, <1>1, <1>2
    <2>3. QED
      BY <1>1, <2>1, <2>2
  <1>4. RemoveAt(s, j) = a \o b
    BY DEF RemoveAt
  <1> HIDE DEF a, b
  <1>5. ASSUME NEW n \in 1 .. Len(s) - 1
        PROVE  RemoveAt(s, j)[n] = IF n < j THEN s[n] ELSE s[n + 1]
    <2>1. CASE n < j
      BY <1>0, <1>1, <1>3, <1>4, <2>1
    <2>2. CASE ~(n < j)
      <3>1. n - (j - 1) \in 1 .. Len(s) - j /\ n - (j - 1) + j = n + 1 /\ ~(n <= j - 1)
        BY <1>0, <2>2
      <3>2. (a \o b)[n] = b[n - (j - 1)]
        BY <1>3, <3>1
      <3>3. b[n - (j - 1)] = s[n + 1]
        BY <1>2, <3>1
      <3>4. QED
        BY <1>4, <2>2, <3>2, <3>3
    <2>3. QED
      BY <2>1, <2>2
  <1>6. QED
    BY <1>3, <1>4, <1>5

-----------------------------------------------------------------------------
(* Walks: what a recursive function computes along a sequence.              *)

(* A place to start and a step to take at each element of s.               *)
Stepping(S, E, step, x0, s) ==
  x0 \in S /\ step \in [S -> [E -> S]] /\ s \in Seq(E)

(* A walk over a sequence s that starts at x0 and takes, at each element,  *)
(* the step that the function step gives.                                  *)
IsWalk(p, S, step, x0, s) ==
  /\ p \in [0 .. Len(s) -> S]
  /\ p[0] = x0
  /\ \A n \in 1 .. Len(s) : p[n] = step[p[n - 1]][s[n]]

(* Walks along two sequences that are equal up to n are equal up to n.     *)
LEMMA WalksAgree ==
  ASSUME NEW S, NEW E, NEW x0, NEW step, NEW s, NEW t,
         Stepping(S, E, step, x0, s), Stepping(S, E, step, x0, t),
         NEW p, IsWalk(p, S, step, x0, s), NEW r, IsWalk(r, S, step, x0, t),
         NEW n \in Nat, n <= Len(s), n <= Len(t), \A i \in 1 .. n : s[i] = t[i]
  PROVE  p[n] = r[n]
  <1> USE DEF Stepping
  <1>0. \A i \in 1 .. n : i \in 1 .. Len(s) /\ i \in 1 .. Len(t)
    OBVIOUS
  <1> DEFINE bad == {i \in 0 .. n : p[i] # r[i]}
  <1>1. ASSUME bad # {}
        PROVE  FALSE
    <2>1. bad \in SUBSET Nat
      OBVIOUS
    <2>2. PICK i \in bad : \A j \in bad : i <= j
      BY <1>1, <2>1, LeastExists
    <2>3. CASE i = 0
      BY <2>2, <2>3 DEF IsWalk
    <2>4. CASE i # 0
      <3>1. i - 1 \in 0 .. n /\ i \in 1 .. n /\ i - 1 < i
        BY <2>2, <2>4
      <3>2. i - 1 \notin bad
        BY <2>2, <3>1
      <3>3. p[i - 1] = r[i - 1]
        BY <3>1, <3>2
      <3>4. i \in 1 .. Len(s) /\ i \in 1 .. Len(t) /\ s[i] = t[i]
        BY <1>0, <3>1
      <3>5. p[i] = step[p[i - 1]][s[i]] /\ r[i] = step[r[i - 1]][t[i]]
        BY <3>4 DEF IsWalk
      <3>6. p[i] = r[i]
        BY <3>3, <3>4, <3>5
      <3>7. QED
        BY <2>2, <3>6
    <2>5. QED
      BY <2>3, <2>4
  <1>2. n \in 0 .. n
    OBVIOUS
  <1>3. QED
    BY <1>1, <1>2

(* There is a walk along every sequence.                                   *)
LEMMA WalkExists ==
  ASSUME NEW S, NEW E, NEW x0, NEW step, NEW s, Stepping(S, E, step, x0, s)
  PROVE  \E p : IsWalk(p, S, step, x0, s)
  <1> USE DEF Stepping
  <1> DEFINE Upto(n) == \E p \in [0 .. n -> S] :
                           /\ p[0] = x0
                           /\ \A i \in 1 .. n : p[i] = step[p[i - 1]][s[i]]
             bad == {n \in 0 .. Len(s) : ~Upto(n)}
  <1>0. Len(s) \in Nat /\ \A i \in 1 .. Len(s) : s[i] \in E
    OBVIOUS
  <1>1. ASSUME bad # {}
        PROVE  FALSE
    <2>1. bad \in SUBSET Nat
      OBVIOUS
    <2>2. PICK n \in bad : \A j \in bad : n <= j
      BY <1>1, <2>1, LeastExists
    <2>3. CASE n = 0
      <3>1. [i \in 0 .. 0 |-> x0] \in [0 .. 0 -> S] /\ 0 \in 0 .. 0 /\ 1 .. 0 = {}
        OBVIOUS
      <3>2. Upto(0)
        BY <3>1
      <3>3. QED
        BY <2>2, <2>3, <3>2
    <2>4. CASE n # 0
      <3>1. n - 1 \in 0 .. Len(s) /\ n \in 1 .. Len(s) /\ n - 1 < n /\ n \in Nat
        BY <1>0, <2>2, <2>4
      <3>2. n - 1 \notin bad
        <4> HIDE DEF Upto
        <4>1. QED
          BY <2>2, <3>1
      <3>3. PICK p \in [0 .. n - 1 -> S] :
                   /\ p[0] = x0
                   /\ \A i \in 1 .. n - 1 : p[i] = step[p[i - 1]][s[i]]
        BY <3>1, <3>2
      <3> DEFINE v == step[p[n - 1]][s[n]]
                 r == [i \in 0 .. n |-> IF i = n THEN v ELSE p[i]]
      <3>4. p[n - 1] \in S /\ s[n] \in E /\ v \in S
        BY <1>0, <3>1, <3>3
      <3>5. r \in [0 .. n -> S]
        BY <3>1, <3>3, <3>4
      <3>6. r[0] = x0
        BY <2>4, <3>1, <3>3
      <3>7. \A i \in 0 .. n - 1 : r[i] = p[i]
        BY <3>1
      <3>8. r[n] = v
        BY <3>1
      <3> HIDE DEF r
      <3>9. ASSUME NEW i \in 1 .. n
            PROVE  r[i] = step[r[i - 1]][s[i]]
        <4>1. i - 1 \in 0 .. n - 1
          BY <3>1
        <4>2. CASE i = n
          BY <3>7, <3>8, <4>1, <4>2
        <4>3. CASE i # n
          <5>1. i \in 0 .. n - 1 /\ i \in 1 .. n - 1
            BY <3>1, <4>3
          <5>2. QED
            BY <3>3, <3>7, <4>1, <5>1
        <4>4. QED
          BY <4>2, <4>3
      <3>10. Upto(n)
        BY <3>5, <3>6, <3>9
      <3>11. QED
        BY <2>2, <3>10
    <2>5. QED
      BY <2>3, <2>4
  <1>2. Len(s) \in 0 .. Len(s)
    BY <1>0
  <1>3. Upto(Len(s))
    BY <1>1, <1>2
  <1>4. QED
    BY <1>3 DEF IsWalk

(* What starts and steps like a walk is the walk.                          *)
Follows(g, S, step, x0, s) ==
  /\ g[0] = x0
  /\ \A n \in 1 .. Len(s) : g[n - 1] \in S => g[n] = step[g[n - 1]][s[n]]

LEMMA WalkFollowed ==
  ASSUME NEW S, NEW E, NEW x0, NEW step, NEW s, Stepping(S, E, step, x0, s),
         NEW p, IsWalk(p, S, step, x0, s),
         NEW g, Follows(g, S, step, x0, s)
  PROVE  \A n \in 0 .. Len(s) : g[n] = p[n]
  <1> USE DEF Stepping
  <1>0. Len(s) \in Nat
    OBVIOUS
  <1> DEFINE bad == {n \in 0 .. Len(s) : g[n] # p[n]}
  <1>1. ASSUME bad # {}
        PROVE  FALSE
    <2>1. bad \in SUBSET Nat
      BY <1>0
    <2>2. PICK n \in bad : \A j \in bad : n <= j
      BY <1>1, <2>1, LeastExists
    <2>3. CASE n = 0
      BY <2>2, <2>3 DEF IsWalk, Follows
    <2>4. CASE n # 0
      <3>1. n - 1 \in 0 .. Len(s) /\ n \in 1 .. Len(s) /\ n - 1 < n /\ n \in Nat
        BY <1>0, <2>2, <2>4
      <3>2. n - 1 \notin bad
        BY <2>1, <2>2, <3>1
      <3>3. g[n - 1] = p[n - 1] /\ p[n - 1] \in S
        BY <3>1, <3>2 DEF IsWalk
      <3>4. g[n] = p[n]
        BY <3>1, <3>3 DEF IsWalk, Follows
      <3>5. QED
        BY <2>2, <3>4
    <2>5. QED
      BY <2>3, <2>4
  <1>2. QED
    BY <1>1

-----------------------------------------------------------------------------
(* Without as a walk.                                                      *)
KeepUnless(gone, S) ==
  [x \in Seq(S) |-> [e \in S |-> IF e \in gone THEN x ELSE Append(x, e)]]

LEMMA WithoutWalks ==
  ASSUME NEW S, NEW s \in Seq(S), NEW gone
  PROVE  /\ <<>> \in Seq(S) /\ KeepUnless(gone, S) \in [Seq(S) -> [S -> Seq(S)]]
         /\ \E p : /\ IsWalk(p, Seq(S), KeepUnless(gone, S), <<>>, s)
                   /\ Without(s, gone) = p[Len(s)]
  <1> DEFINE step == KeepUnless(gone, S)
             Eqn(g) == g = [n \in 0 .. Len(s) |->
                              IF n = 0 THEN <<>>
                              ELSE IF s[n] \in gone THEN g[n - 1] ELSE Append(g[n - 1], s[n])]
             kept == CHOOSE g : Eqn(g)
  <1>0. Len(s) \in Nat /\ (\A n \in 1 .. Len(s) : s[n] \in S) /\ <<>> \in Seq(S)
    OBVIOUS
  <1>1. step \in [Seq(S) -> [S -> Seq(S)]]
    BY DEF KeepUnless
  <1>2. \A x \in Seq(S), e \in S : step[x][e] = IF e \in gone THEN x ELSE Append(x, e)
    BY DEF KeepUnless
  <1> HIDE DEF step
  <1>3. Stepping(Seq(S), S, step, <<>>, s)
    BY <1>0, <1>1 DEF Stepping
  <1> HIDE DEF Eqn
  <1>3a. PICK p : IsWalk(p, Seq(S), step, <<>>, s)
    BY <1>3, WalkExists
  <1>4. Eqn(p)
    <2>1. /\ p \in [0 .. Len(s) -> Seq(S)] /\ p[0] = <<>>
          /\ \A n \in 1 .. Len(s) : p[n] = step[p[n - 1]][s[n]]
      BY <1>3a DEF IsWalk
    <2>2. \A n \in 1 .. Len(s) : p[n - 1] \in Seq(S)
      BY <1>0, <2>1
    <2>3. \A n \in 0 .. Len(s) : p[n] = IF n = 0 THEN <<>>
                              ELSE IF s[n] \in gone THEN p[n - 1] ELSE Append(p[n - 1], s[n])
      <3> SUFFICES ASSUME NEW n \in 0 .. Len(s), n # 0
                   PROVE  p[n] = IF s[n] \in gone THEN p[n - 1] ELSE Append(p[n - 1], s[n])
        BY <2>1
      <3>1. n \in 1 .. Len(s)
        BY <1>0
      <3>2. QED
        BY <1>0, <1>2, <2>1, <2>2, <3>1
    <2>4. QED
      BY <2>1, <2>3 DEF Eqn
  <1>5. Eqn(kept)
    BY <1>4
  <1>6. Without(s, gone) = kept[Len(s)]
    BY DEF Without, Eqn
  <1> HIDE DEF kept
  <1>7. kept[0] = <<>> /\ \A n \in 1 .. Len(s) :
           kept[n] = IF s[n] \in gone THEN kept[n - 1] ELSE Append(kept[n - 1], s[n])
    <2>1. 0 \in 0 .. Len(s) /\ \A n \in 1 .. Len(s) : n \in 0 .. Len(s) /\ n # 0
      BY <1>0
    <2>2. \A n \in 0 .. Len(s) : kept[n] = IF n = 0 THEN <<>>
                              ELSE IF s[n] \in gone THEN kept[n - 1] ELSE Append(kept[n - 1], s[n])
      BY <1>5 DEF Eqn
    <2>3. QED
      BY <2>1, <2>2
  <1>8. Follows(kept, Seq(S), step, <<>>, s)
    BY <1>0, <1>2, <1>7 DEF Follows
  <1>9. \A n \in 0 .. Len(s) : kept[n] = p[n]
    BY <1>3, <1>3a, <1>8, WalkFollowed
  <1>10. kept[Len(s)] = p[Len(s)]
    BY <1>0, <1>9
  <1>11. QED
    BY <1>0, <1>1, <1>3a, <1>6, <1>10 DEF step

(* Without, one element at a time.                                         *)
LEMMA WithoutEmpty ==
  ASSUME NEW gone
  PROVE  Without(<<>>, gone) = <<>>
  <1>1. <<>> \in Seq({}) /\ Len(<<>>) = 0
    OBVIOUS
  <1>2. PICK p : /\ IsWalk(p, Seq({}), KeepUnless(gone, {}), <<>>, <<>>)
                 /\ Without(<<>>, gone) = p[Len(<<>>)]
    BY <1>1, WithoutWalks
  <1>3. QED
    BY <1>1, <1>2 DEF IsWalk

LEMMA WithoutAppend ==
  ASSUME NEW S, NEW gone, NEW s \in Seq(S), NEW e \in S
  PROVE  /\ Without(s, gone) \in Seq(S)
         /\ e \in gone => Without(Append(s, e), gone) = Without(s, gone)
         /\ e \notin gone => Without(Append(s, e), gone) = Append(Without(s, gone), e)
  <1> DEFINE step == KeepUnless(gone, S)
             t == Append(s, e)
  <1>1. \A x \in Seq(S) : step[x][e] = IF e \in gone THEN x ELSE Append(x, e)
    BY DEF KeepUnless
  <1>2. /\ t \in Seq(S) /\ Len(t) = Len(s) + 1 /\ t[Len(s) + 1] = e
        /\ \A i \in 1 .. Len(s) : s[i] = t[i]
        /\ Len(s) \in Nat
    OBVIOUS
  <1> HIDE DEF step, t
  <1>3. PICK p : IsWalk(p, Seq(S), step, <<>>, s) /\ Without(s, gone) = p[Len(s)]
    BY WithoutWalks DEF step
  <1>4. PICK r : IsWalk(r, Seq(S), step, <<>>, t) /\ Without(t, gone) = r[Len(t)]
    <2>1. t \in Seq(S)
      BY <1>2
    <2>2. QED
      BY <2>1, WithoutWalks DEF step
  <1>5. Len(s) <= Len(s) /\ Len(s) <= Len(t)
    BY <1>2
  <1>6. Stepping(Seq(S), S, step, <<>>, s) /\ Stepping(Seq(S), S, step, <<>>, t)
    BY <1>2, WithoutWalks DEF Stepping, step
  <1>7. p[Len(s)] = r[Len(s)]
    BY <1>2, <1>3, <1>4, <1>5, <1>6, WalksAgree
  <1>8. Len(s) \in 0 .. Len(s) /\ Len(t) \in 1 .. Len(t) /\ Len(t) - 1 = Len(s) /\ t[Len(t)] = e
    BY <1>2
  <1>9. r[Len(t)] = step[r[Len(s)]][e]
    BY <1>4, <1>8 DEF IsWalk
  <1>10. Without(t, gone) = step[Without(s, gone)][e]
    BY <1>3, <1>4, <1>7, <1>9
  <1>11. Without(s, gone) \in Seq(S)
    BY <1>3, <1>8 DEF IsWalk
  <1>12. QED
    BY <1>1, <1>10, <1>11 DEF t

LEMMA WithoutSeq ==
  ASSUME NEW S, NEW gone
  PROVE  \A s \in Seq(S) : Without(s, gone) \in Seq(S)
  <1> SUFFICES ASSUME NEW s \in Seq(S)
               PROVE  Without(s, gone) \in Seq(S)
    OBVIOUS
  <1>1. PICK p : /\ IsWalk(p, Seq(S), KeepUnless(gone, S), <<>>, s)
                 /\ Without(s, gone) = p[Len(s)]
    BY WithoutWalks
  <1>2. Len(s) \in 0 .. Len(s)
    OBVIOUS
  <1>3. QED
    BY <1>1, <1>2 DEF IsWalk

(* Induction over sequences, for a property given as a set.                *)
LEMMA SeqInduction ==
  ASSUME NEW S, NEW P \in SUBSET Seq(S), <<>> \in P,
         \A s \in P, e \in S : Append(s, e) \in P
  PROVE  P = Seq(S)
  <1> DEFINE bad == {Len(s) : s \in Seq(S) \ P}
  <1>1. ASSUME bad # {}
        PROVE  FALSE
    <2>1. bad \in SUBSET Nat
      OBVIOUS
    <2>2. PICK n \in bad : \A j \in bad : n <= j
      BY <1>1, <2>1, LeastExists
    <2>3. PICK s \in Seq(S) \ P : Len(s) = n
      BY <2>2
    <2>4. s # <<>>
      BY <2>3
    <2>5. PICK t \in Seq(S), e \in S : s = Append(t, e)
      BY <2>3, <2>4, SequenceEmptyOrAppend
    <2>6. Len(t) \in Nat /\ n = Len(t) + 1
      BY <2>3, <2>5
    <2>7. Len(t) \notin bad
      <3> HIDE DEF bad
      <3>1. QED
        BY <2>2, <2>6
    <2>8. t \in P
      BY <2>7
    <2>9. QED
      BY <2>3, <2>5, <2>8
  <1>2. QED
    BY <1>1

(* What Without keeps.                                                     *)
LEMMA WithoutRange ==
  ASSUME NEW S, NEW s \in Seq(S), NEW gone
  PROVE  Range(Without(s, gone)) = Range(s) \ gone
  <1> DEFINE P == {t \in Seq(S) : Range(Without(t, gone)) = Range(t) \ gone}
  <1>1. <<>> \in P
    <2>1. <<>> \in Seq(S) /\ Range(<<>>) = {}
      BY DEF Range
    <2>2. QED
      BY <2>1, WithoutEmpty
  <1>2. ASSUME NEW t \in P, NEW e \in S
        PROVE  Append(t, e) \in P
    <2>1. /\ Without(t, gone) \in Seq(S)
          /\ e \in gone => Without(Append(t, e), gone) = Without(t, gone)
          /\ e \notin gone => Without(Append(t, e), gone) = Append(Without(t, gone), e)
      <3>1. t \in Seq(S)
        OBVIOUS
      <3>2. QED
        BY <3>1, WithoutAppend
    <2>2. \A x \in Seq(S) : Range(Append(x, e)) = Range(x) \cup {e}
      <3> SUFFICES ASSUME NEW x \in Seq(S)
                   PROVE  Range(Append(x, e)) = Range(x) \cup {e}
        OBVIOUS
      <3>1. /\ DOMAIN x = 1 .. Len(x) /\ DOMAIN Append(x, e) = 1 .. Len(x) + 1
            /\ Len(x) \in Nat /\ Append(x, e)[Len(x) + 1] = e
            /\ \A i \in 1 .. Len(x) : Append(x, e)[i] = x[i]
        OBVIOUS
      <3>2. QED
        BY <3>1 DEF Range
    <2>3. Append(t, e) \in Seq(S)
      OBVIOUS
    <2>4. Range(Without(t, gone)) = Range(t) \ gone /\ t \in Seq(S)
      OBVIOUS
    <2>5. Range(Without(Append(t, e), gone)) = Range(Append(t, e)) \ gone
      BY <2>1, <2>2, <2>4
    <2>6. QED
      BY <2>3, <2>5
  <1>3. P \in SUBSET Seq(S)
    OBVIOUS
  <1> HIDE DEF P
  <1>4. P = Seq(S)
    BY <1>1, <1>2, <1>3, SeqInduction
  <1>5. QED
    BY <1>4 DEF P

(* Only the elements that occur in a sequence matter.                      *)
LEMMA WithoutSame ==
  ASSUME NEW S, NEW s \in Seq(S), NEW g1, NEW g2,
         \A x \in Range(s) : x \in g1 <=> x \in g2
  PROVE  Without(s, g1) = Without(s, g2)
  <1> DEFINE P == {t \in Seq(S) : (\A x \in Range(t) : x \in g1 <=> x \in g2)
                                     => Without(t, g1) = Without(t, g2)}
  <1>1. <<>> \in P
    <2>1. Without(<<>>, g1) = <<>> /\ Without(<<>>, g2) = <<>> /\ <<>> \in Seq(S)
      BY WithoutEmpty
    <2>2. QED
      BY <2>1
  <1>2. ASSUME NEW t \in P, NEW e \in S
        PROVE  Append(t, e) \in P
    <2> SUFFICES ASSUME \A x \in Range(Append(t, e)) : x \in g1 <=> x \in g2
                 PROVE  Without(Append(t, e), g1) = Without(Append(t, e), g2)
      OBVIOUS
    <2>1. Range(t) \subseteq Range(Append(t, e)) /\ e \in Range(Append(t, e))
      <3>1. /\ DOMAIN t = 1 .. Len(t) /\ DOMAIN Append(t, e) = 1 .. Len(t) + 1
            /\ Len(t) \in Nat /\ Append(t, e)[Len(t) + 1] = e
            /\ \A i \in 1 .. Len(t) : Append(t, e)[i] = t[i]
        OBVIOUS
      <3>2. QED
        BY <3>1 DEF Range
    <2>2. Without(t, g1) = Without(t, g2)
      BY <2>1
    <2>3. e \in g1 <=> e \in g2
      BY <2>1
    <2>4. t \in Seq(S)
      OBVIOUS
    <2>5. CASE e \in g1
      BY <2>2, <2>3, <2>4, <2>5, WithoutAppend
    <2>6. CASE e \notin g1
      <3>1. Without(Append(t, e), g1) = Append(Without(t, g1), e)
        BY <2>4, <2>6, WithoutAppend
      <3>2. Without(Append(t, e), g2) = Append(Without(t, g2), e)
        BY <2>3, <2>4, <2>6, WithoutAppend
      <3>3. QED
        BY <2>2, <3>1, <3>2
    <2>7. QED
      BY <2>5, <2>6
  <1>3. P \in SUBSET Seq(S)
    OBVIOUS
  <1> HIDE DEF P
  <1>4. P = Seq(S)
    BY <1>1, <1>2, <1>3, SeqInduction
  <1>5. QED
    BY <1>4 DEF P
(* Without takes a concatenation apart.                                    *)
LEMMA WithoutConcat ==
  ASSUME NEW S, NEW s \in Seq(S), NEW t \in Seq(S), NEW gone
  PROVE  Without(s \o t, gone) = Without(s, gone) \o Without(t, gone)
  <1> DEFINE P == {u \in Seq(S) : Without(s \o u, gone) = Without(s, gone) \o Without(u, gone)}
  <1>0. Without(s, gone) \in Seq(S) /\ \A u \in Seq(S) : Without(u, gone) \in Seq(S)
    BY WithoutSeq
  <1>1. <<>> \in P
    <2>1. <<>> \in Seq(S) /\ s \o <<>> = s /\ Without(s, gone) \o <<>> = Without(s, gone)
      BY <1>0, ConcatEmptySeq
    <2>2. QED
      BY <2>1, WithoutEmpty
  <1>2. ASSUME NEW u \in P, NEW e \in S
        PROVE  Append(u, e) \in P
    <2>1. u \in Seq(S) /\ Without(s \o u, gone) = Without(s, gone) \o Without(u, gone)
      OBVIOUS
    <2>2. Append(u, e) \in Seq(S) /\ s \o u \in Seq(S)
      BY <2>1
    <2>3. s \o Append(u, e) = Append(s \o u, e)
      BY <2>1
    <2>4. CASE e \in gone
      <3>1. Without(Append(s \o u, e), gone) = Without(s \o u, gone)
        <4> DEFINE v == s \o u
        <4>1. v \in Seq(S)
          BY <2>2
        <4> HIDE DEF v
        <4>2. Without(Append(v, e), gone) = Without(v, gone)
          BY <2>4, <4>1, WithoutAppend
        <4>3. QED
          BY <4>2 DEF v
      <3>2. Without(Append(u, e), gone) = Without(u, gone)
        BY <2>1, <2>4, WithoutAppend
      <3>3. QED
        BY <2>1, <2>2, <2>3, <3>1, <3>2
    <2>5. CASE e \notin gone
      <3>1. Without(Append(s \o u, e), gone) = Append(Without(s \o u, gone), e)
        <4> DEFINE v == s \o u
        <4>1. v \in Seq(S)
          BY <2>2
        <4> HIDE DEF v
        <4>2. Without(Append(v, e), gone) = Append(Without(v, gone), e)
          BY <2>5, <4>1, WithoutAppend
        <4>3. QED
          BY <4>2 DEF v
      <3>2. Without(Append(u, e), gone) = Append(Without(u, gone), e)
        BY <2>1, <2>5, WithoutAppend
      <3>3. Without(s, gone) \o Append(Without(u, gone), e)
               = Append(Without(s, gone) \o Without(u, gone), e)
        <4>1. Without(u, gone) \in Seq(S)
          BY <1>0, <2>1
        <4> DEFINE a == Without(s, gone)
                   b == Without(u, gone)
        <4>2. a \in Seq(S) /\ b \in Seq(S)
          BY <1>0, <4>1
        <4> HIDE DEF a, b
        <4>3. a \o Append(b, e) = Append(a \o b, e)
          BY <4>2
        <4>4. QED
          BY <4>3 DEF a, b
      <3>4. QED
        BY <2>1, <2>2, <2>3, <3>1, <3>2, <3>3
    <2>6. QED
      BY <2>4, <2>5
  <1>3. P \in SUBSET Seq(S)
    OBVIOUS
  <1> HIDE DEF P
  <1>4. P = Seq(S)
    BY <1>1, <1>2, <1>3, SeqInduction
  <1>5. QED
    BY <1>4 DEF P

(* Cutting a sequence in two and joining the parts again.                  *)
LEMMA SeqSplit ==
  ASSUME NEW S, NEW s \in Seq(S), NEW n \in 0 .. Len(s)
  PROVE  LET a == SubSeq(s, 1, n)
             b == SubSeq(s, n + 1, Len(s))
         IN  a \in Seq(S) /\ b \in Seq(S) /\ a \o b = s
  <1> DEFINE a == SubSeq(s, 1, n)
             b == SubSeq(s, n + 1, Len(s))
  <1>0. Len(s) \in Nat /\ n \in Nat
    OBVIOUS
  <1>1. /\ a \in Seq(S) /\ Len(a) = n
        /\ \A i \in 1 .. n : a[i] = s[i]
    BY <1>0, SubSeqProperties
  <1>2. /\ b \in Seq(S) /\ Len(b) = Len(s) - n
        /\ \A i \in 1 .. Len(s) - n : b[i] = s[i + n]
    BY <1>0, SubSeqProperties
  <1> HIDE DEF a, b
  <1>3. a \in Seq(S) /\ b \in Seq(S)
    BY <1>1, <1>2
  <1>4. a \o b \in Seq(S) /\ Len(a \o b) = Len(a) + Len(b)
        /\ \A i \in 1 .. Len(a) + Len(b) :
              (a \o b)[i] = IF i <= Len(a) THEN a[i] ELSE b[i - Len(a)]
    BY <1>3, ConcatProperties
  <1>5. Len(a) + Len(b) = Len(s)
    BY <1>0, <1>1, <1>2
  <1>6. ASSUME NEW i \in 1 .. Len(s) PROVE (a \o b)[i] = s[i]
    <2>1. CASE i <= n
      BY <1>0, <1>1, <1>4, <1>5, <2>1
    <2>2. CASE ~(i <= n)
      <3>1. i - n \in 1 .. Len(s) - n /\ i - n + n = i
        BY <1>0, <2>2
      <3>2. b[i - n] = s[i]
        BY <1>2, <3>1
      <3>3. QED
        BY <1>1, <1>4, <1>5, <2>2, <3>2
    <2>3. QED
      BY <2>1, <2>2
  <1>7. a \o b = s
    BY <1>4, <1>5, <1>6, SeqEqual
  <1>8. QED
    BY <1>3, <1>7 DEF a, b

(* Joining two sequences and cutting them apart again.                     *)
LEMMA JoinSplit ==
  ASSUME NEW S, NEW a \in Seq(S), NEW b \in Seq(S)
  PROVE  LET s == a \o b
         IN  SubSeq(s, 1, Len(a)) = a /\ SubSeq(s, Len(a) + 1, Len(s)) = b
  <1> DEFINE s == a \o b
             p == SubSeq(s, 1, Len(a))
             q == SubSeq(s, Len(a) + 1, Len(s))
  <1>0. Len(a) \in Nat /\ Len(b) \in Nat
    OBVIOUS
  <1>1. /\ s \in Seq(S) /\ Len(s) = Len(a) + Len(b)
        /\ \A i \in 1 .. Len(a) + Len(b) : s[i] = IF i <= Len(a) THEN a[i] ELSE b[i - Len(a)]
    BY ConcatProperties
  <1> HIDE DEF s
  <1>2. p \in Seq(S) /\ Len(p) = Len(a) /\ \A i \in 1 .. Len(a) : p[i] = s[i]
    BY <1>0, <1>1, SubSeqProperties
  <1>3. q \in Seq(S) /\ Len(q) = Len(b) /\ \A i \in 1 .. Len(b) : q[i] = s[i + Len(a)]
    BY <1>0, <1>1, SubSeqProperties
  <1> HIDE DEF p, q
  <1>4. p = a
    <2>1. \A i \in 1 .. Len(p) : p[i] = a[i]
      BY <1>0, <1>1, <1>2
    <2>2. p \in Seq(S) /\ Len(p) = Len(a)
      BY <1>2
    <2>3. QED
      BY <2>1, <2>2, SeqEqual
  <1>5. q = b
    <2>1. ASSUME NEW i \in 1 .. Len(q) PROVE q[i] = b[i]
      <3>1. i + Len(a) \in 1 .. Len(a) + Len(b) /\ ~(i + Len(a) <= Len(a))
            /\ i + Len(a) - Len(a) = i
        BY <1>0, <1>3
      <3>2. QED
        BY <1>1, <1>3, <3>1
    <2>2. q \in Seq(S) /\ Len(q) = Len(b)
      BY <1>3
    <2>3. QED
      BY <2>1, <2>2, SeqEqual
  <1>6. QED
    BY <1>4, <1>5 DEF p, q, s

(* The first n elements of p, as a sequence, and the m that follow them.   *)
FirstOf(p, n) == [i \in 1 .. n |-> p[i]]
NextOf(p, n, m) == [i \in 1 .. m |-> p[n + i]]
From1(p, n, S) == \A i \in 1 .. n : p[i] \in S

LEMMA FirstOfFacts ==
  ASSUME NEW S, NEW p, NEW n \in Nat, From1(p, n, S)
  PROVE  /\ FirstOf(p, n) \in Seq(S) /\ Len(FirstOf(p, n)) = n
         /\ \A i \in 1 .. n : FirstOf(p, n)[i] = p[i]
  <1> DEFINE s == [i \in 1 .. n |-> p[i]]
  <1>1. s \in [1 .. n -> S]
    BY DEF From1
  <1>2. s \in Seq(S) /\ Len(s) = n
    BY <1>1
  <1>3. QED
    BY <1>2 DEF FirstOf

(* The next elements are what is joined to the first ones.                 *)
LEMMA FirstOfMore ==
  ASSUME NEW S, NEW p, NEW n \in Nat, NEW m \in Nat, From1(p, n + m, S)
  PROVE  FirstOf(p, n) \o NextOf(p, n, m) = FirstOf(p, n + m)
  <1> DEFINE a == FirstOf(p, n)
             d == NextOf(p, n, m)
             c == FirstOf(p, n + m)
  <1>0. From1(p, n, S)
    BY DEF From1
  <1>1. a \in Seq(S) /\ Len(a) = n /\ \A i \in 1 .. n : a[i] = p[i]
    BY <1>0, FirstOfFacts
  <1>2. c \in Seq(S) /\ Len(c) = n + m /\ \A i \in 1 .. n + m : c[i] = p[i]
    <2>1. n + m \in Nat
      OBVIOUS
    <2>2. QED
      BY <2>1, FirstOfFacts
  <1>3. d \in Seq(S) /\ Len(d) = m /\ \A i \in 1 .. m : d[i] = p[n + i]
    <2>1. \A i \in 1 .. m : n + i \in 1 .. n + m
      OBVIOUS
    <2>2. d \in [1 .. m -> S]
      BY <2>1 DEF From1, NextOf
    <2>3. QED
      BY <2>2 DEF NextOf
  <1> HIDE DEF a, c, d
  <1>4. a \in Seq(S) /\ d \in Seq(S)
    BY <1>1, <1>3
  <1>5. /\ a \o d \in Seq(S) /\ Len(a \o d) = Len(a) + Len(d)
        /\ \A i \in 1 .. Len(a) + Len(d) :
              (a \o d)[i] = IF i <= Len(a) THEN a[i] ELSE d[i - Len(a)]
    BY <1>4, ConcatProperties
  <1>6. Len(a) = n /\ Len(d) = m
    BY <1>1, <1>3
  <1>7. ASSUME NEW i \in 1 .. n + m PROVE (a \o d)[i] = c[i]
    <2>1. CASE i <= n
      BY <1>1, <1>2, <1>5, <1>6, <2>1
    <2>2. CASE ~(i <= n)
      <3>1. i - n \in 1 .. m /\ n + (i - n) = i
        BY <2>2
      <3>2. d[i - n] = p[i]
        BY <1>3, <3>1
      <3>3. QED
        BY <1>2, <1>5, <1>6, <2>2, <3>2
    <2>3. QED
      BY <2>1, <2>2
  <1>8. a \o d = c
    <2>1. c \in Seq(S) /\ Len(c) = n + m
      BY <1>2
    <2>2. a \o d \in Seq(S) /\ Len(a \o d) = Len(c)
      BY <1>5, <1>6, <2>1
    <2>3. \A i \in 1 .. Len(a \o d) : (a \o d)[i] = c[i]
      BY <1>5, <1>6, <1>7
    <2>4. QED
      BY <2>1, <2>2, <2>3, SeqEqual
  <1>9. QED
    BY <1>8 DEF a, c, d

-----------------------------------------------------------------------------
(* Concatenations.                                                         *)
Joining(S) == [x \in Seq(S) |-> [l \in Seq(S) |-> x \o l]]

LEMMA JoiningStep ==
  ASSUME NEW S, NEW ss \in Seq(Seq(S))
  PROVE  /\ Stepping(Seq(S), Seq(S), Joining(S), <<>>, ss)
         /\ \A x \in Seq(S), l \in Seq(S) : Joining(S)[x][l] = x \o l
  BY DEF Stepping, Joining

LEMMA FlattenWalks ==
  ASSUME NEW S, NEW ss \in Seq(Seq(S))
  PROVE  \E p : /\ IsWalk(p, Seq(S), Joining(S), <<>>, ss)
                /\ FlattenSeq(ss) = p[Len(ss)]
  <1> DEFINE step == Joining(S)
             Eqn(g) == g = [i \in 1 .. Len(ss) |-> IF i = 1 THEN ss[i] ELSE g[i - 1] \o ss[i]]
             flat == CHOOSE g : Eqn(g)
             from0 == [i \in 0 .. Len(ss) |-> IF i = 0 THEN <<>> ELSE flat[i]]
  <1>0. Len(ss) \in Nat /\ (\A n \in 1 .. Len(ss) : ss[n] \in Seq(S)) /\ <<>> \in Seq(S)
    OBVIOUS
  <1>1. /\ Stepping(Seq(S), Seq(S), step, <<>>, ss)
        /\ \A x \in Seq(S), l \in Seq(S) : step[x][l] = x \o l
    BY JoiningStep
  <1>2. \A l \in Seq(S) : <<>> \o l = l
    BY ConcatEmptySeq
  <1> HIDE DEF step, Eqn, flat, from0
  <1>3. PICK p : IsWalk(p, Seq(S), step, <<>>, ss)
    BY <1>1, WalkExists
  <1>4. \E g : Eqn(g)
    <2> DEFINE q == [i \in 1 .. Len(ss) |-> p[i]]
    <2>1. /\ p \in [0 .. Len(ss) -> Seq(S)] /\ p[0] = <<>>
          /\ \A n \in 1 .. Len(ss) : p[n] = step[p[n - 1]][ss[n]]
      BY <1>3 DEF IsWalk
    <2>2. \A n \in 1 .. Len(ss) : q[n] = IF n = 1 THEN ss[n] ELSE q[n - 1] \o ss[n]
      <3> SUFFICES ASSUME NEW n \in 1 .. Len(ss)
                   PROVE  q[n] = IF n = 1 THEN ss[n] ELSE q[n - 1] \o ss[n]
        OBVIOUS
      <3>0. n - 1 \in 0 .. Len(ss)
        BY <1>0
      <3>1. p[n - 1] \in Seq(S) /\ ss[n] \in Seq(S)
        <4>1. p[n - 1] \in Seq(S)
          BY <2>1, <3>0
        <4>2. QED
          BY <1>0, <4>1
      <3>2. p[n] = p[n - 1] \o ss[n]
        BY <1>1, <2>1, <3>1
      <3>3. CASE n = 1
        <4>1. p[n - 1] = <<>>
          BY <2>1, <3>3
        <4>2. QED
          BY <1>2, <3>1, <3>2, <3>3, <4>1
      <3>4. CASE n # 1
        <4>1. n - 1 \in 1 .. Len(ss)
          BY <1>0, <3>4
        <4>2. QED
          BY <3>2, <3>4, <4>1
      <3>5. QED
        BY <3>3, <3>4
    <2>3. Eqn(q)
      BY <2>2 DEF Eqn
    <2>4. QED
      BY <2>3
  <1>5. Eqn(flat)
    BY <1>4 DEF flat
  <1>6. \A n \in 1 .. Len(ss) : flat[n] = IF n = 1 THEN ss[n] ELSE flat[n - 1] \o ss[n]
    BY <1>5 DEF Eqn
  <1>7. from0[0] = <<>> /\ \A n \in 1 .. Len(ss) : from0[n] = from0[n - 1] \o ss[n]
    <2>1. from0[0] = <<>> /\ \A n \in 1 .. Len(ss) : from0[n] = flat[n]
      BY <1>0 DEF from0
    <2> SUFFICES ASSUME NEW n \in 1 .. Len(ss)
                 PROVE  from0[n] = from0[n - 1] \o ss[n]
      BY <2>1
    <2>2. CASE n = 1
      <3>1. from0[n] = ss[n] /\ from0[n - 1] = <<>> /\ ss[n] \in Seq(S)
        BY <1>0, <1>6, <2>1, <2>2
      <3>2. QED
        BY <1>2, <3>1
    <2>3. CASE n # 1
      <3>1. n - 1 \in 1 .. Len(ss)
        BY <1>0, <2>3
      <3>2. QED
        BY <1>6, <2>1, <2>3, <3>1
    <2>4. QED
      BY <2>2, <2>3
  <1>8. Follows(from0, Seq(S), step, <<>>, ss)
    BY <1>0, <1>1, <1>7 DEF Follows
  <1>9. \A n \in 0 .. Len(ss) : from0[n] = p[n]
    BY <1>1, <1>3, <1>8, WalkFollowed
  <1>10. FlattenSeq(ss) = from0[Len(ss)]
    <2>1. CASE Len(ss) = 0
      <3>1. ss = <<>> /\ FlattenSeq(ss) = ss
        BY <2>1 DEF FlattenSeq
      <3>2. QED
        BY <1>7, <2>1, <3>1
    <2>2. CASE Len(ss) # 0
      <3>1. FlattenSeq(ss) = flat[Len(ss)]
        BY <2>2, Zenon DEF FlattenSeq, Eqn, flat
      <3>2. QED
        BY <1>0, <2>2, <3>1 DEF from0
    <2>3. QED
      BY <2>1, <2>2
  <1>11. FlattenSeq(ss) = p[Len(ss)]
    BY <1>0, <1>9, <1>10
  <1>12. QED
    BY <1>3, <1>11 DEF step

(* FlattenSeq, one element at a time.                                      *)
LEMMA FlattenEmpty == FlattenSeq(<<>>) = <<>>
  BY DEF FlattenSeq

LEMMA FlattenAppend ==
  ASSUME NEW S, NEW ss \in Seq(Seq(S)), NEW l \in Seq(S)
  PROVE  /\ FlattenSeq(ss) \in Seq(S)
         /\ FlattenSeq(Append(ss, l)) = FlattenSeq(ss) \o l
  <1> DEFINE step == Joining(S)
             tt == Append(ss, l)
  <1>2. /\ tt \in Seq(Seq(S)) /\ Len(tt) = Len(ss) + 1 /\ tt[Len(ss) + 1] = l
        /\ \A i \in 1 .. Len(ss) : ss[i] = tt[i]
        /\ Len(ss) \in Nat
    OBVIOUS
  <1> HIDE DEF step, tt
  <1>3. PICK p : IsWalk(p, Seq(S), step, <<>>, ss) /\ FlattenSeq(ss) = p[Len(ss)]
    BY FlattenWalks DEF step
  <1>4. PICK r : IsWalk(r, Seq(S), step, <<>>, tt) /\ FlattenSeq(tt) = r[Len(tt)]
    <2>1. tt \in Seq(Seq(S))
      BY <1>2
    <2>2. QED
      BY <2>1, FlattenWalks DEF step
  <1>5. Len(ss) <= Len(ss) /\ Len(ss) <= Len(tt)
    BY <1>2
  <1>6. Stepping(Seq(S), Seq(S), step, <<>>, ss) /\ Stepping(Seq(S), Seq(S), step, <<>>, tt)
    <2>1. tt \in Seq(Seq(S))
      BY <1>2
    <2>2. QED
      BY <2>1, JoiningStep DEF step
  <1>6a. \A x \in Seq(S), k \in Seq(S) : step[x][k] = x \o k
    BY JoiningStep DEF step
  <1>7. p[Len(ss)] = r[Len(ss)]
    <2>1. IsWalk(p, Seq(S), step, <<>>, ss) /\ IsWalk(r, Seq(S), step, <<>>, tt)
      BY <1>3, <1>4
    <2>2. Len(ss) \in Nat /\ \A i \in 1 .. Len(ss) : ss[i] = tt[i]
      BY <1>2
    <2>3. QED
      BY <1>5, <1>6, <2>1, <2>2, WalksAgree
  <1>8. Len(ss) \in 0 .. Len(ss) /\ Len(tt) \in 1 .. Len(tt) /\ Len(tt) - 1 = Len(ss) /\ tt[Len(tt)] = l
    BY <1>2
  <1>9. r[Len(tt)] = step[r[Len(ss)]][l]
    BY <1>4, <1>8 DEF IsWalk
  <1>10. FlattenSeq(tt) = step[FlattenSeq(ss)][l]
    BY <1>3, <1>4, <1>7, <1>9
  <1>11. FlattenSeq(ss) \in Seq(S)
    BY <1>3, <1>8 DEF IsWalk
  <1>12. QED
    BY <1>6a, <1>10, <1>11 DEF tt

(* FlattenSeq from the front.                                              *)
LEMMA FlattenPrepend ==
  ASSUME NEW S, NEW x \in Seq(S), NEW ss \in Seq(Seq(S))
  PROVE  FlattenSeq(<<x>> \o ss) = x \o FlattenSeq(ss)
  <1> DEFINE P == {tt \in Seq(Seq(S)) : FlattenSeq(<<x>> \o tt) = x \o FlattenSeq(tt)}
             one == <<x>>
  <1>0. <<>> \in Seq(Seq(S)) /\ one \in Seq(Seq(S)) /\ <<>> \in Seq(S)
    OBVIOUS
  <1>1. <<>> \in P
    <2>1. one \o <<>> = Append(<<>>, x)
      OBVIOUS
    <2>2. FlattenSeq(Append(<<>>, x)) = FlattenSeq(<<>>) \o x
      BY <1>0, FlattenAppend
    <2>3. <<>> \o x = x /\ x \o <<>> = x
      BY ConcatEmptySeq
    <2>4. QED
      BY <1>0, <2>1, <2>2, <2>3, FlattenEmpty
  <1>2. ASSUME NEW tt \in P, NEW e \in Seq(S)
        PROVE  Append(tt, e) \in P
    <2>1. tt \in Seq(Seq(S)) /\ FlattenSeq(one \o tt) = x \o FlattenSeq(tt)
      OBVIOUS
    <2> HIDE DEF one
    <2>2. one \o Append(tt, e) = Append(one \o tt, e) /\ one \o tt \in Seq(Seq(S))
      BY <1>0, <2>1
    <2> DEFINE u == one \o tt
    <2>3. FlattenSeq(Append(u, e)) = FlattenSeq(u) \o e
      <3> HIDE DEF u
      <3>1. u \in Seq(Seq(S))
        BY <2>2 DEF u
      <3>2. QED
        BY <3>1, FlattenAppend
    <2>4. FlattenSeq(Append(tt, e)) = FlattenSeq(tt) \o e /\ FlattenSeq(tt) \in Seq(S)
      BY <2>1, FlattenAppend
    <2>5. (x \o FlattenSeq(tt)) \o e = x \o (FlattenSeq(tt) \o e)
      BY <2>4, ConcatAssociative
    <2>6. FlattenSeq(one \o Append(tt, e)) = x \o FlattenSeq(Append(tt, e))
      BY <2>1, <2>2, <2>3, <2>4, <2>5
    <2>7. Append(tt, e) \in Seq(Seq(S))
      BY <2>1
    <2>8. QED
      BY <2>6, <2>7 DEF one
  <1>3. P \in SUBSET Seq(Seq(S))
    OBVIOUS
  <1> HIDE DEF P
  <1>4. P = Seq(Seq(S))
    BY <1>1, <1>2, <1>3, SeqInduction
  <1>5. QED
    BY <1>4 DEF P

(* Prefixes.                                                               *)
LEMMA PrefixConcat ==
  ASSUME NEW S, NEW s \in Seq(S), NEW t \in Seq(S)
  PROVE  IsPrefix(s, s \o t)
  <1> DEFINE c == s \o t
  <1>1. /\ c \in Seq(S) /\ Len(c) = Len(s) + Len(t)
        /\ \A i \in 1 .. Len(s) : c[i] = s[i]
        /\ Len(s) \in Nat /\ Len(t) \in Nat
    OBVIOUS
  <1> HIDE DEF c
  <1>2. /\ SubSeq(s, 1, Len(s)) \in Seq(S) /\ Len(SubSeq(s, 1, Len(s))) = Len(s)
        /\ \A i \in 1 .. Len(s) : SubSeq(s, 1, Len(s))[i] = s[i]
    BY <1>1
  <1>3. /\ SubSeq(c, 1, Len(s)) \in Seq(S) /\ Len(SubSeq(c, 1, Len(s))) = Len(s)
        /\ \A i \in 1 .. Len(s) : SubSeq(c, 1, Len(s))[i] = s[i]
    BY <1>1
  <1>4. SubSeq(s, 1, Len(s)) = SubSeq(c, 1, Len(s))
    BY <1>1, <1>2, <1>3, SeqEqual
  <1>5. QED
    BY <1>1, <1>4 DEF IsPrefix, c

(* A prefix of a sequence is one of every longer sequence.                 *)
LEMMA PrefixLonger ==
  ASSUME NEW S, NEW s \in Seq(S), NEW t \in Seq(S), NEW u \in Seq(S), IsPrefix(s, t)
  PROVE  IsPrefix(s, t \o u)
  <1> DEFINE c == t \o u
  <1>1. /\ c \in Seq(S) /\ Len(c) = Len(t) + Len(u)
        /\ \A i \in 1 .. Len(t) : c[i] = t[i]
        /\ Len(s) \in Nat /\ Len(t) \in Nat /\ Len(u) \in Nat
    OBVIOUS
  <1> HIDE DEF c
  <1>2. Len(s) <= Len(t) /\ SubSeq(s, 1, Len(s)) = SubSeq(t, 1, Len(s))
    BY DEF IsPrefix
  <1>3. /\ SubSeq(t, 1, Len(s)) \in Seq(S) /\ Len(SubSeq(t, 1, Len(s))) = Len(s)
        /\ \A i \in 1 .. Len(s) : SubSeq(t, 1, Len(s))[i] = t[i]
    BY <1>1, <1>2
  <1>4. /\ SubSeq(c, 1, Len(s)) \in Seq(S) /\ Len(SubSeq(c, 1, Len(s))) = Len(s)
        /\ \A i \in 1 .. Len(s) : SubSeq(c, 1, Len(s))[i] = t[i]
    BY <1>1, <1>2
  <1>5. SubSeq(t, 1, Len(s)) = SubSeq(c, 1, Len(s))
    BY <1>1, <1>3, <1>4, SeqEqual
  <1>6. QED
    BY <1>1, <1>2, <1>5 DEF IsPrefix, c

LEMMA FirstOfPrefix ==
  ASSUME NEW S, NEW p, NEW n \in Nat, NEW m \in Nat, n <= m, From1(p, m, S)
  PROVE  IsPrefix(FirstOf(p, n), FirstOf(p, m))
  <1> DEFINE d == NextOf(p, n, m - n)
  <1>1. m - n \in Nat /\ n + (m - n) = m
    OBVIOUS
  <1>2. FirstOf(p, n) \o d = FirstOf(p, n + (m - n))
    <2> HIDE DEF d
    <2>1. From1(p, n + (m - n), S)
      BY <1>1
    <2>2. QED
      BY <1>1, <2>1, FirstOfMore DEF d
  <1>3. FirstOf(p, n) \in Seq(S)
    <2>1. From1(p, n, S)
      BY DEF From1
    <2>2. QED
      BY <2>1, FirstOfFacts
  <1>4. d \in Seq(S)
    <2>1. \A i \in 1 .. m - n : n + i \in 1 .. m
      OBVIOUS
    <2>2. d \in [1 .. m - n -> S]
      BY <2>1 DEF From1, NextOf
    <2>3. QED
      BY <1>1, <2>2
  <1> HIDE DEF d
  <1>5. IsPrefix(FirstOf(p, n), FirstOf(p, n) \o d)
    BY <1>3, <1>4, PrefixConcat
  <1>6. QED
    BY <1>1, <1>2, <1>5
=============================================================================
