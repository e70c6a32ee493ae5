----------------------------- MODULE Iteration -----------------------------
(***************************************************************************)
(* Loops over a sequence.  FoldLeft, which the models write the code's     *)
(* loops with, is defined by a recursive function on sets of positions.    *)
(* Here it is one step after another, whatever the step: the modules of    *)
(* proofs instantiate it with the step of each loop.                       *)
(***************************************************************************)
EXTENDS SequencesExt, WellFoundedInduction, TLAPS

CONSTANT Step(_,_,_,_)  \* of two parameters of the loop, its state and the element

\* The loop.
Iterate(c, d, base, seq) == FoldLeft(LAMBDA acc, x : Step(c, d, acc, x), base, seq)

\* Induction: a set with 0 and every successor has all numbers.  There is no least
\* number outside it.
LEMMA NatSets ==
  ASSUME NEW S, 0 \in S, \A n \in Nat : n \in S => n + 1 \in S
  PROVE  Nat \subseteq S
  <1> DEFINE R == OpToRel(<, Nat)
             T == Nat \ S
  <1>1. IsWellFoundedOn(R, Nat)
    BY NatLessThanWellFounded
  <1>2. \A x, y \in Nat : x < y => << x, y >> \in R
    BY DEF OpToRel
  <1>3. SUFFICES ASSUME T # {} PROVE FALSE
    OBVIOUS
  <1> HIDE DEF R
  <1>4. PICK x \in T : \A y \in T : ~(<< y, x >> \in R)
    BY <1>1, <1>3, WFMin
  <1>5. x # 0 /\ x \in Nat
    OBVIOUS
  <1>6. x - 1 \in Nat /\ x - 1 < x
    BY <1>5
  <1>7. x - 1 \in S
    BY <1>2, <1>4, <1>5, <1>6
  <1> QED BY <1>5, <1>6, <1>7

\* The recursive function FoldLeft chooses.
Folded(it, c, d, base, seq, D) ==
  it = [s \in SUBSET D |-> IF s = {} THEN base ELSE Step(c, d, it[s \ {Max(s)}], seq[Max(s)])]

\* The last of the first positions.
LEMMA MaxOfPrefix == ASSUME NEW n \in Nat, n > 0 PROVE Max(1 .. n) = n
  BY DEF Max

\* There is such a function, for any number of positions.
LEMMA FoldExists ==
  ASSUME NEW c, NEW d, NEW base, NEW seq, NEW n \in Nat
  PROVE  \E it : Folded(it, c, d, base, seq, 1 .. n)
  <1> DEFINE S == {m \in Nat : \E it : Folded(it, c, d, base, seq, 1 .. m)}
  <1>1. 0 \in S
    <2> DEFINE it == [s \in SUBSET (1 .. 0) |-> base]
    <2>1. \A s \in SUBSET (1 .. 0) : s = {}
      OBVIOUS
    <2>2. Folded(it, c, d, base, seq, 1 .. 0)
      BY <2>1 DEF Folded
    <2> QED BY <2>2
  <1>2. ASSUME NEW m \in Nat, m \in S
        PROVE  m + 1 \in S
    <2>1. PICK g : Folded(g, c, d, base, seq, 1 .. m)
      BY <1>2
    <2> DEFINE it == [s \in SUBSET (1 .. m + 1) |->
                        IF s = {} THEN base
                        ELSE Step(c, d, g[s \ {Max(s)}], seq[Max(s)])]
    <2>2. ASSUME NEW s \in SUBSET (1 .. m + 1), s # {}
          PROVE it[s \ {Max(s)}] = g[s \ {Max(s)}]
      <3>1. s \ {Max(s)} \subseteq 1 .. m
        <4>1. CASE m + 1 \in s
          <5>1. Max(s) = m + 1
            <6>1. \A x \in s : m + 1 >= x
              OBVIOUS
            <6>2. ASSUME NEW y \in s, \A x \in s : y >= x
                  PROVE  y = m + 1
              <7>1. y \in 1 .. m + 1 /\ y >= m + 1
                BY <4>1, <6>2
              <7> QED BY <7>1
            <6> QED BY <4>1, <6>1, <6>2 DEF Max
          <5>2. \A x \in s \ {m + 1} : x \in 1 .. m
            OBVIOUS
          <5> QED BY <5>1, <5>2
        <4>2. CASE m + 1 \notin s
          <5>1. \A x \in s : x \in 1 .. m
            BY <4>2
          <5> QED BY <5>1
        <4> QED BY <4>1, <4>2
      <3> DEFINE t == s \ {Max(s)}
      <3>2. t \in SUBSET (1 .. m) /\ t \in SUBSET (1 .. m + 1)
        BY <3>1
      <3> HIDE DEF t
      <3>3. g[t] = IF t = {} THEN base ELSE Step(c, d, g[t \ {Max(t)}], seq[Max(t)])
        BY <2>1, <3>2 DEF Folded
      <3>4. it[t] = g[t]
        BY <3>2, <3>3
      <3> QED BY <3>4 DEF t
    <2>3. ASSUME NEW s \in SUBSET (1 .. m + 1)
          PROVE  it[s] = IF s = {} THEN base ELSE Step(c, d, it[s \ {Max(s)}], seq[Max(s)])
      <3>1. it[s] = IF s = {} THEN base ELSE Step(c, d, g[s \ {Max(s)}], seq[Max(s)])
        OBVIOUS
      <3> HIDE DEF it
      <3> QED BY <2>2, <3>1
    <2>4. Folded(it, c, d, base, seq, 1 .. m + 1)
      <3> DEFINE again == [s \in SUBSET (1 .. m + 1) |->
                             IF s = {} THEN base ELSE Step(c, d, it[s \ {Max(s)}], seq[Max(s)])]
      <3>1. \A s \in SUBSET (1 .. m + 1) : it[s] = again[s]
        BY <2>3
      <3>2. it = again
        BY <3>1
      <3> QED BY <3>2 DEF Folded
    <2> QED BY <2>4
  <1> QED BY <1>1, <1>2, NatSets

\* The states the loop goes through.
Stage(c, d, base, seq, n) ==
  CHOOSE f : /\ f[0] = base
             /\ \A i \in 1 .. n : f[i] = Step(c, d, f[i - 1], seq[i])
             /\ Iterate(c, d, base, seq) = f[n]

\* The loop is its steps, one after another.
LEMMA Stepwise ==
  ASSUME NEW c, NEW d, NEW base, NEW seq, NEW n \in Nat, DOMAIN seq = 1 .. n
  PROVE  /\ Stage(c, d, base, seq, n)[0] = base
         /\ \A i \in 1 .. n :
              Stage(c, d, base, seq, n)[i] = Step(c, d, Stage(c, d, base, seq, n)[i - 1], seq[i])
         /\ Iterate(c, d, base, seq) = Stage(c, d, base, seq, n)[n]
  <1>1. PICK it : Folded(it, c, d, base, seq, 1 .. n) /\ Iterate(c, d, base, seq) = it[1 .. n]
    <2> DEFINE g == CHOOSE it : Folded(it, c, d, base, seq, 1 .. n)
    <2>1. Folded(g, c, d, base, seq, 1 .. n)
      BY FoldExists
    <2>2. Iterate(c, d, base, seq) = g[1 .. n]
      BY DEF Iterate, FoldLeft, MapThenFoldSet, Folded
    <2> QED BY <2>1, <2>2
  <1> DEFINE f == [i \in 0 .. n |-> it[1 .. i]]
  <1>2. f[0] = base
    BY <1>1 DEF Folded
  <1>3. ASSUME NEW i \in 1 .. n
        PROVE  f[i] = Step(c, d, f[i - 1], seq[i])
    <2>1. 1 .. i \in SUBSET (1 .. n) /\ 1 .. i # {} /\ i - 1 \in 0 .. n /\ i \in 0 .. n /\ i \in Nat /\ i > 0
      OBVIOUS
    <2>2. Max(1 .. i) = i
      BY <2>1, MaxOfPrefix
    <2>3. (1 .. i) \ {i} = 1 .. (i - 1)
      OBVIOUS
    <2>4. it[1 .. i] = Step(c, d, it[(1 .. i) \ {Max(1 .. i)}], seq[Max(1 .. i)])
      <3> DEFINE s == 1 .. i
      <3>1. s \in SUBSET (1 .. n) /\ s # {}
        BY <2>1
      <3> HIDE DEF s
      <3>2. it[s] = Step(c, d, it[s \ {Max(s)}], seq[Max(s)])
        BY <1>1, <3>1 DEF Folded
      <3> QED BY <3>2 DEF s
    <2>5. f[i] = it[1 .. i] /\ f[i - 1] = it[1 .. (i - 1)]
      BY <2>1
    <2> QED BY <2>2, <2>3, <2>4, <2>5
  <1>4. f[n] = it[1 .. n]
    OBVIOUS
  <1> HIDE DEF f
  <1> QED BY <1>1, <1>2, <1>3, <1>4 DEF Stage

\* Over an empty sequence it does nothing.
LEMMA Unturned ==
  ASSUME NEW c, NEW d, NEW base, NEW seq, DOMAIN seq = {}
  PROVE  Iterate(c, d, base, seq) = base
  <1>1. DOMAIN seq = 1 .. 0
    OBVIOUS
  <1>2. /\ Stage(c, d, base, seq, 0)[0] = base
        /\ Iterate(c, d, base, seq) = Stage(c, d, base, seq, 0)[0]
    BY <1>1, 0 \in Nat, Stepwise
  <1> QED BY <1>2

\* One element more is one step more.
LEMMA OneMoreTurn ==
  ASSUME NEW c, NEW d, NEW base, NEW n \in Nat, NEW seq, DOMAIN seq = 1 .. n + 1,
         NEW first, DOMAIN first = 1 .. n, \A i \in 1 .. n : first[i] = seq[i]
  PROVE  Iterate(c, d, base, seq) = Step(c, d, Iterate(c, d, base, first), seq[n + 1])
  <1> DEFINE f == Stage(c, d, base, seq, n + 1)
             g == Stage(c, d, base, first, n)
             S == {m \in Nat : m <= n => f[m] = g[m]}
  <1>1. /\ f[0] = base
        /\ \A i \in 1 .. n + 1 : f[i] = Step(c, d, f[i - 1], seq[i])
        /\ Iterate(c, d, base, seq) = f[n + 1]
    BY Stepwise
  <1>2. /\ g[0] = base
        /\ \A i \in 1 .. n : g[i] = Step(c, d, g[i - 1], first[i])
        /\ Iterate(c, d, base, first) = g[n]
    BY Stepwise
  <1> HIDE DEF f, g
  <1>3. 0 \in S
    BY <1>1, <1>2
  <1>4. ASSUME NEW m \in Nat, m \in S
        PROVE  m + 1 \in S
    <2> SUFFICES ASSUME m + 1 <= n PROVE f[m + 1] = g[m + 1]
      OBVIOUS
    <2>1. m + 1 \in 1 .. n /\ m + 1 \in 1 .. n + 1 /\ f[m] = g[m] /\ (m + 1) - 1 = m
      BY <1>4
    <2>2. f[m + 1] = Step(c, d, f[m], seq[m + 1])
      BY <1>1, <2>1
    <2>3. g[m + 1] = Step(c, d, g[m], first[m + 1])
      BY <1>2, <2>1
    <2> QED BY <2>1, <2>2, <2>3
  <1> HIDE DEF S
  <1>5. n \in S
    BY <1>3, <1>4, NatSets
  <1>6. f[n] = g[n]
    BY <1>5 DEF S
  <1>7. f[n + 1] = Step(c, d, f[n], seq[n + 1])
    <2>1. n + 1 \in 1 .. n + 1 /\ (n + 1) - 1 = n
      OBVIOUS
    <2> QED BY <1>1, <2>1
  <1> QED BY <1>1, <1>2, <1>6, <1>7
=============================================================================
