---------------------------- MODULE FoldTheorems ----------------------------
(***************************************************************************)
(* Induction on numbers as facts about sets, least and greatest elements,  *)
(* quotients, and what FoldLeft computes: facts without an operator        *)
(* parameter, which is what the provers can use.                           *)
(***************************************************************************)
EXTENDS Integers, Sequences, SequencesExt, WellFoundedInduction, TLAPS

-----------------------------------------------------------------------------
(* Least elements *)

LEMMA WFSubset ==
  ASSUME NEW R, NEW N, IsWellFoundedOn(R, N)
  PROVE  \A S : S \subseteq N /\ S # {} =>
           \E x \in S : \A y \in S : ~(<<y, x>> \in R)
BY WFMin

LEMMA LessThanWF ==
  \E R : /\ \A S : S \subseteq Nat /\ S # {} =>
              \E x \in S : \A y \in S : ~(<<y, x>> \in R)
         /\ \A x, y \in Nat : x < y => <<x, y>> \in R
<1>. DEFINE R == OpToRel(<, Nat)
<1>1. IsWellFoundedOn(R, Nat)
  BY NatLessThanWellFounded
<1>2. \A x, y \in Nat : x < y => <<x, y>> \in R
  BY DEF OpToRel
<1>. HIDE DEF R
<1>3. \A S : S \subseteq Nat /\ S # {} =>
        \E x \in S : \A y \in S : ~(<<y, x>> \in R)
  BY <1>1, WFSubset
<1>. QED BY <1>2, <1>3

(* A set of numbers that is not empty has a least one. *)
LEMMA LeastElement ==
  ASSUME NEW S, S \subseteq Nat, S # {}
  PROVE  \E x \in S : \A y \in S : x <= y
<1>1. PICK R : /\ \A T : T \subseteq Nat /\ T # {} =>
                    \E x \in T : \A y \in T : ~(<<y, x>> \in R)
               /\ \A x, y \in Nat : x < y => <<x, y>> \in R
  BY LessThanWF, Zenon
<1>2. \E x \in S : \A y \in S : ~(<<y, x>> \in R)
  BY <1>1, Zenon
<1>3. PICK x \in S : \A y \in S : ~(<<y, x>> \in R)
  BY <1>2
<1>4. ASSUME NEW y \in S
      PROVE  x <= y
  <2>1. x \in Nat /\ y \in Nat
    OBVIOUS
  <2>2. ~(y < x)
    BY <1>1, <1>3, <2>1, Zenon
  <2>. QED BY <2>1, <2>2
<1>. QED BY <1>4

(* Induction up to a bound, for the set of the numbers that have a property*)
LEMMA UpTo ==
  ASSUME NEW n \in Nat, NEW S, 0 \in S, \A k \in 1 .. n : k - 1 \in S => k \in S
  PROVE  0 .. n \subseteq S
<1>. DEFINE Bad == (0 .. n) \ S
<1>1. SUFFICES ASSUME Bad # {}
               PROVE  FALSE
  OBVIOUS
<1>2. PICK x \in Bad : \A y \in Bad : x <= y
  <2>1. Bad \subseteq Nat
    OBVIOUS
  <2>. HIDE DEF Bad
  <2>. QED BY <1>1, <2>1, LeastElement
<1>3. x \in 1 .. n /\ x \notin S
  OBVIOUS
<1>4. x - 1 \in S
  BY <1>2, <1>3
<1>. QED BY <1>3, <1>4

(* A set of numbers up to n that is not empty has a greatest one. *)
LEMMA GreatestElement ==
  ASSUME NEW n \in Nat, NEW S, S \subseteq 1 .. n, S # {}
  PROVE  Max(S) \in S /\ \A y \in S : Max(S) >= y
<1>. DEFINE B == {m \in Nat : \A y \in S : m >= y}
<1>1. n \in B /\ B \subseteq Nat
  OBVIOUS
<1>2. PICK m \in B : \A k \in B : m <= k
  <2>. HIDE DEF B
  <2>. QED BY <1>1, LeastElement
<1>3. m \in S
  <2>1. SUFFICES ASSUME m \notin S
                 PROVE  FALSE
    OBVIOUS
  <2>2. \A y \in S : m - 1 >= y /\ m - 1 \in Nat
    BY <2>1
  <2>3. m - 1 \in B
    BY <2>2
  <2>. QED BY <1>2, <2>3
<1>. QED BY <1>2, <1>3 DEF Max

-----------------------------------------------------------------------------
(* Quotients *)

LEMMA Division ==
  ASSUME NEW a \in Nat, NEW b \in Nat \ {0}
  PROVE  /\ a \div b \in Nat /\ a % b \in 0 .. b - 1
         /\ a = b * (a \div b) + (a % b)
OBVIOUS

LEMMA Quotient ==
  ASSUME NEW b \in Nat \ {0}, NEW q \in Nat, NEW r \in 0 .. b - 1
  PROVE  (b * q + r) \div b = q /\ (b * q + r) % b = r
<1>. DEFINE a == b * q + r
<1>1. a \in Nat
  OBVIOUS
<1>. HIDE DEF a
<1>2. /\ a \div b \in Nat /\ a % b \in 0 .. b - 1
      /\ a = b * (a \div b) + (a % b)
  BY <1>1, Division
<1>. QED BY <1>2 DEF a

LEMMA Product ==
  ASSUME NEW b \in Nat \ {0}, NEW p \in Nat, NEW q \in Nat, p < q
  PROVE  b * p + b <= b * q
<1>1. PICK d \in Nat : q = p + 1 + d
  <2>1. q - p - 1 \in Nat /\ q = p + 1 + (q - p - 1)
    OBVIOUS
  <2>. QED BY <2>1
<1>2. b * q = b * p + b + b * d /\ b * d \in Nat
  BY <1>1
<1>. QED BY <1>2

LEMMA QuotientBound ==
  ASSUME NEW a \in Nat, NEW b \in Nat \ {0}, NEW q \in Nat
  PROVE  a \div b < q <=> a < b * q
<1>. DEFINE p == a \div b
<1>1. p \in Nat /\ a % b \in 0 .. b - 1 /\ a = b * p + (a % b)
  BY Division
<1>. HIDE DEF p
<1>2. p < q => b * p + b <= b * q
  BY <1>1, Product
<1>3. q < p => b * q + b <= b * p
  BY <1>1, Product
<1>4. b * p \in Nat /\ b * q \in Nat
  BY <1>1
<1>5. a < b * q => p < q
  <2>1. SUFFICES ASSUME a < b * q, ~(p < q) PROVE FALSE
    OBVIOUS
  <2>2. p = q \/ q < p
    BY <1>1, <2>1
  <2>3. b * q <= b * p
    BY <1>3, <1>4, <2>2
  <2>. QED BY <1>1, <1>4, <2>1, <2>3
<1>6. p < q => a < b * q
  BY <1>1, <1>2, <1>4
<1>. QED BY <1>5, <1>6 DEF p

LEMMA QuotientGrows ==
  ASSUME NEW a \in Nat, NEW c \in Nat, a <= c, NEW b \in Nat \ {0}
  PROVE  a \div b <= c \div b
<1>. DEFINE p == c \div b
<1>1. p \in Nat /\ c < b * (p + 1)
  BY Division
<1>. HIDE DEF p
<1>2. a \div b < p + 1
  <2>1. p + 1 \in Nat /\ a < b * (p + 1)
    BY <1>1
  <2>. QED BY <2>1, QuotientBound
<1>3. a \div b \in Nat
  BY Division
<1>. QED BY <1>1, <1>2, <1>3 DEF p

-----------------------------------------------------------------------------
(* Folds *)

(* The equation of the function by which FoldLeft is defined. *)
Folding(g, s, base, step) ==
  g = [u \in SUBSET DOMAIN s |->
         IF u = {} THEN base ELSE step[<<g[u \ {Max(u)}], s[Max(u)]>>]]

Folded(s, base, step) == FoldLeft(LAMBDA v, m : step[<<v, m>>], base, s)

(* A sequence over M, and a step from V and M to V that starts at base. *)
Foldable(s, base, step, V, M) == s \in Seq(M) /\ base \in V /\ step \in [V \X M -> V]

(* That equation for the subsets of a prefix of the domain. *)
FoldingUpTo(g, k, s, base, step, V) ==
  /\ g \in [SUBSET (1 .. k) -> V]
  /\ g = [u \in SUBSET (1 .. k) |->
           IF u = {} THEN base ELSE step[<<g[u \ {Max(u)}], s[Max(u)]>>]]

LEMMA FoldUpTo ==
  ASSUME NEW V, NEW M, NEW base, NEW step, NEW s, Foldable(s, base, step, V, M),
         NEW k \in 1 .. Len(s), NEW h, FoldingUpTo(h, k - 1, s, base, step, V)
  PROVE  \E g : FoldingUpTo(g, k, s, base, step, V)
<1>. /\ s \in Seq(M) /\ base \in V /\ step \in [V \X M -> V]
     /\ h \in [SUBSET (1 .. k - 1) -> V]
     /\ h = [u \in SUBSET (1 .. k - 1) |->
              IF u = {} THEN base ELSE step[<<h[u \ {Max(u)}], s[Max(u)]>>]]
  BY DEF Foldable, FoldingUpTo
<1>. DEFINE g == [u \in SUBSET (1 .. k) |->
                    IF k \in u THEN step[<<h[u \ {k}], s[k]>>] ELSE h[u]]
<1>1. \A u \in SUBSET (1 .. k) :
        /\ u \ {k} \in SUBSET (1 .. k - 1)
        /\ k \notin u => u \in SUBSET (1 .. k - 1)
  OBVIOUS
<1>2. \A u \in SUBSET (1 .. k - 1) : h[u] \in V /\ g[u] = h[u]
  <2>1. ASSUME NEW u \in SUBSET (1 .. k - 1)
        PROVE  h[u] \in V /\ g[u] = h[u]
    <3>1. k \notin u /\ u \in SUBSET (1 .. k)
      OBVIOUS
    <3>. QED BY <3>1
  <2>. QED BY <2>1
<1>3. s[k] \in M
  OBVIOUS
<1>4. g \in [SUBSET (1 .. k) -> V]
  <2>1. \A u \in SUBSET (1 .. k) : IF k \in u THEN h[u \ {k}] \in V ELSE h[u] \in V
    BY <1>1, <1>2
  <2>2. \A v \in V : step[<<v, s[k]>>] \in V
    BY <1>3
  <2>. QED BY <2>1, <2>2
<1>5. ASSUME NEW u \in SUBSET (1 .. k)
      PROVE  g[u] = IF u = {} THEN base ELSE step[<<g[u \ {Max(u)}], s[Max(u)]>>]
  <2>1. CASE k \in u
    <3>1. k \in Nat /\ u \subseteq 1 .. k /\ u # {}
      BY <2>1
    <3>2. Max(u) \in u /\ \A y \in u : Max(u) >= y
      BY <3>1, GreatestElement
    <3>3. Max(u) \in 1 .. k /\ Max(u) >= k
      BY <2>1, <3>1, <3>2
    <3>4. Max(u) = k
      BY <3>3
    <3>. QED BY <1>1, <1>2, <2>1, <3>4
  <2>2. CASE k \notin u
    <3>1. u \in SUBSET (1 .. k - 1) /\ g[u] = h[u]
      BY <1>1, <1>2, <2>2
    <3>2. h[u] = IF u = {} THEN base ELSE step[<<h[u \ {Max(u)}], s[Max(u)]>>]
      BY <3>1
    <3>3. h[u \ {Max(u)}] = g[u \ {Max(u)}]
      BY <1>2, <3>1
    <3>. QED BY <3>1, <3>2, <3>3
  <2>. QED BY <2>1, <2>2
<1>6. g = [u \in SUBSET (1 .. k) |->
             IF u = {} THEN base ELSE step[<<g[u \ {Max(u)}], s[Max(u)]>>]]
  BY <1>5
<1>. HIDE DEF g
<1>. QED BY <1>4, <1>6 DEF FoldingUpTo

(* That function exists. *)
LEMMA FoldExists ==
  ASSUME NEW V, NEW M, NEW base, NEW step, NEW s, Foldable(s, base, step, V, M)
  PROVE  \E g \in [SUBSET DOMAIN s -> V] : Folding(g, s, base, step)
<1>. DEFINE S == {k \in 0 .. Len(s) : \E g : FoldingUpTo(g, k, s, base, step, V)}
<1>1. 0 \in S
  <2>. DEFINE g == [u \in SUBSET (1 .. 0) |-> base]
  <2>1. \A u \in SUBSET (1 .. 0) : u = {}
    OBVIOUS
  <2>2. FoldingUpTo(g, 0, s, base, step, V)
    BY <2>1 DEF Foldable, FoldingUpTo
  <2>3. 0 \in 0 .. Len(s)
    BY DEF Foldable
  <2>. HIDE DEF g
  <2>. QED BY <2>2, <2>3
<1>2. ASSUME NEW k \in 1 .. Len(s), k - 1 \in S
      PROVE  k \in S
  BY <1>2, FoldUpTo
<1>3. Len(s) \in Nat
  BY DEF Foldable
<1>5. Len(s) \in S
  <2>1. Len(s) \in 0 .. Len(s)
    BY <1>3
  <2>. HIDE DEF S
  <2>. QED BY <1>1, <1>2, <1>3, <2>1, UpTo
<1>4. DOMAIN s = 1 .. Len(s)
  BY DEF Foldable
<1>. QED BY <1>4, <1>5 DEF Folding, FoldingUpTo

LEMMA MaxInDomain ==
  ASSUME NEW M, NEW s \in Seq(M), NEW u \in SUBSET DOMAIN s, u # {}
  PROVE  Max(u) \in DOMAIN s
<1>1. Len(s) \in Nat /\ u \subseteq 1 .. Len(s)
  OBVIOUS
<1>2. Max(u) \in u
  BY <1>1, GreatestElement
<1>. QED BY <1>2

(* It goes through the prefixes 1 .. k of the domain in order. *)
LEMMA PrefixMax ==
  ASSUME NEW k \in Nat \ {0}
  PROVE  Max(1 .. k) = k /\ (1 .. k) \ {k} = 1 .. k - 1 /\ 1 .. k # {}
<1>1. k \in Nat /\ 1 .. k \subseteq 1 .. k /\ 1 .. k # {} /\ k \in 1 .. k
  OBVIOUS
<1>2. Max(1 .. k) \in 1 .. k /\ \A y \in 1 .. k : Max(1 .. k) >= y
  BY <1>1, GreatestElement
<1>3. Max(1 .. k) = k
  BY <1>1, <1>2
<1>. QED BY <1>1, <1>3

LEMMA FoldPrefixes ==
  ASSUME NEW M, NEW s \in Seq(M), NEW g, NEW base, NEW step, Folding(g, s, base, step)
  PROVE  /\ g[{}] = base
         /\ \A k \in 1 .. Len(s) : g[1 .. k] = step[<<g[1 .. k - 1], s[k]>>]
<1>1. DOMAIN s = 1 .. Len(s) /\ Len(s) \in Nat
  OBVIOUS
<1>2. g[{}] = base
  BY DEF Folding
<1>3. ASSUME NEW k \in 1 .. Len(s)
      PROVE  g[1 .. k] = step[<<g[1 .. k - 1], s[k]>>]
  <2>1. 1 .. k \in SUBSET DOMAIN s
    BY <1>1
  <2>2. Max(1 .. k) = k /\ (1 .. k) \ {k} = 1 .. k - 1 /\ 1 .. k # {}
    BY PrefixMax
  <2>. QED BY <2>1, <2>2 DEF Folding
<1>. QED BY <1>2, <1>3

(* Two functions on 0 .. n that agree at 0 and step alike agree at n. *)
LEMMA SameSteps ==
  ASSUME NEW n \in Nat, NEW f, NEW g, f[0] = g[0],
         \A k \in 1 .. n : f[k - 1] = g[k - 1] => f[k] = g[k]
  PROVE  f[n] = g[n]
<1>. DEFINE S == {k \in 0 .. n : f[k] = g[k]}
<1>1. 0 .. n \subseteq S
  <2>1. 0 \in S /\ \A k \in 1 .. n : k - 1 \in S => k \in S
    OBVIOUS
  <2>. HIDE DEF S
  <2>. QED BY <2>1, UpTo
<1>. QED BY <1>1

(* The values of the prefixes of a sequence. *)
Partial(f, s, V, base, step) ==
  /\ f \in [0 .. Len(s) -> V]
  /\ f[0] = base
  /\ \A k \in 1 .. Len(s) : f[k] = step[<<f[k - 1], s[k]>>]

LEMMA FoldedPartial ==
  ASSUME NEW V, NEW M, NEW base, NEW step, NEW s, Foldable(s, base, step, V, M)
  PROVE  \E f : Partial(f, s, V, base, step) /\ Folded(s, base, step) = f[Len(s)]
<1>. DEFINE iter == CHOOSE g : g = [u \in SUBSET DOMAIN s |->
                      IF u = {} THEN base ELSE step[<<g[u \ {Max(u)}], s[Max(u)]>>]]
<1>1. Folded(s, base, step) = iter[DOMAIN s]
  BY DEF Folded, FoldLeft, MapThenFoldSet
<1>2. Folding(iter, s, base, step)
  <2>1. \E g : Folding(g, s, base, step)
    BY FoldExists, Zenon
  <2>. QED BY <2>1 DEF Folding
<1>. HIDE DEF iter
<1>. DEFINE f == [k \in 0 .. Len(s) |-> iter[1 .. k]]
<1>3. Len(s) \in Nat /\ DOMAIN s = 1 .. Len(s) /\ 1 .. 0 = {}
  BY DEF Foldable
<1>4. f[0] = base /\ \A k \in 1 .. Len(s) : f[k] = step[<<f[k - 1], s[k]>>]
  BY <1>2, <1>3, FoldPrefixes DEF Foldable
<1>5. Folded(s, base, step) = f[Len(s)]
  BY <1>1, <1>3
<1>. DEFINE S == {k \in 0 .. Len(s) : f[k] \in V}
<1>6. 0 .. Len(s) \subseteq S
  <2>. HIDE DEF f
  <2>1. 0 \in S /\ \A k \in 1 .. Len(s) : k - 1 \in S => k \in S
    <3>1. \A k \in 1 .. Len(s) : s[k] \in M
      BY DEF Foldable
    <3>2. ASSUME NEW k \in 1 .. Len(s), k - 1 \in S
          PROVE  k \in S
      <4>1. f[k] = step[<<f[k - 1], s[k]>>] /\ f[k - 1] \in V /\ s[k] \in M
        BY <1>4, <3>1, <3>2
      <4>. QED BY <4>1 DEF Foldable
    <3>. QED BY <1>3, <1>4, <3>2 DEF Foldable
  <2>. HIDE DEF S
  <2>. QED BY <1>3, <2>1, UpTo
<1>7. f \in [0 .. Len(s) -> V]
  BY <1>6
<1>. HIDE DEF f
<1>. QED BY <1>4, <1>5, <1>7 DEF Partial

(* FoldLeft adds the elements of a sequence from the left, one at a time. *)
LEMMA FoldedEmpty ==
  ASSUME NEW V, NEW M, NEW base, NEW step, NEW s, Foldable(s, base, step, V, M)
  PROVE  Folded(<<>>, base, step) = base
<1>1. Foldable(<<>>, base, step, V, M) /\ Len(<<>>) = 0
  BY DEF Foldable
<1>2. PICK f : Partial(f, <<>>, V, base, step) /\ Folded(<<>>, base, step) = f[Len(<<>>)]
  BY <1>1, FoldedPartial
<1>. QED BY <1>1, <1>2 DEF Partial

LEMMA FoldedType ==
  ASSUME NEW V, NEW M, NEW base, NEW step, NEW s, Foldable(s, base, step, V, M)
  PROVE  Folded(s, base, step) \in V
<1>1. Len(s) \in Nat
  BY DEF Foldable
<1>. QED BY <1>1, FoldedPartial DEF Partial

LEMMA FoldedAppend ==
  ASSUME NEW V, NEW M, NEW base, NEW step, NEW s, Foldable(s, base, step, V, M), NEW m \in M
  PROVE  Folded(Append(s, m), base, step) = step[<<Folded(s, base, step), m>>]
<1>. DEFINE t == Append(s, m)
<1>1. /\ Foldable(t, base, step, V, M) /\ Len(t) = Len(s) + 1 /\ Len(s) \in Nat
      /\ \A k \in 1 .. Len(s) : t[k] = s[k]
      /\ t[Len(s) + 1] = m
  BY DEF Foldable
<1>. HIDE DEF t
<1>2. PICK f : Partial(f, s, V, base, step) /\ Folded(s, base, step) = f[Len(s)]
  BY FoldedPartial
<1>3. PICK g : Partial(g, t, V, base, step) /\ Folded(t, base, step) = g[Len(t)]
  BY <1>1, FoldedPartial
<1>4. f[Len(s)] = g[Len(s)]
  <2>1. f[0] = g[0]
    BY <1>2, <1>3 DEF Partial
  <2>2. ASSUME NEW k \in 1 .. Len(s), f[k - 1] = g[k - 1]
        PROVE  f[k] = g[k]
    <3>1. k \in 1 .. Len(t) /\ t[k] = s[k]
      BY <1>1
    <3>2. g[k] = step[<<g[k - 1], t[k]>>] /\ f[k] = step[<<f[k - 1], s[k]>>]
      BY <1>2, <1>3, <3>1 DEF Partial
    <3>. QED BY <2>2, <3>1, <3>2
  <2>. QED BY <1>1, <2>1, <2>2, SameSteps
<1>5. g[Len(t)] = step[<<g[Len(s)], m>>]
  BY <1>1, <1>3 DEF Partial
<1>. QED BY <1>2, <1>3, <1>4, <1>5 DEF t

LEMMA FoldedHead ==
  ASSUME NEW V, NEW M, NEW base, NEW step, NEW s, Foldable(s, base, step, V, M), s # <<>>
  PROVE  Folded(s, base, step) = Folded(Tail(s), step[<<base, Head(s)>>], step)
<1>. DEFINE t == Tail(s)
            b == step[<<base, Head(s)>>]
<1>1. /\ t \in Seq(M) /\ Len(t) = Len(s) - 1 /\ Len(t) \in Nat
      /\ \A k \in 1 .. Len(t) : t[k] = s[k + 1]
      /\ Head(s) \in M /\ Head(s) = s[1]
  BY DEF Foldable
<1>2. Foldable(t, b, step, V, M)
  BY <1>1 DEF Foldable
<1>. HIDE DEF t, b
<1>3. PICK f : Partial(f, s, V, base, step) /\ Folded(s, base, step) = f[Len(s)]
  BY FoldedPartial
<1>4. PICK g : Partial(g, t, V, b, step) /\ Folded(t, b, step) = g[Len(t)]
  BY <1>1, <1>2, FoldedPartial
<1>. DEFINE h == [k \in 0 .. Len(t) |-> f[k + 1]]
<1>5. h[0] = g[0] /\ \A k \in 1 .. Len(t) : h[k - 1] = g[k - 1] => h[k] = g[k]
  <2>1. h[0] = g[0]
    BY <1>1, <1>3, <1>4 DEF Partial, b
  <2>2. ASSUME NEW k \in 1 .. Len(t), h[k - 1] = g[k - 1]
        PROVE  h[k] = g[k]
    <3>1. g[k] = step[<<g[k - 1], t[k]>>] /\ t[k] = s[k + 1]
      BY <1>1, <1>4 DEF Partial
    <3>2. k + 1 \in 1 .. Len(s) /\ (k + 1) - 1 = k
      BY <1>1
    <3>3. f[k + 1] = step[<<f[k], s[k + 1]>>]
      BY <1>3, <3>2 DEF Partial
    <3>4. h[k] = f[k + 1] /\ h[k - 1] = f[k]
      BY <1>1
    <3>. QED BY <2>2, <3>1, <3>3, <3>4
  <2>. QED BY <2>1, <2>2
<1>6. h[Len(t)] = f[Len(s)]
  BY <1>1
<1>7. h[Len(t)] = g[Len(t)]
  <2>. HIDE DEF h
  <2>. QED BY <1>1, <1>5, SameSteps
<1>. QED BY <1>3, <1>4, <1>6, <1>7 DEF t, b

(* A function with the equation of a fold has its value. *)
LEMMA FoldedUnique ==
  ASSUME NEW V, NEW M, NEW base, NEW step, NEW s, Foldable(s, base, step, V, M), NEW iter,
         iter[{}] = base,
         \A k \in 1 .. Len(s) : iter[1 .. k - 1] \in V =>
                                  iter[1 .. k] = step[<<iter[1 .. k - 1], s[k]>>]
  PROVE  iter[DOMAIN s] = Folded(s, base, step)
<1>1. Len(s) \in Nat /\ DOMAIN s = 1 .. Len(s) /\ 1 .. 0 = {}
  BY DEF Foldable
<1>2. PICK g : Partial(g, s, V, base, step) /\ Folded(s, base, step) = g[Len(s)]
  BY FoldedPartial
<1>. DEFINE f == [k \in 0 .. Len(s) |-> iter[1 .. k]]
<1>3. f[0] = g[0]
  BY <1>1, <1>2 DEF Partial
<1>5. ASSUME NEW k \in 1 .. Len(s), f[k - 1] = g[k - 1]
      PROVE  f[k] = g[k]
  <2>1. g[k - 1] \in V /\ g[k] = step[<<g[k - 1], s[k]>>]
    BY <1>1, <1>2 DEF Partial
  <2>2. f[k] = iter[1 .. k] /\ f[k - 1] = iter[1 .. k - 1]
    BY <1>1
  <2>. QED BY <1>5, <2>1, <2>2
<1>4. f[Len(s)] = g[Len(s)]
  <2>. HIDE DEF f
  <2>. QED BY <1>1, <1>3, <1>5, SameSteps
<1>. QED BY <1>1, <1>2, <1>4
=============================================================================
