------------------------------ MODULE FoldFacts ------------------------------
(***************************************************************************)
(* Facts about folding a sequence from left to right, for an operator that *)
(* the module which instantiates this one gives.  The fold is the last of  *)
(* the values FoldLeft goes through, each from the one before; what holds  *)
(* of the first and is kept by the operator holds of the last.             *)
(*                                                                         *)
(* Induction is over sets of numbers: a set of numbers that is not empty   *)
(* has a least one.                                                        *)
(***************************************************************************)
EXTENDS Naturals, SequencesExt, WellFoundedInduction, TLAPS

CONSTANT Op(_, _, _)   \* what becomes of an accumulated value, in a context, by an element

Fold(c, base, seq) == FoldLeft(LAMBDA a, e : Op(c, a, e), base, seq)

-----------------------------------------------------------------------------
(* Numbers *)

\* A set of numbers that is not empty has a least one.
THEOREM LeastNumber ==
  ASSUME NEW T \in SUBSET Nat, T # {}
  PROVE  \E x \in T : \A y \in T : x <= y
<1> DEFINE R == {ss \in Nat \X Nat : ss[1] < ss[2]}
<1>1. IsWellFoundedOn(R, Nat)
  BY NatLessThanWellFounded DEF OpToRel
<1>2. \E x \in T : \A y \in T : <<y, x>> \notin R
  <2> HIDE DEF R
  <2> QED
    BY <1>1, WFMin
<1>3. \E x \in T : \A y \in T : ~(y < x)
  BY <1>2
<1>4. QED
  BY <1>3

\* What holds of 0 and, if of i below n, of i + 1, holds up to n.
THEOREM UpTo ==
  ASSUME NEW n \in Nat, NEW T, 0 \in T, \A i \in 0 .. n - 1 : i \in T => i + 1 \in T
  PROVE  \A i \in 0 .. n : i \in T
<1> DEFINE Others == {i \in 0 .. n : i \notin T}
<1>1. SUFFICES ASSUME Others # {} PROVE FALSE
  OBVIOUS
<1>2. PICK x \in Others : \A y \in Others : x <= y
  <2>1. Others \in SUBSET Nat
    OBVIOUS
  <2> HIDE DEF Others
  <2> QED
    BY <1>1, <2>1, LeastNumber
<1>3. x # 0 /\ x - 1 \in 0 .. n - 1
  OBVIOUS
<1>4. x - 1 \in T
  BY <1>2, <1>3
<1>5. QED
  BY <1>3, <1>4

\* The greatest of a bounded set of numbers.
THEOREM MaxNumber ==
  ASSUME NEW n \in Nat, NEW s \in SUBSET (1 .. n), s # {}
  PROVE  Max(s) \in s /\ \A y \in s : y <= Max(s)
<1> DEFINE Below == {n - y : y \in s}
<1>1. PICK d \in Below : \A e \in Below : d <= e
  <2>1. Below \in SUBSET Nat
    OBVIOUS
  <2>2. Below # {}
    OBVIOUS
  <2> HIDE DEF Below
  <2>3. QED
    BY <2>1, <2>2, LeastNumber
<1>2. PICK x \in s : d = n - x
  OBVIOUS
<1>3. \A y \in s : x >= y
  <2> SUFFICES ASSUME NEW y \in s PROVE x >= y
    OBVIOUS
  <2>1. n - x <= n - y
    BY <1>1, <1>2
  <2>2. QED
    BY <2>1
<1>4. Max(s) \in s /\ \A y \in s : Max(s) >= y
  BY <1>3 DEF Max
<1>5. QED
  BY <1>4

\* Without its greatest number a set goes less far.
LEMMA WithoutMax ==
  ASSUME NEW k \in Nat, NEW s \in SUBSET (1 .. k + 1), s # {}
  PROVE  s \ {Max(s)} \in SUBSET (1 .. k)
<1> DEFINE top == Max(s)
<1>1. k + 1 \in Nat
  OBVIOUS
<1>2. top \in s /\ \A y \in s : y <= top
  BY <1>1, MaxNumber
<1> HIDE DEF top
<1>3. ASSUME NEW y \in s, y # top PROVE y \in 1 .. k
  <2>1. y \in 1 .. k + 1 /\ top \in 1 .. k + 1 /\ y <= top
    BY <1>2
  <2>2. QED
    BY <2>1, <1>3
<1>4. s \ {top} \in SUBSET (1 .. k)
  BY <1>3
<1>5. QED
  BY <1>4 DEF top

\* The greatest of the numbers up to i is i.
LEMMA MaxUpTo ==
  ASSUME NEW i \in Nat \ {0}
  PROVE  Max(1 .. i) = i
<1> DEFINE s == 1 .. i
<1>1. s \in SUBSET (1 .. i) /\ i \in s
  OBVIOUS
<1> HIDE DEF s
<1>2. Max(s) \in s /\ i <= Max(s)
  BY <1>1, MaxNumber
<1>3. QED
  BY <1>2 DEF s

\* The least of a set of numbers.
THEOREM MinNumber ==
  ASSUME NEW s \in SUBSET Nat, s # {}
  PROVE  Min(s) \in s /\ \A y \in s : Min(s) <= y
BY LeastNumber DEF Min

-----------------------------------------------------------------------------
(* Folds *)

\* What the definition of FoldLeft asks of the function it chooses, on the subsets of D.
Rule(iter, D, c, base, seq) ==
  iter = [s \in SUBSET D |->
            IF s = {} THEN base ELSE Op(c, iter[s \ {Max(s)}], seq[Max(s)])]

\* There is a function as the definition of the fold chooses one.
LEMMA RuleSatisfied ==
  ASSUME NEW n \in Nat, NEW c, NEW base, NEW seq
  PROVE  \E iter : Rule(iter, 1 .. n, c, base, seq)
<1> DEFINE T == {k \in 0 .. n : \E iter : Rule(iter, 1 .. k, c, base, seq)}
<1>1. 0 \in T
  <2> DEFINE iter == [s \in SUBSET (1 .. 0) |-> base]
  <2>1. \A s \in SUBSET (1 .. 0) : s = {}
    OBVIOUS
  <2>2. Rule(iter, 1 .. 0, c, base, seq)
    BY <2>1 DEF Rule
  <2>3. QED
    BY <2>2
<1>2. ASSUME NEW k \in 0 .. n - 1, k \in T PROVE k + 1 \in T
  <2>1. PICK iter : Rule(iter, 1 .. k, c, base, seq)
    BY <1>2
  <2> DEFINE next == [s \in SUBSET (1 .. k + 1) |->
               IF s = {} THEN base ELSE Op(c, iter[s \ {Max(s)}], seq[Max(s)])]
  <2>2. ASSUME NEW s \in SUBSET (1 .. k) PROVE next[s] = iter[s]
    <3>1. iter[s] = IF s = {} THEN base ELSE Op(c, iter[s \ {Max(s)}], seq[Max(s)])
      BY <2>1 DEF Rule
    <3>2. s \in SUBSET (1 .. k + 1)
      OBVIOUS
    <3>3. QED
      BY <3>1, <3>2
  <2>3. \A s \in SUBSET (1 .. k + 1) : s # {} => s \ {Max(s)} \in SUBSET (1 .. k)
    BY WithoutMax
  <2>4. Rule(next, 1 .. k + 1, c, base, seq)
    BY <2>2, <2>3 DEF Rule
  <2>5. QED
    BY <2>4
<1>3. n \in T
  <2> HIDE DEF T
  <2> QED
    BY <1>1, <1>2, UpTo
<1>4. QED
  BY <1>3

\* The values a fold of n elements goes through.
Steps(f, n, c, base, seq) ==
  /\ f = [i \in 0 .. n |-> f[i]]
  /\ f[0] = base
  /\ \A i \in 1 .. n : f[i] = Op(c, f[i - 1], seq[i])

\* A fold is the last of the values it goes through.
THEOREM FoldSteps ==
  ASSUME NEW n \in Nat, NEW c, NEW base, NEW seq, DOMAIN seq = 1 .. n
  PROVE  \E f : Steps(f, n, c, base, seq) /\ Fold(c, base, seq) = f[n]
<1> DEFINE iter == CHOOSE iter : Rule(iter, 1 .. n, c, base, seq)
<1>1. Fold(c, base, seq) = iter[1 .. n]
  BY DEF Fold, FoldLeft, MapThenFoldSet, Rule
<1>2. Rule(iter, 1 .. n, c, base, seq)
  BY RuleSatisfied
<1> HIDE DEF iter
<1> DEFINE f == [i \in 0 .. n |-> iter[1 .. i]]
<1>3. f[0] = base
  <2>1. 1 .. 0 = {} /\ {} \in SUBSET (1 .. n)
    OBVIOUS
  <2>2. QED
    BY <1>2, <2>1 DEF Rule
<1>4. ASSUME NEW i \in 1 .. n PROVE f[i] = Op(c, f[i - 1], seq[i])
  <2>1. Max(1 .. i) = i
    BY MaxUpTo
  <2>2. (1 .. i) \ {i} = 1 .. i - 1 /\ 1 .. i \in SUBSET (1 .. n) /\ 1 .. i # {}
    OBVIOUS
  <2>3. iter[1 .. i] = Op(c, iter[1 .. i - 1], seq[i])
    BY <1>2, <2>1, <2>2 DEF Rule
  <2>4. QED
    BY <2>3
<1>5. f = [i \in 0 .. n |-> f[i]] /\ f[n] = iter[1 .. n]
  OBVIOUS
<1> HIDE DEF f
<1>6. Steps(f, n, c, base, seq)
  BY <1>3, <1>4, <1>5 DEF Steps
<1>7. QED
  BY <1>1, <1>5, <1>6

\* A set that has the base and that no element leads out of has the fold.
THEOREM FoldInvariant ==
  ASSUME NEW n \in Nat, NEW c, NEW base, NEW seq, DOMAIN seq = 1 .. n,
         NEW S, base \in S, \A a \in S, i \in 1 .. n : Op(c, a, seq[i]) \in S
  PROVE  Fold(c, base, seq) \in S
<1>1. PICK f : Steps(f, n, c, base, seq) /\ Fold(c, base, seq) = f[n]
  BY FoldSteps
<1> DEFINE T == {i \in 0 .. n : f[i] \in S}
<1>2. 0 \in T
  BY <1>1 DEF Steps
<1>3. \A i \in 0 .. n - 1 : i \in T => i + 1 \in T
  <2> SUFFICES ASSUME NEW i \in 0 .. n - 1, f[i] \in S PROVE f[i + 1] \in S
    OBVIOUS
  <2>1. i + 1 \in 1 .. n /\ (i + 1) - 1 = i
    OBVIOUS
  <2>2. f[i + 1] = Op(c, f[i], seq[i + 1])
    BY <1>1, <2>1 DEF Steps
  <2>3. QED
    BY <2>1, <2>2
<1>4. n \in T
  <2>1. n \in 0 .. n
    OBVIOUS
  <2> HIDE DEF T
  <2>2. \A i \in 0 .. n : i \in T
    BY <1>2, <1>3, UpTo
  <2>3. QED
    BY <2>1, <2>2
<1>5. QED
  BY <1>1, <1>4

\* The values of a fold are determined, so that two folds with the same steps are the same.
THEOREM StepsUnique ==
  ASSUME NEW n \in Nat, NEW c, NEW base, NEW seq, NEW f, NEW g, NEW m \in Nat, n <= m,
         NEW longer, \A i \in 1 .. n : longer[i] = seq[i],
         Steps(f, n, c, base, seq), Steps(g, m, c, base, longer)
  PROVE  \A i \in 0 .. n : f[i] = g[i]
<1> DEFINE T == {i \in 0 .. n : f[i] = g[i]}
<1>1. 0 \in T
  BY DEF Steps
<1>2. \A i \in 0 .. n - 1 : i \in T => i + 1 \in T
  <2> SUFFICES ASSUME NEW i \in 0 .. n - 1, f[i] = g[i] PROVE f[i + 1] = g[i + 1]
    OBVIOUS
  <2>1. i + 1 \in 1 .. n /\ i + 1 \in 1 .. m /\ (i + 1) - 1 = i
    OBVIOUS
  <2>2. f[i + 1] = Op(c, f[i], seq[i + 1]) /\ g[i + 1] = Op(c, g[i], longer[i + 1])
    BY <2>1 DEF Steps
  <2>3. QED
    BY <2>1, <2>2
<1>3. \A i \in 0 .. n : i \in T
  <2> HIDE DEF T
  <2> QED
    BY <1>1, <1>2, UpTo
<1>4. QED
  BY <1>3

\* One more element is one more application of the operator.
THEOREM FoldOneMore ==
  ASSUME NEW n \in Nat, NEW c, NEW base, NEW seq, DOMAIN seq = 1 .. n,
         NEW longer, DOMAIN longer = 1 .. n + 1, \A i \in 1 .. n : longer[i] = seq[i]
  PROVE  Fold(c, base, longer) = Op(c, Fold(c, base, seq), longer[n + 1])
<1>1. PICK f : Steps(f, n, c, base, seq) /\ Fold(c, base, seq) = f[n]
  BY FoldSteps
<1>2. PICK g : Steps(g, n + 1, c, base, longer) /\ Fold(c, base, longer) = g[n + 1]
  BY FoldSteps
<1>3. g[n] = f[n]
  <2>1. \A i \in 0 .. n : f[i] = g[i]
    BY <1>1, <1>2, StepsUnique
  <2>2. QED
    BY <2>1
<1>4. g[n + 1] = Op(c, g[n], longer[n + 1])
  <2>1. n + 1 \in 1 .. n + 1 /\ (n + 1) - 1 = n
    OBVIOUS
  <2>2. QED
    BY <1>2, <2>1 DEF Steps
<1>5. QED
  BY <1>1, <1>2, <1>3, <1>4

\* The fold of no element is the base.
THEOREM FoldEmpty ==
  ASSUME NEW c, NEW base, NEW seq, DOMAIN seq = {}
  PROVE  Fold(c, base, seq) = base
<1>1. DOMAIN seq = 1 .. 0
  OBVIOUS
<1>2. QED
  BY <1>1, FoldSteps DEF Steps

=============================================================================
