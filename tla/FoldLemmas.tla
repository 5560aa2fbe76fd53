----------------------------- MODULE FoldLemmas -----------------------------
(***************************************************************************)
(* What is true of every fold over a finite set, and of a fold along a     *)
(* sequence, whatever is folded.  The operator and the order in which the  *)
(* elements are taken are parameters, so that the lemmas are stated once   *)
(* and are used for each fold by an instance of this module.               *)
(***************************************************************************)
EXTENDS Integers, FiniteSetTheorems, TLAPS

CONSTANTS
    Op(_, _),       \* Op(x, acc): takes x in
    Chosen(_)       \* the element of a set that is taken last

Recursion(base, f, T, g) ==
    g = [s \in SUBSET T |-> IF s = {} THEN base ELSE Op(f[Chosen(s)], g[s \ {Chosen(s)}])]

(***************************************************************************)
(* MapThenFoldSet of the community modules, of the values of a function.   *)
(***************************************************************************)
Folding(base, f, T) == (CHOOSE g : Recursion(base, f, T, g))[T]

Chooses(T) == \A s \in SUBSET T : s # {} => Chosen(s) \in s

-----------------------------------------------------------------------------
(***************************************************************************)
(* Induction over the subsets of a finite set, as the existence of a       *)
(* smallest among those for which something is wrong, and along numbers.   *)
(***************************************************************************)
LEMMA SmallestBad ==
    ASSUME NEW T, IsFiniteSet(T), NEW Bad, Bad \subseteq SUBSET T, Bad # {}
    PROVE  \E U \in Bad : \A V \in SUBSET U : V \in Bad => V = U
<1>1. IsWellFoundedOn(StrictSubsetOrdering(T), FiniteSubsetsOf(T))
  BY FS_StrictSubsetOrderingWellFounded
<1>2. Bad \subseteq FiniteSubsetsOf(T)
  BY FS_Subset DEF FiniteSubsetsOf
<1>3. PICK U \in Bad : \A V \in Bad : ~(<<V, U>> \in StrictSubsetOrdering(T))
  BY <1>1, <1>2, WFMin, Zenon
<1>4. \A V \in SUBSET U : V \in Bad => V = U
  BY <1>3 DEF StrictSubsetOrdering
<1> QED BY <1>4

LEMMA Induction ==
    ASSUME NEW n \in Nat, NEW S, 0 \in S,
           \A i \in 1 .. n : i - 1 \in S => i \in S
    PROVE  n \in S
<1> DEFINE Bad == {1 .. i : i \in (0 .. n) \ S}
<1> SUFFICES ASSUME n \notin S PROVE FALSE
  OBVIOUS
<1>1. PICK U \in Bad : \A V \in SUBSET U : V \in Bad => V = U
  <2> DEFINE T == 1 .. n
  <2>1. IsFiniteSet(T)
    BY FS_Interval
  <2>2. \A i \in 0 .. n : 1 .. i \in SUBSET T
    OBVIOUS
  <2>3. T \in Bad
    OBVIOUS
  <2>4. Bad \subseteq SUBSET T
    BY <2>2
  <2> HIDE DEF Bad, T
  <2> QED BY <2>1, <2>3, <2>4, SmallestBad
<1>2. PICK i \in (0 .. n) \ S : U = 1 .. i
  OBVIOUS
<1>3. i \in 1 .. n /\ i - 1 \in (0 .. n) \ S
  OBVIOUS
<1>4. 1 .. (i - 1) \in Bad /\ 1 .. (i - 1) \in SUBSET U
  BY <1>2, <1>3
<1>5. 1 .. (i - 1) = U
  BY <1>1, <1>4
<1>6. i \in U /\ i \notin 1 .. (i - 1)
  BY <1>2, <1>3
<1> QED BY <1>5, <1>6

-----------------------------------------------------------------------------
(***************************************************************************)
(* A recursion over the subsets of a finite set has one solution.          *)
(***************************************************************************)
LEMMA RecursionsAgree ==
    ASSUME NEW base, NEW f, NEW A, NEW B, NEW g, NEW h, IsFiniteSet(A), Chooses(A),
           Recursion(base, f, A, g), Recursion(base, f, B, h)
    PROVE  \A s \in SUBSET (A \cap B) : g[s] = h[s]
<1> DEFINE Bad == {s \in SUBSET (A \cap B) : g[s] # h[s]}
<1> SUFFICES ASSUME Bad # {} PROVE FALSE
  OBVIOUS
<1>1. IsFiniteSet(A \cap B) /\ Bad \subseteq SUBSET (A \cap B)
  BY FS_Subset
<1>2. PICK U \in Bad : \A V \in SUBSET U : V \in Bad => V = U
  <2> HIDE DEF Bad
  <2> QED BY <1>1, SmallestBad
<1>3. U \in SUBSET A /\ U \in SUBSET B /\ g[U] # h[U]
  OBVIOUS
<1>4. /\ g[U] = IF U = {} THEN base ELSE Op(f[Chosen(U)], g[U \ {Chosen(U)}])
      /\ h[U] = IF U = {} THEN base ELSE Op(f[Chosen(U)], h[U \ {Chosen(U)}])
  BY <1>3 DEF Recursion
<1>5. U # {}
  BY <1>3, <1>4
<1>6. U \ {Chosen(U)} # U /\ U \ {Chosen(U)} \in SUBSET U
  BY <1>3, <1>5 DEF Chooses
<1>7. U \ {Chosen(U)} \notin Bad
  BY <1>2, <1>6
<1>8. g[U \ {Chosen(U)}] = h[U \ {Chosen(U)}]
  BY <1>3, <1>7
<1> QED BY <1>3, <1>4, <1>5, <1>8

LEMMA RecursionExists ==
    ASSUME NEW base, NEW f, NEW T, IsFiniteSet(T), Chooses(T)
    PROVE  \E g : Recursion(base, f, T, g)
<1> DEFINE Bad == {U \in SUBSET T : ~ \E g : Recursion(base, f, U, g)}
<1> SUFFICES ASSUME Bad # {} PROVE FALSE
  OBVIOUS
<1>1. PICK U \in Bad : \A V \in SUBSET U : V \in Bad => V = U
  <2>1. Bad \subseteq SUBSET T
    OBVIOUS
  <2> HIDE DEF Bad
  <2> QED BY <2>1, SmallestBad
<1>2. U \in SUBSET T /\ IsFiniteSet(U) /\ ~ \E g : Recursion(base, f, U, g)
  BY FS_Subset
<1> DEFINE G(V) == CHOOSE g : Recursion(base, f, V, g)
           g == [s \in SUBSET U |->
                    IF s = {} THEN base
                    ELSE Op(f[Chosen(s)], G(s \ {Chosen(s)})[s \ {Chosen(s)}])]
<1>3. ASSUME NEW V \in SUBSET U, V # U
      PROVE  Recursion(base, f, V, G(V))
  <2>1. \E h : Recursion(base, f, V, h)
    BY <1>1, <1>2, <1>3
  <2> QED BY <2>1
<1>4. ASSUME NEW s \in SUBSET U, s # {}
      PROVE  g[s \ {Chosen(s)}] = G(s \ {Chosen(s)})[s \ {Chosen(s)}]
  <2> DEFINE V == s \ {Chosen(s)}
  <2>1. V \in SUBSET U /\ V # U
    BY <1>2, <1>4 DEF Chooses
  <2>2. Recursion(base, f, V, G(V))
    BY <1>3, <2>1
  <2>3. CASE V = {}
    <3>1. g[V] = base
      BY <2>1, <2>3
    <3>2. G(V)[V] = base
      BY <2>2, <2>3 DEF Recursion
    <3> QED BY <3>1, <3>2
  <2>4. CASE V # {}
    <3> DEFINE W == V \ {Chosen(V)}
    <3>1. /\ W \in SUBSET V /\ W \in SUBSET U /\ W # U /\ W \in SUBSET (V \cap W)
          /\ Chooses(V)
      BY <1>2, <2>1, <2>4 DEF Chooses
    <3>2. Recursion(base, f, W, G(W))
      BY <1>3, <3>1
    <3>3. IsFiniteSet(V)
      BY <1>2, <2>1, FS_Subset
    <3>4. g[V] = Op(f[Chosen(V)], G(W)[W])
      BY <2>1, <2>4
    <3> HIDE DEF g, G
    <3>5. G(V)[V] = Op(f[Chosen(V)], G(V)[W])
      <4> HIDE DEF V
      <4> QED BY <2>2, <2>4 DEF Recursion
    <3>6. G(V)[W] = G(W)[W]
      <4> HIDE DEF V, W
      <4> QED BY <2>2, <3>1, <3>2, <3>3, RecursionsAgree
    <3> QED BY <3>4, <3>5, <3>6
  <2> QED BY <2>3, <2>4
<1>5. Recursion(base, f, U, g)
  <2>1. ASSUME NEW s \in SUBSET U
        PROVE  g[s] = IF s = {} THEN base ELSE Op(f[Chosen(s)], g[s \ {Chosen(s)}])
    <3> DEFINE V == s \ {Chosen(s)}
    <3>1. g[s] = IF s = {} THEN base ELSE Op(f[Chosen(s)], G(V)[V])
      OBVIOUS
    <3>2. s # {} => g[V] = G(V)[V]
      BY <1>4
    <3> HIDE DEF g, G
    <3> QED BY <3>1, <3>2
  <2>2. g = [s \in SUBSET U |-> g[s]]
    OBVIOUS
  <2> HIDE DEF g
  <2> QED BY <2>1, <2>2 DEF Recursion
<1> QED BY <1>2, <1>5

LEMMA FoldUnfolds ==
    ASSUME NEW base, NEW f, NEW T, IsFiniteSet(T), Chooses(T)
    PROVE  Folding(base, f, T)
              = IF T = {} THEN base
                ELSE Op(f[Chosen(T)], Folding(base, f, T \ {Chosen(T)}))
<1> DEFINE V == T \ {Chosen(T)}
           g == CHOOSE g : Recursion(base, f, T, g)
           h == CHOOSE h : Recursion(base, f, V, h)
<1>1. IsFiniteSet(V) /\ Chooses(V)
  BY FS_Subset DEF Chooses
<1>2. Recursion(base, f, T, g) /\ Recursion(base, f, V, h)
  <2>1. \E x : Recursion(base, f, T, x)
    BY RecursionExists
  <2>2. \E x : Recursion(base, f, V, x)
    BY <1>1, RecursionExists
  <2> QED BY <2>1, <2>2
<1>3. Folding(base, f, T) = g[T] /\ Folding(base, f, V) = h[V]
  BY DEF Folding
<1> HIDE DEF g, h
<1>4. g[V] = h[V]
  BY <1>1, <1>2, RecursionsAgree
<1>5. g[T] = IF T = {} THEN base ELSE Op(f[Chosen(T)], g[V])
  BY <1>2 DEF Recursion
<1> QED BY <1>3, <1>4, <1>5

(***************************************************************************)
(* A fold along a sequence, the last element of which is taken last, is    *)
(* the end of a run that takes one element after the other.                *)
(***************************************************************************)
LEMMA FoldIsRun ==
    ASSUME NEW base, NEW f, NEW n \in Nat, Chooses(1 .. n), \A i \in 1 .. n : Chosen(1 .. i) = i
    PROVE  \E run : /\ run[0] = base
                    /\ \A i \in 1 .. n : run[i] = Op(f[i], run[i - 1])
                    /\ Folding(base, f, 1 .. n) = run[n]
<1> DEFINE run == [i \in 0 .. n |-> Folding(base, f, 1 .. i)]
<1>1. \A i \in 0 .. n : IsFiniteSet(1 .. i) /\ Chooses(1 .. i)
  <2>1. TAKE i \in 0 .. n
  <2>2. 1 .. i \subseteq 1 .. n
    OBVIOUS
  <2>3. Chooses(1 .. i)
    BY <2>2 DEF Chooses
  <2> QED BY <2>3, FS_Interval
<1>2. run[0] = base
  <2>1. 1 .. 0 = {}
    OBVIOUS
  <2> QED BY <1>1, <2>1, FoldUnfolds
<1>3. ASSUME NEW i \in 1 .. n
      PROVE  run[i] = Op(f[i], run[i - 1])
  <2> i \in Nat \ {0}
    OBVIOUS
  <2>0. (1 .. i) \ {i} = 1 .. (i - 1) /\ i \in 1 .. i
    <3>1. \A j \in Int : j \in (1 .. i) \ {i} <=> j \in 1 .. (i - 1)
      OBVIOUS
    <3>2. (1 .. i) \ {i} \subseteq Int /\ 1 .. (i - 1) \subseteq Int
      OBVIOUS
    <3> QED BY <3>1, <3>2
  <2>1. i - 1 \in 0 .. n /\ i \in 0 .. n
    OBVIOUS
  <2>2. Chosen(1 .. i) = i
    OBVIOUS
  <2>3. 1 .. i # {}
    BY <2>0
  <2>4. IsFiniteSet(1 .. i) /\ Chooses(1 .. i)
    BY <1>1, <2>1
  <2>5. Folding(base, f, 1 .. i)
           = IF 1 .. i = {} THEN base
             ELSE Op(f[Chosen(1 .. i)], Folding(base, f, (1 .. i) \ {Chosen(1 .. i)}))
    BY <2>4, FoldUnfolds
  <2>6. Folding(base, f, 1 .. i) = Op(f[i], Folding(base, f, 1 .. (i - 1)))
    BY <2>0, <2>2, <2>3, <2>5
  <2> QED BY <2>1, <2>6
<1>4. Folding(base, f, 1 .. n) = run[n]
  OBVIOUS
<1> QED BY <1>2, <1>3, <1>4

-----------------------------------------------------------------------------
(***************************************************************************)
(* Sums: what is folded is added.                                          *)
(***************************************************************************)
Summing ==
    /\ \A a, b : Op(a, b) = a + b
    /\ \A s : s # {} => Chosen(s) \in s

Sum(f, T) == Folding(0, f, T)

LEMMA ChosenOfSum == ASSUME Summing, NEW s, s # {} PROVE Chosen(s) \in s
BY DEF Summing

LEMMA SumUnfolds ==
    ASSUME Summing, NEW f, NEW T, IsFiniteSet(T)
    PROVE  Sum(f, T) = IF T = {} THEN 0 ELSE f[Chosen(T)] + Sum(f, T \ {Chosen(T)})
<1>1. Chooses(T)
  BY DEF Summing, Chooses
<1>2. Folding(0, f, T) = IF T = {} THEN 0 ELSE Op(f[Chosen(T)], Folding(0, f, T \ {Chosen(T)}))
  BY <1>1, FoldUnfolds
<1> QED BY <1>2 DEF Summing, Sum

LEMMA SumOfNone == ASSUME Summing, NEW f PROVE Sum(f, {}) = 0
BY SumUnfolds, FS_EmptySet

LEMMA SumIsInteger ==
    ASSUME Summing, NEW f, NEW T, IsFiniteSet(T), \A x \in T : f[x] \in Int
    PROVE  Sum(f, T) \in Int
<1> DEFINE Bad == {U \in SUBSET T : Sum(f, U) \notin Int}
<1> SUFFICES ASSUME Bad # {} PROVE FALSE
  OBVIOUS
<1>1. PICK U \in Bad : \A V \in SUBSET U : V \in Bad => V = U
  <2>1. Bad \subseteq SUBSET T
    OBVIOUS
  <2> HIDE DEF Bad
  <2> QED BY <2>1, SmallestBad
<1>2. IsFiniteSet(U) /\ U \in SUBSET T
  BY FS_Subset
<1>3. U # {}
  BY SumOfNone
<1>4. Chosen(U) \in U /\ U \ {Chosen(U)} \notin Bad
  BY <1>1, <1>3, ChosenOfSum
<1>5. Sum(f, U \ {Chosen(U)}) \in Int
  BY <1>2, <1>4
<1>6. Sum(f, U) = f[Chosen(U)] + Sum(f, U \ {Chosen(U)})
  BY <1>2, <1>3, SumUnfolds
<1>7. f[Chosen(U)] \in Int
  BY <1>2, <1>4
<1> QED BY <1>5, <1>6, <1>7

(***************************************************************************)
(* The order in which the elements are taken does not matter.              *)
(***************************************************************************)
LEMMA SumWithout ==
    ASSUME Summing, NEW f, NEW T, IsFiniteSet(T), \A x \in T : f[x] \in Int, NEW x \in T
    PROVE  Sum(f, T) = f[x] + Sum(f, T \ {x})
<1> DEFINE S(U) == Sum(f, U)
           Bad == {U \in SUBSET T : \E y \in U : S(U) # f[y] + S(U \ {y})}
<1> SUFFICES ASSUME Bad # {} PROVE FALSE
  OBVIOUS
<1>1. PICK U \in Bad : \A V \in SUBSET U : V \in Bad => V = U
  <2>1. Bad \subseteq SUBSET T
    OBVIOUS
  <2> HIDE DEF Bad
  <2> QED BY <2>1, SmallestBad
<1>2. IsFiniteSet(U) /\ U \in SUBSET T
  BY FS_Subset
<1>3. PICK y \in U : S(U) # f[y] + S(U \ {y})
  OBVIOUS
<1> DEFINE c == Chosen(U)
           W == U \ {c, y}
<1>4. c \in U /\ U # {}
  BY ChosenOfSum
<1>5. S(U) = f[c] + S(U \ {c})
  BY <1>2, <1>4, SumUnfolds
<1>6. y # c
  BY <1>3, <1>5
<1> HIDE DEF c
<1>7. \A V \in SUBSET U : IsFiniteSet(V) /\ S(V) \in Int
  BY <1>2, FS_Subset, SumIsInteger
<1>8. S(U \ {c}) = f[y] + S(W)
  <2>1. U \ {c} \notin Bad
    <3>1. U \ {c} \in SUBSET U /\ U \ {c} # U
      BY <1>4
    <3> HIDE DEF Bad
    <3> QED BY <1>1, <3>1
  <2>2. (U \ {c}) \ {y} = W /\ y \in U \ {c} /\ U \ {c} \in SUBSET T
    BY <1>2, <1>6
  <2> HIDE DEF S
  <2> QED BY <2>1, <2>2
<1>9. S(U \ {y}) = f[c] + S(W)
  <2>1. U \ {y} \notin Bad
    <3>1. U \ {y} \in SUBSET U /\ U \ {y} # U
      OBVIOUS
    <3> HIDE DEF Bad
    <3> QED BY <1>1, <3>1
  <2>2. (U \ {y}) \ {c} = W /\ c \in U \ {y} /\ U \ {y} \in SUBSET T
    BY <1>2, <1>4, <1>6
  <2> HIDE DEF S
  <2> QED BY <2>1, <2>2
<1>10. f[c] \in Int /\ f[y] \in Int /\ S(W) \in Int
  BY <1>2, <1>4, <1>7
<1> HIDE DEF S, W
<1> QED BY <1>3, <1>5, <1>8, <1>9, <1>10

(***************************************************************************)
(* What a sum depends on, and what becomes of it when some terms change.   *)
(***************************************************************************)
LEMMA SumIsNatural ==
    ASSUME Summing, NEW f, NEW T, IsFiniteSet(T), \A x \in T : f[x] \in Nat
    PROVE  Sum(f, T) \in Nat
<1> DEFINE Bad == {U \in SUBSET T : Sum(f, U) \notin Nat}
<1> SUFFICES ASSUME Bad # {} PROVE FALSE
  OBVIOUS
<1>1. PICK U \in Bad : \A V \in SUBSET U : V \in Bad => V = U
  <2>1. Bad \subseteq SUBSET T
    OBVIOUS
  <2> HIDE DEF Bad
  <2> QED BY <2>1, SmallestBad
<1>2. IsFiniteSet(U) /\ U \in SUBSET T
  BY FS_Subset
<1>3. U # {}
  BY SumOfNone
<1>4. Chosen(U) \in U /\ U \ {Chosen(U)} \notin Bad
  BY <1>1, <1>3, ChosenOfSum
<1>5. Sum(f, U \ {Chosen(U)}) \in Nat
  BY <1>2, <1>4
<1>6. Sum(f, U) = f[Chosen(U)] + Sum(f, U \ {Chosen(U)})
  BY <1>2, <1>3, SumUnfolds
<1>7. f[Chosen(U)] \in Nat
  BY <1>2, <1>4
<1> QED BY <1>5, <1>6, <1>7

(***************************************************************************)
(* Some of the terms are reduced, those of U, each by its own amount.      *)
(***************************************************************************)
LEMMA SumReduced ==
    ASSUME Summing, NEW f, NEW g, NEW h, NEW T, IsFiniteSet(T), NEW U \in SUBSET T,
           \A x \in T : f[x] \in Int /\ g[x] \in Int,
           \A x \in U : h[x] = f[x] - g[x],
           \A x \in T \ U : h[x] = f[x]
    PROVE  Sum(h, T) = Sum(f, T) - Sum(g, U)
<1> DEFINE F(V) == Sum(f, V)
           G(V) == Sum(g, V)
           H(V) == Sum(h, V)
           Bad == {V \in SUBSET T : H(V) # F(V) - G(V \cap U)}
<1>0. U \cap T = U /\ T \cap U = U
  OBVIOUS
<1> SUFFICES ASSUME Bad # {} PROVE FALSE
  BY <1>0
<1>1. PICK V \in Bad : \A W \in SUBSET V : W \in Bad => W = V
  <2>1. Bad \subseteq SUBSET T
    OBVIOUS
  <2> HIDE DEF Bad
  <2> QED BY <2>1, SmallestBad
<1>2. /\ V \in SUBSET T /\ H(V) # F(V) - G(V \cap U)
      /\ IsFiniteSet(V) /\ IsFiniteSet(V \cap U)
  BY FS_Subset
<1>3. V # {}
  <2> SUFFICES ASSUME V = {} PROVE FALSE
    OBVIOUS
  <2>1. V \cap U = {}
    OBVIOUS
  <2>2. F(V) = 0 /\ G(V \cap U) = 0 /\ H(V) = 0
    BY <2>1, SumOfNone
  <2> HIDE DEF F, G, H
  <2> QED BY <1>2, <2>2
<1> DEFINE c == Chosen(V)
           W == V \ {c}
<1>4. c \in V /\ W \in SUBSET V /\ W # V /\ W \in SUBSET T /\ IsFiniteSet(W)
  BY <1>2, <1>3, ChosenOfSum, FS_Subset
<1>5. W \notin Bad
  <2> HIDE DEF Bad
  <2> QED BY <1>1, <1>4
<1>6. H(W) = F(W) - G(W \cap U)
  BY <1>4, <1>5
<1>7. H(V) = h[c] + H(W) /\ F(V) = f[c] + F(W)
  BY <1>2, <1>3, SumUnfolds
<1> HIDE DEF c
<1>8. /\ F(W) \in Int /\ G(W \cap U) \in Int /\ G(V \cap U) \in Int
      /\ f[c] \in Int /\ g[c] \in Int
  <2>1. IsFiniteSet(W \cap U)
    BY <1>4, FS_Subset
  <2>2. (\A x \in W : f[x] \in Int) /\ (\A x \in W \cap U : g[x] \in Int)
        /\ (\A x \in V \cap U : g[x] \in Int)
    BY <1>2, <1>4
  <2> HIDE DEF W
  <2> QED BY <1>2, <1>4, <2>1, <2>2, SumIsInteger
<1>9. CASE c \in U
  <2>1. (V \cap U) \ {c} = W \cap U /\ c \in V \cap U
    BY <1>4, <1>9
  <2>2. \A x \in V \cap U : g[x] \in Int
    BY <1>2
  <2>3. G(V \cap U) = g[c] + G((V \cap U) \ {c})
    BY <1>2, <2>1, <2>2, SumWithout
  <2>4. G(V \cap U) = g[c] + G(W \cap U)
    BY <2>1, <2>3
  <2>5. h[c] = f[c] - g[c]
    BY <1>9
  <2> HIDE DEF F, G, H, W
  <2> QED BY <1>2, <1>6, <1>7, <1>8, <2>4, <2>5
<1>10. CASE c \notin U
  <2>1. V \cap U = W \cap U
    BY <1>10
  <2>2. h[c] = f[c]
    BY <1>4, <1>2, <1>10
  <2>3. G(V \cap U) = G(W \cap U)
    BY <2>1
  <2> HIDE DEF F, G, H, W
  <2> QED BY <1>2, <1>6, <1>7, <1>8, <2>3, <2>2
<1> QED BY <1>9, <1>10

LEMMA SumDependsOnTerms ==
    ASSUME Summing, NEW f, NEW h, NEW T, IsFiniteSet(T),
           \A x \in T : f[x] \in Int /\ h[x] = f[x]
    PROVE  Sum(h, T) = Sum(f, T)
<1>1. Sum(h, T) = Sum(f, T) - Sum(f, {})
  <2>1. /\ {} \in SUBSET T
        /\ \A x \in T : f[x] \in Int /\ f[x] \in Int
        /\ \A x \in {} : h[x] = f[x] - f[x]
        /\ \A x \in T \ {} : h[x] = f[x]
    OBVIOUS
  <2> QED BY <2>1, SumReduced
<1>2. Sum(f, {}) = 0 /\ Sum(f, T) \in Int
  BY SumOfNone, SumIsInteger
<1> QED BY <1>1, <1>2

LEMMA SumUpdated ==
    ASSUME Summing, NEW f, NEW h, NEW T, IsFiniteSet(T), NEW x \in T,
           \A y \in T : f[y] \in Int /\ h[y] \in Int,
           \A y \in T \ {x} : h[y] = f[y]
    PROVE  /\ Sum(f, T) \in Int
           /\ Sum(h, T) = Sum(f, T) - f[x] + h[x]
<1>1. IsFiniteSet(T \ {x})
  BY FS_Subset
<1>2. Sum(h, T \ {x}) = Sum(f, T \ {x})
  BY <1>1, SumDependsOnTerms
<1>3. Sum(h, T) = h[x] + Sum(h, T \ {x})
  BY SumWithout
<1>4. Sum(f, T) = f[x] + Sum(f, T \ {x})
  BY SumWithout
<1>5. Sum(f, T \ {x}) \in Int
  BY <1>1, SumIsInteger
<1> QED BY <1>2, <1>3, <1>4, <1>5

(***************************************************************************)
(* Sums over parts of a set, over groups, and of ones.                     *)
(***************************************************************************)
LEMMA SumSplit ==
    ASSUME Summing, NEW f, NEW T, IsFiniteSet(T), NEW U \in SUBSET T,
           \A x \in T : f[x] \in Int
    PROVE  Sum(f, T) = Sum(f, U) + Sum(f, T \ U)
<1> DEFINE Bad == {V \in SUBSET T : Sum(f, V) # Sum(f, V \cap U) + Sum(f, V \ U)}
<1>0. U \cap T = U /\ T \cap U = U
  OBVIOUS
<1> SUFFICES ASSUME Bad # {} PROVE FALSE
  BY <1>0
<1>1. PICK V \in Bad : \A W \in SUBSET V : W \in Bad => W = V
  <2>1. Bad \subseteq SUBSET T
    OBVIOUS
  <2> HIDE DEF Bad
  <2> QED BY <2>1, SmallestBad
<1>2. /\ V \in SUBSET T /\ Sum(f, V) # Sum(f, V \cap U) + Sum(f, V \ U)
      /\ IsFiniteSet(V) /\ IsFiniteSet(V \cap U) /\ IsFiniteSet(V \ U)
  BY FS_Subset
<1>3. V # {}
  <2> SUFFICES ASSUME V = {} PROVE FALSE
    OBVIOUS
  <2>1. V \cap U = {} /\ V \ U = {}
    OBVIOUS
  <2> QED BY <1>2, <2>1, SumOfNone
<1> DEFINE c == Chosen(V)
           W == V \ {c}
<1>4. c \in V /\ W \in SUBSET V /\ W # V /\ W \in SUBSET T /\ IsFiniteSet(W)
  BY <1>2, <1>3, ChosenOfSum, FS_Subset
<1>5. W \notin Bad
  <2> HIDE DEF Bad
  <2> QED BY <1>1, <1>4
<1>6. Sum(f, W) = Sum(f, W \cap U) + Sum(f, W \ U)
  BY <1>4, <1>5
<1>7. Sum(f, V) = f[c] + Sum(f, W)
  BY <1>2, <1>3, SumUnfolds
<1> HIDE DEF c
<1>8. f[c] \in Int /\ Sum(f, W \cap U) \in Int /\ Sum(f, W \ U) \in Int
  <2>1. IsFiniteSet(W \cap U) /\ IsFiniteSet(W \ U)
    BY <1>4, FS_Subset
  <2>2. (\A x \in W \cap U : f[x] \in Int) /\ (\A x \in W \ U : f[x] \in Int)
    BY <1>4
  <2> QED BY <1>2, <1>4, <2>1, <2>2, SumIsInteger
<1>9. CASE c \in U
  <2>1. (V \cap U) \ {c} = W \cap U /\ c \in V \cap U /\ V \ U = W \ U
    BY <1>4, <1>9
  <2>2. \A x \in V \cap U : f[x] \in Int
    BY <1>2
  <2>3. Sum(f, V \cap U) = f[c] + Sum(f, (V \cap U) \ {c})
    BY <1>2, <2>1, <2>2, SumWithout
  <2>4. Sum(f, V \cap U) = f[c] + Sum(f, W \cap U) /\ Sum(f, V \ U) = Sum(f, W \ U)
    BY <2>1, <2>3
  <2> HIDE DEF W
  <2> QED BY <1>2, <1>6, <1>7, <1>8, <2>4
<1>10. CASE c \notin U
  <2>1. (V \ U) \ {c} = W \ U /\ c \in V \ U /\ V \cap U = W \cap U
    BY <1>4, <1>10
  <2>2. \A x \in V \ U : f[x] \in Int
    BY <1>2
  <2>3. Sum(f, V \ U) = f[c] + Sum(f, (V \ U) \ {c})
    BY <1>2, <2>1, <2>2, SumWithout
  <2>4. Sum(f, V \ U) = f[c] + Sum(f, W \ U) /\ Sum(f, V \cap U) = Sum(f, W \cap U)
    BY <2>1, <2>3
  <2> HIDE DEF W
  <2> QED BY <1>2, <1>6, <1>7, <1>8, <2>4
<1> QED BY <1>9, <1>10

LEMMA SumOfPart ==
    ASSUME Summing, NEW f, NEW T, IsFiniteSet(T), NEW U \in SUBSET T,
           \A x \in T : f[x] \in Nat
    PROVE  Sum(f, U) \in Nat /\ Sum(f, T) \in Nat /\ Sum(f, U) <= Sum(f, T)
<1>1. IsFiniteSet(U) /\ IsFiniteSet(T \ U)
  BY FS_Subset
<1>2. Sum(f, U) \in Nat /\ Sum(f, T \ U) \in Nat
  BY <1>1, SumIsNatural
<1>3. Sum(f, T) = Sum(f, U) + Sum(f, T \ U)
  BY SumSplit
<1> QED BY <1>2, <1>3

LEMMA SumWithNew ==
    ASSUME Summing, NEW f, NEW g, NEW T, IsFiniteSet(T), NEW x, x \notin T,
           \A y \in T : f[y] \in Int /\ g[y] = f[y], g[x] \in Int
    PROVE  Sum(g, T \cup {x}) = Sum(f, T) + g[x]
<1>1. IsFiniteSet(T \cup {x}) /\ x \in T \cup {x} /\ (T \cup {x}) \ {x} = T
  BY FS_AddElement
<1>2. \A y \in T \cup {x} : g[y] \in Int
  OBVIOUS
<1>3. Sum(g, T \cup {x}) = g[x] + Sum(g, T)
  BY <1>1, <1>2, SumWithout
<1>4. Sum(g, T) = Sum(f, T) /\ Sum(f, T) \in Int
  BY SumDependsOnTerms, SumIsInteger
<1> QED BY <1>3, <1>4

LEMMA SumOfSame ==
    ASSUME Summing, NEW f, NEW T, IsFiniteSet(T), NEW n \in Int, \A x \in T : f[x] = n
    PROVE  Sum(f, T) = n * Cardinality(T)
<1> DEFINE Bad == {V \in SUBSET T : Sum(f, V) # n * Cardinality(V)}
<1> SUFFICES ASSUME Bad # {} PROVE FALSE
  OBVIOUS
<1>1. PICK V \in Bad : \A W \in SUBSET V : W \in Bad => W = V
  <2>1. Bad \subseteq SUBSET T
    OBVIOUS
  <2> HIDE DEF Bad
  <2> QED BY <2>1, SmallestBad
<1>2. V \in SUBSET T /\ Sum(f, V) # n * Cardinality(V) /\ IsFiniteSet(V)
  BY FS_Subset
<1>3. V # {}
  <2>1. n * 0 = 0
    OBVIOUS
  <2> QED BY <1>2, <2>1, SumOfNone, FS_EmptySet
<1> DEFINE c == Chosen(V)
           W == V \ {c}
<1>4. c \in V /\ W \in SUBSET V /\ W # V /\ W \in SUBSET T /\ IsFiniteSet(W)
  BY <1>2, <1>3, ChosenOfSum, FS_Subset
<1>5. W \notin Bad
  <2> HIDE DEF Bad
  <2> QED BY <1>1, <1>4
<1>6. Sum(f, W) = n * Cardinality(W)
  BY <1>4, <1>5
<1>7. Sum(f, V) = f[c] + Sum(f, W) /\ f[c] = n
  BY <1>2, <1>3, <1>4, SumUnfolds
<1>8. Cardinality(V) = Cardinality(W) + 1
  <2>1. Cardinality(W) = Cardinality(V) - 1
    BY <1>2, <1>4, FS_RemoveElement
  <2>2. Cardinality(V) \in Nat
    BY <1>2, FS_CardinalityType
  <2> QED BY <2>1, <2>2
<1>9. Cardinality(W) \in Nat
  BY <1>4, FS_CardinalityType
<1>10. n * (Cardinality(W) + 1) = n + n * Cardinality(W)
  BY <1>9
<1> QED BY <1>2, <1>6, <1>7, <1>8, <1>10

LEMMA SumOfOnes ==
    ASSUME Summing, NEW f, NEW T, IsFiniteSet(T), \A x \in T : f[x] = 1
    PROVE  Sum(f, T) = Cardinality(T)
<1>1. Sum(f, T) = 1 * Cardinality(T)
  BY SumOfSame
<1> QED BY <1>1, FS_CardinalityType

(***************************************************************************)
(* The sum of the sums of groups: kind[x] names the group of x.            *)
(***************************************************************************)
LEMMA SumByGroup ==
    ASSUME Summing, NEW f, NEW T, IsFiniteSet(T), NEW P, IsFiniteSet(P), NEW kind, NEW g,
           \A x \in T : f[x] \in Int /\ kind[x] \in P,
           \A p \in P : g[p] = Sum(f, {x \in T : kind[x] = p})
    PROVE  Sum(g, P) = Sum(f, T)
<1> DEFINE In(Q) == {x \in T : kind[x] \in Q}
           Bad == {Q \in SUBSET P : Sum(g, Q) # Sum(f, In(Q))}
<1>0. In(P) = T
  OBVIOUS
<1> SUFFICES ASSUME Bad # {} PROVE FALSE
  BY <1>0
<1>1. PICK Q \in Bad : \A R \in SUBSET Q : R \in Bad => R = Q
  <2>1. Bad \subseteq SUBSET P
    OBVIOUS
  <2> HIDE DEF Bad
  <2> QED BY <2>1, SmallestBad
<1>2. Q \in SUBSET P /\ Sum(g, Q) # Sum(f, In(Q)) /\ IsFiniteSet(Q)
  BY FS_Subset
<1>3. Q # {}
  <2> SUFFICES ASSUME Q = {} PROVE FALSE
    OBVIOUS
  <2>1. In(Q) = {}
    OBVIOUS
  <2> HIDE DEF In
  <2> QED BY <1>2, <2>1, SumOfNone
<1> DEFINE c == Chosen(Q)
           R == Q \ {c}
           U == {x \in T : kind[x] = c}
<1>4. c \in Q /\ R \in SUBSET Q /\ R # Q /\ R \in SUBSET P
  BY <1>2, <1>3, ChosenOfSum
<1>5. R \notin Bad
  <2> HIDE DEF Bad
  <2> QED BY <1>1, <1>4
<1>6. Sum(g, R) = Sum(f, In(R))
  BY <1>4, <1>5
<1>7. Sum(g, Q) = g[c] + Sum(g, R)
  BY <1>2, <1>3, SumUnfolds
<1>8. g[c] = Sum(f, U)
  BY <1>2, <1>4
<1>9. U \in SUBSET In(Q) /\ In(Q) \ U = In(R) /\ In(Q) \in SUBSET T
  BY <1>4
<1> HIDE DEF U, In, R, c
<1>10. IsFiniteSet(In(Q)) /\ \A x \in In(Q) : f[x] \in Int
  BY <1>9, FS_Subset
<1>11. Sum(f, In(Q)) = Sum(f, U) + Sum(f, In(Q) \ U)
  BY <1>9, <1>10, SumSplit
<1> QED BY <1>2, <1>6, <1>7, <1>8, <1>9, <1>11

=============================================================================
