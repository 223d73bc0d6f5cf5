---------------------------- MODULE DataTheorems ----------------------------
(***************************************************************************)
(* Facts about the data the models share: sums over finite sets (the books,*)
(* metrics and scores, as SumFunctionOnSet of the module Functions), the   *)
(* order a sort gives and what a filter keeps (StableSort).  Induction     *)
(* over the subsets of a finite set is by minimal counterexample.          *)
(***************************************************************************)
EXTENDS Functions, StableSort, FiniteSetTheorems, TLAPS

\* A nonempty set of subsets of a finite set has a minimal element.
LEMMA MinimalSubset ==
  ASSUME NEW S, IsFiniteSet(S), NEW Q, Q \subseteq SUBSET S, Q # {}
  PROVE  \E T \in Q : \A U \in Q : U \subseteq T => U = T
<1>1. IsWellFoundedOn(StrictSubsetOrdering(S), SUBSET S)
  BY FS_FiniteSubsetsOfFinite, FS_StrictSubsetOrderingWellFounded
<1>2. \E T \in Q : \A U \in Q : ~ (<<U, T>> \in StrictSubsetOrdering(S))
  BY <1>1, WFMin
<1>3. QED
  BY <1>2 DEF StrictSubsetOrdering

\* The same as a formula, for subsets of a set of numbers.
MinimalIn(S, Q) ==
  IsFiniteSet(S) /\ Q \subseteq SUBSET S /\ Q # {} =>
    \E T \in Q : \A U \in Q : U \subseteq T => U = T

LEMMA MinimalSome == \A S, Q : MinimalIn(S, Q)
BY MinimalSubset DEF MinimalIn

Chosen(s) == CHOOSE x \in s : TRUE

\* g sums f over the subsets of S.
Sums(g, f, S) ==
  g = [s \in SUBSET S |->
         IF s = {} THEN 0 ELSE f[Chosen(s)] + g[s \ {Chosen(s)}]]

LEMMA ChosenIn == \A s : s # {} => Chosen(s) \in s
BY DEF Chosen

LEMMA SumsAgree ==
  ASSUME NEW S, IsFiniteSet(S), NEW T, T \subseteq S, NEW f, NEW g, NEW h,
         Sums(g, f, S), Sums(h, f, T)
  PROVE  \A U \in SUBSET T : g[U] = h[U]
<1> DEFINE Q == {U \in SUBSET T : g[U] # h[U]}
<1> SUFFICES ASSUME Q # {} PROVE FALSE
  OBVIOUS
<1>1. PICK U \in Q : \A V \in Q : V \subseteq U => V = U
  <2>1. Q \subseteq SUBSET S
    OBVIOUS
  <2> HIDE DEF Q
  <2>2. QED
    BY <2>1, MinimalSubset
<1>2. U \subseteq T /\ g[U] # h[U] /\ U \subseteq S
  BY <1>1
<1>3. CASE U = {}
  BY <1>2, <1>3 DEF Sums
<1>4. CASE U # {}
  <2>1. PICK V : V = U \ {Chosen(U)}
    OBVIOUS
  <2>2. V \subseteq U /\ V # U
    BY <1>4, <2>1, ChosenIn
  <2>3. g[V] = h[V]
    BY <1>1, <1>2, <2>2
  <2>4. g[U] = f[Chosen(U)] + g[V] /\ h[U] = f[Chosen(U)] + h[V]
    BY <1>2, <1>4, <2>1 DEF Sums
  <2>5. QED
    BY <1>2, <2>3, <2>4
<1>5. QED
  BY <1>3, <1>4

LEMMA SumsExist ==
  ASSUME NEW S, IsFiniteSet(S), NEW f
  PROVE  \E g : Sums(g, f, S)
<1> DEFINE Q == {T \in SUBSET S : ~ \E g : Sums(g, f, T)}
<1> SUFFICES ASSUME Q # {} PROVE FALSE
  OBVIOUS
<1>1. PICK T \in Q : \A U \in Q : U \subseteq T => U = T
  <2>1. Q \subseteq SUBSET S
    OBVIOUS
  <2> HIDE DEF Q
  <2>2. QED
    BY <2>1, MinimalSubset
<1> DEFINE G(U) == CHOOSE g : Sums(g, f, U)
           Rest(s) == s \ {Chosen(s)}
           h == [s \in SUBSET T |-> IF s = {} THEN 0
                                    ELSE f[Chosen(s)] + G(Rest(s))[Rest(s)]]
<1>2. \A U \in SUBSET T : U # T => Sums(G(U), f, U)
  BY <1>1
<1>3. ASSUME NEW s \in SUBSET T, s # {}
      PROVE  h[Rest(s)] = G(Rest(s))[Rest(s)]
  <2>1. PICK U : U = Rest(s)
    OBVIOUS
  <2>2. U \in SUBSET T /\ U # T
    BY <1>3, <2>1, ChosenIn
  <2>3. Sums(G(U), f, U)
    BY <1>2, <2>2
  <2>4. CASE U = {}
    <3>1. h[U] = 0
      BY <2>2, <2>4
    <3>2. G(U)[U] = 0
      <4> HIDE DEF G
      <4>1. QED
        BY <2>3, <2>4 DEF Sums
    <3>3. QED
      BY <2>1, <3>1, <3>2
  <2>5. CASE U # {}
    <3>1. PICK V : V = Rest(U)
      OBVIOUS
    <3>2. V \subseteq U /\ V # U /\ V # T /\ V \in SUBSET T
      BY <2>2, <2>5, <3>1, ChosenIn
    <3>3. Sums(G(V), f, V)
      BY <1>2, <3>2
    <3>4. h[U] = f[Chosen(U)] + G(V)[V]
      <4> HIDE DEF G
      <4>1. QED
        BY <2>2, <2>5, <3>1
    <3>5. G(U)[U] = f[Chosen(U)] + G(U)[V]
      <4> HIDE DEF G
      <4>1. QED
        BY <2>3, <2>5, <3>1 DEF Sums
    <3>6. G(U)[V] = G(V)[V]
      <4>1. IsFiniteSet(U)
        BY <1>1, <2>2, FS_Subset
      <4> HIDE DEF G
      <4>2. QED
        BY <2>3, <3>2, <3>3, <4>1, SumsAgree
    <3>7. QED
      BY <2>1, <3>4, <3>5, <3>6
  <2>6. QED
    BY <2>4, <2>5
<1>4. Sums(h, f, T)
  <2>1. h = [s \in SUBSET T |-> IF s = {} THEN 0 ELSE f[Chosen(s)] + h[Rest(s)]]
    <3> HIDE DEF G
    <3>1. \A s \in SUBSET T : h[s] = (IF s = {} THEN 0
                                      ELSE f[Chosen(s)] + G(Rest(s))[Rest(s)])
      OBVIOUS
    <3>2. DOMAIN h = SUBSET T
      OBVIOUS
    <3>3. h = [s \in SUBSET T |-> h[s]]
      OBVIOUS
    <3> HIDE DEF h
    <3>4. \A s \in SUBSET T : h[s] = IF s = {} THEN 0 ELSE f[Chosen(s)] + h[Rest(s)]
      BY <1>3, <3>1
    <3>5. QED
      BY <3>3, <3>4
  <2> HIDE DEF h
  <2>2. QED
    BY <2>1 DEF Sums
<1>5. QED
  <2> HIDE DEF h
  <2>1. QED
    BY <1>1, <1>4

\* The sum is the value of any such function.
LEMMA SumIsSums ==
  ASSUME NEW S, IsFiniteSet(S), NEW f
  PROVE  \E g : Sums(g, f, S) /\ SumFunctionOnSet(f, S) = g[S]
<1>1. PICK g : g = CHOOSE h : Sums(h, f, S)
  OBVIOUS
<1>2. Sums(g, f, S)
  BY <1>1, SumsExist
<1>3. SumFunctionOnSet(f, S) = g[S]
  BY <1>1 DEF SumFunctionOnSet, FoldFunctionOnSet, MapThenFoldSet, Sums, Chosen
<1>4. QED
  BY <1>2, <1>3

LEMMA SumEmpty == \A f : SumFunctionOnSet(f, {}) = 0
<1> SUFFICES ASSUME NEW f PROVE SumFunctionOnSet(f, {}) = 0
  OBVIOUS
<1>1. PICK g : Sums(g, f, {}) /\ SumFunctionOnSet(f, {}) = g[{}]
  BY SumIsSums, FS_EmptySet
<1>2. QED
  BY <1>1 DEF Sums

LEMMA SumChosen ==
  ASSUME NEW S, IsFiniteSet(S), S # {}, NEW f
  PROVE  SumFunctionOnSet(f, S) =
           f[Chosen(S)] + SumFunctionOnSet(f, S \ {Chosen(S)})
<1>1. PICK T : T = S \ {Chosen(S)}
  OBVIOUS
<1>2. T \subseteq S /\ IsFiniteSet(T)
  BY <1>1, FS_Subset
<1>3. PICK g : Sums(g, f, S) /\ SumFunctionOnSet(f, S) = g[S]
  BY SumIsSums
<1>4. PICK h : Sums(h, f, T) /\ SumFunctionOnSet(f, T) = h[T]
  BY <1>2, SumIsSums
<1>5. g[T] = h[T]
  BY <1>2, <1>3, <1>4, SumsAgree
<1>6. g[S] = f[Chosen(S)] + g[T]
  BY <1>1, <1>3 DEF Sums
<1>7. QED
  BY <1>1, <1>3, <1>4, <1>5, <1>6

\* Any element may be taken out of a sum of integers, which is an integer.
LEMMA SumRemove ==
  ASSUME NEW S, IsFiniteSet(S), NEW f, \A x \in S : f[x] \in Int
  PROVE  /\ SumFunctionOnSet(f, S) \in Int
         /\ \A x \in S : SumFunctionOnSet(f, S)
                           = f[x] + SumFunctionOnSet(f, S \ {x})
<1> DEFINE Good(T) == /\ SumFunctionOnSet(f, T) \in Int
                      /\ \A x \in T : SumFunctionOnSet(f, T)
                                        = f[x] + SumFunctionOnSet(f, T \ {x})
           Q == {T \in SUBSET S : ~Good(T)}
<1> SUFFICES ASSUME Q # {} PROVE FALSE
  OBVIOUS
<1>1. PICK T \in Q : \A U \in Q : U \subseteq T => U = T
  <2>1. Q \subseteq SUBSET S
    OBVIOUS
  <2> HIDE DEF Q
  <2>2. QED
    BY <2>1, MinimalSubset
<1>2. \A U \in SUBSET T : U # T => Good(U)
  BY <1>1
<1>3. T # {}
  <2>1. Good({})
    BY SumEmpty
  <2>2. ~Good(T)
    BY <1>1
  <2> HIDE DEF Good
  <2>3. QED
    BY <2>1, <2>2
<1>4. PICK c : c = Chosen(T)
  OBVIOUS
<1>5. c \in T /\ f[c] \in Int /\ IsFiniteSet(T)
  BY <1>1, <1>3, <1>4, ChosenIn, FS_Subset
<1>6. SumFunctionOnSet(f, T) = f[c] + SumFunctionOnSet(f, T \ {c})
  BY <1>3, <1>4, <1>5, SumChosen
<1>7. SumFunctionOnSet(f, T \ {c}) \in Int
  BY <1>2, <1>5
<1>8. ASSUME NEW x \in T
      PROVE  SumFunctionOnSet(f, T) = f[x] + SumFunctionOnSet(f, T \ {x})
  <2>1. CASE x = c
    BY <1>6, <2>1
  <2>2. CASE x # c
    <3>1. PICK U, V, W : U = T \ {c} /\ V = T \ {x} /\ W = T \ {c, x}
      OBVIOUS
    <3>2. /\ U \in SUBSET T /\ U # T /\ x \in U /\ U \ {x} = W
          /\ V \in SUBSET T /\ V # T /\ c \in V /\ V \ {c} = W
          /\ W \in SUBSET T /\ W # T
      BY <1>5, <2>2, <3>1
    <3>3. SumFunctionOnSet(f, U) = f[x] + SumFunctionOnSet(f, W)
      BY <1>2, <3>2
    <3>4. SumFunctionOnSet(f, V) = f[c] + SumFunctionOnSet(f, W)
      BY <1>2, <3>2
    <3>5. SumFunctionOnSet(f, W) \in Int /\ f[x] \in Int
      BY <1>1, <1>2, <3>2
    <3>6. SumFunctionOnSet(f, T) = f[c] + (f[x] + SumFunctionOnSet(f, W))
      BY <1>6, <3>1, <3>3
    <3>7. SumFunctionOnSet(f, T) = f[x] + SumFunctionOnSet(f, V)
      BY <1>5, <3>4, <3>5, <3>6
    <3>8. QED
      BY <3>1, <3>7
  <2>3. QED
    BY <2>1, <2>2
<1>9. QED
  BY <1>1, <1>5, <1>6, <1>7, <1>8

\* Only the summands count.
LEMMA SumSame ==
  ASSUME NEW S, IsFiniteSet(S), NEW f, NEW g, \A x \in S : f[x] = g[x]
  PROVE  SumFunctionOnSet(f, S) = SumFunctionOnSet(g, S)
<1> DEFINE Q == {T \in SUBSET S : SumFunctionOnSet(f, T) # SumFunctionOnSet(g, T)}
<1> SUFFICES ASSUME Q # {} PROVE FALSE
  OBVIOUS
<1>1. PICK T \in Q : \A U \in Q : U \subseteq T => U = T
  <2>1. Q \subseteq SUBSET S
    OBVIOUS
  <2> HIDE DEF Q
  <2>2. QED
    BY <2>1, MinimalSubset
<1>2. T # {}
  BY <1>1, SumEmpty
<1>3. PICK c, U : c = Chosen(T) /\ U = T \ {c}
  OBVIOUS
<1>4. c \in T /\ c \in S /\ IsFiniteSet(T) /\ U \in SUBSET S /\ U \subseteq T /\ U # T
  BY <1>1, <1>2, <1>3, ChosenIn, FS_Subset
<1>5. SumFunctionOnSet(f, U) = SumFunctionOnSet(g, U)
  BY <1>1, <1>4
<1>6. /\ SumFunctionOnSet(f, T) = f[c] + SumFunctionOnSet(f, U)
      /\ SumFunctionOnSet(g, T) = g[c] + SumFunctionOnSet(g, U)
  BY <1>2, <1>3, <1>4, SumChosen
<1>7. QED
  BY <1>1, <1>4, <1>5, <1>6

LEMMA SumZero ==
  ASSUME NEW S, IsFiniteSet(S), NEW f, \A x \in S : f[x] = 0
  PROVE  SumFunctionOnSet(f, S) = 0
<1> DEFINE Q == {T \in SUBSET S : SumFunctionOnSet(f, T) # 0}
<1> SUFFICES ASSUME Q # {} PROVE FALSE
  OBVIOUS
<1>1. PICK T \in Q : \A U \in Q : U \subseteq T => U = T
  <2>1. Q \subseteq SUBSET S
    OBVIOUS
  <2> HIDE DEF Q
  <2>2. QED
    BY <2>1, MinimalSubset
<1>2. T # {}
  BY <1>1, SumEmpty
<1>3. PICK c, U : c = Chosen(T) /\ U = T \ {c}
  OBVIOUS
<1>4. c \in S /\ IsFiniteSet(T) /\ U \in SUBSET S /\ U \subseteq T /\ U # T
  BY <1>1, <1>2, <1>3, ChosenIn, FS_Subset
<1>5. SumFunctionOnSet(f, U) = 0
  BY <1>1, <1>4
<1>6. SumFunctionOnSet(f, T) = f[c] + SumFunctionOnSet(f, U)
  BY <1>2, <1>3, <1>4, SumChosen
<1>7. QED
  BY <1>1, <1>4, <1>5, <1>6

\* A new element adds its summand.
LEMMA SumAdd ==
  ASSUME NEW S, IsFiniteSet(S), NEW e, e \notin S, NEW f,
         \A x \in S \cup {e} : f[x] \in Int
  PROVE  SumFunctionOnSet(f, S \cup {e}) = SumFunctionOnSet(f, S) + f[e]
<1>1. IsFiniteSet(S \cup {e}) /\ (S \cup {e}) \ {e} = S
  BY FS_AddElement
<1>2. SumFunctionOnSet(f, S) \in Int
  BY SumRemove
<1>3. SumFunctionOnSet(f, S \cup {e}) = f[e] + SumFunctionOnSet(f, S)
  BY <1>1, SumRemove
<1>4. QED
  BY <1>2, <1>3

\* A sum moves with the one summand that changes.
LEMMA SumChange ==
  ASSUME NEW S, IsFiniteSet(S), NEW e \in S, NEW f, NEW g,
         \A x \in S : f[x] \in Int /\ g[x] \in Int,
         \A x \in S : x # e => f[x] = g[x]
  PROVE  SumFunctionOnSet(g, S) = SumFunctionOnSet(f, S) + (g[e] - f[e])
<1>1. PICK T : T = S \ {e}
  OBVIOUS
<1>2. IsFiniteSet(T) /\ T \subseteq S
  BY <1>1, FS_Subset
<1>3. SumFunctionOnSet(f, T) = SumFunctionOnSet(g, T)
  BY <1>1, <1>2, SumSame
<1>4. SumFunctionOnSet(f, T) \in Int
  BY <1>2, SumRemove
<1>5. /\ SumFunctionOnSet(f, S) = f[e] + SumFunctionOnSet(f, T)
      /\ SumFunctionOnSet(g, S) = g[e] + SumFunctionOnSet(g, T)
  BY <1>1, SumRemove
<1>6. QED
  BY <1>3, <1>4, <1>5

\* A sum of naturals is a natural, and grows with its set.
LEMMA SumMonotonic ==
  ASSUME NEW S, IsFiniteSet(S), NEW f, \A x \in S : f[x] \in Nat
  PROVE  /\ SumFunctionOnSet(f, S) \in Nat
         /\ \A T \in SUBSET S : SumFunctionOnSet(f, T) <= SumFunctionOnSet(f, S)
<1> DEFINE Good(U) == /\ SumFunctionOnSet(f, U) \in Nat
                      /\ \A T \in SUBSET U : SumFunctionOnSet(f, T)
                                              <= SumFunctionOnSet(f, U)
           Q == {U \in SUBSET S : ~Good(U)}
<1> SUFFICES ASSUME Q # {} PROVE FALSE
  OBVIOUS
<1>1. PICK U \in Q : \A V \in Q : V \subseteq U => V = U
  <2>1. Q \subseteq SUBSET S
    OBVIOUS
  <2> HIDE DEF Q
  <2>2. QED
    BY <2>1, MinimalSubset
<1>2. U \in SUBSET S /\ IsFiniteSet(U) /\ ~Good(U)
  BY <1>1, FS_Subset
<1>3. \A V \in SUBSET U : V # U => Good(V)
  BY <1>1
<1>4. CASE U = {}
  <2>1. \A T \in SUBSET U : T = {}
    BY <1>4
  <2>2. Good(U)
    BY <1>4, <2>1, SumEmpty
  <2>3. QED
    BY <1>2, <2>2
<1>5. CASE U # {}
  <2>1. \A x \in U : f[x] \in Int /\ f[x] >= 0
    BY <1>2
  <2>2. \A x \in U : SumFunctionOnSet(f, U) = f[x] + SumFunctionOnSet(f, U \ {x})
    BY <1>2, <2>1, SumRemove
  <2>3. SumFunctionOnSet(f, U) \in Nat
    <3>1. PICK x \in U : TRUE
      BY <1>5
    <3>2. SumFunctionOnSet(f, U \ {x}) \in Nat
      BY <1>3
    <3>3. QED
      BY <2>1, <2>2, <3>2
  <2>4. ASSUME NEW T \in SUBSET U PROVE SumFunctionOnSet(f, T) <= SumFunctionOnSet(f, U)
    <3>1. CASE T = U
      BY <2>3, <3>1
    <3>2. CASE T # U
      <4>1. PICK x \in U : x \notin T
        BY <3>2
      <4>2. PICK V : V = U \ {x}
        OBVIOUS
      <4>3. V \in SUBSET U /\ V # U /\ T \in SUBSET V
        BY <4>1, <4>2
      <4>4. /\ SumFunctionOnSet(f, V) \in Nat
            /\ SumFunctionOnSet(f, T) <= SumFunctionOnSet(f, V)
        BY <1>3, <4>3
      <4>5. SumFunctionOnSet(f, T) \in Nat
        BY <1>3, <3>2
      <4>6. QED
        BY <2>1, <2>2, <4>2, <4>4, <4>5
    <3>3. QED
      BY <3>1, <3>2
  <2>5. QED
    BY <1>2, <2>3, <2>4
<1>6. QED
  BY <1>4, <1>5

---------------------------------------------------------------------------
\* Products.
LEMMA MulMonotone ==
  ASSUME NEW a \in Nat, NEW b \in Nat, NEW c \in Nat, a <= b
  PROVE  a * c \in Nat /\ b * c \in Nat /\ a * c <= b * c
<1>1. PICK d \in Nat : b = a + d
  <2>1. b - a \in Nat
    OBVIOUS
  <2>2. QED
    BY <2>1
<1>2. d * c \in Nat /\ a * c \in Nat
  OBVIOUS
<1>3. b * c = a * c + d * c
  BY <1>1
<1>4. QED
  BY <1>2, <1>3

LEMMA SquaresGrow ==
  ASSUME NEW a \in Nat, NEW b \in Nat, a <= b PROVE a * a <= b * b
<1>1. a * a <= b * a /\ a * b <= b * b
  BY MulMonotone
<1>2. a * b = b * a
  OBVIOUS
<1>3. PICK x \in Nat, y \in Nat, z \in Nat : x = a * a /\ y = a * b /\ z = b * b
  OBVIOUS
<1>4. QED
  BY <1>1, <1>2, <1>3

\* The square of a sum is at most the sum of the squares times their number.
LEMMA SquareOfSum ==
  ASSUME NEW T, IsFiniteSet(T), NEW f, NEW g,
         \A x \in T : f[x] \in Int /\ g[x] = f[x] * f[x]
  PROVE  /\ SumFunctionOnSet(f, T) \in Int /\ SumFunctionOnSet(g, T) \in Int
         /\ Cardinality(T) \in Nat
         /\ SumFunctionOnSet(f, T) * SumFunctionOnSet(f, T)
              <= Cardinality(T) * SumFunctionOnSet(g, T)
<1> DEFINE Good(U) == SumFunctionOnSet(f, U) * SumFunctionOnSet(f, U)
                        <= Cardinality(U) * SumFunctionOnSet(g, U)
           Q == {U \in SUBSET T : ~Good(U)}
<1>1. \A U \in SUBSET T : /\ SumFunctionOnSet(f, U) \in Int
                          /\ SumFunctionOnSet(g, U) \in Int
                          /\ Cardinality(U) \in Nat /\ IsFiniteSet(U)
  <2>1. ASSUME NEW U \in SUBSET T
        PROVE  /\ SumFunctionOnSet(f, U) \in Int /\ SumFunctionOnSet(g, U) \in Int
               /\ Cardinality(U) \in Nat /\ IsFiniteSet(U)
    <3>1. IsFiniteSet(U) /\ Cardinality(U) \in Nat
      BY FS_Subset, FS_CardinalityType
    <3>2. \A x \in U : f[x] \in Int
      OBVIOUS
    <3>3. \A x \in U : g[x] \in Int
      <4>1. ASSUME NEW x \in U PROVE g[x] \in Int
        <5>1. PICK y \in Int : y = f[x]
          OBVIOUS
        <5>2. g[x] = y * y
          BY <5>1
        <5>3. QED
          BY <5>2
      <4>2. QED
        BY <4>1
    <3>4. SumFunctionOnSet(f, U) \in Int
      BY <3>1, <3>2, SumRemove
    <3>5. SumFunctionOnSet(g, U) \in Int
      BY <3>1, <3>3, SumRemove
    <3>6. QED
      BY <3>1, <3>4, <3>5
  <2>2. QED
    BY <2>1
<1>2. Q = {}
  <2> SUFFICES ASSUME Q # {} PROVE FALSE
    OBVIOUS
  <2>1. PICK U \in Q : \A V \in Q : V \subseteq U => V = U
    <3>1. Q \subseteq SUBSET T
      OBVIOUS
    <3> HIDE DEF Q
    <3>2. QED
      BY <3>1, MinimalSubset
  <2>2. U \in SUBSET T /\ ~Good(U)
    BY <2>1
  <2>3. U # {}
    <3>1. SUFFICES ASSUME U = {} PROVE FALSE
      OBVIOUS
    <3>2. SumFunctionOnSet(f, U) = 0 /\ Cardinality(U) = 0 /\ SumFunctionOnSet(g, U) \in Int
      BY <1>1, <2>2, <3>1, SumEmpty, FS_EmptySet
    <3>3. QED
      BY <2>2, <3>2
  <2>4. PICK c, V : c \in U /\ V = U \ {c}
    BY <2>3
  <2>5. V \in SUBSET T /\ V # U /\ V \subseteq U /\ c \in T
    BY <2>2, <2>4
  <2>6. Good(V)
    BY <2>1, <2>5
  <2>7. Cardinality(V) = Cardinality(U) - 1
    BY <1>1, <2>2, <2>4, FS_RemoveElement
  <2>8. PICK x \in Int : x = f[c] /\ g[c] = x * x
    BY <2>5
  <2>9. PICK m \in Nat, R \in Int, P \in Int :
          m = Cardinality(V) /\ R = SumFunctionOnSet(f, V) /\ P = SumFunctionOnSet(g, V)
    BY <1>1, <2>5
  <2>10. SumFunctionOnSet(f, U) = x + R
    <3>1. IsFiniteSet(U) /\ \A y \in U : f[y] \in Int
      BY <1>1, <2>2
    <3>2. SumFunctionOnSet(f, U) = f[c] + SumFunctionOnSet(f, U \ {c})
      BY <2>4, <3>1, SumRemove
    <3>3. QED
      BY <2>4, <2>8, <2>9, <3>2
  <2>11. SumFunctionOnSet(g, U) = x * x + P
    <3>1. IsFiniteSet(U) /\ \A y \in U : g[y] \in Int
      <4>1. ASSUME NEW y \in U PROVE g[y] \in Int
        <5>1. PICK z \in Int : z = f[y] /\ g[y] = z * z
          BY <2>2
        <5>2. QED
          BY <5>1
      <4>2. QED
        BY <1>1, <2>2, <4>1
    <3>2. SumFunctionOnSet(g, U) = g[c] + SumFunctionOnSet(g, U \ {c})
      BY <2>4, <3>1, SumRemove
    <3>3. QED
      BY <2>4, <2>8, <2>9, <3>2
  <2>12. Cardinality(U) = m + 1
    BY <1>1, <2>2, <2>7, <2>9
  <2>13. R * R <= m * P
    BY <2>6, <2>9
  <2>14. PICK E \in Int : E = P + m * (x * x) - 2 * (R * x)
    OBVIOUS
  <2>15. E >= 0
    <3>1. CASE m = 0
      <4>1. V = {}
        BY <1>1, <2>5, <2>9, <3>1, FS_EmptySet
      <4>2. R = 0 /\ P = 0
        BY <2>9, <4>1, SumEmpty
      <4>3. QED
        BY <2>14, <3>1, <4>2
    <3>2. CASE m # 0
      <4>1. PICK w \in Int : w = R - m * x
        OBVIOUS
      <4>2. w * w >= 0
        OBVIOUS
      <4>3. w * w = R * R + m * (m * (x * x) - 2 * (R * x))
        BY <4>1
      <4>4. m * E = m * P + m * (m * (x * x) - 2 * (R * x))
        BY <2>14
      <4>5. m * E >= 0
        <5>1. PICK b \in Int, d \in Int, e \in Int, y \in Int, z \in Int :
                /\ b = R * R /\ d = m * P /\ e = m * (m * (x * x) - 2 * (R * x))
                /\ y = w * w /\ z = m * E
          OBVIOUS
        <5>2. b <= d /\ y >= 0 /\ y = b + e /\ z = d + e
          BY <2>13, <4>2, <4>3, <4>4, <5>1
        <5>3. z >= 0
          BY <5>2
        <5>4. QED
          BY <5>1, <5>3
      <4>6. QED
        BY <3>2, <4>5
    <3>3. QED
      BY <3>1, <3>2
  <2>16. (m + 1) * (x * x + P) - (x + R) * (x + R) = m * P - R * R + E
    BY <2>14
  <2>17. (x + R) * (x + R) <= (m + 1) * (x * x + P)
    BY <2>13, <2>15, <2>16
  <2>18. QED
    BY <2>2, <2>10, <2>11, <2>12, <2>17
<1>3. T \in SUBSET T
  OBVIOUS
<1>4. Good(T)
  BY <1>2, <1>3
<1>5. QED
  BY <1>1, <1>3, <1>4

---------------------------------------------------------------------------
\* Sorting.  Of finitely many places, two never share a rank.
LEMMA BeforeFacts ==
  ASSUME NEW I \in SUBSET Nat, IsFiniteSet(I), NEW key, \A i \in I : key[i] \in Int
  PROVE  \A i, j \in I :
           /\ IsFiniteSet(Before(key, I, i)) /\ Cardinality(Before(key, I, i)) \in Nat
           /\ i \in Before(key, I, j) =>
                Cardinality(Before(key, I, i)) < Cardinality(Before(key, I, j))
           /\ i = j \/ i \in Before(key, I, j) \/ j \in Before(key, I, i)
           /\ Cardinality(Before(key, I, i)) = Cardinality(Before(key, I, j)) => i = j
<1>1. ASSUME NEW i \in I
      PROVE  IsFiniteSet(Before(key, I, i)) /\ Cardinality(Before(key, I, i)) \in Nat
  BY FS_Subset, FS_CardinalityType DEF Before
<1>2. ASSUME NEW i \in I, NEW j \in I, i \in Before(key, I, j)
      PROVE  Cardinality(Before(key, I, i)) < Cardinality(Before(key, I, j))
  <2>1. PICK A, B : A = Before(key, I, i) /\ B = Before(key, I, j)
    OBVIOUS
  <2>2. A \subseteq B /\ i \in B /\ i \notin A
    <3>1. ASSUME NEW x \in A PROVE x \in B
      <4>1. x \in I /\ key[x] \in Int /\ key[i] \in Int /\ key[j] \in Int
        BY <2>1 DEF Before
      <4>2. x \in Nat /\ i \in Nat /\ j \in Nat
        BY <4>1
      <4>3. QED
        BY <1>2, <2>1, <4>1, <4>2 DEF Before
    <3>2. i \notin A
      BY <2>1 DEF Before
    <3>3. QED
      BY <1>2, <2>1, <3>1, <3>2
  <2>3. IsFiniteSet(B) /\ Cardinality(A) \in Nat /\ Cardinality(B) \in Nat
    BY <1>1, <2>1
  <2>4. Cardinality(A) <= Cardinality(B) /\ (Cardinality(B) = Cardinality(A) => B = A)
    BY <2>2, <2>3, FS_Subset
  <2>5. QED
    BY <2>1, <2>2, <2>3, <2>4
<1>3. ASSUME NEW i \in I, NEW j \in I
      PROVE  i = j \/ i \in Before(key, I, j) \/ j \in Before(key, I, i)
  BY DEF Before
<1>4. ASSUME NEW i \in I, NEW j \in I,
             Cardinality(Before(key, I, i)) = Cardinality(Before(key, I, j))
      PROVE  i = j
  <2>1. Cardinality(Before(key, I, i)) \in Nat /\ Cardinality(Before(key, I, j)) \in Nat
    BY <1>1
  <2>2. ~(i \in Before(key, I, j)) /\ ~(j \in Before(key, I, i))
    BY <1>2, <1>4, <2>1
  <2>3. QED
    BY <1>3, <2>2
<1>5. QED
  BY <1>1, <1>2, <1>3, <1>4

\* Some place comes last.
LEMMA LastPlace ==
  ASSUME NEW I \in SUBSET Nat, IsFiniteSet(I), I # {}, NEW key, \A i \in I : key[i] \in Int
  PROVE  \E m \in I : Before(key, I, m) = I \ {m}
<1> DEFINE From(i) == I \ Before(key, I, i)
           Q == {From(i) : i \in I}
<1>1. PICK T \in Q : \A U \in Q : U \subseteq T => U = T
  <2>1. Q \subseteq SUBSET I /\ Q # {}
    OBVIOUS
  <2>2. MinimalIn(I, Q)
    BY MinimalSome
  <2> HIDE DEF Q
  <2>3. QED
    BY <2>1, <2>2 DEF MinimalIn
<1>2. PICK m \in I : T = From(m)
  OBVIOUS
<1>3. ASSUME NEW j \in I, j # m PROVE j \in Before(key, I, m)
  <2>1. SUFFICES ASSUME m \in Before(key, I, j) PROVE FALSE
    <3>1. j = m \/ j \in Before(key, I, m) \/ m \in Before(key, I, j)
      BY BeforeFacts
    <3>2. QED
      BY <1>3, <3>1
  <2>2. From(j) \subseteq From(m) /\ m \in From(m) /\ m \notin From(j)
    <3>1. j \in Nat /\ m \in Nat /\ key[j] \in Int /\ key[m] \in Int
      BY <1>3
    <3>2. ASSUME NEW x \in I, x \in Before(key, I, m) PROVE x \in Before(key, I, j)
      <4>1. x \in Nat /\ key[x] \in Int
        OBVIOUS
      <4>2. QED
        BY <2>1, <3>1, <3>2, <4>1 DEF Before
    <3>3. m \notin Before(key, I, m)
      BY <3>1 DEF Before
    <3>4. QED
      BY <2>1, <3>2, <3>3
  <2>3. QED
    BY <1>1, <1>2, <2>2
<1>4. m \notin Before(key, I, m) /\ Before(key, I, m) \subseteq I
  BY DEF Before
<1>5. QED
  BY <1>3, <1>4

\* Every rank is taken.
LEMMA RankTaken ==
  ASSUME NEW I \in SUBSET Nat, IsFiniteSet(I), NEW key, \A i \in I : key[i] \in Int
  PROVE  \A k \in 1..Cardinality(I) : \E i \in I : Cardinality(Before(key, I, i)) = k - 1
<1> DEFINE Good(J) == \A k \in 1..Cardinality(J) :
                        \E i \in J : Cardinality(Before(key, J, i)) = k - 1
           Q == {J \in SUBSET I : ~Good(J)}
<1> SUFFICES ASSUME Q # {} PROVE FALSE
  OBVIOUS
<1>1. PICK J \in Q : \A U \in Q : U \subseteq J => U = J
  <2>1. Q \subseteq SUBSET I /\ Q # {}
    OBVIOUS
  <2>2. MinimalIn(I, Q)
    BY MinimalSome
  <2> HIDE DEF Q
  <2>3. QED
    BY <2>1, <2>2 DEF MinimalIn
<1>2. J \in SUBSET Nat /\ IsFiniteSet(J) /\ \A i \in J : key[i] \in Int
  BY FS_Subset
<1>3. J # {}
  <2>1. SUFFICES ASSUME J = {} PROVE FALSE
    OBVIOUS
  <2>2. Cardinality(J) = 0
    BY <2>1, FS_EmptySet
  <2>3. QED
    BY <2>2
<1>4. PICK m \in J : Before(key, J, m) = J \ {m}
  BY <1>2, <1>3, LastPlace
<1>5. PICK U : U = J \ {m}
  OBVIOUS
<1>6. /\ Cardinality(U) = Cardinality(J) - 1 /\ Cardinality(J) \in Nat
      /\ Cardinality(U) \in Nat
  BY <1>2, <1>5, FS_RemoveElement, FS_CardinalityType
<1>7. Good(U)
  <2>1. U \in SUBSET I /\ U \subseteq J /\ U # J
    BY <1>5
  <2>2. U \notin Q
    BY <1>1, <2>1
  <2> HIDE DEF Good
  <2>3. QED
    BY <2>1, <2>2
<1>8. \A i \in U : Before(key, J, i) = Before(key, U, i)
  <2>1. ASSUME NEW i \in U PROVE m \notin Before(key, J, i)
    <3>1. i \in Before(key, J, m)
      BY <1>4, <1>5
    <3>2. i \in Nat /\ m \in Nat /\ key[i] \in Int /\ key[m] \in Int
      BY <1>2, <1>5
    <3>3. QED
      BY <3>1, <3>2 DEF Before
  <2>2. QED
    BY <1>5, <2>1 DEF Before
<1>9. ASSUME NEW k \in 1..Cardinality(J)
      PROVE  \E i \in J : Cardinality(Before(key, J, i)) = k - 1
  <2>1. CASE k = Cardinality(J)
    BY <1>4, <1>5, <1>6, <2>1
  <2>2. CASE k # Cardinality(J)
    <3>1. k \in 1..Cardinality(U)
      BY <1>6, <2>2
    <3>2. PICK i \in U : Cardinality(Before(key, U, i)) = k - 1
      BY <1>7, <3>1
    <3>3. QED
      BY <1>5, <1>8, <3>2
  <2>3. QED
    BY <2>1, <2>2
<1>10. QED
  BY <1>9

\* The k-th of the sorted places is one of them, and has rank k.
LEMMA SortedPlace ==
  ASSUME NEW I \in SUBSET Nat, IsFiniteSet(I), NEW key, \A i \in I : key[i] \in Int
  PROVE  /\ Cardinality(I) \in Nat
         /\ SortedPlaces(key, I) \in [1..Cardinality(I) -> I]
         /\ \A k \in 1..Cardinality(I) :
              Cardinality(Before(key, I, SortedPlaces(key, I)[k])) = k - 1
         /\ \A k \in 1..Cardinality(I) : \A i \in I :
              Cardinality(Before(key, I, i)) = k - 1 => SortedPlaces(key, I)[k] = i
<1>1. Cardinality(I) \in Nat
  BY FS_CardinalityType
<1>2. ASSUME NEW k \in 1..Cardinality(I)
      PROVE  /\ SortedPlaces(key, I)[k] \in I
             /\ Cardinality(Before(key, I, SortedPlaces(key, I)[k])) = k - 1
  <2>1. SortedPlaces(key, I)[k] = CHOOSE i \in I : Cardinality(Before(key, I, i)) = k - 1
    BY DEF SortedPlaces
  <2>2. \E i \in I : Cardinality(Before(key, I, i)) = k - 1
    BY RankTaken
  <2>3. QED
    BY <2>1, <2>2
<1>3. ASSUME NEW k \in 1..Cardinality(I), NEW i \in I,
             Cardinality(Before(key, I, i)) = k - 1
      PROVE  SortedPlaces(key, I)[k] = i
  BY <1>2, <1>3, BeforeFacts
<1>4. DOMAIN SortedPlaces(key, I) = 1..Cardinality(I)
  BY DEF SortedPlaces
<1>5. SortedPlaces(key, I) \in [1..Cardinality(I) -> I]
  <2>1. SortedPlaces(key, I) = [k \in 1..Cardinality(I) |-> SortedPlaces(key, I)[k]]
    BY DEF SortedPlaces
  <2>2. QED
    BY <1>2, <2>1
<1>6. QED
  BY <1>1, <1>2, <1>3, <1>5

LEMMA OrderSame ==
  ASSUME NEW I \in SUBSET Nat, NEW key, NEW other, \A i \in I : other[i] = key[i]
  PROVE  SortedPlaces(other, I) = SortedPlaces(key, I)
<1>1. \A i \in I : Before(other, I, i) = Before(key, I, i)
  BY DEF Before
<1>2. ASSUME NEW k
      PROVE  (CHOOSE i \in I : Cardinality(Before(other, I, i)) = k - 1)
               = CHOOSE i \in I : Cardinality(Before(key, I, i)) = k - 1
  BY <1>1
<1>3. QED
  BY <1>2 DEF SortedPlaces

\* A place after all others with the largest key comes last.
ComesLast(I, n, key, other) ==
  (/\ I \in SUBSET Nat /\ IsFiniteSet(I) /\ n \in Nat /\ other[n] \in Int
   /\ \A i \in I : key[i] \in Int /\ other[i] = key[i] /\ i < n /\ key[i] <= other[n])
  => /\ DOMAIN SortedPlaces(other, I \cup {n}) = 1..Cardinality(I) + 1
     /\ \A k \in 1..Cardinality(I) :
          SortedPlaces(other, I \cup {n})[k] = SortedPlaces(key, I)[k]
     /\ SortedPlaces(other, I \cup {n})[Cardinality(I) + 1] = n

LEMMA SortLast == \A I, n, key, other : ComesLast(I, n, key, other)
<1> SUFFICES ASSUME NEW I, NEW n, NEW key, NEW other
             PROVE  ComesLast(I, n, key, other)
  OBVIOUS
<1> SUFFICES ASSUME
         I \in SUBSET Nat /\ IsFiniteSet(I) /\ n \in Nat /\ other[n] \in Int,
         \A i \in I : key[i] \in Int /\ other[i] = key[i] /\ i < n /\ key[i] <= other[n]
  PROVE  /\ DOMAIN SortedPlaces(other, I \cup {n}) = 1..Cardinality(I) + 1
         /\ \A k \in 1..Cardinality(I) :
              SortedPlaces(other, I \cup {n})[k] = SortedPlaces(key, I)[k]
         /\ SortedPlaces(other, I \cup {n})[Cardinality(I) + 1] = n
  BY DEF ComesLast
<1>1. PICK J : J = I \cup {n}
  OBVIOUS
<1>2. n \notin I /\ J \in SUBSET Nat /\ n \in J
  <2>1. n \notin I
    <3>1. SUFFICES ASSUME n \in I PROVE FALSE
      OBVIOUS
    <3>2. n < n
      BY <3>1
    <3>3. QED
      BY <3>2
  <2>2. QED
    BY <1>1, <2>1
<1>3. IsFiniteSet(J) /\ Cardinality(J) = Cardinality(I) + 1 /\ Cardinality(I) \in Nat
  BY <1>1, <1>2, FS_AddElement, FS_CardinalityType
<1>4. \A i \in J : other[i] \in Int
  BY <1>1
<1>5. Before(other, J, n) = I
  <2>1. ASSUME NEW j \in I PROVE j \in Before(other, J, n)
    <3>1. j \in Nat /\ j < n /\ other[j] \in Int /\ other[j] <= other[n]
      OBVIOUS
    <3>2. QED
      BY <1>1, <3>1 DEF Before
  <2>2. n \notin Before(other, J, n)
    BY DEF Before
  <2>3. Before(other, J, n) \subseteq J
    BY DEF Before
  <2>4. QED
    BY <1>1, <2>1, <2>2, <2>3
<1>6. ASSUME NEW i \in I PROVE Before(other, J, i) = Before(key, I, i)
  <2>1. n \notin Before(other, J, i)
    <3>1. i \in Nat /\ i < n /\ other[i] \in Int /\ other[i] <= other[n]
      OBVIOUS
    <3>2. QED
      BY <3>1 DEF Before
  <2>2. QED
    BY <1>1, <2>1 DEF Before
<1>7. /\ SortedPlaces(key, I) \in [1..Cardinality(I) -> I]
      /\ \A k \in 1..Cardinality(I) :
           Cardinality(Before(key, I, SortedPlaces(key, I)[k])) = k - 1
  BY SortedPlace
<1>8. /\ DOMAIN SortedPlaces(other, J) = 1..Cardinality(I) + 1
      /\ \A k \in 1..Cardinality(I) + 1 : \A i \in J :
           Cardinality(Before(other, J, i)) = k - 1 => SortedPlaces(other, J)[k] = i
  <2>1. PICK c \in Nat : c = Cardinality(I) + 1 /\ c = Cardinality(J)
    BY <1>3
  <2>2. /\ SortedPlaces(other, J) \in [1..c -> J]
        /\ \A k \in 1..c : \A i \in J :
             Cardinality(Before(other, J, i)) = k - 1 => SortedPlaces(other, J)[k] = i
    BY <1>2, <1>3, <1>4, <2>1, SortedPlace
  <2>3. QED
    BY <2>1, <2>2
<1>9. ASSUME NEW k \in 1..Cardinality(I)
      PROVE  SortedPlaces(other, J)[k] = SortedPlaces(key, I)[k]
  <2>1. PICK i \in I : i = SortedPlaces(key, I)[k]
    BY <1>7
  <2>2. Cardinality(Before(other, J, i)) = k - 1
    BY <1>6, <1>7, <2>1
  <2>3. k \in 1..Cardinality(I) + 1 /\ i \in J
    BY <1>1, <1>3
  <2>4. QED
    BY <1>8, <2>1, <2>2, <2>3
<1>10. SortedPlaces(other, J)[Cardinality(I) + 1] = n
  <2>1. PICK c \in Nat, k \in Nat : c = Cardinality(I) /\ k = c + 1
    BY <1>3
  <2>2. k \in 1..c + 1 /\ k - 1 = c
    BY <2>1
  <2>3. QED
    BY <1>2, <1>5, <1>8, <2>1, <2>2
<1>11. QED
  BY <1>1, <1>3, <1>7, <1>8, <1>9, <1>10

---------------------------------------------------------------------------
\* Picked.  f lists what is kept of the first entries of s, up to n of them.
Keeps(f, s, I, n) ==
  f = [k \in 0..n |-> IF k = 0 THEN <<>>
                      ELSE IF k \in I THEN Append(f[k-1], s[k])
                      ELSE f[k-1]]

\* A property of intervals that 0 has, and n + 1 when n has it, holds of all.
Reaches(T) == 0 \in T /\ (\A n \in Nat : n \in T => n + 1 \in T) => Nat \subseteq T

LEMMA CountUp == \A T : Reaches(T)
<1> SUFFICES ASSUME NEW T, 0 \in T, \A n \in Nat : n \in T => n + 1 \in T,
                    NEW m \in Nat, m \notin T
             PROVE  FALSE
  BY DEF Reaches
<1> DEFINE S == 0..m
           Q == {0..k : k \in {k \in 0..m : k \notin T}}
<1>1. IsFiniteSet(S)
  <2>1. PICK a \in Int, b \in Int : a = 0 /\ b = m
    OBVIOUS
  <2>2. QED
    BY <2>1, FS_Interval
<1>2. Q \subseteq SUBSET S /\ Q # {}
  <2>1. \A k \in 0..m : 0..k \subseteq 0..m
    OBVIOUS
  <2>2. m \in 0..m
    OBVIOUS
  <2>3. QED
    BY <2>1, <2>2
<1>3. PICK U \in Q : \A V \in Q : V \subseteq U => V = U
  <2>1. MinimalIn(S, Q)
    BY MinimalSome
  <2> HIDE DEF S, Q
  <2>2. QED
    BY <1>1, <1>2, <2>1 DEF MinimalIn
<1>4. PICK k \in 0..m : U = 0..k /\ k \notin T
  BY <1>3
<1>5. k # 0 /\ k - 1 \in Nat /\ (k - 1) + 1 = k
  BY <1>4
<1>6. k - 1 \notin T
  BY <1>4, <1>5
<1>7. 0..(k - 1) \in Q /\ 0..(k - 1) \subseteq U /\ k \in U /\ k \notin 0..(k - 1)
  <2>1. k - 1 \in 0..m
    BY <1>4, <1>5
  <2>2. 0..(k - 1) \in Q
    BY <1>6, <2>1
  <2> HIDE DEF Q
  <2>3. QED
    BY <1>4, <2>2
<1>8. QED
  BY <1>3, <1>7

\* One entry more.
LEMMA KeepsStep ==
  ASSUME NEW f, NEW s, NEW I, NEW n \in Nat, Keeps(f, s, I, n)
  PROVE  \E g : Keeps(g, s, I, n + 1)
<1>1. PICK last : last = IF n + 1 \in I THEN Append(f[n], s[n + 1]) ELSE f[n]
  OBVIOUS
<1>2. PICK g : g = [k \in 0..n + 1 |-> IF k = n + 1 THEN last ELSE f[k]]
  OBVIOUS
<1>3. \A k \in 0..n : g[k] = f[k] /\ k # n + 1
  BY <1>2
<1>4. \A k \in 0..n : f[k] = IF k = 0 THEN <<>>
                             ELSE IF k \in I THEN Append(f[k-1], s[k])
                             ELSE f[k-1]
  BY DEF Keeps
<1>5. ASSUME NEW k \in 0..n + 1
      PROVE  g[k] = IF k = 0 THEN <<>>
                    ELSE IF k \in I THEN Append(g[k-1], s[k])
                    ELSE g[k-1]
  <2>1. CASE k = n + 1
    <3>1. g[k] = last /\ k # 0 /\ k - 1 = n /\ n \in 0..n
      BY <1>2, <2>1
    <3>2. g[k-1] = f[n]
      BY <1>3, <3>1
    <3>3. QED
      BY <1>1, <2>1, <3>1, <3>2
  <2>2. CASE k \in 0..n
    <3>1. k # 0 => k - 1 \in 0..n
      BY <2>2
    <3>2. g[k] = f[k] /\ (k # 0 => g[k-1] = f[k-1])
      BY <1>3, <2>2, <3>1
    <3>3. QED
      BY <1>4, <2>2, <3>2
  <2>3. QED
    BY <2>1, <2>2
<1>6. g = [k \in 0..n + 1 |-> g[k]]
  BY <1>2
<1>7. Keeps(g, s, I, n + 1)
  BY <1>5, <1>6 DEF Keeps
<1>8. QED
  BY <1>7

LEMMA KeepsExists ==
  ASSUME NEW s, NEW I
  PROVE  \A n \in Nat : \E f : Keeps(f, s, I, n)
<1> DEFINE T == {n \in Nat : \E f : Keeps(f, s, I, n)}
<1>1. 0 \in T
  <2>1. PICK f : f = [k \in 0..0 |-> <<>>]
    OBVIOUS
  <2>2. Keeps(f, s, I, 0)
    BY <2>1 DEF Keeps
  <2>3. QED
    BY <2>2
<1>2. \A n \in Nat : n \in T => n + 1 \in T
  BY KeepsStep
<1>3. Reaches(T)
  BY CountUp
<1> HIDE DEF T
<1>4. Nat \subseteq T
  BY <1>1, <1>2, <1>3 DEF Reaches
<1> USE DEF T
<1>5. QED
  BY <1>4

\* What two such lists say of the entries both cover, when the sequences and
\* the places agree there.
KeptAlike(f, s, I, m, g, t, J, n) ==
  /\ m \in Nat /\ n \in Nat /\ m <= n
  /\ Keeps(f, s, I, m) /\ Keeps(g, t, J, n)
  /\ \A k \in 1..m : s[k] = t[k] /\ (k \in I <=> k \in J)
  => \A k \in 0..m : f[k] = g[k]

LEMMA KeepsSame == \A f, s, I, m, g, t, J, n : KeptAlike(f, s, I, m, g, t, J, n)
<1> SUFFICES
      ASSUME NEW s, NEW t, NEW I, NEW J, NEW m \in Nat, NEW n \in Nat, m <= n,
             NEW f, Keeps(f, s, I, m), NEW g, Keeps(g, t, J, n),
             \A k \in 1..m : s[k] = t[k] /\ (k \in I <=> k \in J)
      PROVE  \A k \in 0..m : f[k] = g[k]
  BY DEF KeptAlike
<1> DEFINE T == {k \in Nat : k <= m => f[k] = g[k]}
<1>1. /\ \A k \in 0..m : f[k] = IF k = 0 THEN <<>>
                                ELSE IF k \in I THEN Append(f[k-1], s[k])
                                ELSE f[k-1]
      /\ \A k \in 0..n : g[k] = IF k = 0 THEN <<>>
                                ELSE IF k \in J THEN Append(g[k-1], t[k])
                                ELSE g[k-1]
  BY DEF Keeps
<1>2. 0 \in T
  <2>1. PICK z \in Nat : z = 0
    OBVIOUS
  <2>2. z \in 0..m /\ z \in 0..n
    BY <2>1
  <2>3. f[z] = <<>> /\ g[z] = <<>>
    BY <1>1, <2>1, <2>2
  <2>4. QED
    BY <2>1, <2>3
<1>3. ASSUME NEW k \in Nat, k \in T PROVE k + 1 \in T
  <2>1. SUFFICES ASSUME k + 1 <= m PROVE f[k + 1] = g[k + 1]
    OBVIOUS
  <2>2. PICK j \in 1..m : j = k + 1
    BY <2>1
  <2>3. j \in 0..m /\ j \in 0..n /\ j # 0 /\ j - 1 = k /\ k <= m
    BY <2>1, <2>2
  <2>4. f[k] = g[k]
    BY <1>3, <2>3
  <2>5. s[j] = t[j] /\ (j \in I <=> j \in J)
    BY <2>2
  <2>6. QED
    BY <1>1, <2>2, <2>3, <2>4, <2>5
<1>4. Reaches(T)
  BY CountUp
<1> HIDE DEF T
<1>5. Nat \subseteq T
  BY <1>2, <1>3, <1>4 DEF Reaches
<1> USE DEF T
<1>6. QED
  BY <1>5

LEMMA PickedIs ==
  ASSUME NEW S, NEW s \in Seq(S), NEW I
  PROVE  \E f : Keeps(f, s, I, Len(s)) /\ Picked(s, I) = f[Len(s)]
<1>1. PICK n \in Nat : n = Len(s)
  OBVIOUS
<1>2. PICK f : f = CHOOSE g : Keeps(g, s, I, n)
  OBVIOUS
<1>3. Keeps(f, s, I, n)
  BY <1>2, KeepsExists
<1>4. Picked(s, I) = f[n]
  BY <1>1, <1>2 DEF Picked, Keeps
<1>5. QED
  BY <1>1, <1>3, <1>4

\* The kept entries are entries of s at the places.
LEMMA PickedType ==
  ASSUME NEW S, NEW s \in Seq(S), NEW I, NEW R,
         \A i \in DOMAIN s : i \in I => s[i] \in R
  PROVE  Picked(s, I) \in Seq(R)
<1>1. PICK n \in Nat : n = Len(s) /\ DOMAIN s = 1..n
  OBVIOUS
<1>2. PICK f : Keeps(f, s, I, n) /\ Picked(s, I) = f[n]
  BY <1>1, PickedIs
<1>3. \A k \in 0..n : f[k] = IF k = 0 THEN <<>>
                             ELSE IF k \in I THEN Append(f[k-1], s[k])
                             ELSE f[k-1]
  BY <1>2 DEF Keeps
<1> DEFINE T == {k \in Nat : k <= n => f[k] \in Seq(R)}
<1>4. 0 \in T
  <2>1. PICK z \in Nat : z = 0
    OBVIOUS
  <2>2. z \in 0..n
    BY <2>1
  <2>3. f[z] = <<>>
    <3>1. f[z] = IF z = 0 THEN <<>>
                 ELSE IF z \in I THEN Append(f[z-1], s[z]) ELSE f[z-1]
      BY <1>3, <2>2
    <3>2. QED
      BY <2>1, <3>1
  <2>4. <<>> \in Seq(R)
    OBVIOUS
  <2>5. f[0] \in Seq(R)
    BY <2>1, <2>3, <2>4
  <2>6. QED
    BY <2>5
<1>5. ASSUME NEW k \in Nat, k \in T PROVE k + 1 \in T
  <2>1. SUFFICES ASSUME k + 1 <= n PROVE f[k + 1] \in Seq(R)
    OBVIOUS
  <2>2. PICK j \in 1..n : j = k + 1
    BY <2>1
  <2>3. j \in 0..n /\ j # 0 /\ j - 1 = k /\ k <= n
    BY <2>1, <2>2
  <2>4. f[k] \in Seq(R) /\ (j \in I => s[j] \in R)
    BY <1>1, <1>5, <2>2, <2>3
  <2>5. f[j] = IF j \in I THEN Append(f[k], s[j]) ELSE f[k]
    BY <1>3, <2>3
  <2>6. QED
    BY <2>2, <2>4, <2>5
<1>6. Reaches(T)
  BY CountUp
<1> HIDE DEF T
<1>7. n \in T
  BY <1>4, <1>5, <1>6 DEF Reaches
<1> USE DEF T
<1>8. QED
  BY <1>2, <1>7

\* An entry at the end is kept behind the others, or dropped.
LEMMA PickedAppend ==
  ASSUME NEW S, NEW s \in Seq(S), NEW e \in S, NEW I, NEW J,
         \A i \in DOMAIN s : i \in I <=> i \in J
  PROVE  Picked(Append(s, e), J) = IF Len(s) + 1 \in J THEN Append(Picked(s, I), e)
                                   ELSE Picked(s, I)
<1>1. PICK n \in Nat : n = Len(s) /\ DOMAIN s = 1..n
  OBVIOUS
<1>2. PICK t : t = Append(s, e)
  OBVIOUS
<1>3. /\ t \in Seq(S) /\ Len(t) = n + 1 /\ t[n + 1] = e
      /\ \A k \in 1..n : t[k] = s[k]
  BY <1>1, <1>2
<1>4. PICK f : Keeps(f, s, I, n) /\ Picked(s, I) = f[n]
  BY <1>1, PickedIs
<1>5. PICK g : Keeps(g, t, J, n + 1) /\ Picked(t, J) = g[n + 1]
  BY <1>3, PickedIs
<1>6. f[n] = g[n]
  <2>1. PICK p \in Nat : p = n + 1 /\ n <= p /\ n \in 0..n
    OBVIOUS
  <2>2. \A k \in 1..n : s[k] = t[k] /\ (k \in I <=> k \in J)
    BY <1>1, <1>3
  <2>3. Keeps(f, s, I, n) /\ Keeps(g, t, J, p)
    BY <1>4, <1>5, <2>1
  <2>4. KeptAlike(f, s, I, n, g, t, J, p)
    BY KeepsSame
  <2>5. \A k \in 0..n : f[k] = g[k]
    BY <2>1, <2>2, <2>3, <2>4 DEF KeptAlike
  <2>6. QED
    BY <2>1, <2>5
<1>7. g[n + 1] = IF n + 1 \in J THEN Append(g[n], t[n + 1]) ELSE g[n]
  <2>1. n + 1 \in 0..(n + 1) /\ n + 1 # 0 /\ (n + 1) - 1 = n
    OBVIOUS
  <2>2. QED
    BY <1>5, <2>1 DEF Keeps
<1>8. QED
  BY <1>1, <1>2, <1>3, <1>4, <1>5, <1>6, <1>7

\* Without places nothing is kept.
LEMMA PickedNone ==
  ASSUME NEW S, NEW s \in Seq(S), NEW I, \A i \in DOMAIN s : i \notin I
  PROVE  Picked(s, I) = <<>>
<1>1. Picked(s, I) \in Seq({})
  BY PickedType
<1>2. QED
  BY <1>1
=============================================================================
