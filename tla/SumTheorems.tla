----------------------------- MODULE SumTheorems -----------------------------
(***************************************************************************)
(* Facts about the sum of a function over a finite set, the SUM(amount) of *)
(* the tables.  The library defines it by recursion over the subsets; the  *)
(* induction is the well-foundedness of set inclusion, by WFMin.           *)
(***************************************************************************)
EXTENDS Integers, Functions, FiniteSetTheorems, TLAPS

Pick(S) == CHOOSE x \in S : TRUE
SumStep(f, g, s) == IF s = {} THEN 0 ELSE f[Pick(s)] + g[s \ {Pick(s)}]
Iterates(f, g, S) == g = [s \in SUBSET S |-> SumStep(f, g, s)]

\* A set of finite sets that is not empty has a member none of the others is in.
LEMMA SmallestSet ==
    ASSUME NEW S, IsFiniteSet(S), NEW F \in SUBSET (SUBSET S), F # {}
    PROVE  \E T \in F : \A U \in SUBSET T : U # T => U \notin F
<1>1. IsWellFoundedOn(StrictSubsetOrdering(S), SUBSET S)
  BY FS_StrictSubsetOrderingWellFounded, FS_FiniteSubsetsOfFinite
<1>2. PICK T \in F : \A U \in F : <<U, T>> \notin StrictSubsetOrdering(S)
  BY <1>1, WFMin
<1>3. ASSUME NEW U \in SUBSET T, U # T, U \in F PROVE FALSE
  BY <1>2, <1>3 DEF StrictSubsetOrdering
<1> QED
  BY <1>2, <1>3

LEMMA PickIn == ASSUME NEW S, S # {} PROVE Pick(S) \in S
BY DEF Pick

\* Two functions that satisfy the recursion agree where both are defined.
LEMMA IteratesAgree ==
    ASSUME NEW f, NEW S, NEW T, IsFiniteSet(S), T \subseteq S,
           NEW g, NEW h, Iterates(f, g, S), Iterates(f, h, T)
    PROVE  g[T] = h[T]
<1> DEFINE F == {U \in SUBSET T : g[U] # h[U]}
<1>1. SUFFICES F = {}
  OBVIOUS
<1>2. SUFFICES ASSUME F # {} PROVE FALSE
  OBVIOUS
<1>3. F \in SUBSET (SUBSET S)
  OBVIOUS
<1>4. PICK U \in F : \A V \in SUBSET U : V # U => V \notin F
  <2> HIDE DEF F
  <2> QED
    BY <1>2, <1>3, SmallestSet
<1>5. U \in SUBSET S /\ U \in SUBSET T
  OBVIOUS
<1>6. g[U] = SumStep(f, g, U) /\ h[U] = SumStep(f, h, U)
  BY <1>5 DEF Iterates
<1>7. U # {}
  BY <1>6 DEF SumStep
<1>8. g[U \ {Pick(U)}] = h[U \ {Pick(U)}]
  <2>1. Pick(U) \in U
    BY <1>7, PickIn
  <2> DEFINE V == U \ {Pick(U)}
  <2>2. V \in SUBSET U /\ V # U
    BY <2>1
  <2>3. V \notin F /\ V \in SUBSET T
    BY <2>2, <1>4
  <2> QED
    BY <2>3
<1> QED
  BY <1>6, <1>8 DEF SumStep

\* Such a function exists.
LEMMA IteratesExist ==
    ASSUME NEW f, NEW S, IsFiniteSet(S)
    PROVE  \E g : Iterates(f, g, S)
<1> DEFINE F == {T \in SUBSET S : ~ \E g : Iterates(f, g, T)}
<1>1. SUFFICES ASSUME F # {} PROVE FALSE
  OBVIOUS
<1>2. PICK T \in F : \A U \in SUBSET T : U # T => U \notin F
  <2>1. F \in SUBSET (SUBSET S)
    OBVIOUS
  <2> HIDE DEF F
  <2> QED
    BY <1>1, <2>1, SmallestSet
<1> DEFINE ofSet(U) == CHOOSE g : Iterates(f, g, U)
           low(U) == ofSet(U)[U]
           g0 == [U \in SUBSET T |-> SumStep(f, [V \in SUBSET T |-> low(V)], U)]
<1>3. ASSUME NEW U \in SUBSET T, U # T PROVE Iterates(f, ofSet(U), U)
  <2>1. U \in SUBSET S
    BY <1>2
  <2>2. \E g : Iterates(f, g, U)
    BY <1>2, <1>3, <2>1
  <2> QED
    BY <2>2
<1>4. ASSUME NEW U \in SUBSET T, U # T PROVE low(U) = g0[U]
  <2>1. Iterates(f, ofSet(U), U)
    BY <1>3, <1>4
  <2>2. low(U) = SumStep(f, ofSet(U), U)
    BY <2>1 DEF Iterates
  <2>3. CASE U = {}
    BY <2>2, <2>3 DEF SumStep
  <2>4. CASE U # {}
    <3> DEFINE V == U \ {Pick(U)}
    <3>1. V \in SUBSET U /\ V \in SUBSET T /\ V # T
      BY <2>4, PickIn
    <3>2. Iterates(f, ofSet(V), V)
      BY <3>1, <1>3
    <3>3. IsFiniteSet(U)
      BY FS_Subset
    <3>4. ofSet(U)[V] = ofSet(V)[V]
      <4> HIDE DEF ofSet
      <4> QED
        BY <2>1, <3>1, <3>2, <3>3, IteratesAgree
    <3>5. g0[U] = f[Pick(U)] + low(V)
      BY <2>4, <3>1 DEF SumStep
    <3>6. low(U) = f[Pick(U)] + ofSet(U)[V]
      BY <2>2, <2>4 DEF SumStep
    <3> QED
      BY <3>4, <3>5, <3>6
  <2> QED
    BY <2>3, <2>4
<1>5. Iterates(f, g0, T)
  <2>1. ASSUME NEW U \in SUBSET T PROVE g0[U] = SumStep(f, g0, U)
    <3> DEFINE V == U \ {Pick(U)}
    <3>1. CASE U = {}
      BY <3>1 DEF SumStep
    <3>2. CASE U # {}
      <4>1. V \in SUBSET T /\ V # T
        BY <3>2, PickIn
      <4>2. low(V) = g0[V]
        BY <4>1, <1>4
      <4>3. g0[U] = f[Pick(U)] + low(V)
        BY <3>2, <4>1 DEF SumStep
      <4>4. SumStep(f, g0, U) = f[Pick(U)] + g0[V]
        BY <3>2 DEF SumStep
      <4> QED
        BY <4>2, <4>3, <4>4
    <3> QED
      BY <3>1, <3>2
  <2> HIDE DEF low
  <2>2. g0 = [U \in SUBSET T |-> g0[U]]
    OBVIOUS
  <2> HIDE DEF g0
  <2> QED
    BY <2>1, <2>2 DEF Iterates
<1> QED
  BY <1>2, <1>5

\* The recursion of the library is this one.
LEMMA SumIterates ==
    ASSUME NEW f, NEW S, IsFiniteSet(S)
    PROVE  \E g : Iterates(f, g, S) /\ SumFunctionOnSet(f, S) = g[S]
<1> DEFINE g == CHOOSE h : Iterates(f, h, S)
<1>1. Iterates(f, g, S)
  BY IteratesExist
<1>2. SumFunctionOnSet(f, S) = g[S]
  BY DEF SumFunctionOnSet, FoldFunctionOnSet, MapThenFoldSet, Iterates, SumStep, Pick
<1> QED
  BY <1>1, <1>2
-----------------------------------------------------------------------------
LEMMA SumEmpty == ASSUME NEW f PROVE SumFunctionOnSet(f, {}) = 0
<1>1. PICK g : Iterates(f, g, {}) /\ SumFunctionOnSet(f, {}) = g[{}]
  BY SumIterates, FS_EmptySet
<1> QED
  BY <1>1 DEF Iterates, SumStep

LEMMA SumPick ==
    ASSUME NEW f, NEW S, IsFiniteSet(S), S # {}
    PROVE  SumFunctionOnSet(f, S) = f[Pick(S)] + SumFunctionOnSet(f, S \ {Pick(S)})
<1> DEFINE T == S \ {Pick(S)}
<1>1. PICK g : Iterates(f, g, S) /\ SumFunctionOnSet(f, S) = g[S]
  BY SumIterates
<1>2. IsFiniteSet(T)
  BY FS_RemoveElement
<1>3. PICK h : Iterates(f, h, T) /\ SumFunctionOnSet(f, T) = h[T]
  BY <1>2, SumIterates
<1>4. g[T] = h[T]
  BY <1>1, <1>3, IteratesAgree
<1>5. g[S] = SumStep(f, g, S)
  BY <1>1 DEF Iterates
<1> QED
  BY <1>1, <1>3, <1>4, <1>5 DEF SumStep

\* A property of sets that the empty set has, and that a set has when it holds
\* without the element picked, is one of every finite set: the form in which
\* the lemmas below use SmallestSet.
LEMMA SetInduction ==
    ASSUME NEW S, IsFiniteSet(S), NEW G \in SUBSET (SUBSET S), {} \in G,
           \A T \in SUBSET S : T # {} /\ (\A U \in SUBSET T : U # T => U \in G) => T \in G
    PROVE  G = SUBSET S
<1> DEFINE F == (SUBSET S) \ G
<1>1. SUFFICES ASSUME F # {} PROVE FALSE
  OBVIOUS
<1>2. PICK T \in F : \A U \in SUBSET T : U # T => U \notin F
  <2>1. F \in SUBSET (SUBSET S)
    OBVIOUS
  <2> HIDE DEF F
  <2> QED
    BY <1>1, <2>1, SmallestSet
<1> QED
  BY <1>2

\* The sum of integers is one.
LEMMA SumInt ==
    ASSUME NEW f, NEW S, IsFiniteSet(S), \A x \in S : f[x] \in Int
    PROVE  SumFunctionOnSet(f, S) \in Int
<1> DEFINE G == {T \in SUBSET S : SumFunctionOnSet(f, T) \in Int}
<1>1. {} \in G
  BY SumEmpty
<1>2. ASSUME NEW T \in SUBSET S, T # {}, \A U \in SUBSET T : U # T => U \in G
      PROVE  T \in G
  <2>1. IsFiniteSet(T)
    BY FS_Subset
  <2>2. Pick(T) \in T
    BY <1>2, PickIn
  <2>3. SumFunctionOnSet(f, T \ {Pick(T)}) \in Int
    BY <1>2, <2>2
  <2> QED
    BY <1>2, <2>1, <2>2, <2>3, SumPick
<1>3. G = SUBSET S
  <2> HIDE DEF G
  <2>1. G \in SUBSET (SUBSET S)
    BY DEF G
  <2> QED
    BY <1>1, <1>2, <2>1, SetInduction
<1> QED
  BY <1>3

\* Any element may be taken out first.
LEMMA SumRemove ==
    ASSUME NEW f, NEW S, IsFiniteSet(S), \A x \in S : f[x] \in Int, NEW y \in S
    PROVE  SumFunctionOnSet(f, S) = f[y] + SumFunctionOnSet(f, S \ {y})
<1> DEFINE Sum(T) == SumFunctionOnSet(f, T)
           G == {T \in SUBSET S : \A z \in T : Sum(T) = f[z] + Sum(T \ {z})}
<1>1. {} \in G
  OBVIOUS
<1>2. ASSUME NEW T \in SUBSET S, T # {}, \A U \in SUBSET T : U # T => U \in G
      PROVE  T \in G
  <2> SUFFICES ASSUME NEW z \in T PROVE Sum(T) = f[z] + Sum(T \ {z})
    OBVIOUS
  <2> DEFINE x == Pick(T)
  <2>1. IsFiniteSet(T)
    BY FS_Subset
  <2>2. x \in T /\ Sum(T) = f[x] + Sum(T \ {x})
    BY <1>2, <2>1, PickIn, SumPick
  <2>3. CASE x = z
    BY <2>2, <2>3
  <2>4. CASE x # z
    <3>1. Sum(T \ {x}) = f[z] + Sum((T \ {x}) \ {z})
      BY <1>2, <2>2, <2>4
    <3>2. Sum(T \ {z}) = f[x] + Sum((T \ {z}) \ {x})
      BY <1>2, <2>2, <2>4
    <3>3. (T \ {x}) \ {z} = (T \ {z}) \ {x}
      OBVIOUS
    <3>4. IsFiniteSet((T \ {z}) \ {x})
      BY <2>1, FS_RemoveElement
    <3>5. Sum((T \ {z}) \ {x}) \in Int
      BY <3>4, SumInt
    <3>6. f[x] \in Int /\ f[z] \in Int
      BY <2>2
    <3>7. /\ Sum(T) = f[x] + (f[z] + Sum((T \ {z}) \ {x}))
          /\ Sum(T \ {z}) = f[x] + Sum((T \ {z}) \ {x})
      BY <2>2, <3>1, <3>2, <3>3
    <3> HIDE DEF G, Sum, x
    <3> QED
      BY <3>5, <3>6, <3>7
  <2> QED
    BY <2>3, <2>4
<1>3. G = SUBSET S
  <2>1. G \in SUBSET (SUBSET S)
    OBVIOUS
  <2> HIDE DEF G
  <2> QED
    BY <1>1, <1>2, <2>1, SetInduction
<1> QED
  BY <1>3

LEMMA SumAdd ==
    ASSUME NEW f, NEW S, IsFiniteSet(S), NEW y, y \notin S,
           \A x \in S \cup {y} : f[x] \in Int
    PROVE  SumFunctionOnSet(f, S \cup {y}) = SumFunctionOnSet(f, S) + f[y]
<1>1. IsFiniteSet(S \cup {y}) /\ (S \cup {y}) \ {y} = S
  BY FS_AddElement
<1>2. SumFunctionOnSet(f, S \cup {y}) = f[y] + SumFunctionOnSet(f, S)
  BY <1>1, SumRemove
<1> QED
  BY <1>2, SumInt

LEMMA SumSingle ==
    ASSUME NEW f, NEW y, f[y] \in Int
    PROVE  SumFunctionOnSet(f, {y}) = f[y]
<1>1. SumFunctionOnSet(f, {} \cup {y}) = SumFunctionOnSet(f, {}) + f[y]
  BY FS_EmptySet, SumAdd
<1>2. {} \cup {y} = {y}
  OBVIOUS
<1> QED
  BY <1>1, <1>2, SumEmpty

\* Equal terms, equal sums.
LEMMA SumSame ==
    ASSUME NEW f, NEW g, NEW S, IsFiniteSet(S), \A x \in S : f[x] = g[x]
    PROVE  SumFunctionOnSet(f, S) = SumFunctionOnSet(g, S)
<1> DEFINE G == {T \in SUBSET S : SumFunctionOnSet(f, T) = SumFunctionOnSet(g, T)}
<1>1. {} \in G
  BY SumEmpty
<1>2. ASSUME NEW T \in SUBSET S, T # {}, \A U \in SUBSET T : U # T => U \in G
      PROVE  T \in G
  <2>1. IsFiniteSet(T)
    BY FS_Subset
  <2>2. Pick(T) \in T
    BY <1>2, PickIn
  <2>3. T \ {Pick(T)} \in G
    BY <1>2, <2>2
  <2> QED
    BY <1>2, <2>1, <2>2, <2>3, SumPick
<1>3. G = SUBSET S
  <2>1. G \in SUBSET (SUBSET S)
    OBVIOUS
  <2> HIDE DEF G
  <2> QED
    BY <1>1, <1>2, <2>1, SetInduction
<1> QED
  BY <1>3

\* Smaller terms, a smaller sum.
LEMMA SumLess ==
    ASSUME NEW f, NEW g, NEW S, IsFiniteSet(S),
           \A x \in S : f[x] \in Int /\ g[x] \in Int /\ f[x] <= g[x]
    PROVE  SumFunctionOnSet(f, S) <= SumFunctionOnSet(g, S)
<1> DEFINE G == {T \in SUBSET S : SumFunctionOnSet(f, T) <= SumFunctionOnSet(g, T)}
<1>1. {} \in G
  BY SumEmpty
<1>2. ASSUME NEW T \in SUBSET S, T # {}, \A U \in SUBSET T : U # T => U \in G
      PROVE  T \in G
  <2> DEFINE x == Pick(T)
  <2>1. IsFiniteSet(T) /\ IsFiniteSet(T \ {x})
    BY FS_Subset, FS_RemoveElement
  <2>2. x \in T
    BY <1>2, PickIn
  <2>3. SumFunctionOnSet(f, T \ {x}) <= SumFunctionOnSet(g, T \ {x})
    BY <1>2, <2>2
  <2>4. SumFunctionOnSet(f, T \ {x}) \in Int /\ SumFunctionOnSet(g, T \ {x}) \in Int
    BY <2>1, SumInt
  <2>5. /\ SumFunctionOnSet(f, T) = f[x] + SumFunctionOnSet(f, T \ {x})
        /\ SumFunctionOnSet(g, T) = g[x] + SumFunctionOnSet(g, T \ {x})
    BY <1>2, <2>1, SumPick
  <2>6. f[x] \in Int /\ g[x] \in Int /\ f[x] <= g[x]
    BY <2>2
  <2> HIDE DEF x
  <2>7. SumFunctionOnSet(f, T) <= SumFunctionOnSet(g, T)
    BY <2>3, <2>4, <2>5, <2>6
  <2> QED
    BY <2>7
<1>3. G = SUBSET S
  <2>1. G \in SUBSET (SUBSET S)
    OBVIOUS
  <2> HIDE DEF G
  <2> QED
    BY <1>1, <1>2, <2>1, SetInduction
<1> QED
  BY <1>3

LEMMA SumZero ==
    ASSUME NEW f, NEW S, IsFiniteSet(S), \A x \in S : f[x] = 0
    PROVE  SumFunctionOnSet(f, S) = 0
<1> DEFINE G == {T \in SUBSET S : SumFunctionOnSet(f, T) = 0}
<1>1. {} \in G
  BY SumEmpty
<1>2. ASSUME NEW T \in SUBSET S, T # {}, \A U \in SUBSET T : U # T => U \in G
      PROVE  T \in G
  <2>1. IsFiniteSet(T)
    BY FS_Subset
  <2>2. Pick(T) \in T
    BY <1>2, PickIn
  <2>3. T \ {Pick(T)} \in G
    BY <1>2, <2>2
  <2> QED
    BY <1>2, <2>1, <2>2, <2>3, SumPick
<1>3. G = SUBSET S
  <2>1. G \in SUBSET (SUBSET S)
    OBVIOUS
  <2> HIDE DEF G
  <2> QED
    BY <1>1, <1>2, <2>1, SetInduction
<1> QED
  BY <1>3

\* Terms of one sign, a sum of that sign.
LEMMA SumSign ==
    ASSUME NEW f, NEW S, IsFiniteSet(S), \A x \in S : f[x] \in Int
    PROVE  /\ (\A x \in S : f[x] >= 0) => SumFunctionOnSet(f, S) >= 0
           /\ (\A x \in S : f[x] <= 0) => SumFunctionOnSet(f, S) <= 0
<1> DEFINE zero == [x \in S |-> 0]
<1>1. \A x \in S : zero[x] = 0 /\ zero[x] \in Int
  OBVIOUS
<1> HIDE DEF zero
<1>2. SumFunctionOnSet(zero, S) = 0
  BY <1>1, SumZero
<1>3. ASSUME \A x \in S : f[x] >= 0 PROVE SumFunctionOnSet(f, S) >= 0
  <2>1. SumFunctionOnSet(zero, S) <= SumFunctionOnSet(f, S)
    BY <1>1, <1>3, SumLess
  <2> QED
    BY <1>2, <2>1, SumInt
<1>4. ASSUME \A x \in S : f[x] <= 0 PROVE SumFunctionOnSet(f, S) <= 0
  <2>1. SumFunctionOnSet(f, S) <= SumFunctionOnSet(zero, S)
    BY <1>1, <1>4, SumLess
  <2> QED
    BY <1>2, <2>1, SumInt
<1> QED
  BY <1>3, <1>4

\* The sum over two sets that share nothing.
LEMMA SumUnion ==
    ASSUME NEW f, NEW S, NEW T, IsFiniteSet(S), IsFiniteSet(T), S \cap T = {},
           \A x \in S \cup T : f[x] \in Int
    PROVE  SumFunctionOnSet(f, S \cup T)
             = SumFunctionOnSet(f, S) + SumFunctionOnSet(f, T)
<1> DEFINE Sum(U) == SumFunctionOnSet(f, U)
           G == {U \in SUBSET T : Sum(S \cup U) = Sum(S) + Sum(U)}
<1>1. {} \in G
  <2>1. S \cup {} = S /\ Sum({}) = 0 /\ Sum(S) \in Int
    BY SumEmpty, SumInt
  <2> QED
    BY <2>1
<1>2. ASSUME NEW U \in SUBSET T, U # {}, \A V \in SUBSET U : V # U => V \in G
      PROVE  U \in G
  <2> DEFINE x == Pick(U)
             V == U \ {x}
  <2>1. IsFiniteSet(U) /\ IsFiniteSet(V) /\ IsFiniteSet(S \cup U)
    BY FS_Subset, FS_RemoveElement, FS_Union
  <2>2. x \in U /\ x \notin S
    BY <1>2, PickIn
  <2>3. (S \cup U) \ {x} = S \cup V
    BY <2>2
  <2>4. Sum(S \cup V) = Sum(S) + Sum(V)
    BY <1>2, <2>2
  <2>5. Sum(S \cup U) = f[x] + Sum(S \cup V)
    BY <2>1, <2>2, <2>3, SumRemove
  <2>6. Sum(U) = f[x] + Sum(V)
    BY <2>1, <2>2, SumRemove
  <2>7. f[x] \in Int /\ Sum(S) \in Int /\ Sum(V) \in Int
    BY <2>1, <2>2, SumInt
  <2> HIDE DEF x, V, Sum
  <2>8. Sum(S \cup U) = Sum(S) + Sum(U)
    BY <2>4, <2>5, <2>6, <2>7
  <2> QED
    BY <2>8
<1>3. G = SUBSET T
  <2>1. G \in SUBSET (SUBSET T)
    OBVIOUS
  <2> HIDE DEF G
  <2> QED
    BY <1>1, <1>2, <2>1, SetInduction
<1> QED
  BY <1>3

LEMMA ImageFinite ==
    ASSUME NEW S, IsFiniteSet(S), NEW m
    PROVE  IsFiniteSet({m[x] : x \in S})
<1>1. [x \in S |-> m[x]] \in Surjection(S, {m[x] : x \in S})
  BY DEF Surjection
<1> QED
  BY <1>1, FS_Surjection

\* A sum over renamed elements.
LEMMA SumRename ==
    ASSUME NEW f, NEW S, IsFiniteSet(S), NEW m, NEW g,
           \A x, y \in S : m[x] = m[y] => x = y,
           \A x \in S : g[m[x]] = f[x] /\ f[x] \in Int
    PROVE  SumFunctionOnSet(g, {m[x] : x \in S}) = SumFunctionOnSet(f, S)
<1> DEFINE Image(T) == {m[x] : x \in T}
           G == {T \in SUBSET S : SumFunctionOnSet(g, Image(T)) = SumFunctionOnSet(f, T)}
<1>1. {} \in G
  <2>1. Image({}) = {}
    OBVIOUS
  <2> QED
    BY <2>1, SumEmpty
<1>2. ASSUME NEW T \in SUBSET S, T # {}, \A U \in SUBSET T : U # T => U \in G
      PROVE  T \in G
  <2> DEFINE x == Pick(T)
             U == T \ {x}
  <2>1. IsFiniteSet(T) /\ IsFiniteSet(U)
    BY FS_Subset, FS_RemoveElement
  <2>2. x \in T
    BY <1>2, PickIn
  <2>3. SumFunctionOnSet(g, Image(U)) = SumFunctionOnSet(f, U)
    BY <1>2, <2>2
  <2>4. Image(T) = Image(U) \cup {m[x]} /\ m[x] \notin Image(U)
    BY <2>2
  <2>5. IsFiniteSet(Image(U))
    BY <2>1, ImageFinite
  <2>6. \A y \in Image(U) \cup {m[x]} : g[y] \in Int
    BY <2>2
  <2>7. SumFunctionOnSet(g, Image(T)) = SumFunctionOnSet(g, Image(U)) + g[m[x]]
    <3> HIDE DEF Image, x, U
    <3> QED
      BY <2>4, <2>5, <2>6, SumAdd
  <2>8. SumFunctionOnSet(f, T) = f[x] + SumFunctionOnSet(f, U)
    BY <1>2, <2>1, SumPick
  <2>9. f[x] \in Int /\ SumFunctionOnSet(f, U) \in Int /\ g[m[x]] = f[x]
    BY <2>1, <2>2, SumInt
  <2> HIDE DEF x, U, Image
  <2>10. SumFunctionOnSet(g, Image(T)) = SumFunctionOnSet(f, T)
    BY <2>3, <2>7, <2>8, <2>9
  <2> QED
    BY <2>10
<1>3. G = SUBSET S
  <2>1. G \in SUBSET (SUBSET S)
    OBVIOUS
  <2> HIDE DEF G
  <2> QED
    BY <1>1, <1>2, <2>1, SetInduction
<1> QED
  BY <1>3
=============================================================================
