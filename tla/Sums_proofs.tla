----------------------------- MODULE Sums_proofs -----------------------------
(***************************************************************************)
(* What SumFunctionOnSet, with which the modules count shares and money,   *)
(* computes on a finite set, whatever the function and the set are.  It is *)
(* a fold that takes the elements in an order CHOOSE fixes; that the order *)
(* does not matter is what the proofs about the modules need.              *)
(*                                                                         *)
(* The provers cannot instantiate an induction theorem that takes a        *)
(* predicate.  Each induction over a finite set is therefore an argument   *)
(* about a smallest counterexample, a set and no predicate.                *)
(***************************************************************************)
EXTENDS Functions, FiniteSets, FiniteSetTheorems, TLAPS

LEMMA SmallestCounterexample ==
    ASSUME NEW S, IsFiniteSet(S), NEW Bad, Bad \subseteq SUBSET S, Bad # {}
    PROVE  \E T \in Bad : \A U \in SUBSET T : U # T => U \notin Bad
<1>1. IsWellFoundedOn(StrictSubsetOrdering(S), SUBSET S)
  BY FS_StrictSubsetOrderingWellFounded, FS_FiniteSubsetsOfFinite
<1>2. PICK T \in Bad : \A U \in Bad : ~(<<U, T>> \in StrictSubsetOrdering(S))
  BY <1>1, WFMin
<1> QED BY <1>2 DEF StrictSubsetOrdering

-----------------------------------------------------------------------------
(* The fold terminates: there is a function that its definition describes. *)

\* The element the fold takes first, and what is left.
First(s) == CHOOSE x \in s : TRUE
Rest(s) == s \ {First(s)}

LEMMA FirstIsIn == ASSUME NEW s, s # {} PROVE First(s) \in s /\ Rest(s) # s
BY DEF First, Rest

Computes(g, f, S) ==
    g = [s \in SUBSET S |-> IF s = {} THEN 0 ELSE f[First(s)] + g[Rest(s)]]

LEMMA ComputesAt ==
    ASSUME NEW f, NEW S, NEW g, Computes(g, f, S), NEW s \in SUBSET S
    PROVE  /\ s = {} => g[s] = 0
           /\ s # {} => g[s] = f[First(s)] + g[Rest(s)] /\ Rest(s) \in SUBSET S
<1>1. g[s] = IF s = {} THEN 0 ELSE f[First(s)] + g[Rest(s)]
  BY DEF Computes
<1> QED BY <1>1 DEF Rest

\* Two functions computed so agree on the subsets they share.
LEMMA ComputedAlike ==
    ASSUME NEW f, NEW S, IsFiniteSet(S), NEW g, Computes(g, f, S),
           NEW T, NEW h, Computes(h, f, T), NEW s, s \subseteq S, s \subseteq T
    PROVE  g[s] = h[s]
<1> DEFINE Bad == {u \in SUBSET S : u \subseteq T /\ g[u] # h[u]}
<1> SUFFICES ASSUME Bad # {} PROVE FALSE
  OBVIOUS
<1>1. PICK u \in Bad : \A v \in SUBSET u : v # u => v \notin Bad
  <2>1. Bad \subseteq SUBSET S
    OBVIOUS
  <2> HIDE DEF Bad
  <2> QED BY <2>1, SmallestCounterexample
<1>2. u \in SUBSET S /\ u \in SUBSET T /\ g[u] # h[u]
  BY <1>1
<1>3. u # {}
  <2>1. u = {} => g[u] = 0 /\ h[u] = 0
    BY <1>2, ComputesAt
  <2> QED BY <1>2, <2>1
<1>4. Rest(u) \in SUBSET u /\ Rest(u) # u
  BY <1>3, FirstIsIn DEF Rest
<1>5. g[Rest(u)] = h[Rest(u)]
  BY <1>1, <1>2, <1>4
<1>6. g[u] = f[First(u)] + g[Rest(u)] /\ h[u] = f[First(u)] + h[Rest(u)]
  BY <1>2, <1>3, ComputesAt
<1> QED BY <1>2, <1>5, <1>6

LEMMA FoldExists ==
    ASSUME NEW f, NEW S, IsFiniteSet(S) PROVE \E g : Computes(g, f, S)
<1> DEFINE Bad == {T \in SUBSET S : ~\E g : Computes(g, f, T)}
<1> SUFFICES ASSUME Bad # {} PROVE FALSE
  OBVIOUS
<1>1. PICK T \in Bad : \A U \in SUBSET T : U # T => U \notin Bad
  <2>1. Bad \subseteq SUBSET S
    OBVIOUS
  <2> HIDE DEF Bad
  <2> QED BY <2>1, SmallestCounterexample
<1>2. T \in SUBSET S /\ IsFiniteSet(T) /\ ~\E g : Computes(g, f, T)
  BY <1>1, FS_Subset
<1> DEFINE Fun(U) == CHOOSE g : Computes(g, f, U)
           total == [s \in SUBSET T |->
                       IF s = {} THEN 0 ELSE f[First(s)] + Fun(Rest(s))[Rest(s)]]
<1>3. ASSUME NEW U \in SUBSET T, U # T PROVE Computes(Fun(U), f, U) /\ IsFiniteSet(U)
  BY <1>1, <1>2, <1>3, FS_Subset
<1> HIDE DEF Fun, Bad
<1>4. ASSUME NEW U \in SUBSET T, U # T PROVE total[U] = Fun(U)[U]
  <2>1. U \in SUBSET U /\ Computes(Fun(U), f, U) /\ IsFiniteSet(U)
    BY <1>3, <1>4
  <2>2. CASE U = {}
    BY <2>1, <2>2, ComputesAt
  <2>3. CASE U # {}
    <3>1. Fun(U)[U] = f[First(U)] + Fun(U)[Rest(U)]
      BY <2>1, <2>3, ComputesAt
    <3>2. Rest(U) \in SUBSET T /\ Rest(U) # T /\ Rest(U) \subseteq U
      BY <1>4, <2>3, FirstIsIn DEF Rest
    <3>3. Computes(Fun(Rest(U)), f, Rest(U))
      BY <1>3, <3>2
    <3>4. Fun(U)[Rest(U)] = Fun(Rest(U))[Rest(U)]
      BY <2>1, <3>2, <3>3, ComputedAlike
    <3>5. total[U] = f[First(U)] + Fun(Rest(U))[Rest(U)]
      BY <1>4, <2>3
    <3> QED BY <3>1, <3>4, <3>5
  <2> QED BY <2>2, <2>3
<1>5. ASSUME NEW s \in SUBSET T, s # {} PROVE total[Rest(s)] = Fun(Rest(s))[Rest(s)]
  <2>1. Rest(s) \in SUBSET T /\ Rest(s) # T
    BY <1>5, FirstIsIn DEF Rest
  <2> HIDE DEF total
  <2> QED BY <1>4, <2>1
<1>6. total = [s \in SUBSET T |-> IF s = {} THEN 0 ELSE f[First(s)] + total[Rest(s)]]
  <2> DEFINE again == [s \in SUBSET T |->
                         IF s = {} THEN 0 ELSE f[First(s)] + total[Rest(s)]]
  <2>1. ASSUME NEW s \in SUBSET T PROVE total[s] = again[s]
    BY <1>5
  <2>2. /\ total = [s \in SUBSET T |-> total[s]]
        /\ again = [s \in SUBSET T |-> again[s]]
    OBVIOUS
  <2> HIDE DEF again, total
  <2>3. total = again
    BY <2>1, <2>2
  <2> QED BY <2>3 DEF again
<1> QED BY <1>2, <1>6 DEF Computes

LEMMA SumIsFold ==
    ASSUME NEW f, NEW S, IsFiniteSet(S)
    PROVE  \E g : Computes(g, f, S) /\ SumFunctionOnSet(f, S) = g[S]
<1>1. \E g : Computes(g, f, S)
  BY FoldExists
<1> QED
  BY <1>1 DEF Computes, First, Rest, SumFunctionOnSet, FoldFunctionOnSet, MapThenFoldSet

-----------------------------------------------------------------------------
(* What a sum is.                                                          *)

\* Of nothing it is zero.
THEOREM SumOfNone == ASSUME NEW f PROVE SumFunctionOnSet(f, {}) = 0
<1>1. PICK g : Computes(g, f, {}) /\ SumFunctionOnSet(f, {}) = g[{}]
  BY SumIsFold, FS_EmptySet
<1>2. g[{}] = 0
  BY <1>1, ComputesAt
<1> QED BY <1>1, <1>2

LEMMA SumUnfolds ==
    ASSUME NEW f, NEW S, IsFiniteSet(S), S # {}
    PROVE  SumFunctionOnSet(f, S) = f[First(S)] + SumFunctionOnSet(f, Rest(S))
<1>1. PICK g : Computes(g, f, S) /\ SumFunctionOnSet(f, S) = g[S]
  BY SumIsFold
<1>2. Rest(S) \subseteq S /\ IsFiniteSet(Rest(S))
  BY FS_Subset DEF Rest
<1>3. PICK h : /\ Computes(h, f, Rest(S))
               /\ SumFunctionOnSet(f, Rest(S)) = h[Rest(S)]
  BY <1>2, SumIsFold
<1>4. g[Rest(S)] = h[Rest(S)]
  BY <1>1, <1>2, <1>3, ComputedAlike
<1>5. g[S] = f[First(S)] + g[Rest(S)]
  BY <1>1, ComputesAt
<1> QED BY <1>1, <1>3, <1>4, <1>5

\* Integers add up to an integer.
THEOREM SumIsInt ==
    ASSUME NEW S, IsFiniteSet(S), NEW f, \A x \in S : f[x] \in Int
    PROVE  SumFunctionOnSet(f, S) \in Int
<1> DEFINE Bad == {T \in SUBSET S : SumFunctionOnSet(f, T) \notin Int}
<1> SUFFICES ASSUME Bad # {} PROVE FALSE
  OBVIOUS
<1>1. PICK T \in Bad : \A U \in SUBSET T : U # T => U \notin Bad
  <2>1. Bad \subseteq SUBSET S
    OBVIOUS
  <2> HIDE DEF Bad
  <2> QED BY <2>1, SmallestCounterexample
<1>2. T \in SUBSET S /\ IsFiniteSet(T) /\ SumFunctionOnSet(f, T) \notin Int
  BY <1>1, FS_Subset
<1>3. T # {}
  BY <1>2, SumOfNone
<1>4. First(T) \in T /\ Rest(T) \in SUBSET T /\ Rest(T) # T
  BY <1>3, FirstIsIn DEF Rest
<1>5. SumFunctionOnSet(f, Rest(T)) \in Int
  BY <1>1, <1>2, <1>4
<1>6. f[First(T)] \in Int
  BY <1>2, <1>4
<1>7. SumFunctionOnSet(f, T) = f[First(T)] + SumFunctionOnSet(f, Rest(T))
  BY <1>2, <1>3, SumUnfolds
<1> QED BY <1>2, <1>5, <1>6, <1>7

\* Any element can be taken first.
THEOREM SumWithout ==
    ASSUME NEW S, IsFiniteSet(S), NEW f, \A y \in S : f[y] \in Int, NEW x \in S
    PROVE  SumFunctionOnSet(f, S) = f[x] + SumFunctionOnSet(f, S \ {x})
<1> DEFINE Splits(T, y) == SumFunctionOnSet(f, T) = f[y] + SumFunctionOnSet(f, T \ {y})
           Bad == {T \in SUBSET S : \E y \in T : ~Splits(T, y)}
<1> SUFFICES ASSUME Bad # {} PROVE FALSE
  OBVIOUS
<1>1. PICK T \in Bad : \A U \in SUBSET T : U # T => U \notin Bad
  <2>1. Bad \subseteq SUBSET S
    OBVIOUS
  <2> HIDE DEF Bad
  <2> QED BY <2>1, SmallestCounterexample
<1>2. PICK y \in T : ~Splits(T, y)
  BY <1>1
<1> DEFINE z == First(T)
<1>3. T \in SUBSET S /\ IsFiniteSet(T) /\ z \in T
  BY <1>1, <1>2, FS_Subset, FirstIsIn
<1>4. ASSUME NEW U \in SUBSET T, U # T, NEW u \in U PROVE Splits(U, u)
  BY <1>1, <1>3, <1>4
<1> HIDE DEF Bad
<1>5. SumFunctionOnSet(f, T) = f[z] + SumFunctionOnSet(f, T \ {z})
  BY <1>3, SumUnfolds DEF Rest
<1>6. CASE y = z
  BY <1>2, <1>5, <1>6
<1>7. CASE y # z
  <2>1. /\ T \ {z} \in SUBSET T /\ T \ {z} # T /\ y \in T \ {z}
        /\ T \ {y} \in SUBSET T /\ T \ {y} # T /\ z \in T \ {y}
        /\ (T \ {z}) \ {y} = (T \ {y}) \ {z}
    BY <1>3, <1>7
  <2> HIDE DEF z
  <2> DEFINE both == SumFunctionOnSet(f, (T \ {y}) \ {z})
  <2>2. SumFunctionOnSet(f, T \ {z}) = f[y] + both
    BY <1>4, <2>1
  <2>3. SumFunctionOnSet(f, T \ {y}) = f[z] + both
    BY <1>4, <2>1
  <2>4. f[y] \in Int /\ f[z] \in Int
    BY <1>3
  <2>5. both \in Int
    <3>1. IsFiniteSet((T \ {y}) \ {z}) /\ \A v \in (T \ {y}) \ {z} : f[v] \in Int
      BY <1>3, FS_Subset
    <3> QED BY <3>1, SumIsInt
  <2> HIDE DEF both
  <2> QED BY <1>2, <1>5, <2>2, <2>3, <2>4, <2>5
<1> QED BY <1>6, <1>7

\* A sum depends on the values over its set alone.
THEOREM SumOfSame ==
    ASSUME NEW S, IsFiniteSet(S), NEW f, NEW g, \A x \in S : f[x] = g[x]
    PROVE  SumFunctionOnSet(f, S) = SumFunctionOnSet(g, S)
<1> DEFINE Bad == {T \in SUBSET S : SumFunctionOnSet(f, T) # SumFunctionOnSet(g, T)}
<1> SUFFICES ASSUME Bad # {} PROVE FALSE
  OBVIOUS
<1>1. PICK T \in Bad : \A U \in SUBSET T : U # T => U \notin Bad
  <2>1. Bad \subseteq SUBSET S
    OBVIOUS
  <2> HIDE DEF Bad
  <2> QED BY <2>1, SmallestCounterexample
<1>2. /\ T \in SUBSET S /\ IsFiniteSet(T)
      /\ SumFunctionOnSet(f, T) # SumFunctionOnSet(g, T)
  BY <1>1, FS_Subset
<1>3. T # {}
  BY <1>2, SumOfNone
<1>4. First(T) \in T /\ Rest(T) \in SUBSET T /\ Rest(T) # T
  BY <1>3, FirstIsIn DEF Rest
<1>5. SumFunctionOnSet(f, Rest(T)) = SumFunctionOnSet(g, Rest(T))
  BY <1>1, <1>2, <1>4
<1>6. f[First(T)] = g[First(T)]
  BY <1>2, <1>4
<1> QED BY <1>2, <1>3, <1>5, <1>6, SumUnfolds

\* Changing one value changes the sum by as much, outside the set by nothing.
THEOREM SumChanges ==
    ASSUME NEW S, IsFiniteSet(S), NEW f, NEW g, NEW x,
           \A y \in S : f[y] \in Int /\ g[y] \in Int,
           \A y \in S \ {x} : f[y] = g[y]
    PROVE  SumFunctionOnSet(g, S)
              = SumFunctionOnSet(f, S) + (IF x \in S THEN g[x] - f[x] ELSE 0)
<1>1. IsFiniteSet(S \ {x}) /\ SumFunctionOnSet(f, S) \in Int
  BY FS_Subset, SumIsInt
<1>2. SumFunctionOnSet(f, S \ {x}) = SumFunctionOnSet(g, S \ {x})
  BY <1>1, SumOfSame
<1>3. CASE x \in S
  <2>1. /\ SumFunctionOnSet(f, S) = f[x] + SumFunctionOnSet(f, S \ {x})
        /\ SumFunctionOnSet(g, S) = g[x] + SumFunctionOnSet(g, S \ {x})
    BY <1>3, SumWithout
  <2>2. f[x] \in Int /\ g[x] \in Int /\ SumFunctionOnSet(f, S \ {x}) \in Int
    BY <1>1, <1>3, SumIsInt
  <2> QED BY <1>2, <1>3, <2>1, <2>2
<1>4. CASE x \notin S
  <2>1. S \ {x} = S
    BY <1>4
  <2>2. SumFunctionOnSet(g, S) = SumFunctionOnSet(f, S)
    BY <1>2, <2>1
  <2> QED BY <1>1, <1>4, <2>2
<1> QED BY <1>3, <1>4
=============================================================================
