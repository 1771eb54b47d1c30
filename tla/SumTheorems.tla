---------------------------- MODULE SumTheorems ----------------------------
(***************************************************************************)
(* Facts about sums over finite sets, on which the proofs about quantities *)
(* rest.  A sum is a fold that chooses one element after the other; what   *)
(* is proved here is that the order does not matter.  Each induction over  *)
(* a finite set is carried out on a least subset for which the claim would *)
(* fail.                                                                   *)
(***************************************************************************)
EXTENDS Integers, Functions, FiniteSetTheorems, WellFoundedInduction, TLAPS

\* Among any subsets of a finite set one is least.
LEMMA LeastSubset ==
  ASSUME NEW S, IsFiniteSet(S), NEW T \in SUBSET SUBSET S, T # {}
  PROVE  \E m \in T : \A t \in T : t \subseteq m => t = m
<1>1. IsWellFoundedOn(StrictSubsetOrdering(S), SUBSET S)
  BY FS_StrictSubsetOrderingWellFounded, FS_FiniteSubsetsOfFinite
<1>2. PICK m \in T : \A t \in T : ~ (<<t, m>> \in StrictSubsetOrdering(S))
  BY <1>1, WFMin
<1>3. ASSUME NEW t \in T, t \subseteq m PROVE t = m
  BY <1>2, <1>3 DEF StrictSubsetOrdering
<1>4. QED
  BY <1>3

Chosen(s) == CHOOSE x \in s : TRUE

\* h is the partial sums of f over the subsets of S, as the fold takes them.
Adds(f, S, h) ==
    h = [s \in SUBSET S |-> IF s = {} THEN 0
                            ELSE f[Chosen(s)] + h[s \ {Chosen(s)}]]

LEMMA ChosenIn == ASSUME NEW s, s # {} PROVE Chosen(s) \in s
  BY DEF Chosen

LEMMA SumsAgree ==
  ASSUME NEW S, IsFiniteSet(S), NEW f, NEW a \in SUBSET S, NEW b \in SUBSET S,
         NEW h, NEW k, Adds(f, a, h), Adds(f, b, k),
         NEW v, v \subseteq a, v \subseteq b
  PROVE  h[v] = k[v]
<1> DEFINE T == {t \in SUBSET S : t \subseteq a /\ t \subseteq b /\ h[t] # k[t]}
<1> SUFFICES ASSUME T # {} PROVE FALSE
  OBVIOUS
<1>0. T \in SUBSET SUBSET S
  OBVIOUS
<1> HIDE DEF T
<1>1. PICK m \in T : \A t \in T : t \subseteq m => t = m
  BY <1>0, LeastSubset
<1> USE DEF T
<1>2. CASE m = {}
  BY <1>1, <1>2 DEF Adds
<1>3. CASE m # {}
  <2> DEFINE n == m \ {Chosen(m)}
  <2>1. n \subseteq m /\ n # m
    BY <1>3, ChosenIn
  <2>2. h[n] = k[n]
    BY <1>1, <2>1
  <2>3. h[m] = f[Chosen(m)] + h[n] /\ k[m] = f[Chosen(m)] + k[n]
    BY <1>1, <1>3 DEF Adds
  <2>4. QED
    BY <1>1, <2>2, <2>3
<1>4. QED
  BY <1>2, <1>3

LEMMA SumsExist ==
  ASSUME NEW S, IsFiniteSet(S), NEW f
  PROVE  \E h : Adds(f, S, h)
<1> DEFINE T == {t \in SUBSET S : ~ \E h : Adds(f, t, h)}
<1> SUFFICES ASSUME T # {} PROVE FALSE
  OBVIOUS
<1>0. T \in SUBSET SUBSET S
  OBVIOUS
<1> HIDE DEF T
<1>1. PICK m \in T : \A t \in T : t \subseteq m => t = m
  BY <1>0, LeastSubset
<1> USE DEF T
<1> DEFINE H(t) == CHOOSE h : Adds(f, t, h)
           part(t) == H(t \ {Chosen(t)})[t \ {Chosen(t)}]
           h == [t \in SUBSET m |-> IF t = {} THEN 0 ELSE f[Chosen(t)] + part(t)]
<1>2. ASSUME NEW t \in SUBSET m, t # m
      PROVE  Adds(f, t, H(t))
  <2>1. t \notin T
    BY <1>1, <1>2
  <2>2. \E k : Adds(f, t, k)
    BY <1>1, <2>1
  <2>3. QED
    BY <2>2
<1> HIDE DEF H
<1>3. ASSUME NEW t \in SUBSET m, t # m
      PROVE  h[t] = H(t)[t]
  <2>1. CASE t = {}
    BY <1>2, <1>3, <2>1 DEF Adds
  <2>2. CASE t # {}
    <3> DEFINE n == t \ {Chosen(t)}
    <3>1. n \in SUBSET m /\ n # m /\ n \subseteq t
      BY <1>3, <2>2, ChosenIn
    <3>2. IsFiniteSet(S) /\ n \in SUBSET S /\ t \in SUBSET S
      BY <1>1, <3>1
    <3>3. H(t)[n] = H(n)[n]
      BY <1>2, <1>3, <3>1, <3>2, SumsAgree
    <3>4. H(t)[t] = f[Chosen(t)] + H(t)[n]
      BY <1>2, <1>3, <2>2 DEF Adds
    <3>5. h[t] = f[Chosen(t)] + H(n)[n]
      BY <2>2
    <3>6. QED
      BY <3>3, <3>4, <3>5
  <2>3. QED
    BY <2>1, <2>2
<1>4. ASSUME NEW t \in SUBSET m, t # {}
      PROVE  h[t] = f[Chosen(t)] + h[t \ {Chosen(t)}]
  <2> DEFINE n == t \ {Chosen(t)}
  <2>1. n \in SUBSET m /\ n # m
    BY <1>4, ChosenIn
  <2>2. h[n] = H(n)[n]
    BY <1>3, <2>1
  <2>3. h[t] = f[Chosen(t)] + H(n)[n]
    BY <1>4
  <2>4. QED
    BY <2>2, <2>3
<1>5. Adds(f, m, h)
  BY <1>4 DEF Adds
<1>6. QED
  BY <1>1, <1>5

-----------------------------------------------------------------------------
(* The sum, element by element.                                            *)

LEMMA SumIsLast ==
  ASSUME NEW S, NEW f
  PROVE  SumFunctionOnSet(f, S) = (CHOOSE h : Adds(f, S, h))[S]
<1> DEFINE iter == CHOOSE it :
        it = [s \in SUBSET S |->
                 IF s = {} THEN 0
                 ELSE LET x == CHOOSE y \in s : TRUE
                      IN  f[x] + it[s \ {x}]]
<1>1. iter = CHOOSE h : Adds(f, S, h)
  BY Zenon DEF Adds, Chosen
<1>2. SumFunctionOnSet(f, S) = iter[S]
  BY Zenon DEF SumFunctionOnSet, FoldFunctionOnSet, MapThenFoldSet
<1>3. QED
  BY <1>1, <1>2, Zenon

LEMMA SumIsAny ==
  ASSUME NEW S, IsFiniteSet(S), NEW f, NEW t \in SUBSET S, NEW h, Adds(f, S, h)
  PROVE  SumFunctionOnSet(f, t) = h[t]
<1> DEFINE k == CHOOSE g : Adds(f, t, g)
<1>1. IsFiniteSet(t)
  BY FS_Subset
<1>2. \E g : Adds(f, t, g)
  BY <1>1, SumsExist
<1>3. Adds(f, t, k)
  BY <1>2
<1>4. k[t] = h[t]
  BY <1>3, SumsAgree
<1>5. QED
  BY <1>4, SumIsLast

LEMMA SumOfNone == ASSUME NEW f PROVE SumFunctionOnSet(f, {}) = 0
<1>1. IsFiniteSet({})
  BY FS_EmptySet
<1>2. PICK h : Adds(f, {}, h)
  BY <1>1, SumsExist
<1>3. SumFunctionOnSet(f, {}) = h[{}]
  BY <1>1, <1>2, SumIsAny
<1>4. h[{}] = 0
  BY <1>2 DEF Adds
<1>5. QED
  BY <1>3, <1>4

LEMMA SumChosen ==
  ASSUME NEW S, IsFiniteSet(S), NEW f, S # {}
  PROVE  SumFunctionOnSet(f, S) =
             f[Chosen(S)] + SumFunctionOnSet(f, S \ {Chosen(S)})
<1>1. PICK h : Adds(f, S, h)
  BY SumsExist
<1>2. h[S] = f[Chosen(S)] + h[S \ {Chosen(S)}]
  BY <1>1 DEF Adds
<1>3. QED
  BY <1>1, <1>2, SumIsAny

\* A sum of integers is one.
LEMMA SumIsInt ==
  ASSUME NEW S, IsFiniteSet(S), NEW f, \A x \in S : f[x] \in Int
  PROVE  SumFunctionOnSet(f, S) \in Int
<1> DEFINE T == {t \in SUBSET S : SumFunctionOnSet(f, t) \notin Int}
<1> SUFFICES ASSUME T # {} PROVE FALSE
  OBVIOUS
<1>0. T \in SUBSET SUBSET S
  OBVIOUS
<1> HIDE DEF T
<1>1. PICK m \in T : \A t \in T : t \subseteq m => t = m
  BY <1>0, LeastSubset
<1>2. m # {} /\ m \in SUBSET S
  <2>1. {} \notin T
    <3>1. SumFunctionOnSet(f, {}) \in Int
      BY SumOfNone
    <3>2. QED
      BY <3>1 DEF T
  <2>2. QED
    BY <1>0, <1>1, <2>1
<1>3. SumFunctionOnSet(f, m \ {Chosen(m)}) \in Int
  BY <1>1, <1>2, ChosenIn DEF T
<1>4. f[Chosen(m)] \in Int
  BY <1>1, <1>2, ChosenIn
<1>5. IsFiniteSet(m)
  BY <1>2, FS_Subset
<1>6. SumFunctionOnSet(f, m) = f[Chosen(m)] + SumFunctionOnSet(f, m \ {Chosen(m)})
  BY <1>2, <1>5, SumChosen
<1>7. SumFunctionOnSet(f, m) \in Int
  BY <1>3, <1>4, <1>6
<1>8. QED
  BY <1>1, <1>7 DEF T

\* Whichever element is taken out first.
LEMMA SumTake ==
  ASSUME NEW S, IsFiniteSet(S), NEW f, \A x \in S : f[x] \in Int, NEW x \in S
  PROVE  SumFunctionOnSet(f, S) = f[x] + SumFunctionOnSet(f, S \ {x})
<1> DEFINE T == {t \in SUBSET S : \E y \in t :
                    SumFunctionOnSet(f, t) # f[y] + SumFunctionOnSet(f, t \ {y})}
<1> SUFFICES ASSUME T # {} PROVE FALSE
  OBVIOUS
<1>0. T \in SUBSET SUBSET S
  OBVIOUS
<1> HIDE DEF T
<1>1. PICK m \in T : \A t \in T : t \subseteq m => t = m
  BY <1>0, LeastSubset
<1>2. m \in SUBSET S
  BY <1>0, <1>1
<1>3. PICK y \in m : SumFunctionOnSet(f, m) # f[y] + SumFunctionOnSet(f, m \ {y})
  BY <1>1 DEF T
<1> DEFINE c == Chosen(m)
<1>4. c \in m /\ IsFiniteSet(m)
  BY <1>2, <1>3, ChosenIn, FS_Subset
<1>5. SumFunctionOnSet(f, m) = f[c] + SumFunctionOnSet(f, m \ {c})
  BY <1>3, <1>4, SumChosen
<1>6. y # c
  BY <1>3, <1>5
<1> HIDE DEF c
<1>7. ASSUME NEW a \in m, NEW b \in m, a # b
      PROVE  SumFunctionOnSet(f, m \ {a}) =
                 f[b] + SumFunctionOnSet(f, (m \ {a}) \ {b})
  <2>1. m \ {a} \notin T /\ m \ {a} \in SUBSET S /\ b \in m \ {a}
    BY <1>1, <1>2, <1>7
  <2>2. QED
    BY <2>1 DEF T
<1>8. (m \ {c}) \ {y} = (m \ {y}) \ {c}
  OBVIOUS
<1>9. SumFunctionOnSet(f, (m \ {y}) \ {c}) \in Int
  <2>1. IsFiniteSet((m \ {y}) \ {c})
    BY <1>4, FS_Subset
  <2>2. QED
    BY <1>2, <2>1, SumIsInt
<1>10. SumFunctionOnSet(f, m \ {c}) =
           f[y] + SumFunctionOnSet(f, (m \ {y}) \ {c})
  BY <1>4, <1>6, <1>7, <1>8
<1>11. SumFunctionOnSet(f, m \ {y}) =
           f[c] + SumFunctionOnSet(f, (m \ {y}) \ {c})
  BY <1>4, <1>6, <1>7
<1>12. f[y] \in Int /\ f[c] \in Int
  BY <1>2, <1>4
<1>13. QED
  BY <1>3, <1>5, <1>9, <1>10, <1>11, <1>12

-----------------------------------------------------------------------------
(* What the proofs about quantities use.                                   *)

\* Equal terms, equal sums.
LEMMA SumSame ==
  ASSUME NEW S, IsFiniteSet(S), NEW f, NEW g, \A x \in S : f[x] = g[x]
  PROVE  SumFunctionOnSet(f, S) = SumFunctionOnSet(g, S)
<1>1. PICK h : Adds(f, S, h)
  BY SumsExist
<1>2. PICK k : Adds(g, S, k)
  BY SumsExist
<1> DEFINE T == {t \in SUBSET S : h[t] # k[t]}
<1>3. ASSUME T # {} PROVE FALSE
  <2>0. T \in SUBSET SUBSET S
    OBVIOUS
  <2> HIDE DEF T
  <2>1. PICK m \in T : \A t \in T : t \subseteq m => t = m
    BY <1>3, <2>0, LeastSubset
  <2>2. m \in SUBSET S /\ h[m] # k[m]
    BY <2>0, <2>1 DEF T
  <2>3. m # {}
    BY <1>1, <1>2, <2>2 DEF Adds
  <2> DEFINE c == Chosen(m)
  <2>4. c \in m /\ c \in S
    BY <2>2, <2>3, ChosenIn
  <2>5. h[m \ {c}] = k[m \ {c}]
    BY <2>1, <2>2, <2>4 DEF T
  <2>6. h[m] = f[c] + h[m \ {c}] /\ k[m] = g[c] + k[m \ {c}]
    BY <1>1, <1>2, <2>2, <2>3 DEF Adds
  <2>7. QED
    BY <2>2, <2>4, <2>5, <2>6
<1>4. h[S] = k[S]
  BY <1>3
<1>5. QED
  BY <1>1, <1>2, <1>4, SumIsAny

\* One term more.
LEMMA SumAdd ==
  ASSUME NEW S, IsFiniteSet(S), NEW f, NEW x, x \notin S,
         \A y \in S \cup {x} : f[y] \in Int
  PROVE  SumFunctionOnSet(f, S \cup {x}) = f[x] + SumFunctionOnSet(f, S)
<1>1. IsFiniteSet(S \cup {x}) /\ x \in S \cup {x} /\ (S \cup {x}) \ {x} = S
  BY FS_AddElement
<1>2. QED
  BY <1>1, SumTake

\* One term changed.
LEMMA SumChange ==
  ASSUME NEW S, IsFiniteSet(S), NEW x \in S, NEW f, NEW g,
         \A y \in S : f[y] \in Int /\ g[y] \in Int,
         \A y \in S \ {x} : g[y] = f[y]
  PROVE  SumFunctionOnSet(g, S) = SumFunctionOnSet(f, S) + g[x] - f[x]
<1>1. IsFiniteSet(S \ {x})
  BY FS_Subset
<1>2. SumFunctionOnSet(g, S \ {x}) = SumFunctionOnSet(f, S \ {x})
  BY <1>1, SumSame
<1>3. SumFunctionOnSet(f, S \ {x}) \in Int
  BY <1>1, SumIsInt
<1>4. /\ SumFunctionOnSet(f, S) = f[x] + SumFunctionOnSet(f, S \ {x})
      /\ SumFunctionOnSet(g, S) = g[x] + SumFunctionOnSet(g, S \ {x})
  BY SumTake
<1>5. QED
  BY <1>2, <1>3, <1>4

\* Two terms changed.
LEMMA SumMoved ==
  ASSUME NEW S, IsFiniteSet(S), NEW x \in S, NEW y \in S, x # y, NEW f, NEW g,
         \A z \in S : f[z] \in Int /\ g[z] \in Int,
         \A z \in S \ {x, y} : g[z] = f[z]
  PROVE  SumFunctionOnSet(g, S) =
             SumFunctionOnSet(f, S) + g[x] - f[x] + g[y] - f[y]
<1> DEFINE k == [z \in S |-> IF z = x THEN g[x] ELSE f[z]]
<1>1. /\ \A z \in S : k[z] \in Int
      /\ \A z \in S \ {x} : k[z] = f[z]
      /\ \A z \in S \ {y} : g[z] = k[z]
      /\ k[x] = g[x] /\ k[y] = f[y]
  OBVIOUS
<1> HIDE DEF k
<1>2. SumFunctionOnSet(k, S) = SumFunctionOnSet(f, S) + k[x] - f[x]
  BY <1>1, SumChange
<1>3. SumFunctionOnSet(g, S) = SumFunctionOnSet(k, S) + g[y] - k[y]
  BY <1>1, SumChange
<1>4. SumFunctionOnSet(f, S) \in Int
  BY SumIsInt
<1>5. QED
  BY <1>1, <1>2, <1>3, <1>4

\* No term is less, so neither is the sum.
LEMMA SumMonotone ==
  ASSUME NEW S, IsFiniteSet(S), NEW f, NEW g,
         \A x \in S : f[x] \in Int /\ g[x] \in Int /\ f[x] <= g[x]
  PROVE  SumFunctionOnSet(f, S) <= SumFunctionOnSet(g, S)
<1> DEFINE T == {t \in SUBSET S :
                    ~ (SumFunctionOnSet(f, t) <= SumFunctionOnSet(g, t))}
<1> SUFFICES ASSUME T # {} PROVE FALSE
  OBVIOUS
<1>0. T \in SUBSET SUBSET S
  OBVIOUS
<1> HIDE DEF T
<1>1. PICK m \in T : \A t \in T : t \subseteq m => t = m
  BY <1>0, LeastSubset
<1>2. /\ m \in SUBSET S
      /\ ~ (SumFunctionOnSet(f, m) <= SumFunctionOnSet(g, m))
  BY <1>0, <1>1 DEF T
<1>3. m # {}
  <2>1. SumFunctionOnSet(f, {}) <= SumFunctionOnSet(g, {})
    BY SumOfNone
  <2>2. QED
    BY <1>2, <2>1
<1> DEFINE c == Chosen(m)
           n == m \ {c}
<1>4. c \in m /\ c \in S /\ IsFiniteSet(m) /\ IsFiniteSet(n)
  BY <1>2, <1>3, ChosenIn, FS_Subset
<1>5. SumFunctionOnSet(f, n) <= SumFunctionOnSet(g, n)
  BY <1>1, <1>2, <1>4 DEF T
<1>6. /\ SumFunctionOnSet(f, m) = f[c] + SumFunctionOnSet(f, n)
      /\ SumFunctionOnSet(g, m) = g[c] + SumFunctionOnSet(g, n)
  BY <1>3, <1>4, SumChosen
<1>7. SumFunctionOnSet(f, n) \in Int /\ SumFunctionOnSet(g, n) \in Int
  BY <1>2, <1>4, SumIsInt
<1>8. f[c] \in Int /\ g[c] \in Int /\ f[c] <= g[c]
  BY <1>4
<1>9. QED
  BY <1>2, <1>5, <1>6, <1>7, <1>8

LEMMA SumOfZeros ==
  ASSUME NEW S, IsFiniteSet(S), NEW f, \A x \in S : f[x] = 0
  PROVE  SumFunctionOnSet(f, S) = 0
<1>1. PICK h : Adds(f, S, h)
  BY SumsExist
<1> DEFINE T == {t \in SUBSET S : h[t] # 0}
<1>2. ASSUME T # {} PROVE FALSE
  <2>0. T \in SUBSET SUBSET S
    OBVIOUS
  <2> HIDE DEF T
  <2>1. PICK m \in T : \A t \in T : t \subseteq m => t = m
    BY <1>2, <2>0, LeastSubset
  <2>2. m \in SUBSET S /\ h[m] # 0
    BY <2>0, <2>1 DEF T
  <2>3. m # {}
    BY <1>1, <2>2 DEF Adds
  <2> DEFINE c == Chosen(m)
  <2>4. c \in m /\ c \in S
    BY <2>2, <2>3, ChosenIn
  <2>5. h[m \ {c}] = 0
    BY <2>1, <2>2, <2>4 DEF T
  <2>6. h[m] = f[c] + h[m \ {c}]
    BY <1>1, <2>2, <2>3 DEF Adds
  <2>7. QED
    BY <2>2, <2>4, <2>5, <2>6
<1>3. h[S] = 0
  BY <1>2
<1>4. QED
  BY <1>1, <1>3, SumIsAny

LEMMA SumIsNat ==
  ASSUME NEW S, IsFiniteSet(S), NEW f, \A x \in S : f[x] \in Nat
  PROVE  SumFunctionOnSet(f, S) \in Nat
<1> DEFINE zero == [x \in S |-> 0]
<1>1. SumFunctionOnSet(zero, S) = 0
  BY SumOfZeros
<1>2. \A x \in S : zero[x] \in Int /\ f[x] \in Int /\ zero[x] <= f[x]
  OBVIOUS
<1> HIDE DEF zero
<1>3. SumFunctionOnSet(zero, S) <= SumFunctionOnSet(f, S)
  BY <1>2, SumMonotone
<1>4. SumFunctionOnSet(f, S) \in Int
  BY SumIsInt
<1>5. QED
  BY <1>1, <1>3, <1>4

\* Terms that are zero may be left out.
LEMMA SumWithin ==
  ASSUME NEW S, IsFiniteSet(S), NEW R \in SUBSET S, NEW f,
         \A x \in S : f[x] \in Int, \A x \in S \ R : f[x] = 0
  PROVE  SumFunctionOnSet(f, S) = SumFunctionOnSet(f, R)
<1> DEFINE T == {t \in SUBSET S : R \subseteq t /\
                    SumFunctionOnSet(f, t) # SumFunctionOnSet(f, R)}
<1> SUFFICES ASSUME T # {} PROVE FALSE
  OBVIOUS
<1>0. T \in SUBSET SUBSET S
  OBVIOUS
<1> HIDE DEF T
<1>1. PICK m \in T : \A t \in T : t \subseteq m => t = m
  BY <1>0, LeastSubset
<1>2. /\ m \in SUBSET S /\ R \subseteq m
      /\ SumFunctionOnSet(f, m) # SumFunctionOnSet(f, R)
  BY <1>0, <1>1 DEF T
<1>3. PICK x \in m : x \notin R
  BY <1>2
<1>4. IsFiniteSet(m) /\ IsFiniteSet(m \ {x})
  BY <1>2, FS_Subset
<1>5. SumFunctionOnSet(f, m \ {x}) = SumFunctionOnSet(f, R)
  BY <1>1, <1>2, <1>3 DEF T
<1>6. SumFunctionOnSet(f, m) = f[x] + SumFunctionOnSet(f, m \ {x})
  BY <1>2, <1>4, SumTake
<1>7. SumFunctionOnSet(f, m \ {x}) \in Int
  BY <1>2, <1>4, SumIsInt
<1>8. f[x] = 0
  BY <1>2, <1>3
<1>9. QED
  BY <1>2, <1>5, <1>6, <1>7, <1>8

\* The sum over two parts.
LEMMA SumSplit ==
  ASSUME NEW S, IsFiniteSet(S), NEW R \in SUBSET S, NEW f,
         \A x \in S : f[x] \in Int
  PROVE  SumFunctionOnSet(f, S) =
             SumFunctionOnSet(f, R) + SumFunctionOnSet(f, S \ R)
<1> DEFINE T == {t \in SUBSET S :
                    SumFunctionOnSet(f, t) #
                        SumFunctionOnSet(f, t \cap R) + SumFunctionOnSet(f, t \ R)}
<1>0. T \in SUBSET SUBSET S
  OBVIOUS
<1> HIDE DEF T
<1>1. ASSUME T # {} PROVE FALSE
  <2>1. PICK m \in T : \A t \in T : t \subseteq m => t = m
    BY <1>0, <1>1, LeastSubset
  <2>2. /\ m \in SUBSET S
        /\ SumFunctionOnSet(f, m) #
               SumFunctionOnSet(f, m \cap R) + SumFunctionOnSet(f, m \ R)
    BY <1>0, <2>1 DEF T
  <2>3. m # {}
    <3>1. {} \cap R = {} /\ {} \ R = {}
      OBVIOUS
    <3>2. SumFunctionOnSet(f, {}) =
              SumFunctionOnSet(f, {} \cap R) + SumFunctionOnSet(f, {} \ R)
      BY <3>1, SumOfNone
    <3>3. QED
      BY <2>2, <3>2
  <2>4. PICK x \in m : TRUE
    BY <2>3
  <2> DEFINE n == m \ {x}
  <2>5. SumFunctionOnSet(f, n) =
            SumFunctionOnSet(f, n \cap R) + SumFunctionOnSet(f, n \ R)
    BY <2>1, <2>2, <2>4 DEF T
  <2>6. /\ IsFiniteSet(m) /\ IsFiniteSet(m \cap R) /\ IsFiniteSet(m \ R)
        /\ IsFiniteSet(n \cap R) /\ IsFiniteSet(n \ R)
    BY <2>2, FS_Subset
  <2>7. SumFunctionOnSet(f, m) = f[x] + SumFunctionOnSet(f, n)
    BY <2>2, <2>4, <2>6, SumTake
  <2>8. /\ SumFunctionOnSet(f, n \cap R) \in Int
        /\ SumFunctionOnSet(f, n \ R) \in Int /\ f[x] \in Int
    BY <2>2, <2>4, <2>6, SumIsInt
  <2>9. CASE x \in R
    <3>1. (m \cap R) \ {x} = n \cap R /\ m \ R = n \ R /\ x \in m \cap R
      BY <2>4, <2>9
    <3>2. \A y \in m \cap R : f[y] \in Int
      BY <2>2
    <3>3. SumFunctionOnSet(f, m \cap R) = f[x] + SumFunctionOnSet(f, (m \cap R) \ {x})
      BY <2>6, <3>1, <3>2, SumTake
    <3>4. SumFunctionOnSet(f, m \cap R) = f[x] + SumFunctionOnSet(f, n \cap R)
      BY <3>1, <3>3
    <3>5. SumFunctionOnSet(f, m \ R) = SumFunctionOnSet(f, n \ R)
      BY <3>1
    <3> HIDE DEF n
    <3>6. QED
      BY <2>2, <2>5, <2>7, <2>8, <3>4, <3>5
  <2>10. CASE x \notin R
    <3>1. (m \ R) \ {x} = n \ R /\ m \cap R = n \cap R /\ x \in m \ R
      BY <2>4, <2>10
    <3>2. \A y \in m \ R : f[y] \in Int
      BY <2>2
    <3>3. SumFunctionOnSet(f, m \ R) = f[x] + SumFunctionOnSet(f, (m \ R) \ {x})
      BY <2>6, <3>1, <3>2, SumTake
    <3>4. SumFunctionOnSet(f, m \ R) = f[x] + SumFunctionOnSet(f, n \ R)
      BY <3>1, <3>3
    <3>5. SumFunctionOnSet(f, m \cap R) = SumFunctionOnSet(f, n \cap R)
      BY <3>1
    <3> HIDE DEF n
    <3>6. QED
      BY <2>2, <2>5, <2>7, <2>8, <3>4, <3>5
  <2>11. QED
    BY <2>9, <2>10
<1>2. S \notin T
  BY <1>1
<1>3. S \cap R = R
  OBVIOUS
<1>4. QED
  BY <1>2, <1>3 DEF T

\* The sum over a larger set of what is not negative.
LEMMA SumGrows ==
  ASSUME NEW S, IsFiniteSet(S), NEW R \in SUBSET S, NEW f,
         \A x \in S : f[x] \in Nat
  PROVE  SumFunctionOnSet(f, R) <= SumFunctionOnSet(f, S)
<1>1. IsFiniteSet(R) /\ IsFiniteSet(S \ R)
  BY FS_Subset
<1>2. SumFunctionOnSet(f, R) \in Nat /\ SumFunctionOnSet(f, S \ R) \in Nat
  BY <1>1, SumIsNat
<1>3. SumFunctionOnSet(f, S) =
          SumFunctionOnSet(f, R) + SumFunctionOnSet(f, S \ R)
  BY SumSplit
<1>4. QED
  BY <1>2, <1>3

\* The sum of two terms each is the sum of the sums.
LEMMA SumPlus ==
  ASSUME NEW S, IsFiniteSet(S), NEW f, NEW g, NEW h,
         \A x \in S : f[x] \in Int /\ g[x] \in Int /\ h[x] = f[x] + g[x]
  PROVE  SumFunctionOnSet(h, S) = SumFunctionOnSet(f, S) + SumFunctionOnSet(g, S)
<1> DEFINE T == {t \in SUBSET S :
                    SumFunctionOnSet(h, t) #
                        SumFunctionOnSet(f, t) + SumFunctionOnSet(g, t)}
<1> SUFFICES ASSUME T # {} PROVE FALSE
  OBVIOUS
<1>0. T \in SUBSET SUBSET S
  OBVIOUS
<1> HIDE DEF T
<1>1. PICK m \in T : \A t \in T : t \subseteq m => t = m
  BY <1>0, LeastSubset
<1>2. /\ m \in SUBSET S
      /\ SumFunctionOnSet(h, m) # SumFunctionOnSet(f, m) + SumFunctionOnSet(g, m)
  BY <1>0, <1>1 DEF T
<1>3. m # {}
  <2>1. SumFunctionOnSet(h, {}) = SumFunctionOnSet(f, {}) + SumFunctionOnSet(g, {})
    BY SumOfNone
  <2>2. QED
    BY <1>2, <2>1
<1> DEFINE c == Chosen(m)
           n == m \ {c}
<1>4. c \in m /\ c \in S /\ IsFiniteSet(m) /\ IsFiniteSet(n)
  BY <1>2, <1>3, ChosenIn, FS_Subset
<1>5. SumFunctionOnSet(h, n) = SumFunctionOnSet(f, n) + SumFunctionOnSet(g, n)
  BY <1>1, <1>2, <1>4 DEF T
<1>6. /\ SumFunctionOnSet(f, m) = f[c] + SumFunctionOnSet(f, n)
      /\ SumFunctionOnSet(g, m) = g[c] + SumFunctionOnSet(g, n)
      /\ SumFunctionOnSet(h, m) = h[c] + SumFunctionOnSet(h, n)
  BY <1>3, <1>4, SumChosen
<1>7. SumFunctionOnSet(f, n) \in Int /\ SumFunctionOnSet(g, n) \in Int
  BY <1>2, <1>4, SumIsInt
<1>8. f[c] \in Int /\ g[c] \in Int /\ h[c] = f[c] + g[c]
  BY <1>4
<1>9. QED
  BY <1>2, <1>5, <1>6, <1>7, <1>8

\* The sum of multiples is the multiple of the sum.
LEMMA SumScaled ==
  ASSUME NEW S, IsFiniteSet(S), NEW f, NEW g, NEW p \in Int, NEW q \in Int,
         \A x \in S : f[x] \in Int /\ g[x] \in Int /\ g[x] * q = f[x] * p
  PROVE  SumFunctionOnSet(g, S) * q = SumFunctionOnSet(f, S) * p
<1> DEFINE T == {t \in SUBSET S :
                    SumFunctionOnSet(g, t) * q # SumFunctionOnSet(f, t) * p}
<1> SUFFICES ASSUME T # {} PROVE FALSE
  OBVIOUS
<1>0. T \in SUBSET SUBSET S
  OBVIOUS
<1> HIDE DEF T
<1>1. PICK m \in T : \A t \in T : t \subseteq m => t = m
  BY <1>0, LeastSubset
<1>2. /\ m \in SUBSET S
      /\ SumFunctionOnSet(g, m) * q # SumFunctionOnSet(f, m) * p
  BY <1>0, <1>1 DEF T
<1>3. m # {}
  <2>1. SumFunctionOnSet(g, {}) = 0 /\ SumFunctionOnSet(f, {}) = 0
    BY SumOfNone
  <2>2. SumFunctionOnSet(g, {}) * q = SumFunctionOnSet(f, {}) * p
    BY <2>1
  <2>3. QED
    BY <1>2, <2>2
<1> DEFINE c == Chosen(m)
           n == m \ {c}
<1>4. c \in m /\ c \in S /\ IsFiniteSet(m) /\ IsFiniteSet(n)
  BY <1>2, <1>3, ChosenIn, FS_Subset
<1>5. SumFunctionOnSet(g, n) * q = SumFunctionOnSet(f, n) * p
  BY <1>1, <1>2, <1>4 DEF T
<1>6. /\ SumFunctionOnSet(f, m) = f[c] + SumFunctionOnSet(f, n)
      /\ SumFunctionOnSet(g, m) = g[c] + SumFunctionOnSet(g, n)
  BY <1>3, <1>4, SumChosen
<1>7. SumFunctionOnSet(f, n) \in Int /\ SumFunctionOnSet(g, n) \in Int
  BY <1>2, <1>4, SumIsInt
<1>8. f[c] \in Int /\ g[c] \in Int /\ g[c] * q = f[c] * p
  BY <1>4
<1>9. /\ (f[c] + SumFunctionOnSet(f, n)) * p = f[c] * p + SumFunctionOnSet(f, n) * p
      /\ (g[c] + SumFunctionOnSet(g, n)) * q = g[c] * q + SumFunctionOnSet(g, n) * q
  BY <1>7, <1>8
<1>10. QED
  BY <1>2, <1>5, <1>6, <1>8, <1>9

\* Counting is summing ones.
LEMMA SumOfOnes ==
  ASSUME NEW S, IsFiniteSet(S), NEW f, \A x \in S : f[x] = 1
  PROVE  SumFunctionOnSet(f, S) = Cardinality(S)
<1> DEFINE T == {t \in SUBSET S : SumFunctionOnSet(f, t) # Cardinality(t)}
<1> SUFFICES ASSUME T # {} PROVE FALSE
  OBVIOUS
<1>0. T \in SUBSET SUBSET S
  OBVIOUS
<1> HIDE DEF T
<1>1. PICK m \in T : \A t \in T : t \subseteq m => t = m
  BY <1>0, LeastSubset
<1>2. m \in SUBSET S /\ SumFunctionOnSet(f, m) # Cardinality(m)
  BY <1>0, <1>1 DEF T
<1>3. m # {}
  <2>1. SumFunctionOnSet(f, {}) = 0 /\ Cardinality({}) = 0
    BY SumOfNone, FS_EmptySet
  <2>2. QED
    BY <1>2, <2>1
<1> DEFINE c == Chosen(m)
           n == m \ {c}
<1>4. c \in m /\ c \in S /\ IsFiniteSet(m) /\ IsFiniteSet(n)
  BY <1>2, <1>3, ChosenIn, FS_Subset
<1>5. SumFunctionOnSet(f, n) = Cardinality(n)
  BY <1>1, <1>2, <1>4 DEF T
<1>6. SumFunctionOnSet(f, m) = 1 + SumFunctionOnSet(f, n)
  BY <1>3, <1>4, SumChosen
<1>7. Cardinality(n) = Cardinality(m) - 1 /\ Cardinality(m) \in Nat
  BY <1>4, FS_RemoveElement, FS_CardinalityType
<1>8. QED
  BY <1>2, <1>5, <1>6, <1>7

\* What is charged to different accounts, to each at most what it has, is at
\* most what they have together.
LEMMA SumInjected ==
  ASSUME NEW S, IsFiniteSet(S), NEW R, IsFiniteSet(R), NEW f, NEW g, NEW w,
         \A x \in S : g[x] \in R /\ f[x] \in Int /\ f[x] <= w[g[x]],
         \A x \in S, y \in S : g[x] = g[y] => x = y,
         \A y \in R : w[y] \in Nat
  PROVE  SumFunctionOnSet(f, S) <= SumFunctionOnSet(w, R)
<1> DEFINE Image(t) == {g[x] : x \in t}
           T == {t \in SUBSET S :
                    ~ (SumFunctionOnSet(f, t) <= SumFunctionOnSet(w, Image(t)))}
<1>0. T \in SUBSET SUBSET S
  OBVIOUS
<1> HIDE DEF T
<1>1. ASSUME T # {} PROVE FALSE
  <2>1. PICK m \in T : \A t \in T : t \subseteq m => t = m
    BY <1>0, <1>1, LeastSubset
  <2>2. /\ m \in SUBSET S
        /\ ~ (SumFunctionOnSet(f, m) <= SumFunctionOnSet(w, Image(m)))
    BY <1>0, <2>1 DEF T
  <2>3. m # {}
    <3>1. Image({}) = {}
      OBVIOUS
    <3>2. SumFunctionOnSet(f, {}) <= SumFunctionOnSet(w, Image({}))
      BY <3>1, SumOfNone
    <3>3. QED
      BY <2>2, <3>2
  <2> DEFINE c == Chosen(m)
             n == m \ {c}
  <2>4. c \in m /\ c \in S /\ IsFiniteSet(m) /\ IsFiniteSet(n)
    BY <2>2, <2>3, ChosenIn, FS_Subset
  <2>5. SumFunctionOnSet(f, n) <= SumFunctionOnSet(w, Image(n))
    BY <2>1, <2>2, <2>4 DEF T
  <2>6. SumFunctionOnSet(f, m) = f[c] + SumFunctionOnSet(f, n)
    BY <2>3, <2>4, SumChosen
  <2>7. /\ Image(n) \in SUBSET R /\ g[c] \in R /\ g[c] \notin Image(n)
        /\ Image(m) = Image(n) \cup {g[c]}
    <3>1. Image(n) \in SUBSET R /\ g[c] \in R
      BY <2>2, <2>4
    <3>2. g[c] \notin Image(n)
      BY <2>2, <2>4
    <3>3. \A y : y \in Image(m) <=> y \in Image(n) \cup {g[c]}
      BY <2>4
    <3> HIDE DEF Image
    <3>4. QED
      BY <3>1, <3>2, <3>3
  <2>8. IsFiniteSet(Image(n))
    BY <2>7, FS_Subset
  <2>9. SumFunctionOnSet(w, Image(n) \cup {g[c]}) =
            w[g[c]] + SumFunctionOnSet(w, Image(n))
    <3>1. \A y \in Image(n) \cup {g[c]} : w[y] \in Int
      BY <2>7
    <3> HIDE DEF Image
    <3>2. QED
      BY <2>7, <2>8, <3>1, SumAdd
  <2>10. SumFunctionOnSet(w, Image(n)) \in Int
    <3>1. \A y \in Image(n) : w[y] \in Int
      BY <2>7
    <3> HIDE DEF Image
    <3>2. QED
      BY <2>8, <3>1, SumIsInt
  <2>11. SumFunctionOnSet(f, n) \in Int
    BY <2>2, <2>4, SumIsInt
  <2>12. f[c] \in Int /\ f[c] <= w[g[c]] /\ w[g[c]] \in Int
    BY <2>4
  <2>13. SumFunctionOnSet(w, Image(m)) = w[g[c]] + SumFunctionOnSet(w, Image(n))
    BY <2>7, <2>9
  <2> HIDE DEF Image, n, c
  <2>14. QED
    BY <2>2, <2>5, <2>6, <2>10, <2>11, <2>12, <2>13
<1>2. SumFunctionOnSet(f, S) <= SumFunctionOnSet(w, Image(S))
  BY <1>1 DEF T
<1>3. Image(S) \in SUBSET R
  OBVIOUS
<1> HIDE DEF Image
<1>4. SumFunctionOnSet(w, Image(S)) <= SumFunctionOnSet(w, R)
  BY <1>3, SumGrows
<1>5. IsFiniteSet(Image(S))
  BY <1>3, FS_Subset
<1>6. SumFunctionOnSet(f, S) \in Int
  BY SumIsInt
<1>7. SumFunctionOnSet(w, Image(S)) \in Int /\ SumFunctionOnSet(w, R) \in Int
  BY <1>3, <1>5, SumIsInt
<1>8. QED
  BY <1>2, <1>4, <1>6, <1>7

\* A finite set of numbers has a largest.
LEMMA LargestExists ==
  ASSUME NEW S, IsFiniteSet(S), S # {}, \A x \in S : x \in Int
  PROVE  \E x \in S : \A y \in S : y <= x
<1> DEFINE Bad(t) == t # {} /\ ~ \E x \in t : \A y \in t : y <= x
           T == {t \in SUBSET S : Bad(t)}
<1> HIDE DEF Bad
<1> SUFFICES ASSUME T # {} PROVE FALSE
  BY DEF Bad
<1>0. T \in SUBSET SUBSET S
  OBVIOUS
<1> HIDE DEF T
<1>1. PICK m \in T : \A t \in T : t \subseteq m => t = m
  BY <1>0, LeastSubset
<1> USE DEF Bad
<1>2. /\ m \in SUBSET S /\ m # {}
      /\ ~ \E x \in m : \A y \in m : y <= x
  BY <1>0, <1>1 DEF T
<1>3. PICK c \in m : TRUE
  BY <1>2
<1>4. CASE m \ {c} = {}
  BY <1>2, <1>3, <1>4
<1>5. CASE m \ {c} # {}
  <2>1. m \ {c} \notin T
    BY <1>1, <1>3
  <2>2. PICK x \in m \ {c} : \A y \in m \ {c} : y <= x
    BY <1>2, <1>5, <2>1 DEF T
  <2>3. x \in Int /\ c \in Int
    BY <1>2, <1>3, <2>2
  <2>4. CASE c <= x
    BY <1>2, <2>2, <2>3, <2>4
  <2>5. CASE x < c
    <3>1. \A y \in m : y <= c
      BY <1>2, <2>2, <2>3, <2>5
    <3>2. QED
      BY <1>2, <1>3, <3>1
  <2>6. QED
    BY <2>3, <2>4, <2>5
<1>6. QED
  BY <1>4, <1>5
=============================================================================
