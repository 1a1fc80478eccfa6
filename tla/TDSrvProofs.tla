------------------------------ MODULE TDSrvProofs ------------------------------
(***************************************************************************)
(* Proofs about TDSrv, for every number of accounts, orders and risk       *)
(* control modules, every start of the positions and every length of the   *)
(* queues: sums, then the orders without an answer, then what the trade    *)
(* server's copies of the orders say.                                      *)
(***************************************************************************)
EXTENDS TDSrv, FiniteSetTheorems, TLAPS

-----------------------------------------------------------------------------
(***************************************************************************)
(* What the sum of a function over a finite set obeys: it is 0 over the    *)
(* empty set, an element may be taken out of it in any order, and it       *)
(* depends on the elements only.  Proofs by induction go over the least    *)
(* number of elements there is a counterexample of.                        *)
(***************************************************************************)
Total(f, S) == FoldFunctionOnSet(+, 0, f, S)

LEMMA LeastOf ==
  ASSUME NEW B, B \subseteq Nat, B # {}
  PROVE  \E n \in B : \A m \in B : n <= m
<1> DEFINE R == OpToRel(<, Nat)
<1>1. IsWellFoundedOn(R, Nat)
  BY NatLessThanWellFounded, Zenon
<1>2. ASSUME NEW m \in Nat, NEW n \in Nat, m < n PROVE <<m, n>> \in R
  BY <1>2 DEF OpToRel
<1> HIDE DEF R
<1>3. PICK n \in B : \A m \in B : ~(<<m, n>> \in R)
  BY <1>1, WFMin
<1>4. ASSUME NEW m \in B PROVE n <= m
  <2>1. ~(m < n)
    BY <1>2, <1>3
  <2> QED BY <2>1
<1> QED BY <1>4

\* How the fold goes through a set, as a function on its subsets.
Pick(s) == CHOOSE x \in s : TRUE
Adds(g, f, C) == g = [s \in C |-> IF s = {} THEN 0 ELSE f[Pick(s)] + g[s \ {Pick(s)}]]
UpTo(S, n) == {s \in SUBSET S : Cardinality(s) <= n}

LEMMA TotalIs == ASSUME NEW f, NEW S PROVE Total(f, S) = (CHOOSE g : Adds(g, f, SUBSET S))[S]
BY DEF Total, FoldFunctionOnSet, MapThenFoldSet, Adds, Pick

LEMMA PickOne ==
  ASSUME NEW S, IsFiniteSet(S), NEW s \in SUBSET S, s # {}
  PROVE  /\ Pick(s) \in s
         /\ \A x \in s : /\ s \ {x} \in SUBSET S /\ IsFiniteSet(s \ {x})
                         /\ Cardinality(s) \in Nat \ {0} /\ Cardinality(s \ {x}) = Cardinality(s) - 1
<1>1. Pick(s) \in s
  BY DEF Pick
<1>2. IsFiniteSet(s)
  BY FS_Subset
<1>3. ASSUME NEW x \in s
      PROVE  /\ s \ {x} \in SUBSET S /\ IsFiniteSet(s \ {x})
             /\ Cardinality(s) \in Nat \ {0} /\ Cardinality(s \ {x}) = Cardinality(s) - 1
  <2>1. IsFiniteSet(s \ {x}) /\ Cardinality(s \ {x}) = Cardinality(s) - 1
    BY <1>2, FS_RemoveElement
  <2>2. Cardinality(s) \in Nat /\ Cardinality(s \ {x}) \in Nat
    BY <1>2, <2>1, FS_CardinalityType
  <2> QED BY <2>1, <2>2
<1> QED BY <1>1, <1>3

\* There is such a function, and it is unique.
LEMMA AddsUpTo ==
  ASSUME NEW f, NEW S, IsFiniteSet(S)
  PROVE  \A n \in Nat : \E g : Adds(g, f, UpTo(S, n))
<1> DEFINE Bad == {n \in Nat : ~\E g : Adds(g, f, UpTo(S, n))}
<1> SUFFICES ASSUME Bad # {} PROVE FALSE
  OBVIOUS
<1>1. PICK n \in Bad : \A m \in Bad : n <= m
  BY LeastOf
<1>2. CASE n = 0
  <2> DEFINE g == [s \in UpTo(S, 0) |-> 0]
  <2>1. \A s \in UpTo(S, 0) : s = {}
    BY FS_Subset, FS_EmptySet, FS_CardinalityType DEF UpTo
  <2>2. Adds(g, f, UpTo(S, 0))
    BY <2>1 DEF Adds
  <2> QED BY <1>1, <1>2, <2>2
<1>3. CASE n # 0
  <2>1. n - 1 \in Nat /\ n - 1 \notin Bad
    BY <1>1, <1>3
  <2>2. PICK g : Adds(g, f, UpTo(S, n - 1))
    BY <2>1
  <2> DEFINE h == [s \in UpTo(S, n) |-> IF s = {} THEN 0 ELSE f[Pick(s)] + g[s \ {Pick(s)}]]
  <2>3. \A s \in UpTo(S, n) : s # {} => s \ {Pick(s)} \in UpTo(S, n - 1) /\ s \ {Pick(s)} \in UpTo(S, n)
    <3> SUFFICES ASSUME NEW s \in UpTo(S, n), s # {}
                 PROVE  s \ {Pick(s)} \in UpTo(S, n - 1) /\ s \ {Pick(s)} \in UpTo(S, n)
      OBVIOUS
    <3>1. /\ Pick(s) \in s /\ s \ {Pick(s)} \in SUBSET S /\ Cardinality(s) \in Nat \ {0}
          /\ Cardinality(s \ {Pick(s)}) = Cardinality(s) - 1 /\ Cardinality(s) <= n
      BY PickOne DEF UpTo
    <3>2. n \in Nat
      BY <1>1
    <3> QED BY <3>1, <3>2 DEF UpTo
  <2>4. \A s \in UpTo(S, n - 1) : s \in UpTo(S, n) /\ h[s] = g[s]
    <3>1. \A s \in UpTo(S, n - 1) : s \in UpTo(S, n)
      <4>1. \A s \in SUBSET S : Cardinality(s) \in Nat
        BY FS_Subset, FS_CardinalityType
      <4> QED BY <1>1, <4>1 DEF UpTo
    <3>2. \A s \in UpTo(S, n - 1) : g[s] = IF s = {} THEN 0 ELSE f[Pick(s)] + g[s \ {Pick(s)}]
      BY <2>2 DEF Adds
    <3> QED BY <3>1, <3>2
  <2> HIDE DEF h
  <2>5. h = [s \in UpTo(S, n) |-> IF s = {} THEN 0 ELSE f[Pick(s)] + h[s \ {Pick(s)}]]
    <3>1. \A s \in UpTo(S, n) :
            (IF s = {} THEN 0 ELSE f[Pick(s)] + g[s \ {Pick(s)}])
              = (IF s = {} THEN 0 ELSE f[Pick(s)] + h[s \ {Pick(s)}])
      BY <2>3, <2>4
    <3> QED BY <3>1 DEF h
  <2>6. Adds(h, f, UpTo(S, n))
    BY <2>5 DEF Adds
  <2> QED BY <1>1, <2>6
<1> QED BY <1>2, <1>3

LEMMA AddsAll ==
  ASSUME NEW f, NEW S, IsFiniteSet(S)
  PROVE  \E g : Adds(g, f, SUBSET S)
<1>1. Cardinality(S) \in Nat
  BY FS_CardinalityType
<1>2. UpTo(S, Cardinality(S)) = SUBSET S
  BY FS_Subset DEF UpTo
<1>3. \E g : Adds(g, f, UpTo(S, Cardinality(S)))
  BY <1>1, AddsUpTo
<1> QED BY <1>2, <1>3

LEMMA AddsSame ==
  ASSUME NEW f, NEW g, NEW h, NEW e, NEW S, NEW T, IsFiniteSet(S), S \subseteq T, IsFiniteSet(T),
         Adds(g, f, SUBSET S), Adds(h, e, SUBSET T), \A x \in S : e[x] = f[x]
  PROVE  \A s \in SUBSET S : g[s] = h[s]
<1> DEFINE Bad == {n \in Nat : \E s \in SUBSET S : g[s] # h[s] /\ Cardinality(s) = n}
<1>1. ASSUME NEW s \in SUBSET S, g[s] # h[s] PROVE Cardinality(s) \in Bad
  BY <1>1, FS_Subset, FS_CardinalityType
<1> SUFFICES ASSUME Bad # {} PROVE FALSE
  BY <1>1
<1>2. PICK n \in Bad : \A m \in Bad : n <= m
  BY LeastOf
<1>3. PICK s \in SUBSET S : g[s] # h[s] /\ Cardinality(s) = n
  BY <1>2
<1>4. /\ g[s] = IF s = {} THEN 0 ELSE f[Pick(s)] + g[s \ {Pick(s)}]
      /\ h[s] = IF s = {} THEN 0 ELSE e[Pick(s)] + h[s \ {Pick(s)}]
  BY <1>3 DEF Adds
<1>5. s # {}
  BY <1>3, <1>4
<1>6. /\ Pick(s) \in s /\ s \ {Pick(s)} \in SUBSET S
      /\ Cardinality(s) \in Nat \ {0} /\ Cardinality(s \ {Pick(s)}) = Cardinality(s) - 1
  BY <1>5, PickOne
<1>7. g[s \ {Pick(s)}] = h[s \ {Pick(s)}]
  <2>1. n - 1 \notin Bad
    BY <1>2, <1>3, <1>6
  <2>2. Cardinality(s \ {Pick(s)}) = n - 1
    BY <1>3, <1>6
  <2> QED BY <1>1, <1>6, <2>1, <2>2
<1>8. f[Pick(s)] = e[Pick(s)]
  BY <1>6
<1> QED BY <1>3, <1>4, <1>5, <1>7, <1>8

\* The sum by any function that goes through the set as the fold does.
LEMMA TotalByAny ==
  ASSUME NEW f, NEW S, IsFiniteSet(S), NEW T, IsFiniteSet(T), S \subseteq T,
         NEW h, NEW e, Adds(h, e, SUBSET T), \A x \in S : e[x] = f[x]
  PROVE  Total(f, S) = h[S]
<1> DEFINE g == CHOOSE x : Adds(x, f, SUBSET S)
<1>1. Adds(g, f, SUBSET S)
  BY AddsAll
<1>2. Total(f, S) = g[S]
  BY TotalIs
<1> HIDE DEF g
<1>3. g[S] = h[S]
  BY <1>1, AddsSame
<1> QED BY <1>2, <1>3

LEMMA AddsInt ==
  ASSUME NEW f, NEW S, IsFiniteSet(S), \A x \in S : f[x] \in Int, NEW g, Adds(g, f, SUBSET S)
  PROVE  \A s \in SUBSET S : g[s] \in Int
<1> DEFINE Bad == {n \in Nat : \E s \in SUBSET S : g[s] \notin Int /\ Cardinality(s) = n}
<1>1. ASSUME NEW s \in SUBSET S, g[s] \notin Int PROVE Cardinality(s) \in Bad
  BY <1>1, FS_Subset, FS_CardinalityType
<1> SUFFICES ASSUME Bad # {} PROVE FALSE
  BY <1>1
<1>2. PICK n \in Bad : \A m \in Bad : n <= m
  BY LeastOf
<1>3. PICK s \in SUBSET S : g[s] \notin Int /\ Cardinality(s) = n
  BY <1>2
<1>4. g[s] = IF s = {} THEN 0 ELSE f[Pick(s)] + g[s \ {Pick(s)}]
  BY DEF Adds
<1>5. s # {}
  BY <1>3, <1>4
<1>6. /\ Pick(s) \in s /\ s \ {Pick(s)} \in SUBSET S
      /\ Cardinality(s) \in Nat \ {0} /\ Cardinality(s \ {Pick(s)}) = Cardinality(s) - 1
  BY <1>5, PickOne
<1>7. g[s \ {Pick(s)}] \in Int
  <2>1. n - 1 \notin Bad
    BY <1>2, <1>3, <1>6
  <2>2. Cardinality(s \ {Pick(s)}) = n - 1
    BY <1>3, <1>6
  <2> QED BY <1>1, <1>6, <2>1, <2>2
<1>8. f[Pick(s)] \in Int
  BY <1>6
<1> QED BY <1>3, <1>4, <1>5, <1>7, <1>8

\* The order of the elements does not matter.
LEMMA AddsAnyOrder ==
  ASSUME NEW f, NEW S, IsFiniteSet(S), \A x \in S : f[x] \in Int, NEW g, Adds(g, f, SUBSET S)
  PROVE  \A s \in SUBSET S : \A x \in s : g[s] = f[x] + g[s \ {x}]
<1> DEFINE Bad == {n \in Nat : \E s \in SUBSET S : /\ \E x \in s : g[s] # f[x] + g[s \ {x}]
                                                  /\ Cardinality(s) = n}
<1>1. ASSUME NEW s \in SUBSET S, NEW x \in s, g[s] # f[x] + g[s \ {x}] PROVE Cardinality(s) \in Bad
  BY <1>1, FS_Subset, FS_CardinalityType
<1> SUFFICES ASSUME Bad # {} PROVE FALSE
  BY <1>1
<1>2. PICK n \in Bad : \A m \in Bad : n <= m
  BY LeastOf
<1>3. PICK s \in SUBSET S : /\ \E x \in s : g[s] # f[x] + g[s \ {x}]
                            /\ Cardinality(s) = n
  BY <1>2
<1>4. PICK x \in s : g[s] # f[x] + g[s \ {x}]
  BY <1>3
<1> DEFINE c == Pick(s)
<1>5. g[s] = f[c] + g[s \ {c}]
  BY <1>4 DEF Adds
<1>6. /\ c \in s /\ s \ {c} \in SUBSET S /\ s \ {x} \in SUBSET S /\ Cardinality(s) \in Nat \ {0}
      /\ Cardinality(s \ {c}) = n - 1 /\ Cardinality(s \ {x}) = n - 1
  <2>1. s # {}
    BY <1>4
  <2>2. /\ c \in s
        /\ \A y \in s : /\ s \ {y} \in SUBSET S
                        /\ Cardinality(s) \in Nat \ {0} /\ Cardinality(s \ {y}) = Cardinality(s) - 1
    BY <2>1, PickOne
  <2> HIDE DEF c
  <2> QED BY <1>3, <1>4, <2>2
<1> HIDE DEF c
<1>7. c # x
  BY <1>4, <1>5
<1>8. n - 1 \notin Bad
  BY <1>2, <1>3, <1>6
<1>9. g[s \ {c}] = f[x] + g[(s \ {c}) \ {x}]
  <2>1. x \in s \ {c}
    BY <1>4, <1>7
  <2> QED BY <1>1, <1>6, <1>8, <2>1
<1>10. g[s \ {x}] = f[c] + g[(s \ {x}) \ {c}]
  <2>1. c \in s \ {x}
    BY <1>6, <1>7
  <2> QED BY <1>1, <1>6, <1>8, <2>1
<1>11. (s \ {c}) \ {x} = (s \ {x}) \ {c} /\ (s \ {c}) \ {x} \in SUBSET S
  OBVIOUS
<1>12. g[(s \ {c}) \ {x}] \in Int /\ f[c] \in Int /\ f[x] \in Int
  BY <1>6, <1>11, AddsInt
<1> DEFINE A == g[(s \ {c}) \ {x}]
<1>13. A \in Int /\ g[s] = f[c] + (f[x] + A)
  BY <1>5, <1>9, <1>12
<1>14. g[s \ {x}] = f[c] + A
  BY <1>10, <1>11
<1> HIDE DEF A
<1>15. g[s] = f[x] + g[s \ {x}]
  BY <1>12, <1>13, <1>14
<1> QED BY <1>4, <1>15

-----------------------------------------------------------------------------
LEMMA TotalEmpty == ASSUME NEW f PROVE Total(f, {}) = 0
<1>1. IsFiniteSet({})
  BY FS_EmptySet
<1>2. PICK g : Adds(g, f, SUBSET {})
  BY <1>1, AddsAll
<1>3. Total(f, {}) = g[{}]
  BY <1>1, <1>2, TotalByAny
<1> QED BY <1>2, <1>3 DEF Adds

LEMMA TotalInt ==
  ASSUME NEW f, NEW S, IsFiniteSet(S), \A x \in S : f[x] \in Int
  PROVE  Total(f, S) \in Int
<1>1. PICK g : Adds(g, f, SUBSET S)
  BY AddsAll
<1>2. Total(f, S) = g[S]
  BY <1>1, TotalByAny
<1>3. g[S] \in Int
  BY <1>1, AddsInt
<1> QED BY <1>2, <1>3

LEMMA TotalWithout ==
  ASSUME NEW f, NEW S, IsFiniteSet(S), \A x \in S : f[x] \in Int, NEW x \in S
  PROVE  Total(f, S) = f[x] + Total(f, S \ {x}) /\ Total(f, S \ {x}) \in Int
<1>1. PICK g : Adds(g, f, SUBSET S)
  BY AddsAll
<1>2. IsFiniteSet(S \ {x})
  BY FS_RemoveElement
<1>3. Total(f, S) = g[S] /\ Total(f, S \ {x}) = g[S \ {x}]
  BY <1>1, <1>2, TotalByAny
<1>4. g[S] = f[x] + g[S \ {x}]
  BY <1>1, AddsAnyOrder
<1>5. Total(f, S \ {x}) \in Int
  BY <1>2, TotalInt
<1> QED BY <1>3, <1>4, <1>5

LEMMA TotalSame ==
  ASSUME NEW f, NEW e, NEW S, IsFiniteSet(S), \A x \in S : f[x] = e[x]
  PROVE  Total(f, S) = Total(e, S)
<1>1. PICK g : Adds(g, e, SUBSET S)
  BY AddsAll
<1>2. Total(f, S) = g[S]
  BY <1>1, TotalByAny
<1>3. Total(e, S) = g[S]
  BY <1>1, TotalByAny
<1> QED BY <1>2, <1>3

\* One element changes, or comes, or goes: e is f but at x, and T is S but for x.
LEMMA TotalChanges ==
  ASSUME NEW f, NEW e, NEW S, NEW T, IsFiniteSet(S), IsFiniteSet(T), NEW x,
         S \ {x} = T \ {x}, \A y \in S : f[y] \in Int, \A y \in T : e[y] \in Int,
         \A y \in S \ {x} : e[y] = f[y]
  PROVE  /\ Total(e, T) = Total(f, S) + (IF x \in T THEN e[x] ELSE 0) - (IF x \in S THEN f[x] ELSE 0)
         /\ Total(e, T) \in Int /\ Total(f, S) \in Int
<1> DEFINE U == S \ {x}
<1>1. IsFiniteSet(U)
  BY FS_Subset
<1>2. Total(f, U) = Total(e, U) /\ Total(f, U) \in Int
  BY <1>1, TotalSame, TotalInt
<1>3. Total(f, S) = Total(f, U) + (IF x \in S THEN f[x] ELSE 0)
  <2>1. CASE x \in S
    BY <1>2, <2>1, TotalWithout
  <2>2. CASE x \notin S
    <3>1. U = S
      BY <2>2
    <3>2. Total(f, S) = Total(f, U) /\ Total(f, U) \in Int
      BY <1>2, <3>1
    <3>3. (IF x \in S THEN f[x] ELSE 0) = 0
      BY <2>2
    <3> QED BY <3>2, <3>3
  <2> QED BY <2>1, <2>2
<1>4. Total(e, T) = Total(e, U) + (IF x \in T THEN e[x] ELSE 0)
  <2>1. CASE x \in T
    BY <1>2, <2>1, TotalWithout
  <2>2. CASE x \notin T
    <3>1. U = T
      BY <2>2
    <3>2. Total(e, T) = Total(e, U) /\ Total(e, U) \in Int
      BY <1>2, <3>1
    <3>3. (IF x \in T THEN e[x] ELSE 0) = 0
      BY <2>2
    <3> QED BY <3>2, <3>3
  <2> QED BY <2>1, <2>2
<1>5. (x \in S => f[x] \in Int) /\ (x \in T => e[x] \in Int)
  OBVIOUS
<1> QED BY <1>2, <1>3, <1>4, <1>5

LEMMA TotalBounds ==
  ASSUME NEW f, NEW e, NEW S, IsFiniteSet(S),
         \A x \in S : f[x] \in Int /\ e[x] \in Int /\ f[x] <= e[x]
  PROVE  Total(f, S) <= Total(e, S)
<1> DEFINE Bad == {n \in Nat : \E s \in SUBSET S : /\ ~(Total(f, s) <= Total(e, s))
                                                  /\ Cardinality(s) = n}
<1>1. ASSUME NEW s \in SUBSET S, ~(Total(f, s) <= Total(e, s)) PROVE Cardinality(s) \in Bad
  BY <1>1, FS_Subset, FS_CardinalityType
<1> SUFFICES ASSUME Bad # {} PROVE FALSE
  BY <1>1
<1>2. PICK n \in Bad : \A m \in Bad : n <= m
  BY LeastOf
<1>3. PICK s \in SUBSET S : ~(Total(f, s) <= Total(e, s)) /\ Cardinality(s) = n
  BY <1>2
<1>4. s # {}
  BY <1>3, TotalEmpty
<1>5. PICK x \in s : TRUE
  BY <1>4
<1>6. /\ s \ {x} \in SUBSET S /\ Cardinality(s) \in Nat \ {0}
      /\ Cardinality(s \ {x}) = Cardinality(s) - 1 /\ IsFiniteSet(s)
  BY <1>4, PickOne, FS_Subset
<1>7. Total(f, s \ {x}) <= Total(e, s \ {x})
  <2>1. n - 1 \notin Bad
    BY <1>2, <1>3, <1>6
  <2>2. Cardinality(s \ {x}) = n - 1
    BY <1>3, <1>6
  <2> QED BY <1>1, <1>6, <2>1, <2>2
<1>8. /\ Total(f, s) = f[x] + Total(f, s \ {x}) /\ Total(f, s \ {x}) \in Int
      /\ Total(e, s) = e[x] + Total(e, s \ {x}) /\ Total(e, s \ {x}) \in Int
  <2>1. (\A y \in s : f[y] \in Int) /\ \A y \in s : e[y] \in Int
    BY <1>3
  <2>2. Total(f, s) = f[x] + Total(f, s \ {x}) /\ Total(f, s \ {x}) \in Int
    BY <1>5, <1>6, <2>1, TotalWithout
  <2>3. Total(e, s) = e[x] + Total(e, s \ {x}) /\ Total(e, s \ {x}) \in Int
    BY <1>5, <1>6, <2>1, TotalWithout
  <2> QED BY <2>2, <2>3
<1>9. f[x] \in Int /\ e[x] \in Int /\ f[x] <= e[x]
  BY <1>5
<1> QED BY <1>3, <1>7, <1>8, <1>9

\* The sum of a sum of functions.
LEMMA TotalAdd ==
  ASSUME NEW f, NEW e, NEW h, NEW S, IsFiniteSet(S),
         \A x \in S : f[x] \in Int /\ e[x] \in Int /\ h[x] = f[x] + e[x]
  PROVE  Total(h, S) = Total(f, S) + Total(e, S)
<1> DEFINE Bad == {n \in Nat : \E s \in SUBSET S : /\ Total(h, s) # Total(f, s) + Total(e, s)
                                                  /\ Cardinality(s) = n}
<1>1. ASSUME NEW s \in SUBSET S, Total(h, s) # Total(f, s) + Total(e, s) PROVE Cardinality(s) \in Bad
  BY <1>1, FS_Subset, FS_CardinalityType
<1> SUFFICES ASSUME Bad # {} PROVE FALSE
  BY <1>1
<1>2. PICK n \in Bad : \A m \in Bad : n <= m
  BY LeastOf
<1>3. PICK s \in SUBSET S : Total(h, s) # Total(f, s) + Total(e, s) /\ Cardinality(s) = n
  BY <1>2
<1>4. s # {}
  <2>1. Total(h, {}) = 0 /\ Total(f, {}) = 0 /\ Total(e, {}) = 0
    BY TotalEmpty
  <2>2. Total(h, {}) = Total(f, {}) + Total(e, {})
    BY <2>1
  <2>3. Total(h, s) # Total(f, s) + Total(e, s)
    BY <1>3
  <2> HIDE DEF Bad
  <2> QED BY <2>2, <2>3, Zenon
<1>5. PICK x \in s : TRUE
  BY <1>4
<1>6. /\ s \ {x} \in SUBSET S /\ Cardinality(s) \in Nat \ {0}
      /\ Cardinality(s \ {x}) = Cardinality(s) - 1 /\ IsFiniteSet(s)
  BY <1>4, PickOne, FS_Subset
<1>7. Total(h, s \ {x}) = Total(f, s \ {x}) + Total(e, s \ {x})
  <2>1. n - 1 \notin Bad
    BY <1>2, <1>3, <1>6
  <2>2. Cardinality(s \ {x}) = n - 1
    BY <1>3, <1>6
  <2> QED BY <1>1, <1>6, <2>1, <2>2
<1>8. /\ Total(f, s) = f[x] + Total(f, s \ {x}) /\ Total(f, s \ {x}) \in Int
      /\ Total(e, s) = e[x] + Total(e, s \ {x}) /\ Total(e, s \ {x}) \in Int
      /\ Total(h, s) = h[x] + Total(h, s \ {x})
  <2>1. (\A y \in s : f[y] \in Int) /\ (\A y \in s : e[y] \in Int) /\ \A y \in s : h[y] \in Int
    BY <1>3
  <2>2. Total(f, s) = f[x] + Total(f, s \ {x}) /\ Total(f, s \ {x}) \in Int
    BY <1>5, <1>6, <2>1, TotalWithout
  <2>3. Total(e, s) = e[x] + Total(e, s \ {x}) /\ Total(e, s \ {x}) \in Int
    BY <1>5, <1>6, <2>1, TotalWithout
  <2>4. Total(h, s) = h[x] + Total(h, s \ {x})
    BY <1>5, <1>6, <2>1, TotalWithout
  <2> QED BY <2>2, <2>3, <2>4
<1>9. f[x] \in Int /\ e[x] \in Int /\ h[x] = f[x] + e[x]
  BY <1>5
<1> QED BY <1>3, <1>7, <1>8, <1>9

\* What is 0 adds nothing: the sum over a part is one over the whole.
LEMMA TotalWhole ==
  ASSUME NEW f, NEW e, NEW S, NEW T, IsFiniteSet(T), S \subseteq T,
         \A x \in S : f[x] \in Int /\ e[x] = f[x], \A x \in T \ S : e[x] = 0
  PROVE  Total(f, S) = Total(e, T)
<1> DEFINE Bad == {n \in Nat : \E s \in SUBSET (T \ S) : /\ Total(e, S \cup s) # Total(f, S)
                                                        /\ Cardinality(s) = n}
<1>0. IsFiniteSet(T \ S) /\ IsFiniteSet(S)
  BY FS_Subset
<1>1. ASSUME NEW s \in SUBSET (T \ S), Total(e, S \cup s) # Total(f, S) PROVE Cardinality(s) \in Bad
  BY <1>0, <1>1, FS_Subset, FS_CardinalityType
<1> SUFFICES ASSUME Bad # {} PROVE FALSE
  <2>1. T \ S \in SUBSET (T \ S) /\ S \cup (T \ S) = T
    OBVIOUS
  <2> QED BY <1>1, <2>1
<1>2. PICK n \in Bad : \A m \in Bad : n <= m
  BY LeastOf
<1>3. PICK s \in SUBSET (T \ S) : Total(e, S \cup s) # Total(f, S) /\ Cardinality(s) = n
  BY <1>2
<1>4. s # {}
  <2>1. Total(e, S) = Total(f, S)
    BY <1>0, TotalSame
  <2>2. S \cup {} = S
    OBVIOUS
  <2> QED BY <1>3, <2>1, <2>2
<1>5. PICK x \in s : TRUE
  BY <1>4
<1>6. /\ s \ {x} \in SUBSET (T \ S) /\ Cardinality(s) \in Nat \ {0}
      /\ Cardinality(s \ {x}) = Cardinality(s) - 1
  BY <1>0, <1>4, PickOne
<1>7. Total(e, S \cup (s \ {x})) = Total(f, S)
  <2>0. n \in Nat /\ ~(n <= n - 1)
    BY <1>2
  <2>1. n - 1 \notin Bad
    BY <1>2, <2>0
  <2>2. Cardinality(s \ {x}) = n - 1
    BY <1>3, <1>6
  <2> QED BY <1>1, <1>6, <2>1, <2>2
<1>8. Total(e, S \cup s) = e[x] + Total(e, S \cup (s \ {x})) /\ Total(e, S \cup (s \ {x})) \in Int
  <2>1. S \cup (s \ {x}) = (S \cup s) \ {x} /\ x \in S \cup s /\ S \cup s \subseteq T
    BY <1>3, <1>5
  <2>2. IsFiniteSet(S \cup s)
    BY <2>1, FS_Subset
  <2>3. \A y \in S \cup s : e[y] \in Int
    BY <1>3
  <2>4. /\ Total(e, S \cup s) = e[x] + Total(e, (S \cup s) \ {x})
        /\ Total(e, (S \cup s) \ {x}) \in Int
    BY <2>1, <2>2, <2>3, TotalWithout
  <2> QED BY <2>1, <2>4
<1>9. e[x] = 0
  BY <1>3, <1>5
<1> QED BY <1>3, <1>7, <1>8, <1>9

-----------------------------------------------------------------------------
(***************************************************************************)
(* Every order without an answer is on its way.                            *)
(***************************************************************************)
Kinds == {"order", "cancel", "ret"}
Message == [kind : Kinds, order : OrderInTDSrv, lastDealSize : Int]
IsMsg(m, kind, id) == m.kind = kind /\ m.order.orderId = id

-----------------------------------------------------------------------------
\* Queues: what is in one that a message enters or leaves.
LEMMA Entered ==
  ASSUME NEW q \in Seq(Message), NEW m \in Message
  PROVE  /\ Append(q, m) \in Seq(Message) /\ Len(Append(q, m)) = Len(q) + 1
         /\ DOMAIN Append(q, m) = 1 .. Len(q) + 1 /\ DOMAIN q = 1 .. Len(q) /\ Len(q) \in Nat
         /\ \A i \in DOMAIN q : i \in DOMAIN Append(q, m) /\ Append(q, m)[i] = q[i]
         /\ Append(q, m)[Len(q) + 1] = m
         /\ \A i \in DOMAIN Append(q, m) : i \in DOMAIN q \/ i = Len(q) + 1
<1>1. /\ Append(q, m) \in Seq(Message) /\ Len(Append(q, m)) = Len(q) + 1
      /\ DOMAIN Append(q, m) = 1 .. Len(q) + 1 /\ DOMAIN q = 1 .. Len(q) /\ Len(q) \in Nat
      /\ \A i \in 1 .. Len(q) : Append(q, m)[i] = q[i]
      /\ Append(q, m)[Len(q) + 1] = m
  OBVIOUS
<1> QED BY <1>1

LEMMA Left ==
  ASSUME NEW q \in Seq(Message), q # << >>
  PROVE  /\ Tail(q) \in Seq(Message) /\ Len(Tail(q)) = Len(q) - 1 /\ Len(q) \in Nat \ {0}
         /\ DOMAIN Tail(q) = 1 .. Len(q) - 1 /\ DOMAIN q = 1 .. Len(q)
         /\ Head(q) = q[1] /\ 1 \in DOMAIN q /\ Head(q) \in Message
         /\ \A i \in DOMAIN Tail(q) : i + 1 \in DOMAIN q /\ Tail(q)[i] = q[i + 1]
         /\ \A i \in DOMAIN q : i = 1 \/ (i - 1 \in DOMAIN Tail(q) /\ Tail(q)[i - 1] = q[i])
<1>1. /\ Tail(q) \in Seq(Message) /\ Len(Tail(q)) = Len(q) - 1 /\ Len(q) \in Nat \ {0}
      /\ DOMAIN Tail(q) = 1 .. Len(q) - 1 /\ DOMAIN q = 1 .. Len(q)
      /\ Head(q) = q[1] /\ 1 \in DOMAIN q
      /\ \A i \in 1 .. Len(q) - 1 : Tail(q)[i] = q[i + 1]
  OBVIOUS
<1>2. \A i \in DOMAIN q : i = 1 \/ (i - 1 \in DOMAIN Tail(q) /\ Tail(q)[i - 1] = q[i])
  <2> SUFFICES ASSUME NEW i \in DOMAIN q, i # 1
               PROVE  i - 1 \in DOMAIN Tail(q) /\ Tail(q)[i - 1] = q[i]
    OBVIOUS
  <2>1. i \in Nat /\ i - 1 \in 1 .. Len(q) - 1 /\ (i - 1) + 1 = i
    BY <1>1
  <2> QED BY <1>1, <2>1
<1>3. \A i \in DOMAIN Tail(q) : i + 1 \in DOMAIN q
  BY <1>1
<1>4. Head(q) \in Message
  BY <1>1
<1> QED BY <1>1, <1>2, <1>3, <1>4

LEMMA InEntered ==
  ASSUME NEW q \in Seq(Message), NEW m \in Message, NEW k, NEW id
  PROVE  IsIn(Append(q, m), k, id) <=> IsIn(q, k, id) \/ IsMsg(m, k, id)
BY Entered DEF IsIn, IsMsg

LEMMA InLeft ==
  ASSUME NEW q \in Seq(Message), q # << >>, NEW k, NEW id
  PROVE  /\ IsIn(q, k, id) <=> IsIn(Tail(q), k, id) \/ IsMsg(Head(q), k, id)
         /\ Head(q) \in Message
<1>1. ASSUME NEW i \in DOMAIN q, IsMsg(q[i], k, id)
      PROVE  IsIn(Tail(q), k, id) \/ IsMsg(Head(q), k, id)
  <2>1. i = 1 \/ (i - 1 \in DOMAIN Tail(q) /\ Tail(q)[i - 1] = q[i])
    BY Left
  <2>2. Head(q) = q[1]
    BY Left
  <2> QED BY <1>1, <2>1, <2>2 DEF IsIn, IsMsg
<1>2. IsIn(Tail(q), k, id) => IsIn(q, k, id)
  BY Left DEF IsIn
<1>3. IsMsg(Head(q), k, id) => IsIn(q, k, id)
  BY Left DEF IsIn, IsMsg
<1>4. IsIn(q, k, id) => \E i \in DOMAIN q : IsMsg(q[i], k, id)
  BY DEF IsIn, IsMsg
<1>5. Head(q) \in Message
  BY Left
<1> QED BY <1>1, <1>2, <1>3, <1>4, <1>5

LEMMA InEmpty == \A k, id : ~IsIn(<< >>, k, id)
BY DEF IsIn

\* No order is sent twice.
Once(q) ==
  \A i, j \in DOMAIN q :
    q[i].kind = "order" /\ q[j].kind = "order" /\ q[i].order.orderId = q[j].order.orderId => i = j

LEMMA OnceEntered ==
  ASSUME NEW q \in Seq(Message), NEW m \in Message, Once(q),
         m.kind = "order" => ~IsIn(q, "order", m.order.orderId)
  PROVE  Once(Append(q, m))
<1> DEFINE a == Append(q, m)
           n == Len(q) + 1
<1>1. /\ a[n] = m /\ \A i \in DOMAIN a : i \in DOMAIN q \/ i = n
      /\ \A i \in DOMAIN q : a[i] = q[i]
  BY Entered
<1> HIDE DEF a, n
<1>2. \A i \in DOMAIN q : ~(/\ m.kind = "order" /\ q[i].kind = "order"
                            /\ q[i].order.orderId = m.order.orderId)
  BY DEF IsIn
<1>3. Once(a)
  <2> SUFFICES ASSUME NEW i \in DOMAIN a, NEW j \in DOMAIN a, a[i].kind = "order",
                      a[j].kind = "order", a[i].order.orderId = a[j].order.orderId
               PROVE  i = j
    BY DEF Once
  <2>1. CASE i \in DOMAIN q /\ j \in DOMAIN q
    BY <1>1, <2>1 DEF Once
  <2>2. CASE i = n /\ j \in DOMAIN q
    BY <1>1, <1>2, <2>2
  <2>3. CASE i \in DOMAIN q /\ j = n
    BY <1>1, <1>2, <2>3
  <2> QED BY <1>1, <2>1, <2>2, <2>3
<1> QED BY <1>3 DEF a

LEMMA OnceLeft ==
  ASSUME NEW q \in Seq(Message), q # << >>, Once(q)
  PROVE  /\ Once(Tail(q))
         /\ Head(q).kind = "order" => ~IsIn(Tail(q), "order", Head(q).order.orderId)
<1>1. Once(Tail(q))
  <2> SUFFICES ASSUME NEW i \in DOMAIN Tail(q), NEW j \in DOMAIN Tail(q),
                      Tail(q)[i].kind = "order", Tail(q)[j].kind = "order",
                      Tail(q)[i].order.orderId = Tail(q)[j].order.orderId
               PROVE  i = j
    BY DEF Once
  <2>1. i + 1 = j + 1
    BY Left DEF Once
  <2>2. i \in Int /\ j \in Int
    BY Left
  <2> QED BY <2>1, <2>2
<1>2. ASSUME Head(q).kind = "order", IsIn(Tail(q), "order", Head(q).order.orderId) PROVE FALSE
  <2>1. PICK i \in DOMAIN Tail(q) : Tail(q)[i].kind = "order"
                                    /\ Tail(q)[i].order.orderId = Head(q).order.orderId
    BY <1>2 DEF IsIn
  <2>2. i + 1 \in DOMAIN q /\ q[i + 1] = Tail(q)[i] /\ 1 \in DOMAIN q /\ q[1] = Head(q) /\ i \in Nat \ {0}
    BY Left
  <2>3. 1 = i + 1
    BY <1>2, <2>1, <2>2 DEF Once
  <2> QED BY <2>2, <2>3
<1> QED BY <1>1, <1>2

-----------------------------------------------------------------------------
\* What an order says about its progress, and a history of it through the
\* returns of a queue: each leads from what was known to what it says.
View(o) == <<o.orderStatus, o.dealSize>>
Fresh == <<Created, 0>>
Seen(o) == IF o.orderStatus = Pending THEN Fresh ELSE View(o)

Leads(v, ret) ==
  /\ v[1] < Filled /\ v[1] <= ret.order.orderStatus
  /\ ret.order.dealSize = v[2] + ret.lastDealSize
  /\ Abs(ret.order.dealSize) <= ret.order.orderSize
  /\ ret.order.orderStatus \in {ConfirmedByExch, PartialFilled, Filled, Canceled,
                                PartialFilledCanceled, Failed}
  /\ IF ret.order.side = "Bid" THEN v[2] >= 0 /\ ret.lastDealSize >= 0
                               ELSE v[2] <= 0 /\ ret.lastDealSize <= 0
  /\ ~Joint /\ ret.lastDealSize # 0 => ret.order.orderStatus \in {PartialFilled, Filled}

IsHistory(h, q, id, from, to) ==
  /\ h \in [0 .. Len(q) -> Int \X Int] /\ h[0] = from /\ h[Len(q)] = to
  /\ \A i \in 1 .. Len(q) :
       IF IsMsg(q[i], "ret", id) THEN h[i] = View(q[i].order) /\ Leads(h[i - 1], q[i])
                                 ELSE h[i] = h[i - 1]

Chain(q, id, from, to) == \E h : IsHistory(h, q, id, from, to)

LEMMA ChainEmpty ==
  ASSUME NEW id, NEW v \in Int \X Int
  PROVE  Chain(<< >>, id, v, v)
<1> DEFINE h == [i \in 0 .. 0 |-> v]
<1>1. h \in [0 .. 0 -> Int \X Int] /\ h[0] = v
  OBVIOUS
<1> HIDE DEF h
<1>2. IsHistory(h, << >>, id, v, v)
  BY <1>1 DEF IsHistory
<1> QED BY <1>2 DEF Chain

\* A message enters.
LEMMA ChainEntered ==
  ASSUME NEW q \in Seq(Message), NEW m \in Message, NEW id, NEW from, NEW to, NEW next \in Int \X Int,
         Chain(q, id, from, to),
         IF IsMsg(m, "ret", id) THEN next = View(m.order) /\ Leads(to, m) ELSE next = to
  PROVE  Chain(Append(q, m), id, from, next)
<1>1. PICK h : IsHistory(h, q, id, from, to)
  BY DEF Chain
<1> DEFINE n == Len(q)
           a == Append(q, m)
           g == [i \in 0 .. n + 1 |-> IF i = n + 1 THEN next ELSE h[i]]
<1>2. n \in Nat /\ Len(a) = n + 1 /\ a[n + 1] = m /\ \A i \in 1 .. n : a[i] = q[i]
  BY Entered
<1>3. h \in [0 .. n -> Int \X Int] /\ h[0] = from /\ h[n] = to
  BY <1>1 DEF IsHistory
<1>4. /\ g \in [0 .. n + 1 -> Int \X Int] /\ g[n + 1] = next
      /\ \A i \in 0 .. n : g[i] = h[i]
  <2>1. \A i \in 0 .. n + 1 : i # n + 1 => i \in 0 .. n
    BY <1>2
  <2>2. \A i \in 0 .. n : i # n + 1 /\ i \in 0 .. n + 1
    BY <1>2
  <2>3. n + 1 \in 0 .. n + 1
    BY <1>2
  <2> HIDE DEF n
  <2> QED BY <1>3, <2>1, <2>2, <2>3
<1>5. \A i \in 1 .. n : IF IsMsg(q[i], "ret", id) THEN h[i] = View(q[i].order) /\ Leads(h[i - 1], q[i])
                                                ELSE h[i] = h[i - 1]
  BY <1>1 DEF IsHistory
<1> HIDE DEF n, a, g
<1>6. 0 \in 0 .. n /\ n \in 0 .. n /\ \A i \in 1 .. n : i \in 0 .. n /\ i - 1 \in 0 .. n
  BY <1>2
<1>7. \A i \in 1 .. n + 1 : IF IsMsg(a[i], "ret", id) THEN g[i] = View(a[i].order) /\ Leads(g[i - 1], a[i])
                                                    ELSE g[i] = g[i - 1]
  <2> SUFFICES ASSUME NEW i \in 1 .. n + 1
               PROVE IF IsMsg(a[i], "ret", id) THEN g[i] = View(a[i].order) /\ Leads(g[i - 1], a[i])
                                             ELSE g[i] = g[i - 1]
    OBVIOUS
  <2>1. CASE i \in 1 .. n
    <3>1. a[i] = q[i] /\ g[i] = h[i] /\ g[i - 1] = h[i - 1]
      BY <1>2, <1>4, <1>6, <2>1
    <3> QED BY <1>5, <2>1, <3>1
  <2>2. CASE i = n + 1
    <3>1. a[i] = m /\ g[i] = next /\ i - 1 = n /\ g[i - 1] = to
      BY <1>2, <1>3, <1>4, <1>6, <2>2
    <3> QED BY <3>1
  <2> QED BY <1>2, <2>1, <2>2
<1>8. g[0] = from
  BY <1>3, <1>4, <1>6
<1>9. IsHistory(g, a, id, from, next)
  BY <1>2, <1>4, <1>7, <1>8 DEF IsHistory
<1> QED BY <1>9 DEF Chain, a

\* A message leaves.
LEMMA ChainLeft ==
  ASSUME NEW q \in Seq(Message), q # << >>, NEW id, NEW from, NEW to, Chain(q, id, from, to)
  PROVE  IF IsMsg(Head(q), "ret", id)
         THEN Leads(from, Head(q)) /\ Chain(Tail(q), id, View(Head(q).order), to)
         ELSE Chain(Tail(q), id, from, to)
<1>1. PICK h : IsHistory(h, q, id, from, to)
  BY DEF Chain
<1> DEFINE n == Len(q)
           b == Tail(q)
           g == [i \in 0 .. n - 1 |-> h[i + 1]]
<1>2. n \in Nat \ {0} /\ Len(b) = n - 1 /\ q[1] = Head(q) /\ \A i \in 1 .. n - 1 : b[i] = q[i + 1]
  BY Left
<1>3. h \in [0 .. n -> Int \X Int] /\ h[0] = from /\ h[n] = to
  BY <1>1 DEF IsHistory
<1>5. \A i \in 1 .. n : IF IsMsg(q[i], "ret", id) THEN h[i] = View(q[i].order) /\ Leads(h[i - 1], q[i])
                                                ELSE h[i] = h[i - 1]
  BY <1>1 DEF IsHistory
<1> HIDE DEF n, b
<1>4. g \in [0 .. n - 1 -> Int \X Int] /\ \A i \in 0 .. n - 1 : g[i] = h[i + 1]
  <2>1. \A i \in 0 .. n - 1 : i + 1 \in 0 .. n
    BY <1>2
  <2> QED BY <1>3, <2>1
<1> HIDE DEF g
<1>6. g[n - 1] = to
  <2>1. n - 1 \in 0 .. n - 1 /\ (n - 1) + 1 = n
    BY <1>2
  <2> QED BY <1>3, <1>4, <2>1
<1>7. \A i \in 1 .. n - 1 : IF IsMsg(b[i], "ret", id) THEN g[i] = View(b[i].order) /\ Leads(g[i - 1], b[i])
                                                    ELSE g[i] = g[i - 1]
  <2> SUFFICES ASSUME NEW i \in 1 .. n - 1
               PROVE IF IsMsg(b[i], "ret", id) THEN g[i] = View(b[i].order) /\ Leads(g[i - 1], b[i])
                                             ELSE g[i] = g[i - 1]
    OBVIOUS
  <2>1. i + 1 \in 1 .. n /\ i \in 0 .. n - 1 /\ i - 1 \in 0 .. n - 1 /\ (i - 1) + 1 = i /\ (i + 1) - 1 = i
    BY <1>2
  <2>2. b[i] = q[i + 1] /\ g[i] = h[i + 1] /\ g[i - 1] = h[i]
    BY <1>2, <1>4, <2>1
  <2> QED BY <1>5, <2>1, <2>2
<1>8. g[0] = h[1] /\ 1 \in 1 .. n /\ 1 - 1 = 0
  BY <1>2, <1>4
<1>9. IF IsMsg(q[1], "ret", id) THEN h[1] = View(q[1].order) /\ Leads(from, q[1]) ELSE h[1] = from
  BY <1>3, <1>5, <1>8
<1>10. IsHistory(g, b, id, h[1], to)
  BY <1>2, <1>4, <1>6, <1>7, <1>8 DEF IsHistory
<1> QED BY <1>2, <1>9, <1>10 DEF Chain, b

\* Without a return nothing is new.
LEMMA ChainQuiet ==
  ASSUME NEW q \in Seq(Message), NEW id, NEW from, NEW to, ~IsIn(q, "ret", id)
  PROVE  /\ Chain(q, id, from, to) => from = to
         /\ from = to /\ from \in Int \X Int => Chain(q, id, from, to)
<1>0. Len(q) \in Nat /\ DOMAIN q = 1 .. Len(q) /\ \A i \in 1 .. Len(q) : ~IsMsg(q[i], "ret", id)
  BY DEF IsIn, IsMsg
<1>1. ASSUME Chain(q, id, from, to) PROVE from = to
  <2>1. PICK h : IsHistory(h, q, id, from, to)
    BY <1>1 DEF Chain
  <2> DEFINE Bad == {n \in Nat : n <= Len(q) /\ h[n] # from}
  <2>2. Bad = {}
    <3> SUFFICES ASSUME Bad # {} PROVE FALSE
      OBVIOUS
    <3>1. PICK n \in Bad : \A m \in Bad : n <= m
      BY LeastOf
    <3>2. n # 0 /\ n \in Nat /\ n <= Len(q)
      BY <2>1, <3>1 DEF IsHistory
    <3>3. n \in 1 .. Len(q) /\ n - 1 \in Nat /\ n - 1 <= Len(q) /\ ~(n <= n - 1)
      BY <1>0, <3>2
    <3>4. h[n] = h[n - 1]
      BY <1>0, <2>1, <3>3 DEF IsHistory
    <3>5. n - 1 \notin Bad
      BY <3>1, <3>3
    <3> QED BY <3>1, <3>3, <3>4, <3>5
  <2>3. Len(q) \notin Bad
    BY <2>2
  <2> QED BY <1>0, <2>1, <2>3 DEF IsHistory
<1>2. ASSUME from = to, from \in Int \X Int PROVE Chain(q, id, from, to)
  <2> DEFINE h == [i \in 0 .. Len(q) |-> from]
  <2>1. h \in [0 .. Len(q) -> Int \X Int] /\ \A i \in 0 .. Len(q) : h[i] = from
    BY <1>2
  <2> HIDE DEF h
  <2>2. 0 \in 0 .. Len(q) /\ Len(q) \in 0 .. Len(q) /\ \A i \in 1 .. Len(q) : i \in 0 .. Len(q) /\ i - 1 \in 0 .. Len(q)
    BY <1>0
  <2>3. IsHistory(h, q, id, from, to)
    BY <1>0, <1>2, <2>1, <2>2 DEF IsHistory
  <2> QED BY <2>3 DEF Chain
<1> QED BY <1>1, <1>2
-----------------------------------------------------------------------------
\* The first invariant: every message is about an order of the strategy
\* engine, on its terms, and reports are what a gateway may say.
Reported == {ConfirmedByExch, PartialFilled, Filled, Canceled, PartialFilledCanceled, Failed}

About(s, o) ==
  /\ Known(s[o.orderId])
  /\ s[o.orderId].side = o.side /\ s[o.orderId].orderSize = o.orderSize

MsgOK(s, m) ==
  /\ About(s, m.order)
  /\ m.kind = "order" => m.order.orderStatus = Created /\ m.order.dealSize = 0
  /\ m.kind = "ret" => m.order.orderStatus \in Reported

Carries(s, q) == q \in Seq(Message) /\ \A i \in DOMAIN q : MsgOK(s, q[i])

Copies == [OrderId -> OrderInTDSrv \cup {NoOrder}]

StgOK == stg \in Copies /\ \A id \in OrderId : Known(stg[id]) => stg[id].orderId = id
GwOK ==
  /\ gw \in Copies
  /\ \A id \in OrderId : Known(gw[id]) =>
       /\ gw[id].orderId = id /\ About(stg, gw[id])
       /\ gw[id].orderStatus \in Reported \cup {Pending}
QueuesOK ==
  /\ Carries(stg, preQueue)
  /\ modQueue \in [Module -> Seq(Message)] /\ \A n \in Module : Carries(stg, modQueue[n])

Typed ==
  /\ StgOK /\ GwOK /\ QueuesOK
  /\ hold \in [Acct -> Int] /\ mod = [n \in Module |-> mod[n]]

Numbers == /\ OrderStatus \subseteq Nat /\ Reported \subseteq OrderStatus
           /\ {Created, Pending, Failed} \subseteq OrderStatus
           /\ Created < Pending /\ Pending \notin Reported
           /\ \A s \in Reported : Created < s

LEMMA StatusNumbers == Numbers
BY DEF Numbers, OrderStatus, Reported, Created, ConfirmedInLocal, Pending, ConfirmedByExch,
   PartialFilled, Filled, Canceled, PartialFilledCanceled, Failed

LEMMA KnownOrder == \A o \in OrderInTDSrv : Known(o) /\ o.orderId \in OrderId /\ o.orderId # Unset
BY OrderIdAssumption DEF OrderInTDSrv, Known, NoOrder, Unset

\* Merging a copy of an order into another (updateByOrderInfoFromTDGW).
LEMMA Merge ==
  ASSUME NEW c \in OrderInTDSrv, NEW o \in OrderInTDSrv
  PROVE  LET p == updateByOrderInfoFromTDGW(c, ReportOf(o)) IN
         /\ p \in OrderInTDSrv /\ p.orderId = c.orderId /\ p.side = c.side
         /\ p.orderSize = c.orderSize /\ p.acctId = c.acctId /\ p.posDirection = c.posDirection
         /\ p.orderStatus = IF o.orderStatus > c.orderStatus /\ c.orderStatus < Filled
                            THEN o.orderStatus ELSE c.orderStatus
         /\ p.dealSize = IF DealSizeIsValid(c, ReportOf(o)) THEN o.dealSize ELSE c.dealSize
         /\ DealSizeIsValid(c, ReportOf(o)) <=>
              Abs(o.dealSize) > Abs(c.dealSize) /\ Abs(o.dealSize) <= c.orderSize
<1> DEFINE new == ReportOf(o)
           d == IF DealSizeIsValid(c, new) THEN o.dealSize ELSE c.dealSize
           s == IF o.orderStatus > c.orderStatus /\ c.orderStatus < Filled
                THEN o.orderStatus ELSE c.orderStatus
           p == updateByOrderInfoFromTDGW(c, new)
<1>1. /\ new.dealSize = o.dealSize /\ new.orderStatus = o.orderStatus
      /\ new.avgPriced = (o.dealSize # 0)
      /\ new.exchOrderId = o.exchOrderId /\ new.feeCurrency = o.feeCurrency
      /\ new.statusCode = o.statusCode
  BY DEF ReportOf
<1>2. /\ c.dealSize \in Int /\ o.dealSize \in Int /\ c.orderSize \in Nat
      /\ c.orderStatus \in OrderStatus /\ o.orderStatus \in OrderStatus
      /\ c.orderStatus \in Nat /\ o.orderStatus \in Nat
  BY StatusNumbers, SizeAssumption DEF OrderInTDSrv, Numbers
<1> HIDE DEF new
<1>3. DealSizeIsValid(c, new) <=> Abs(o.dealSize) > Abs(c.dealSize) /\ Abs(o.dealSize) <= c.orderSize
  <2>1. Abs(o.dealSize) > Abs(c.dealSize) => o.dealSize # 0
    BY <1>2 DEF Abs
  <2> QED BY <1>1, <2>1 DEF DealSizeIsValid
<1>4. StatusAdvances(c, new) <=> o.orderStatus > c.orderStatus /\ c.orderStatus < Filled
  BY <1>1, <1>2 DEF StatusAdvances, closed, Filled
<1>5. d \in Int /\ s \in OrderStatus
  BY <1>2
<1>6. p = WithStaticFields([c EXCEPT !.orderStatus = s, !.dealSize = d], new)
  BY <1>1, <1>4 DEF updateByOrderInfoFromTDGW
<1> HIDE DEF d, s, p
<1>7. /\ p \in OrderInTDSrv /\ p.orderId = c.orderId /\ p.side = c.side
      /\ p.orderSize = c.orderSize /\ p.acctId = c.acctId /\ p.posDirection = c.posDirection
      /\ p.orderStatus = s /\ p.dealSize = d
  BY <1>1, <1>5, <1>6 DEF WithStaticFields, SetOnce, OrderInTDSrv
<1> QED BY <1>3, <1>7 DEF p, d, s, new

\* The copies of the strategy engine are never lost, and keep their terms.
Grows(s, t) ==
  \A id \in OrderId : Known(s[id]) =>
    Known(t[id]) /\ t[id].side = s[id].side /\ t[id].orderSize = s[id].orderSize

LEMMA GrowsKeeps ==
  ASSUME NEW s, NEW t, Grows(s, t), NEW q, Carries(s, q)
  PROVE  Carries(t, q)
<1>1. \A i \in DOMAIN q : q[i] \in Message
  BY DEF Carries
<1>2. \A m \in Message : m.order.orderId \in OrderId
  BY DEF Message, OrderInTDSrv
<1> QED BY <1>1, <1>2 DEF Carries, MsgOK, About, Grows

LEMMA CarriesEntered ==
  ASSUME NEW s, NEW q, Carries(s, q), NEW m \in Message, MsgOK(s, m)
  PROVE  Carries(s, Append(q, m))
BY Entered DEF Carries

LEMMA CarriesLeft ==
  ASSUME NEW s, NEW q, Carries(s, q), q # << >>
  PROVE  Carries(s, Tail(q)) /\ Head(q) \in Message /\ MsgOK(s, Head(q))
BY Left DEF Carries

\* Module n takes its head and hands it on, or not.
LEMMA Moved ==
  ASSUME Typed, NEW n \in Module, modQueue[n] # << >>, Pass(n) \/ Drop(n)
  PROVE  LET m == Head(modQueue[n]) IN
         /\ modQueue' \in [Module -> Seq(Message)] /\ modQueue'[n] = Tail(modQueue[n])
         /\ \A k \in Module \ {n} : \/ modQueue'[k] = modQueue[k]
                                    \/ k = n + 1 /\ modQueue'[k] = Append(modQueue[k], m)
         /\ Pass(n) /\ n + 1 \in Module => modQueue'[n + 1] = Append(modQueue[n + 1], m)
         /\ \A k \in Module : Carries(stg, modQueue'[k])
<1> DEFINE m == Head(modQueue[n])
<1>1. modQueue \in [Module -> Seq(Message)] /\ \A k \in Module : Carries(stg, modQueue[k])
  BY DEF Typed, QueuesOK
<1>2. n \in Nat /\ n + 1 # n
  BY DEF Module
<1>3. modQueue[n] \in Seq(Message) /\ m \in Message /\ Carries(stg, Tail(modQueue[n])) /\ MsgOK(stg, m)
  BY <1>1, CarriesLeft
<1>4. \A k \in Module : Carries(stg, Append(modQueue[k], m))
  BY <1>1, <1>3, CarriesEntered
<1> HIDE DEF m
<1>5. CASE Drop(n)
  <2>1. modQueue' = [modQueue EXCEPT ![n] = Tail(@)]
    BY <1>5 DEF Drop
  <2>2. modQueue'[n] = Tail(modQueue[n]) /\ \A k \in Module \ {n} : modQueue'[k] = modQueue[k]
    BY <1>1, <2>1
  <2>3. modQueue' \in [Module -> Seq(Message)]
    BY <1>1, <1>3, <2>1 DEF Carries
  <2>4. ASSUME Pass(n), n + 1 \in Module PROVE modQueue'[n + 1] = Append(modQueue[n + 1], m)
    BY <1>2, <2>4 DEF Pass, m
  <2>5. \A k \in Module : Carries(stg, modQueue'[k])
    BY <1>1, <1>3, <2>2
  <2> QED BY <2>2, <2>3, <2>4, <2>5 DEF m
<1>6. CASE Pass(n)
  <2>1. modQueue' = [k \in Module |-> CASE k = n -> Tail(modQueue[n])
                                        [] k = n + 1 -> Append(modQueue[k], m)
                                        [] OTHER -> modQueue[k]]
    BY <1>6 DEF Pass, m
  <2>2. /\ modQueue'[n] = Tail(modQueue[n])
        /\ \A k \in Module : k # n /\ k = n + 1 => modQueue'[k] = Append(modQueue[k], m)
        /\ \A k \in Module : k # n /\ k # n + 1 => modQueue'[k] = modQueue[k]
    BY <1>2, <2>1
  <2>3. \A k \in Module : Carries(stg, modQueue'[k])
    BY <1>1, <1>3, <1>4, <2>2
  <2>4. modQueue' \in [Module -> Seq(Message)]
    <3>1. \A k \in Module : modQueue'[k] \in Seq(Message)
      BY <2>3 DEF Carries
    <3> QED BY <2>1, <3>1
  <2> QED BY <1>2, <2>2, <2>3, <2>4 DEF m
<1> QED BY <1>5, <1>6

-----------------------------------------------------------------------------
LEMMA TypedInit == Init => Typed
<1> SUFFICES ASSUME Init PROVE Typed
  OBVIOUS
<1>1. StgOK /\ GwOK
  BY DEF Init, StgOK, GwOK, Copies, Known
<1>2. << >> \in Seq(Message) /\ DOMAIN << >> = {}
  OBVIOUS
<1>3. QueuesOK
  BY <1>2 DEF Init, QueuesOK, Carries
<1>4. hold \in [Acct -> Int] /\ mod = [n \in Module |-> mod[n]]
  BY InitPosAssumption DEF Init
<1> QED BY <1>1, <1>3, <1>4 DEF Typed

LEMMA SameGrows == stg' = stg => Grows(stg, stg')
BY DEF Grows

\* The strategy engine merges what it is told of one of its orders.
LEMMA Received ==
  ASSUME Typed, NEW o \in OrderInTDSrv, About(stg, o),
         stg' = [stg EXCEPT ![o.orderId] = Receive(@, o)]
  PROVE  /\ StgOK' /\ Grows(stg, stg')
         /\ stg[o.orderId] \in OrderInTDSrv
         /\ stg'[o.orderId] = Receive(stg[o.orderId], o)
         /\ \A id \in OrderId : id # o.orderId => stg'[id] = stg[id]
<1> DEFINE c == stg[o.orderId]
           p == Receive(c, o)
<1>1. o.orderId \in OrderId /\ c \in OrderInTDSrv /\ c.orderId = o.orderId
  BY KnownOrder DEF Typed, StgOK, Copies, About, Known
<1>2. /\ p \in OrderInTDSrv /\ p.orderId = c.orderId /\ p.side = c.side /\ p.orderSize = c.orderSize
  BY <1>1, Merge DEF Receive
<1>3. stg \in Copies
  BY DEF Typed, StgOK
<1>4. /\ stg' \in Copies /\ stg'[o.orderId] = p
      /\ \A id \in OrderId : id # o.orderId => stg'[id] = stg[id]
  BY <1>1, <1>2, <1>3 DEF Copies
<1>5. StgOK'
  BY <1>1, <1>2, <1>4 DEF Typed, StgOK
<1>6. Grows(stg, stg')
  BY <1>1, <1>2, <1>4, KnownOrder DEF Grows
<1> QED BY <1>1, <1>4, <1>5, <1>6

LEMMA Failing ==
  ASSUME Typed, NEW o \in OrderInTDSrv, About(stg, o), Fail(o)
  PROVE  /\ StgOK' /\ Grows(stg, stg')
         /\ stg'[o.orderId].orderStatus # Created
         /\ \A id \in OrderId : id # o.orderId => stg'[id] = stg[id]
<1> DEFINE f == [o EXCEPT !.orderStatus = Failed, !.statusCode = 1]
<1>1. /\ f \in OrderInTDSrv /\ f.orderId = o.orderId /\ f.side = o.side
      /\ f.orderSize = o.orderSize /\ f.orderStatus = Failed
  BY DEF OrderInTDSrv, OrderStatus
<1>2. stg' = [stg EXCEPT ![o.orderId] = Receive(@, f)]
  BY DEF Fail
<1> HIDE DEF f
<1>3. About(stg, f)
  BY <1>1 DEF About
<1>4. /\ StgOK' /\ Grows(stg, stg') /\ stg[o.orderId] \in OrderInTDSrv
      /\ stg'[o.orderId] = Receive(stg[o.orderId], f)
      /\ \A id \in OrderId : id # o.orderId => stg'[id] = stg[id]
  BY <1>1, <1>2, <1>3, Received
<1>5. stg'[o.orderId].orderStatus # Created
  BY <1>1, <1>4, Merge DEF Receive, Created, Failed, Filled
<1> QED BY <1>4, <1>5

\* What is left alone stays well formed.
LEMMA TypedFrame ==
  ASSUME Typed, Grows(stg, stg')
  PROVE  /\ gw' = gw => GwOK'
         /\ preQueue' = preQueue => Carries(stg, preQueue)'
         /\ modQueue' = modQueue => modQueue' \in [Module -> Seq(Message)]
                                    /\ \A n \in Module : Carries(stg, modQueue[n])'
<1>1. \A id \in OrderId : Known(gw[id]) => gw[id].orderId \in OrderId
  BY DEF Typed, GwOK
<1>2. gw' = gw => GwOK'
  BY <1>1 DEF Typed, GwOK, About, Grows
<1>3. Carries(stg', preQueue) /\ \A n \in Module : Carries(stg', modQueue[n])
  BY GrowsKeeps DEF Typed, QueuesOK
<1> QED BY <1>2, <1>3 DEF Typed, QueuesOK

-----------------------------------------------------------------------------
LEMMA NewOrderTyped ==
  ASSUME NEW id \in OrderId, NEW acct \in Acct, NEW side \in Side,
         NEW direction \in Direction, NEW size \in Size
  PROVE  LET o == NewOrder(id, acct, side, direction, size) IN
         /\ o \in OrderInTDSrv /\ o.orderId = id /\ o.side = side /\ o.orderSize = size
         /\ o.orderStatus = Created /\ o.dealSize = 0
BY DEF NewOrder, OrderInTDSrv, OrderStatus, Unset

LEMMA MsgTyped ==
  ASSUME NEW kind \in Kinds, NEW o \in OrderInTDSrv, NEW n \in Int
  PROVE  LET m == Msg(kind, o, n) IN
         /\ m \in Message /\ m.kind = kind /\ m.order = o /\ m.lastDealSize = n
BY DEF Msg, Message

\* An order is sent: who learns of it, and that nothing was known of it.
LEMMA StgOrderTyped ==
  ASSUME Typed, NEW id \in OrderId, NEW acct \in Acct, NEW side \in Side,
         NEW direction \in Direction, NEW size \in Size,
         StgOrder(id, acct, side, direction, size)
  PROVE  LET o == NewOrder(id, acct, side, direction, size)
             m == Msg("order", o, 0) IN
         /\ Typed' /\ Grows(stg, stg') /\ ~Known(stg[id]) /\ stg'[id] = o
         /\ o \in OrderInTDSrv /\ o.orderId = id /\ o.orderStatus = Created /\ o.dealSize = 0
         /\ \A x \in OrderId : x # id => stg'[x] = stg[x]
         /\ m \in Message /\ m.kind = "order" /\ m.order = o /\ MsgOK(stg', m)
         /\ preQueue' = Append(preQueue, m)
         /\ UNCHANGED <<pre, hold, modVars, gw, canceling>>
<1> DEFINE o == NewOrder(id, acct, side, direction, size)
           m == Msg("order", o, 0)
<1>1. /\ o \in OrderInTDSrv /\ o.orderId = id /\ o.side = side /\ o.orderSize = size
      /\ o.orderStatus = Created /\ o.dealSize = 0
  BY NewOrderTyped
<1>2. /\ ~Known(stg[id]) /\ stg' = [stg EXCEPT ![id] = o] /\ preQueue' = Append(preQueue, m)
      /\ UNCHANGED <<pre, hold, modVars, gw, canceling>>
  BY DEF StgOrder
<1> HIDE DEF o
<1>3. m \in Message /\ m.kind = "order" /\ m.order = o
  BY <1>1, MsgTyped DEF Kinds
<1> HIDE DEF m
<1>4. /\ stg \in Copies /\ stg' \in Copies /\ stg'[id] = o
      /\ \A x \in OrderId : x # id => stg'[x] = stg[x]
  BY <1>1, <1>2 DEF Typed, StgOK, Copies
<1>5. StgOK'
  BY <1>1, <1>4 DEF Typed, StgOK
<1>6. Grows(stg, stg')
  BY <1>2, <1>4 DEF Grows
<1>7. MsgOK(stg', m)
  BY <1>1, <1>3, <1>4, KnownOrder DEF MsgOK, About
<1>8. Carries(stg, preQueue)'
  BY <1>2, <1>3, <1>6, <1>7, CarriesEntered, GrowsKeeps DEF Typed, QueuesOK
<1>9. Typed'
  BY <1>2, <1>5, <1>6, <1>8, TypedFrame DEF Typed, QueuesOK, modVars
<1> QED BY <1>1, <1>2, <1>3, <1>4, <1>6, <1>7, <1>9 DEF o, m

LEMMA FirstModule == 1 \in Module /\ \A n \in Module : n \in Nat \ {0}
BY TDSrvAssumption DEF Module

\* The first module is told.
LEMMA ToFirstModule ==
  ASSUME Typed, NEW m \in Message, MsgOK(stg, m),
         modQueue' = [modQueue EXCEPT ![1] = Append(@, m)]
  PROVE  /\ modQueue' \in [Module -> Seq(Message)] /\ modQueue'[1] = Append(modQueue[1], m)
         /\ \A n \in Module \ {1} : modQueue'[n] = modQueue[n]
         /\ \A n \in Module : Carries(stg, modQueue'[n])
<1>1. modQueue \in [Module -> Seq(Message)] /\ \A n \in Module : Carries(stg, modQueue[n])
  BY DEF Typed, QueuesOK
<1>2. Carries(stg, Append(modQueue[1], m))
  BY <1>1, FirstModule, CarriesEntered
<1>3. /\ modQueue'[1] = Append(modQueue[1], m)
      /\ \A n \in Module \ {1} : modQueue'[n] = modQueue[n]
  BY <1>1, FirstModule
<1>4. modQueue' \in [Module -> Seq(Message)]
  BY <1>1, <1>2 DEF Carries
<1>5. \A n \in Module : Carries(stg, modQueue'[n])
  BY <1>1, <1>2, <1>3
<1> QED BY <1>3, <1>4, <1>5

\* Which order a strategy's order may become.
LEMMA Shared ==
  ASSUME NEW o \in OrderInTDSrv, NEW p \in handleSharedPos(o)
  PROVE  /\ p \in OrderInTDSrv /\ p.orderId = o.orderId /\ p.side = o.side
         /\ p.orderSize = o.orderSize /\ p.orderStatus = o.orderStatus /\ p.dealSize = o.dealSize
         /\ \/ p.posDirection # "Others" /\ p = o
            \/ p.posDirection = "Close" /\ Enough(o, p.acctId)
<1>1. \/ o.posDirection # "Others" /\ p = o
      \/ \E acct \in Acct : p = [o EXCEPT !.posDirection = "Close", !.acctId = acct] /\ Enough(o, acct)
  BY DEF handleSharedPos, OrderInTDSrv
<1>2. CASE o.posDirection # "Others" /\ p = o
  BY <1>2
<1>3. ASSUME NEW acct \in Acct, p = [o EXCEPT !.posDirection = "Close", !.acctId = acct], Enough(o, acct)
      PROVE  /\ p \in OrderInTDSrv /\ p.orderId = o.orderId /\ p.side = o.side
             /\ p.orderSize = o.orderSize /\ p.orderStatus = o.orderStatus /\ p.dealSize = o.dealSize
             /\ p.posDirection = "Close" /\ Enough(o, p.acctId)
  <2>1. /\ p \in OrderInTDSrv /\ p.orderId = o.orderId /\ p.side = o.side
        /\ p.orderSize = o.orderSize /\ p.orderStatus = o.orderStatus /\ p.dealSize = o.dealSize
        /\ p.posDirection = "Close" /\ p.acctId = acct
    BY <1>3 DEF OrderInTDSrv
  <2> QED BY <1>3, <2>1
<1> QED BY <1>1, <1>2, <1>3

\* OrderPreProc lets an order pass, as p, or fails it.
PassedOn(p) ==
  LET m == Msg("order", p, 0) IN
  /\ p \in handleSharedPos(Head(preQueue).order)
  /\ CanAdd(pre, p) /\ pre' = add(pre, p) /\ stg' = stg
  /\ m \in Message /\ m.kind = "order" /\ m.order = p /\ MsgOK(stg, m)
  /\ modQueue' \in [Module -> Seq(Message)] /\ modQueue'[1] = Append(modQueue[1], m)
  /\ \A n \in Module \ {1} : modQueue'[n] = modQueue[n]

LEMMA PreHandleOrderTyped ==
  ASSUME Typed, PreHandleOrder
  PROVE  LET o == Head(preQueue).order IN
         /\ Typed' /\ Grows(stg, stg')
         /\ preQueue \in Seq(Message) /\ preQueue # << >> /\ preQueue' = Tail(preQueue)
         /\ Head(preQueue).kind = "order" /\ o \in OrderInTDSrv /\ About(stg, o)
         /\ o.orderStatus = Created /\ o.dealSize = 0
         /\ UNCHANGED <<hold, mod, gw, canceling>>
         /\ \/ \E p \in OrderInTDSrv : PassedOn(p)
            \/ Fail(o) /\ UNCHANGED <<pre, modQueue>>
<1> DEFINE o == Head(preQueue).order
<1>1. /\ preQueue \in Seq(Message) /\ preQueue # << >> /\ preQueue' = Tail(preQueue)
      /\ Head(preQueue).kind = "order" /\ UNCHANGED <<hold, mod, gw, canceling>>
  BY DEF PreHandleOrder, Typed, QueuesOK, Carries
<1>2. Carries(stg, Tail(preQueue)) /\ Head(preQueue) \in Message /\ MsgOK(stg, Head(preQueue))
  BY <1>1, CarriesLeft DEF Typed, QueuesOK
<1>3. o \in OrderInTDSrv /\ About(stg, o) /\ o.orderStatus = Created /\ o.dealSize = 0
  BY <1>1, <1>2 DEF Message, MsgOK
<1>4. \/ \E p \in handleSharedPos(o) :
           /\ CanAdd(pre, p) /\ pre' = add(pre, p) /\ stg' = stg
           /\ modQueue' = [modQueue EXCEPT ![1] = Append(@, Msg("order", p, 0))]
      \/ Fail(o) /\ UNCHANGED <<pre, modQueue>>
  BY DEF PreHandleOrder
<1> HIDE DEF o
<1>5. ASSUME NEW p \in handleSharedPos(o), CanAdd(pre, p), pre' = add(pre, p), stg' = stg,
             modQueue' = [modQueue EXCEPT ![1] = Append(@, Msg("order", p, 0))]
      PROVE  /\ p \in OrderInTDSrv /\ PassedOn(p)
             /\ \A n \in Module : Carries(stg, modQueue'[n])
  <2> DEFINE m == Msg("order", p, 0)
  <2>1. /\ p \in OrderInTDSrv /\ p.orderId = o.orderId /\ p.side = o.side
        /\ p.orderSize = o.orderSize /\ p.orderStatus = o.orderStatus /\ p.dealSize = o.dealSize
    BY <1>3, Shared
  <2>2. m \in Message /\ m.kind = "order" /\ m.order = p
    BY <2>1, MsgTyped DEF Kinds
  <2> HIDE DEF m
  <2>3. MsgOK(stg, m)
    BY <1>3, <2>1, <2>2 DEF MsgOK, About
  <2>4. /\ modQueue' \in [Module -> Seq(Message)] /\ modQueue'[1] = Append(modQueue[1], m)
        /\ \A n \in Module \ {1} : modQueue'[n] = modQueue[n]
        /\ \A n \in Module : Carries(stg, modQueue'[n])
    BY <1>5, <2>2, <2>3, ToFirstModule DEF m
  <2> QED BY <1>5, <2>1, <2>2, <2>3, <2>4 DEF PassedOn, m, o
<1>6. CASE \E p \in OrderInTDSrv : PassedOn(p) /\ \A n \in Module : Carries(stg, modQueue'[n])
  <2>1. stg' = stg /\ modQueue' \in [Module -> Seq(Message)]
    BY <1>6 DEF PassedOn
  <2>2. Grows(stg, stg') /\ StgOK' /\ GwOK'
    BY <1>1, <2>1, SameGrows, TypedFrame DEF Typed, StgOK
  <2>3. Typed'
    BY <1>1, <1>2, <1>6, <2>1, <2>2 DEF Typed, QueuesOK
  <2> QED BY <1>1, <1>3, <1>6, <2>2, <2>3 DEF o
<1>7. CASE Fail(o) /\ UNCHANGED <<pre, modQueue>>
  <2>1. StgOK' /\ Grows(stg, stg')
    BY <1>3, <1>7, Failing
  <2>2. GwOK' /\ Carries(stg', preQueue') /\ modQueue' \in [Module -> Seq(Message)]
        /\ \A n \in Module : Carries(stg, modQueue[n])'
    BY <1>1, <1>2, <1>7, <2>1, TypedFrame, GrowsKeeps
  <2>3. Typed'
    BY <1>1, <2>1, <2>2 DEF Typed, QueuesOK
  <2> QED BY <1>1, <1>3, <1>7, <2>1, <2>3 DEF o
<1> QED BY <1>4, <1>5, <1>6, <1>7

LEMMA PreHandleRetTyped ==
  ASSUME Typed, PreHandleRet
  PROVE  LET m == Head(preQueue) IN
         /\ Typed' /\ Grows(stg, stg')
         /\ preQueue \in Seq(Message) /\ preQueue # << >> /\ preQueue' = Tail(preQueue)
         /\ m.kind = "ret" /\ m \in Message /\ MsgOK(stg, m)
         /\ pre' = UpdateFromTDGW(pre, ReportOf(m.order))
         /\ hold' = [hold EXCEPT ![m.order.acctId] = @ + DealOf(m)]
         /\ modQueue'[1] = Append(modQueue[1], m)
         /\ \A n \in Module \ {1} : modQueue'[n] = modQueue[n]
         /\ UNCHANGED <<stg, mod, gw, canceling>>
<1> DEFINE m == Head(preQueue)
<1>1. /\ preQueue \in Seq(Message) /\ preQueue # << >> /\ preQueue' = Tail(preQueue)
      /\ m.kind = "ret" /\ pre' = UpdateFromTDGW(pre, ReportOf(m.order))
      /\ hold' = [hold EXCEPT ![m.order.acctId] = @ + DealOf(m)]
      /\ modQueue' = [modQueue EXCEPT ![1] = Append(@, m)]
      /\ UNCHANGED <<stg, mod, gw, canceling>>
  BY DEF PreHandleRet, Typed, QueuesOK, Carries
<1>2. Carries(stg, Tail(preQueue)) /\ m \in Message /\ MsgOK(stg, m)
  BY <1>1, CarriesLeft DEF Typed, QueuesOK
<1>3. m.order.acctId \in Acct /\ DealOf(m) \in Int
  BY <1>2 DEF Message, OrderInTDSrv, DealOf
<1> HIDE DEF m
<1>4. /\ modQueue' \in [Module -> Seq(Message)] /\ modQueue'[1] = Append(modQueue[1], m)
      /\ \A n \in Module \ {1} : modQueue'[n] = modQueue[n]
      /\ \A n \in Module : Carries(stg, modQueue'[n])
  BY <1>1, <1>2, ToFirstModule
<1>5. Grows(stg, stg') /\ StgOK' /\ GwOK'
  BY <1>1, SameGrows, TypedFrame DEF Typed, StgOK
<1>6. hold' \in [Acct -> Int]
  BY <1>1, <1>3 DEF Typed
<1>7. Typed'
  BY <1>1, <1>2, <1>4, <1>5, <1>6 DEF Typed, QueuesOK
<1> QED BY <1>1, <1>2, <1>4, <1>5, <1>7 DEF m

\* What all steps of a module share.
ModTakes(n, kind) ==
  LET m == Head(modQueue[n]) IN
  /\ Typed' /\ Grows(stg, stg')
  /\ modQueue[n] \in Seq(Message) /\ modQueue[n] # << >>
  /\ m.kind = kind /\ m \in Message /\ m.order \in OrderInTDSrv /\ MsgOK(stg, m)
  /\ modQueue'[n] = Tail(modQueue[n])
  /\ \A k \in Module \ {n} : \/ modQueue'[k] = modQueue[k]
                             \/ k = n + 1 /\ modQueue'[k] = Append(modQueue[k], m)
  /\ UNCHANGED <<preQueue, pre, hold>>

LEMMA ModStepTyped ==
  ASSUME Typed, NEW n \in Module, NEW kind, Takes(n, kind), Pass(n) \/ Drop(n),
         UNCHANGED preVars,
         LET o == Head(modQueue[n]).order IN
           About(stg, o) /\ o \in OrderInTDSrv =>
             /\ StgOK' /\ Grows(stg, stg')
             /\ (gw' = gw \/ gw' = [gw EXCEPT ![o.orderId] = [o EXCEPT !.orderStatus = Pending]]),
         mod' = mod \/ \E g : mod' = [mod EXCEPT ![n] = g]
  PROVE  ModTakes(n, kind)
<1> DEFINE m == Head(modQueue[n])
           o == m.order
<1>1. /\ modQueue[n] \in Seq(Message) /\ modQueue[n] # << >> /\ m.kind = kind
      /\ Carries(stg, modQueue[n])
  BY DEF Takes, Typed, QueuesOK
<1>2. m \in Message /\ MsgOK(stg, m)
  BY <1>1, CarriesLeft
<1>3. o \in OrderInTDSrv /\ About(stg, o)
  BY <1>2 DEF Message, MsgOK
<1>4. /\ StgOK' /\ Grows(stg, stg')
      /\ (gw' = gw \/ gw' = [gw EXCEPT ![o.orderId] = [o EXCEPT !.orderStatus = Pending]])
  BY <1>3
<1>5. /\ modQueue' \in [Module -> Seq(Message)] /\ modQueue'[n] = Tail(modQueue[n])
      /\ \A k \in Module \ {n} : \/ modQueue'[k] = modQueue[k]
                                 \/ k = n + 1 /\ modQueue'[k] = Append(modQueue[k], m)
      /\ \A k \in Module : Carries(stg, modQueue'[k])
  BY <1>1, Moved
<1> HIDE DEF m
<1>6. GwOK'
  <2>1. CASE gw' = gw
    BY <1>4, <2>1, TypedFrame
  <2>2. CASE gw' = [gw EXCEPT ![o.orderId] = [o EXCEPT !.orderStatus = Pending]]
    <3> DEFINE p == [o EXCEPT !.orderStatus = Pending]
    <3>1. /\ p \in OrderInTDSrv /\ p.orderId = o.orderId /\ p.side = o.side
          /\ p.orderSize = o.orderSize /\ p.orderStatus = Pending
      BY <1>3 DEF OrderInTDSrv, OrderStatus
    <3>2. gw' = [gw EXCEPT ![o.orderId] = p]
      BY <2>2
    <3> HIDE DEF p
    <3>3. About(stg', p)
      BY <1>3, <1>4, <3>1, KnownOrder DEF About, Grows
    <3>4. \A id \in OrderId : Known(gw[id]) => About(stg', gw[id])
      BY <1>4 DEF About, Grows, Typed, GwOK
    <3>5. /\ gw' \in Copies
          /\ \A id \in OrderId : gw'[id] = IF id = o.orderId THEN p ELSE gw[id]
      BY <1>3, <3>1, <3>2 DEF Typed, GwOK, Copies
    <3> QED BY <3>1, <3>3, <3>4, <3>5 DEF Typed, GwOK
  <2> QED BY <1>4, <2>1, <2>2
<1>7. Carries(stg, preQueue)' /\ UNCHANGED <<preQueue, pre, hold>>
  BY <1>4, TypedFrame DEF preVars
<1>8. \A k \in Module : Carries(stg, modQueue[k])'
  BY <1>4, <1>5, GrowsKeeps
<1>9. mod' = [k \in Module |-> mod'[k]]
  BY DEF Typed
<1>10. Typed'
  BY <1>4, <1>5, <1>6, <1>7, <1>8, <1>9 DEF Typed, QueuesOK
<1> QED BY <1>1, <1>2, <1>3, <1>4, <1>5, <1>7, <1>10 DEF ModTakes, m

LEMMA ModAcceptsOrderTyped ==
  ASSUME Typed, NEW n \in Module, ModAcceptsOrder(n)
  PROVE  LET m == Head(modQueue[n])
             o == m.order IN
         /\ ModTakes(n, "order") /\ stg' = stg
         /\ n + 1 \in Module => modQueue'[n + 1] = Append(modQueue[n + 1], m)
         /\ CanAdd(mod[n], o) /\ mod' = [mod EXCEPT ![n] = add(@, o)]
         /\ gw' = IF n = NumModules
                  THEN [gw EXCEPT ![o.orderId] = [o EXCEPT !.orderStatus = Pending]] ELSE gw
<1> DEFINE m == Head(modQueue[n])
           o == m.order
<1>1. /\ Takes(n, "order") /\ Pass(n) /\ UNCHANGED preVars /\ stg' = stg
      /\ CanAdd(mod[n], o) /\ mod' = [mod EXCEPT ![n] = add(@, o)]
      /\ gw' = IF n = NumModules
                  THEN [gw EXCEPT ![o.orderId] = [o EXCEPT !.orderStatus = Pending]] ELSE gw
  BY DEF ModAcceptsOrder
<1>2. StgOK' /\ Grows(stg, stg')
  BY <1>1, SameGrows DEF Typed, StgOK
<1>3. ModTakes(n, "order")
  BY <1>1, <1>2, ModStepTyped
<1>4. n + 1 \in Module => modQueue'[n + 1] = Append(modQueue[n + 1], m)
  <2>1. modQueue[n] # << >>
    BY <1>1 DEF Takes
  <2> QED BY <1>1, <2>1, Moved
<1> QED BY <1>1, <1>3, <1>4

LEMMA ModRefusesOrderTyped ==
  ASSUME Typed, NEW n \in Module, ModRefusesOrder(n)
  PROVE  LET o == Head(modQueue[n]).order IN
         /\ ModTakes(n, "order") /\ gw' = gw
         /\ \A k \in Module \ {n} : modQueue'[k] = modQueue[k]
         /\ mod' = [mod EXCEPT ![n] = remove(add(@, o), o.orderId)]
         /\ stg'[o.orderId].orderStatus # Created
         /\ \A id \in OrderId : id # o.orderId => stg'[id] = stg[id]
<1> DEFINE o == Head(modQueue[n]).order
<1>1. /\ Takes(n, "order") /\ Drop(n) /\ UNCHANGED preVars /\ gw' = gw
      /\ Fail(o) /\ mod' = [mod EXCEPT ![n] = remove(add(@, o), o.orderId)]
  BY DEF ModRefusesOrder
<1>2. ASSUME About(stg, o), o \in OrderInTDSrv
      PROVE  /\ StgOK' /\ Grows(stg, stg')
             /\ stg'[o.orderId].orderStatus # Created
             /\ \A id \in OrderId : id # o.orderId => stg'[id] = stg[id]
  BY <1>1, <1>2, Failing
<1>3. ModTakes(n, "order")
  BY <1>1, <1>2, ModStepTyped
<1>4. About(stg, o) /\ o \in OrderInTDSrv
  BY <1>3 DEF ModTakes, MsgOK
<1>5. \A k \in Module \ {n} : modQueue'[k] = modQueue[k]
  BY <1>1 DEF Drop, Typed, QueuesOK
<1> QED BY <1>1, <1>2, <1>3, <1>4, <1>5

LEMMA ModCancelTyped ==
  ASSUME Typed, NEW n \in Module, ModAcceptsCancel(n) \/ ModRefusesCancel(n)
  PROVE  ModTakes(n, "cancel") /\ UNCHANGED <<stg, gw, mod>>
<1>1. /\ Takes(n, "cancel") /\ (Pass(n) \/ Drop(n)) /\ UNCHANGED preVars /\ UNCHANGED <<stg, gw, mod>>
  BY DEF ModAcceptsCancel, ModRefusesCancel
<1>2. StgOK' /\ Grows(stg, stg')
  BY <1>1, SameGrows DEF Typed, StgOK
<1> QED BY <1>1, <1>2, ModStepTyped

LEMMA ModHandlesRetTyped ==
  ASSUME Typed, NEW n \in Module, ModHandlesRet(n)
  PROVE  LET o == Head(modQueue[n]).order IN
         /\ ModTakes(n, "ret") /\ gw' = gw
         /\ mod' = [mod EXCEPT ![n] = UpdateFromTDGW(@, ReportOf(o))]
         /\ n # 1 => stg' = stg
         /\ n = 1 => /\ stg[o.orderId] \in OrderInTDSrv
                     /\ stg'[o.orderId] = Receive(stg[o.orderId], o)
                     /\ \A id \in OrderId : id # o.orderId => stg'[id] = stg[id]
<1> DEFINE o == Head(modQueue[n]).order
<1>1. /\ Takes(n, "ret") /\ (Pass(n) \/ Drop(n)) /\ UNCHANGED preVars /\ gw' = gw
      /\ stg' = IF n = 1 THEN [stg EXCEPT ![o.orderId] = Receive(@, o)] ELSE stg
      /\ mod' = [mod EXCEPT ![n] = UpdateFromTDGW(@, ReportOf(o))]
  BY DEF ModHandlesRet
<1>2. ASSUME About(stg, o), o \in OrderInTDSrv
      PROVE  /\ StgOK' /\ Grows(stg, stg')
             /\ n = 1 => /\ stg[o.orderId] \in OrderInTDSrv
                         /\ stg'[o.orderId] = Receive(stg[o.orderId], o)
                         /\ \A id \in OrderId : id # o.orderId => stg'[id] = stg[id]
  <2>1. CASE n = 1
    BY <1>1, <1>2, <2>1, Received
  <2>2. CASE n # 1
    BY <1>1, <2>2, SameGrows DEF Typed, StgOK
  <2> QED BY <2>1, <2>2
<1>3. ModTakes(n, "ret")
  BY <1>1, <1>2, ModStepTyped
<1>4. About(stg, o) /\ o \in OrderInTDSrv
  BY <1>3 DEF ModTakes, MsgOK
<1> QED BY <1>1, <1>2, <1>3, <1>4

LEMMA StgCancelTyped ==
  ASSUME Typed, NEW id \in OrderId, StgCancel(id)
  PROVE  LET m == Msg("cancel", stg[id], 0) IN
         /\ Typed' /\ Grows(stg, stg') /\ m \in Message /\ m.kind = "cancel"
         /\ modQueue'[1] = Append(modQueue[1], m)
         /\ \A n \in Module \ {1} : modQueue'[n] = modQueue[n]
         /\ UNCHANGED <<stg, preVars, mod, gw>>
<1> DEFINE m == Msg("cancel", stg[id], 0)
<1>1. /\ Known(stg[id]) /\ modQueue' = [modQueue EXCEPT ![1] = Append(@, m)]
      /\ UNCHANGED <<stg, preVars, mod, gw>>
  BY DEF StgCancel
<1>2. stg[id] \in OrderInTDSrv /\ stg[id].orderId = id
  BY <1>1 DEF Typed, StgOK, Copies, Known
<1>3. m \in Message /\ m.kind = "cancel" /\ m.order = stg[id]
  BY <1>2, MsgTyped DEF Kinds
<1> HIDE DEF m
<1>4. MsgOK(stg, m)
  BY <1>1, <1>2, <1>3 DEF MsgOK, About
<1>5. /\ modQueue' \in [Module -> Seq(Message)] /\ modQueue'[1] = Append(modQueue[1], m)
      /\ \A n \in Module \ {1} : modQueue'[n] = modQueue[n]
      /\ \A n \in Module : Carries(stg, modQueue'[n])
  BY <1>1, <1>3, <1>4, ToFirstModule
<1>6. Grows(stg, stg') /\ StgOK' /\ GwOK'
  BY <1>1, SameGrows, TypedFrame DEF Typed, StgOK
<1>7. Typed'
  BY <1>1, <1>5, <1>6, TypedFrame DEF Typed, QueuesOK, preVars
<1> QED BY <1>1, <1>3, <1>5, <1>6, <1>7 DEF m

\* The gateway reports that its order has become o.
Becomes(id, o) ==
  LET g == gw[id] IN
  \/ /\ g.orderStatus = Pending /\ o.orderStatus \in {ConfirmedByExch, Failed}
     /\ o.dealSize = g.dealSize
  \/ /\ g.orderStatus \in {ConfirmedByExch, PartialFilled}
     /\ \E lots \in {0, 1} :
          /\ o.dealSize = g.dealSize + Signed(g.side, lots)
          /\ \/ /\ lots = 1
                /\ o.orderStatus = IF getUndealedSize(g) = 1 THEN Filled ELSE PartialFilled
             \/ /\ lots = 1 => Joint /\ getUndealedSize(g) > 1
                /\ o.orderStatus = IF o.dealSize = 0 THEN Canceled ELSE PartialFilledCanceled

SaysOf(id, m) ==
  LET g == gw[id]
      o == m.order IN
  /\ Typed' /\ Known(g) /\ g \in OrderInTDSrv
  /\ o \in OrderInTDSrv /\ o.orderId = id /\ o.acctId = g.acctId /\ o.side = g.side
  /\ o.orderSize = g.orderSize /\ o.posDirection = g.posDirection
  /\ Becomes(id, o)
  /\ gw' = [gw EXCEPT ![id] = o] /\ gw'[id] = o
  /\ \A x \in OrderId : x # id => gw'[x] = gw[x]
  /\ m \in Message /\ m.kind = "ret" /\ m.lastDealSize = o.dealSize - g.dealSize /\ MsgOK(stg, m)
  /\ preQueue' = Append(preQueue, m)
  /\ UNCHANGED <<stg, pre, hold, modVars>>

LEMMA ReportsTyped ==
  ASSUME Typed, NEW id \in OrderId, Known(gw[id]), NEW o \in OrderInTDSrv, Reports(id, o),
         o.orderId = id, o.acctId = gw[id].acctId, o.side = gw[id].side,
         o.orderSize = gw[id].orderSize, o.posDirection = gw[id].posDirection,
         Becomes(id, o)
  PROVE  SaysOf(id, Msg("ret", o, o.dealSize - gw[id].dealSize))
<1> DEFINE d == o.dealSize - gw[id].dealSize
           m == Msg("ret", o, d)
<1>1. gw[id] \in OrderInTDSrv /\ gw \in Copies
  BY DEF Typed, GwOK, Copies, Known
<1>2. d \in Int
  BY <1>1 DEF OrderInTDSrv
<1>3. /\ gw' = [gw EXCEPT ![id] = o] /\ preQueue' = Append(preQueue, m)
      /\ UNCHANGED <<stg, pre, hold, modVars, canceling>>
  BY DEF Reports
<1> HIDE DEF d
<1>4. m \in Message /\ m.kind = "ret" /\ m.order = o /\ m.lastDealSize = d
  BY <1>2, MsgTyped DEF Kinds
<1> HIDE DEF m
<1>5. o.orderStatus \in Reported
  BY DEF Becomes, Reported
<1>6. About(stg, o)
  BY DEF Typed, GwOK, About
<1>7. MsgOK(stg, m)
  BY <1>4, <1>5, <1>6 DEF MsgOK
<1>8. /\ gw' \in Copies /\ gw'[id] = o /\ \A x \in OrderId : x # id => gw'[x] = gw[x]
  BY <1>1, <1>3 DEF Copies
<1>9. GwOK'
  BY <1>3, <1>5, <1>6, <1>8 DEF Typed, GwOK
<1>10. Carries(stg, Append(preQueue, m))
  BY <1>4, <1>7, CarriesEntered DEF Typed, QueuesOK
<1>11. Typed'
  BY <1>3, <1>9, <1>10 DEF Typed, StgOK, QueuesOK, modVars
<1> QED BY <1>1, <1>3, <1>4, <1>7, <1>8, <1>11 DEF SaysOf, m, d

LEMMA GatewayTyped ==
  ASSUME Typed, NEW id \in OrderId,
         GWConfirms(id) \/ GWRefuses(id) \/ GWDeals(id) \/ GWCancels(id)
  PROVE  \E m : SaysOf(id, m)
<1> DEFINE g == gw[id]
<1>1. Known(g)
  BY DEF GWConfirms, GWRefuses, GWDeals, GWCancels, Live
<1>2. g \in OrderInTDSrv /\ g.orderId = id
  BY <1>1 DEF Typed, GwOK, Copies, Known
<1>3. /\ g.dealSize \in Int /\ \A n \in {0, 1} : Signed(g.side, n) \in Int
      /\ {ConfirmedByExch, Failed, PartialFilled, Filled, Canceled, PartialFilledCanceled} \subseteq OrderStatus
  BY <1>2 DEF OrderInTDSrv, Signed, Abs, OrderStatus
<1> HIDE DEF g
<1>4. ASSUME NEW o, Reports(id, o), o \in OrderInTDSrv, o.orderId = id, o.acctId = g.acctId,
             o.side = g.side, o.orderSize = g.orderSize, o.posDirection = g.posDirection,
             Becomes(id, o)
      PROVE  \E m : SaysOf(id, m)
  BY <1>1, <1>4, ReportsTyped DEF g
<1>5. CASE GWConfirms(id)
  <2> DEFINE o == [g EXCEPT !.orderStatus = ConfirmedByExch, !.exchOrderId = id]
  <2>1. g.orderStatus = Pending /\ Reports(id, o)
    BY <1>5 DEF GWConfirms, g
  <2>2. /\ o \in OrderInTDSrv /\ o.orderId = id /\ o.acctId = g.acctId /\ o.side = g.side
        /\ o.orderSize = g.orderSize /\ o.posDirection = g.posDirection
        /\ o.orderStatus = ConfirmedByExch /\ o.dealSize = g.dealSize
    BY <1>2, <1>3 DEF OrderInTDSrv
  <2> HIDE DEF o
  <2>3. Becomes(id, o)
    BY <2>1, <2>2 DEF Becomes, g
  <2> QED BY <1>4, <2>1, <2>2, <2>3
<1>6. CASE GWRefuses(id)
  <2> DEFINE o == [g EXCEPT !.orderStatus = Failed, !.statusCode = 1]
  <2>1. g.orderStatus = Pending /\ Reports(id, o)
    BY <1>6 DEF GWRefuses, g
  <2>2. /\ o \in OrderInTDSrv /\ o.orderId = id /\ o.acctId = g.acctId /\ o.side = g.side
        /\ o.orderSize = g.orderSize /\ o.posDirection = g.posDirection
        /\ o.orderStatus = Failed /\ o.dealSize = g.dealSize
    BY <1>2, <1>3 DEF OrderInTDSrv
  <2> HIDE DEF o
  <2>3. Becomes(id, o)
    BY <2>1, <2>2 DEF Becomes, g
  <2> QED BY <1>4, <2>1, <2>2, <2>3
<1>7. ASSUME NEW d \in Int, NEW st \in OrderStatus
      PROVE  LET o == [g EXCEPT !.dealSize = d, !.orderStatus = st] IN
             /\ o \in OrderInTDSrv /\ o.orderId = id /\ o.acctId = g.acctId /\ o.side = g.side
             /\ o.orderSize = g.orderSize /\ o.posDirection = g.posDirection
             /\ o.orderStatus = st /\ o.dealSize = d
  BY <1>2 DEF OrderInTDSrv
<1>8. CASE GWDeals(id)
  <2> DEFINE d == g.dealSize + Signed(g.side, 1)
             st == IF getUndealedSize(g) = 1 THEN Filled ELSE PartialFilled
             o == [g EXCEPT !.dealSize = d, !.orderStatus = st]
  <2>1. /\ Reports(id, [g EXCEPT !.dealSize = @ + Signed(g.side, 1), !.orderStatus = st])
        /\ g.orderStatus \in {ConfirmedByExch, PartialFilled}
    BY <1>8 DEF GWDeals, Live, g
  <2>2. Reports(id, o)
    BY <2>1
  <2>3. d \in Int /\ st \in OrderStatus
    BY <1>3
  <2>4. /\ o \in OrderInTDSrv /\ o.orderId = id /\ o.acctId = g.acctId /\ o.side = g.side
        /\ o.orderSize = g.orderSize /\ o.posDirection = g.posDirection
        /\ o.orderStatus = st /\ o.dealSize = d
    BY <1>7, <2>3
  <2> HIDE DEF o
  <2>5. Becomes(id, o)
    BY <2>1, <2>4 DEF Becomes, g
  <2> QED BY <1>4, <2>2, <2>4, <2>5
<1>9. CASE GWCancels(id)
  <2>1. PICK lots \in IF Joint /\ getUndealedSize(g) > 1 THEN {0, 1} ELSE {0} :
          Reports(id, [g EXCEPT
             !.dealSize = g.dealSize + Signed(g.side, lots),
             !.orderStatus = IF g.dealSize + Signed(g.side, lots) = 0
                             THEN Canceled ELSE PartialFilledCanceled])
    BY <1>9 DEF GWCancels, g
  <2> DEFINE d == g.dealSize + Signed(g.side, lots)
             st == IF d = 0 THEN Canceled ELSE PartialFilledCanceled
             o == [g EXCEPT !.dealSize = d, !.orderStatus = st]
  <2>2. Reports(id, o)
    BY <2>1
  <2>6. lots \in {0, 1} /\ (lots = 1 => Joint /\ getUndealedSize(g) > 1)
    <3> HIDE DEF d, st, o
    <3>1. CASE Joint /\ getUndealedSize(g) > 1
      BY <3>1
    <3>2. CASE ~(Joint /\ getUndealedSize(g) > 1)
      BY <3>2
    <3> QED BY <3>1, <3>2
  <2>7. g.orderStatus \in {ConfirmedByExch, PartialFilled}
    BY <1>9 DEF GWCancels, Live, g
  <2>3. d \in Int /\ st \in OrderStatus
    BY <1>3, <2>6
  <2>4. /\ o \in OrderInTDSrv /\ o.orderId = id /\ o.acctId = g.acctId /\ o.side = g.side
        /\ o.orderSize = g.orderSize /\ o.posDirection = g.posDirection
        /\ o.orderStatus = st /\ o.dealSize = d
    BY <1>7, <2>3
  <2> HIDE DEF o
  <2>5. Becomes(id, o)
    BY <2>4, <2>6, <2>7 DEF Becomes, g
  <2> QED BY <1>4, <2>2, <2>4, <2>5
<1> QED BY <1>5, <1>6, <1>8, <1>9

LEMMA TypedStep == Typed /\ [Next]_vars => Typed' /\ Grows(stg, stg')
<1> SUFFICES ASSUME Typed, [Next]_vars PROVE Typed' /\ Grows(stg, stg')
  OBVIOUS
<1>1. CASE UNCHANGED vars
  <2>1. UNCHANGED <<stg, preQueue, modQueue, gw, hold, mod>>
    BY <1>1 DEF vars, preVars, modVars
  <2>2. Grows(stg, stg') /\ StgOK' /\ mod' = [n \in Module |-> mod'[n]]
    BY <2>1, SameGrows DEF Typed, StgOK
  <2> QED BY <2>1, <2>2, TypedFrame DEF Typed, QueuesOK
<1>2. ASSUME NEW id \in OrderId, NEW m, SaysOf(id, m) PROVE Typed' /\ Grows(stg, stg')
  BY <1>2, SameGrows DEF SaysOf
<1>3. ASSUME NEW n \in Module, NEW kind, ModTakes(n, kind) PROVE Typed' /\ Grows(stg, stg')
  BY <1>3 DEF ModTakes
<1> QED BY <1>1, <1>2, <1>3, StgOrderTyped, StgCancelTyped, PreHandleOrderTyped, PreHandleRetTyped,
        ModAcceptsOrderTyped, ModRefusesOrderTyped, ModCancelTyped, ModHandlesRetTyped,
        GatewayTyped DEF Next

-----------------------------------------------------------------------------
\* No order is forgotten.
Waits(id) ==
  \/ IsIn(preQueue, "order", id) \/ \E n \in Module : IsIn(modQueue[n], "order", id)
  \/ Known(gw[id]) /\ gw[id].orderStatus = Pending
  \/ IsIn(preQueue, "ret", id) \/ IsIn(modQueue[1], "ret", id)

LEMMA WaitsModule ==
  ASSUME Typed, NEW n \in Module, NEW kind, ModTakes(n, kind), NEW x \in OrderId, Waits(x),
         gw'[x] = gw[x], ~(kind = "order" /\ Head(modQueue[n]).order.orderId = x),
         ~(n = 1 /\ kind = "ret" /\ Head(modQueue[n]).order.orderId = x)
  PROVE  Waits(x)'
<1>1. /\ modQueue[n] \in Seq(Message) /\ modQueue[n] # << >> /\ modQueue'[n] = Tail(modQueue[n])
      /\ Head(modQueue[n]) \in Message /\ Head(modQueue[n]).kind = kind /\ preQueue' = preQueue
      /\ \A k \in Module \ {n} : \/ modQueue'[k] = modQueue[k]
                                 \/ k = n + 1 /\ modQueue'[k] = Append(modQueue[k], Head(modQueue[n]))
      /\ modQueue \in [Module -> Seq(Message)]
  BY DEF ModTakes, Typed, QueuesOK
<1>2. \A k \in Module : \A y \in {"order", "ret"} :
        IsIn(modQueue[k], y, x) => IsIn(modQueue'[k], y, x) \/ (k = n /\ IsMsg(Head(modQueue[n]), y, x))
  <2> SUFFICES ASSUME NEW k \in Module, NEW y \in {"order", "ret"}, IsIn(modQueue[k], y, x)
               PROVE  IsIn(modQueue'[k], y, x) \/ (k = n /\ IsMsg(Head(modQueue[n]), y, x))
    OBVIOUS
  <2>1. CASE k = n
    BY <1>1, <2>1, InLeft
  <2>2. CASE k # n /\ modQueue'[k] = modQueue[k]
    BY <2>2
  <2>3. CASE k # n /\ modQueue'[k] = Append(modQueue[k], Head(modQueue[n]))
    <3>1. modQueue[k] \in Seq(Message)
      BY <1>1
    <3> QED BY <1>1, <2>3, <3>1, InEntered
  <2> QED BY <1>1, <2>1, <2>2, <2>3
<1>3. \A k \in Module : IsIn(modQueue[k], "order", x) => IsIn(modQueue'[k], "order", x)
  BY <1>1, <1>2 DEF IsMsg
<1>4. IsIn(modQueue[1], "ret", x) => IsIn(modQueue'[1], "ret", x)
  BY <1>1, <1>2, FirstModule DEF IsMsg
<1> QED BY <1>1, <1>3, <1>4 DEF Waits

LEMMA WaitsStep ==
  ASSUME Typed, UnansweredIsOnItsWay, [Next]_vars
  PROVE  UnansweredIsOnItsWay'
<1> SUFFICES ASSUME NEW x \in OrderId, Known(stg'[x]), stg'[x].orderStatus = Created
             PROVE  Waits(x)'
  BY DEF UnansweredIsOnItsWay, Waits
<1>0. /\ Known(stg[x]) /\ stg[x].orderStatus = Created => Waits(x)
      /\ preQueue \in Seq(Message) /\ modQueue \in [Module -> Seq(Message)] /\ 1 \in Module
  BY FirstModule DEF UnansweredIsOnItsWay, Waits, Typed, QueuesOK, Carries
<1>1. CASE UNCHANGED vars
  BY <1>0, <1>1 DEF vars, preVars, modVars, Waits
<1>2. ASSUME NEW id \in OrderId, NEW acct \in Acct, NEW side \in Side,
             NEW direction \in Direction, NEW size \in Size,
             StgOrder(id, acct, side, direction, size)
      PROVE  Waits(x)'
  <2> DEFINE m == Msg("order", NewOrder(id, acct, side, direction, size), 0)
  <2>1. /\ m \in Message /\ m.kind = "order" /\ m.order.orderId = id /\ preQueue' = Append(preQueue, m)
        /\ \A y \in OrderId : y # id => stg'[y] = stg[y]
        /\ UNCHANGED <<pre, hold, modVars, gw, canceling>>
    BY <1>2, StgOrderTyped
  <2> HIDE DEF m
  <2>2. \A k, y : IsIn(preQueue', k, y) <=> IsIn(preQueue, k, y) \/ IsMsg(m, k, y)
    BY <1>0, <2>1, InEntered
  <2> QED BY <1>0, <2>1, <2>2 DEF Waits, IsMsg, modVars
<1>3. CASE PreHandleOrder
  <2> DEFINE o == Head(preQueue).order
  <2>1. /\ preQueue # << >> /\ preQueue' = Tail(preQueue) /\ Head(preQueue).kind = "order"
        /\ o \in OrderInTDSrv /\ About(stg, o) /\ gw' = gw
        /\ \/ \E p \in OrderInTDSrv : PassedOn(p)
           \/ Fail(o) /\ UNCHANGED <<pre, modQueue>>
    BY <1>3, PreHandleOrderTyped
  <2>2. \A k, y : IsIn(preQueue, k, y) <=> IsIn(preQueue', k, y) \/ IsMsg(Head(preQueue), k, y)
    BY <1>0, <2>1, InLeft
  <2>3. ASSUME NEW p \in OrderInTDSrv, PassedOn(p) PROVE Waits(x)'
    <3> DEFINE m == Msg("order", p, 0)
    <3>1. /\ p \in handleSharedPos(o) /\ stg' = stg /\ m \in Message /\ m.kind = "order" /\ m.order = p
          /\ modQueue'[1] = Append(modQueue[1], m)
          /\ \A n \in Module \ {1} : modQueue'[n] = modQueue[n]
      BY <2>3 DEF PassedOn
    <3>2. p.orderId = o.orderId
      BY <2>1, <3>1, Shared
    <3> HIDE DEF m
    <3>3. \A k, y : IsIn(modQueue'[1], k, y) <=> IsIn(modQueue[1], k, y) \/ IsMsg(m, k, y)
      BY <1>0, <3>1, InEntered
    <3>4. CASE x = o.orderId
      BY <1>0, <3>1, <3>2, <3>3, <3>4 DEF Waits, IsMsg
    <3>5. CASE x # o.orderId
      <4>1. /\ \A n \in Module : IsIn(modQueue[n], "order", x) => IsIn(modQueue'[n], "order", x)
            /\ IsIn(modQueue[1], "ret", x) => IsIn(modQueue'[1], "ret", x)
        BY <3>1, <3>3
      <4>2. \A k : IsIn(preQueue, k, x) => IsIn(preQueue', k, x)
        BY <2>2, <3>5 DEF IsMsg
      <4> QED BY <1>0, <2>1, <3>1, <4>1, <4>2 DEF Waits
    <3> QED BY <3>4, <3>5
  <2>4. CASE Fail(o) /\ UNCHANGED <<pre, modQueue>>
    <3>1. x # o.orderId /\ stg'[x] = stg[x]
      BY <2>1, <2>4, Failing
    <3> QED BY <1>0, <2>1, <2>2, <2>4, <3>1 DEF Waits, IsMsg
  <2> QED BY <2>1, <2>3, <2>4
<1>4. CASE PreHandleRet
  <2> DEFINE m == Head(preQueue)
  <2>1. /\ preQueue # << >> /\ preQueue' = Tail(preQueue) /\ m.kind = "ret" /\ m \in Message
        /\ modQueue'[1] = Append(modQueue[1], m)
        /\ \A n \in Module \ {1} : modQueue'[n] = modQueue[n]
        /\ stg' = stg /\ gw' = gw
    BY <1>4, PreHandleRetTyped
  <2>2. \A k, y : IsIn(preQueue, k, y) <=> IsIn(preQueue', k, y) \/ IsMsg(m, k, y)
    BY <1>0, <2>1, InLeft
  <2> HIDE DEF m
  <2>3. \A k, y : IsIn(modQueue'[1], k, y) <=> IsIn(modQueue[1], k, y) \/ IsMsg(m, k, y)
    BY <1>0, <2>1, InEntered
  <2>4. \A n \in Module : IsIn(modQueue[n], "order", x) => IsIn(modQueue'[n], "order", x)
    BY <2>1, <2>3
  <2>5. /\ IsIn(preQueue, "order", x) => IsIn(preQueue', "order", x)
        /\ IsIn(preQueue, "ret", x) => IsIn(preQueue', "ret", x) \/ IsIn(modQueue'[1], "ret", x)
    BY <2>1, <2>2, <2>3 DEF IsMsg
  <2> QED BY <1>0, <2>1, <2>3, <2>4, <2>5 DEF Waits
<1>5. ASSUME NEW n \in Module, ModAcceptsOrder(n) PROVE Waits(x)'
  <2> DEFINE m == Head(modQueue[n])
             o == m.order
  <2>1. /\ ModTakes(n, "order") /\ stg' = stg
        /\ n + 1 \in Module => modQueue'[n + 1] = Append(modQueue[n + 1], m)
        /\ gw' = IF n = NumModules
                 THEN [gw EXCEPT ![o.orderId] = [o EXCEPT !.orderStatus = Pending]] ELSE gw
    BY <1>5, ModAcceptsOrderTyped
  <2>2. m \in Message /\ m.kind = "order" /\ o \in OrderInTDSrv
    BY <2>1 DEF ModTakes
  <2>3. CASE x # o.orderId
    <3>1. gw'[x] = gw[x]
      BY <2>1, <2>3 DEF Typed, GwOK, Copies
    <3> QED BY <1>0, <1>5, <2>1, <2>3, <3>1, WaitsModule
  <2>4. CASE x = o.orderId /\ n = NumModules
    <3> DEFINE g == [o EXCEPT !.orderStatus = Pending]
    <3>1. g.orderStatus = Pending /\ g \in OrderInTDSrv
      BY <2>2 DEF OrderInTDSrv, OrderStatus
    <3>2. gw' = [gw EXCEPT ![x] = g]
      BY <2>1, <2>4
    <3> HIDE DEF g
    <3>3. gw'[x] = g
      BY <3>1, <3>2 DEF Typed, GwOK, Copies
    <3> QED BY <3>1, <3>3, KnownOrder DEF Waits
  <2>5. CASE x = o.orderId /\ n # NumModules
    <3>1. n + 1 \in Module
      BY <1>5, <2>5, TDSrvAssumption DEF Module
    <3> HIDE DEF m
    <3>2. modQueue[n + 1] \in Seq(Message) /\ modQueue'[n + 1] = Append(modQueue[n + 1], m)
      BY <1>0, <2>1, <3>1 DEF m
    <3>3. IsIn(Append(modQueue[n + 1], m), "order", x)
      BY <2>2, <2>5, <3>2, InEntered DEF IsMsg, m
    <3>4. IsIn(modQueue'[n + 1], "order", x)
      BY <3>2, <3>3
    <3> QED BY <3>1, <3>4 DEF Waits
  <2> QED BY <2>3, <2>4, <2>5
<1>6. ASSUME NEW n \in Module, ModRefusesOrder(n) PROVE Waits(x)'
  <2>1. /\ ModTakes(n, "order") /\ gw' = gw
        /\ x # Head(modQueue[n]).order.orderId /\ stg'[x] = stg[x]
    BY <1>6, ModRefusesOrderTyped
  <2> QED BY <1>0, <1>6, <2>1, WaitsModule
<1>7. ASSUME NEW n \in Module, ModAcceptsCancel(n) \/ ModRefusesCancel(n) PROVE Waits(x)'
  BY <1>0, <1>7, ModCancelTyped, WaitsModule
<1>8. ASSUME NEW n \in Module, ModHandlesRet(n) PROVE Waits(x)'
  <2> DEFINE o == Head(modQueue[n]).order
  <2>1. /\ ModTakes(n, "ret") /\ gw' = gw
        /\ n # 1 => stg' = stg
        /\ n = 1 => /\ stg[o.orderId] \in OrderInTDSrv
                    /\ stg'[o.orderId] = Receive(stg[o.orderId], o)
                    /\ \A id \in OrderId : id # o.orderId => stg'[id] = stg[id]
    BY <1>8, ModHandlesRetTyped
  <2>2. CASE n # 1
    BY <1>0, <1>8, <2>1, <2>2, WaitsModule
  <2>3. CASE n = 1
    <3>1. o \in OrderInTDSrv /\ o.orderStatus \in Reported
      BY <2>1 DEF ModTakes, MsgOK
    <3>2. stg'[o.orderId].orderStatus # Created
      <4>1. stg'[o.orderId].orderStatus
              = IF o.orderStatus > stg[o.orderId].orderStatus /\ stg[o.orderId].orderStatus < Filled
                THEN o.orderStatus ELSE stg[o.orderId].orderStatus
        BY <2>1, <2>3, <3>1, Merge DEF Receive
      <4> QED BY <3>1, <4>1, StatusNumbers DEF Numbers, Created, Filled
    <3>3. x # o.orderId /\ stg'[x] = stg[x]
      BY <2>1, <2>3, <3>2
    <3> QED BY <1>0, <1>8, <2>1, <2>3, <3>3, WaitsModule
  <2> QED BY <2>2, <2>3
<1>9. ASSUME NEW id \in OrderId, StgCancel(id) PROVE Waits(x)'
  <2> DEFINE m == Msg("cancel", stg[id], 0)
  <2>1. /\ m \in Message /\ m.kind = "cancel" /\ modQueue'[1] = Append(modQueue[1], m)
        /\ \A n \in Module \ {1} : modQueue'[n] = modQueue[n]
        /\ UNCHANGED <<stg, preVars, mod, gw>>
    BY <1>9, StgCancelTyped
  <2> HIDE DEF m
  <2>2. \A k, y : IsIn(modQueue[1], k, y) => IsIn(modQueue'[1], k, y)
    BY <1>0, <2>1, InEntered
  <2> QED BY <1>0, <2>1, <2>2 DEF Waits, preVars
<1>10. ASSUME NEW id \in OrderId, NEW m, SaysOf(id, m) PROVE Waits(x)'
  <2>1. /\ m \in Message /\ m.kind = "ret" /\ m.order.orderId = id /\ preQueue' = Append(preQueue, m)
        /\ stg' = stg /\ modQueue' = modQueue
        /\ \A y \in OrderId : y # id => gw'[y] = gw[y]
    BY <1>10 DEF SaysOf, modVars
  <2>2. \A k, y : IsIn(preQueue', k, y) <=> IsIn(preQueue, k, y) \/ IsMsg(m, k, y)
    BY <1>0, <2>1, InEntered
  <2> QED BY <1>0, <2>1, <2>2 DEF Waits, IsMsg
<1> QED BY <1>1, <1>2, <1>3, <1>4, <1>5, <1>6, <1>7, <1>8, <1>9, <1>10, GatewayTyped DEF Next

LEMMA WaitsInit == Init => UnansweredIsOnItsWay
BY DEF Init, UnansweredIsOnItsWay, Known

\* An order the strategy engine has heard nothing of is on its way to the
\* gateway, unanswered there, or its answer is on its way back.
THEOREM Unanswered == Spec => []UnansweredIsOnItsWay
BY TypedInit, TypedStep, WaitsInit, WaitsStep, PTL DEF Spec

-----------------------------------------------------------------------------
(***************************************************************************)
(* What the trade server's copies of the orders say, as long as no closed  *)
(* order has to be forgotten (NoneForgotten).                              *)
(***************************************************************************)
Terms(o) == <<o.acctId, o.side, o.orderSize, o.posDirection>>

NoneForgotten == IsFiniteSet(OrderId) /\ Cardinality(OrderId) <= MaxClosed

-----------------------------------------------------------------------------
\* An order manager of the trade server: each order is held once, among the
\* orders under way until it is closed and among the closed ones afterwards.
Keeps(om) ==
  /\ \E S \in SUBSET OrderId : om \in [open : [S -> OrderInTDSrv], recent : Seq(OrderInTDSrv)]
  /\ OpenIds(om) \cap RecentIds(om) = {}
  /\ \A id \in OpenIds(om) : om.open[id].orderId = id /\ ~closed(om.open[id])
  /\ \A i \in DOMAIN om.recent : closed(om.recent[i])
  /\ \A i, j \in DOMAIN om.recent : om.recent[i].orderId = om.recent[j].orderId => i = j

LEMMA KeepsNone == Keeps(EmptyGroup) /\ HeldBy(EmptyGroup) = {}
<1>1. EmptyGroup.open \in [{} -> OrderInTDSrv] /\ EmptyGroup.recent = << >>
      /\ OpenIds(EmptyGroup) = {} /\ EmptyGroup = [open |-> EmptyGroup.open, recent |-> << >>]
  BY DEF EmptyGroup, OpenIds
<1>2. << >> \in Seq(OrderInTDSrv) /\ DOMAIN << >> = {}
  OBVIOUS
<1>3. RecentIds(EmptyGroup) = {}
  BY <1>1, <1>2 DEF RecentIds
<1>4. {} \in SUBSET OrderId
  OBVIOUS
<1>5. EmptyGroup \in [open : [{} -> OrderInTDSrv], recent : Seq(OrderInTDSrv)]
  BY <1>1, <1>2
<1> QED BY <1>1, <1>2, <1>3, <1>4, <1>5 DEF Keeps, HeldBy

LEMMA KeptForm ==
  ASSUME NEW om, Keeps(om)
  PROVE  /\ OpenIds(om) \in SUBSET OrderId /\ om.open \in [OpenIds(om) -> OrderInTDSrv]
         /\ om.recent \in Seq(OrderInTDSrv) /\ Len(om.recent) \in Nat
         /\ DOMAIN om.recent = 1 .. Len(om.recent)
         /\ om = [open |-> om.open, recent |-> om.recent]
<1>1. PICK S \in SUBSET OrderId : om \in [open : [S -> OrderInTDSrv], recent : Seq(OrderInTDSrv)]
  BY DEF Keeps
<1> QED BY <1>1 DEF OpenIds

\* What is held of an order.
LEMMA Held ==
  ASSUME NEW om, Keeps(om), NEW id \in HeldBy(om)
  PROVE  /\ id \in OrderId /\ OrderOf(om, id) \in OrderInTDSrv /\ OrderOf(om, id).orderId = id
         /\ id \in OpenIds(om) <=> ~closed(OrderOf(om, id))
         /\ id \in OpenIds(om) => OrderOf(om, id) = om.open[id]
         /\ id \notin OpenIds(om) => /\ id \in RecentIds(om)
                                     /\ \A i \in DOMAIN om.recent :
                                          om.recent[i].orderId = id => OrderOf(om, id) = om.recent[i]
<1>1. CASE id \in OpenIds(om)
  <2>1. OrderOf(om, id) = om.open[id]
    BY <1>1 DEF OrderOf
  <2> QED BY <1>1, <2>1, KeptForm DEF Keeps
<1>2. CASE id \notin OpenIds(om)
  <2> DEFINE k == CHOOSE i \in DOMAIN om.recent : om.recent[i].orderId = id
  <2>1. id \in RecentIds(om) /\ k \in DOMAIN om.recent /\ om.recent[k].orderId = id
    BY <1>2 DEF HeldBy, RecentIds
  <2>2. OrderOf(om, id) = om.recent[k]
    BY <1>2 DEF OrderOf
  <2> HIDE DEF k
  <2>3. om.recent[k] \in OrderInTDSrv /\ closed(om.recent[k])
    BY <2>1, KeptForm DEF Keeps
  <2>4. \A i \in DOMAIN om.recent : om.recent[i].orderId = id => i = k
    BY <2>1 DEF Keeps
  <2> QED BY <1>2, <2>1, <2>2, <2>3, <2>4 DEF OrderInTDSrv
<1> QED BY <1>1, <1>2

\* An order is added, and perhaps taken back.
LEMMA Added ==
  ASSUME NEW om, Keeps(om), NEW o \in OrderInTDSrv, o.orderId \notin HeldBy(om), ~closed(o)
  PROVE  /\ Keeps(add(om, o)) /\ HeldBy(add(om, o)) = HeldBy(om) \cup {o.orderId}
         /\ OrderOf(add(om, o), o.orderId) = o
         /\ \A id \in HeldBy(om) : OrderOf(add(om, o), id) = OrderOf(om, id)
         /\ remove(add(om, o), o.orderId) = om
<1> DEFINE x == o.orderId
           S == OpenIds(om)
           f == [id \in S \cup {x} |-> IF id = x THEN o ELSE om.open[id]]
           new == add(om, o)
<1>1. /\ S \in SUBSET OrderId /\ om.open \in [S -> OrderInTDSrv] /\ om.recent \in Seq(OrderInTDSrv)
      /\ om = [open |-> om.open, recent |-> om.recent]
  BY KeptForm
<1>2. x \in OrderId /\ x \notin S /\ x \notin RecentIds(om)
  BY DEF HeldBy, OrderInTDSrv
<1>3. new = [open |-> f, recent |-> om.recent]
  BY <1>1 DEF add, OpenIds
<1>4. /\ f \in [S \cup {x} -> OrderInTDSrv] /\ f[x] = o /\ \A id \in S : f[id] = om.open[id]
  BY <1>1, <1>2
<1>5. [id \in (S \cup {x}) \ {x} |-> f[id]] = om.open
  BY <1>1, <1>2, <1>4
<1> HIDE DEF f
<1>6. /\ new.open = f /\ new.recent = om.recent /\ OpenIds(new) = S \cup {x}
      /\ RecentIds(new) = RecentIds(om)
  BY <1>3, <1>4 DEF OpenIds, RecentIds
<1>7. remove(new, x) = om
  BY <1>1, <1>3, <1>4, <1>5 DEF remove
<1> HIDE DEF new, S
<1>8. S \cup {x} \in SUBSET OrderId
  BY <1>1, <1>2
<1>9. new \in [open : [S \cup {x} -> OrderInTDSrv], recent : Seq(OrderInTDSrv)]
  BY <1>1, <1>3, <1>4
<1>10. \A id \in OpenIds(new) : new.open[id].orderId = id /\ ~closed(new.open[id])
  BY <1>4, <1>6 DEF Keeps, S
<1>11. OpenIds(new) \cap RecentIds(new) = {}
  BY <1>2, <1>6 DEF Keeps, S
<1>12. Keeps(new)
  BY <1>6, <1>8, <1>9, <1>10, <1>11 DEF Keeps
<1>13. HeldBy(new) = HeldBy(om) \cup {x}
  BY <1>6 DEF HeldBy, S
<1>14. OrderOf(new, x) = o
  BY <1>4, <1>6 DEF OrderOf
<1>15. \A id \in HeldBy(om) : OrderOf(new, id) = OrderOf(om, id)
  BY <1>2, <1>4, <1>6 DEF OrderOf, S, HeldBy
<1> QED BY <1>7, <1>12, <1>13, <1>14, <1>15 DEF new

\* There is room for one more closed order.
LEMMA Room ==
  ASSUME NoneForgotten, NEW om, Keeps(om), NEW id \in OrderId, id \notin RecentIds(om)
  PROVE  Len(om.recent) + 1 <= MaxClosed
<1> DEFINE n == Len(om.recent)
           f == [i \in 1 .. n + 1 |-> IF i = n + 1 THEN id ELSE om.recent[i].orderId]
<1>1. /\ om.recent \in Seq(OrderInTDSrv) /\ n \in Nat /\ DOMAIN om.recent = 1 .. n
  BY KeptForm
<1> HIDE DEF n, f
<1>2. \A i \in 1 .. n : om.recent[i].orderId \in OrderId /\ om.recent[i].orderId # id
  <2>1. \A i \in 1 .. n : om.recent[i] \in OrderInTDSrv
    BY <1>1 DEF n
  <2>2. \A i \in 1 .. n : om.recent[i].orderId # id
    BY <1>1 DEF RecentIds
  <2> QED BY <2>1, <2>2 DEF OrderInTDSrv
<1>3. /\ f \in [1 .. n + 1 -> OrderId] /\ f[n + 1] = id
      /\ \A i \in 1 .. n : f[i] = om.recent[i].orderId
      /\ \A i \in 1 .. n + 1 : i \in 1 .. n \/ i = n + 1
  BY <1>1, <1>2 DEF f
<1> HIDE DEF f
<1>4. \A i, j \in 1 .. n + 1 : f[i] = f[j] => i = j
  BY <1>1, <1>2, <1>3 DEF Keeps
<1>5. f \in Injection(1 .. n + 1, OrderId)
  BY <1>3, <1>4 DEF Injection, IsInjective
<1>6. Cardinality(1 .. n + 1) <= Cardinality(OrderId)
  BY <1>5, FS_Injection DEF NoneForgotten
<1>7. 1 \in Int /\ n + 1 \in Int /\ ~(1 > n + 1) /\ (n + 1) - 1 + 1 = n + 1
  BY <1>1
<1>8. Cardinality(1 .. n + 1) = n + 1
  BY <1>7, FS_Interval
<1>9. Cardinality(OrderId) \in Nat
  BY FS_CardinalityType DEF NoneForgotten
<1> QED BY <1>1, <1>6, <1>8, <1>9, MaxClosedAssumption DEF NoneForgotten, n

\* An order that is held is put back changed.
LEMMA PutBack ==
  ASSUME NoneForgotten, NEW om, Keeps(om), NEW o \in OrderInTDSrv, o.orderId \in HeldBy(om),
         closed(OrderOf(om, o.orderId)) => closed(o)
  PROVE  /\ Keeps(Store(om, o)) /\ HeldBy(Store(om, o)) = HeldBy(om)
         /\ OrderOf(Store(om, o), o.orderId) = o
         /\ \A id \in HeldBy(om) : id # o.orderId => OrderOf(Store(om, o), id) = OrderOf(om, id)
<1> DEFINE x == o.orderId
           S == OpenIds(om)
           R == om.recent
           new == Store(om, o)
<1>1. /\ S \in SUBSET OrderId /\ om.open \in [S -> OrderInTDSrv] /\ R \in Seq(OrderInTDSrv)
      /\ om = [open |-> om.open, recent |-> R] /\ Len(R) \in Nat /\ DOMAIN R = 1 .. Len(R)
  BY KeptForm
<1>2. x \in OrderId
  BY DEF OrderInTDSrv
<1>3. CASE x \in S /\ closed(o)
  <2> DEFINE f == [y \in S \ {x} |-> om.open[y]]
             r == Append(R, o)
  <2>1. x \notin RecentIds(om) /\ \A i \in DOMAIN R : R[i].orderId # x
    BY <1>3 DEF Keeps, RecentIds
  <2>2. /\ r \in Seq(OrderInTDSrv) /\ Len(r) = Len(R) + 1 /\ DOMAIN r = 1 .. Len(R) + 1
        /\ r[Len(R) + 1] = o /\ \A i \in 1 .. Len(R) : r[i] = R[i]
    BY <1>1
  <2>3. Len(r) <= MaxClosed
    BY <1>2, <2>1, <2>2, Room
  <2>4. PushRecent(R, o) = r
    BY <2>1, <2>2, <2>3, MaxClosedAssumption DEF PushRecent
  <2>5. new = [open |-> f, recent |-> r]
    BY <1>1, <1>3, <2>4 DEF Store, remove, OpenIds
  <2>6. f \in [S \ {x} -> OrderInTDSrv] /\ \A y \in S \ {x} : f[y] = om.open[y]
    BY <1>1
  <2> HIDE DEF f, r, R, new
  <2>7. new.open = f /\ new.recent = r /\ OpenIds(new) = S \ {x}
    BY <2>5, <2>6 DEF OpenIds
  <2>8. \A i \in DOMAIN r : i \in 1 .. Len(R) \/ i = Len(R) + 1
    BY <1>1, <2>2
  <2>9. \A i \in 1 .. Len(R) : i \in DOMAIN r /\ r[i] = R[i]
    BY <1>1, <2>2
  <2>10. Len(R) + 1 \in DOMAIN r
    BY <1>1, <2>2
  <2>11. RecentIds(new) = RecentIds(om) \cup {x}
    BY <1>1, <2>2, <2>7, <2>8, <2>9, <2>10 DEF RecentIds, R
  <2>12. \A i \in DOMAIN r : closed(r[i])
    BY <1>1, <1>3, <2>2, <2>8 DEF Keeps, R
  <2>13. \A i, j \in DOMAIN r : r[i].orderId = r[j].orderId => i = j
    BY <1>1, <2>1, <2>2, <2>8 DEF Keeps, R
  <2>14. S \ {x} \in SUBSET OrderId /\ new \in [open : [S \ {x} -> OrderInTDSrv], recent : Seq(OrderInTDSrv)]
    BY <1>1, <2>2, <2>5, <2>6
  <2>15. \A id \in OpenIds(new) : new.open[id].orderId = id /\ ~closed(new.open[id])
    BY <2>6, <2>7 DEF Keeps
  <2>16. OpenIds(new) \cap RecentIds(new) = {}
    BY <2>7, <2>11 DEF Keeps
  <2>17. Keeps(new)
    BY <2>7, <2>12, <2>13, <2>14, <2>15, <2>16 DEF Keeps
  <2>18. HeldBy(new) = HeldBy(om)
    BY <1>3, <2>7, <2>11 DEF HeldBy
  <2>19. OrderOf(new, x) = o
    <3>1. x \in HeldBy(new) /\ x \notin OpenIds(new)
      BY <2>7, <2>11 DEF HeldBy
    <3> QED BY <2>2, <2>7, <2>10, <2>17, <3>1, Held
  <2>20. ASSUME NEW id \in HeldBy(om), id # x PROVE OrderOf(new, id) = OrderOf(om, id)
    <3>1. CASE id \in S
      BY <2>6, <2>7, <2>20, <3>1 DEF OrderOf
    <3>2. CASE id \notin S
      <4>1. id \in HeldBy(new) /\ id \notin OpenIds(new)
        BY <2>7, <2>18, <2>20, <3>2
      <4>2. PICK i \in 1 .. Len(R) : R[i].orderId = id
        BY <1>1, <2>20, <3>2 DEF HeldBy, RecentIds, R
      <4>3. OrderOf(om, id) = R[i]
        BY <1>1, <2>20, <3>2, <4>2, Held DEF R
      <4>4. OrderOf(new, id) = r[i]
        BY <2>7, <2>9, <2>17, <4>1, <4>2, Held
      <4> QED BY <2>9, <4>3, <4>4
    <3> QED BY <3>1, <3>2
  <2> QED BY <2>17, <2>18, <2>19, <2>20 DEF new
<1>4. CASE x \in S /\ ~closed(o)
  <2> DEFINE f == [om.open EXCEPT ![x] = o]
  <2>1. new = [open |-> f, recent |-> R]
    BY <1>1, <1>4 DEF Store
  <2>2. f \in [S -> OrderInTDSrv] /\ f[x] = o /\ \A y \in S \ {x} : f[y] = om.open[y]
    BY <1>1, <1>4
  <2> HIDE DEF f, new
  <2>3. new.open = f /\ new.recent = om.recent /\ OpenIds(new) = S /\ RecentIds(new) = RecentIds(om)
    BY <2>1, <2>2 DEF OpenIds, RecentIds
  <2>4. new \in [open : [S -> OrderInTDSrv], recent : Seq(OrderInTDSrv)]
    BY <1>1, <2>1, <2>2
  <2>5. \A id \in OpenIds(new) : new.open[id].orderId = id /\ ~closed(new.open[id])
    BY <1>4, <2>2, <2>3 DEF Keeps
  <2>6. Keeps(new)
    BY <1>1, <2>3, <2>4, <2>5 DEF Keeps
  <2>7. HeldBy(new) = HeldBy(om) /\ OrderOf(new, x) = o
    BY <1>4, <2>2, <2>3 DEF HeldBy, OrderOf
  <2>8. \A id \in HeldBy(om) : id # x => OrderOf(new, id) = OrderOf(om, id)
    BY <2>2, <2>3 DEF OrderOf
  <2> QED BY <2>6, <2>7, <2>8 DEF new
<1>5. CASE x \notin S
  <2> DEFINE r == [i \in DOMAIN R |-> IF R[i].orderId = x THEN o ELSE R[i]]
  <2>0. closed(o)
    BY <1>5, Held
  <2>1. new = [open |-> om.open, recent |-> r]
    BY <1>1, <1>5 DEF Store
  <2>2. /\ r \in Seq(OrderInTDSrv) /\ Len(r) = Len(R) /\ DOMAIN r = DOMAIN R
        /\ \A i \in DOMAIN R : r[i] = IF R[i].orderId = x THEN o ELSE R[i]
    <3>1. r \in [1 .. Len(R) -> OrderInTDSrv]
      BY <1>1
    <3> QED BY <1>1, <3>1
  <2> HIDE DEF r, new, R
  <2>3. new.open = om.open /\ new.recent = r /\ OpenIds(new) = S
    BY <2>1 DEF OpenIds
  <2>4. \A i \in DOMAIN R : r[i].orderId = R[i].orderId /\ closed(r[i])
    BY <2>0, <2>2 DEF Keeps, R
  <2>5. RecentIds(new) = RecentIds(om)
    BY <2>2, <2>3, <2>4 DEF RecentIds, R
  <2>6. new \in [open : [S -> OrderInTDSrv], recent : Seq(OrderInTDSrv)]
    BY <1>1, <2>1, <2>2
  <2>7. \A i, j \in DOMAIN r : r[i].orderId = r[j].orderId => i = j
    BY <2>2, <2>4 DEF Keeps, R
  <2>8. Keeps(new)
    BY <1>1, <2>2, <2>3, <2>4, <2>5, <2>6, <2>7 DEF Keeps
  <2>9. HeldBy(new) = HeldBy(om)
    BY <2>3, <2>5 DEF HeldBy
  <2>10. ASSUME NEW id \in HeldBy(om)
         PROVE  OrderOf(new, id) = IF id = x THEN o ELSE OrderOf(om, id)
    <3>1. CASE id \in S
      BY <1>5, <2>3, <3>1 DEF OrderOf
    <3>2. CASE id \notin S
      <4>1. id \in HeldBy(new) /\ id \notin OpenIds(new)
        BY <2>3, <2>9, <2>10, <3>2
      <4>2. PICK i \in DOMAIN R : R[i].orderId = id
        BY <2>10, <3>2 DEF HeldBy, RecentIds, R
      <4>3. OrderOf(om, id) = R[i]
        BY <2>10, <3>2, <4>2, Held DEF R
      <4>4. OrderOf(new, id) = r[i]
        BY <2>2, <2>3, <2>4, <2>8, <4>1, <4>2, Held
      <4> QED BY <2>2, <4>2, <4>3, <4>4
    <3> QED BY <3>1, <3>2
  <2> QED BY <2>8, <2>9, <2>10 DEF new
<1> QED BY <1>3, <1>4, <1>5

\* A return changes the order it names, if that is held, and no other.
LEMMA Updated ==
  ASSUME NoneForgotten, NEW om, Keeps(om), NEW o \in OrderInTDSrv, o.orderId \in HeldBy(om)
  PROVE  LET c == OrderOf(om, o.orderId)
             p == updateByOrderInfoFromTDGW(c, ReportOf(o))
             new == UpdateFromTDGW(om, ReportOf(o)) IN
         /\ Found(om, ReportOf(o)) /\ Lookup(om, ReportOf(o)) = c
         /\ Keeps(new) /\ HeldBy(new) = HeldBy(om) /\ OrderOf(new, o.orderId) = p
         /\ \A id \in HeldBy(om) : id # o.orderId => OrderOf(new, id) = OrderOf(om, id)
<1> DEFINE x == o.orderId
           r == ReportOf(o)
           c == OrderOf(om, x)
           p == updateByOrderInfoFromTDGW(c, r)
<1>1. r.orderId = x /\ x # Unset
  BY KnownOrder DEF ReportOf
<1>2. c \in OrderInTDSrv /\ c.orderId = x /\ (x \in OpenIds(om) <=> ~closed(c))
  BY Held
<1>3. p \in OrderInTDSrv /\ p.orderId = x /\ (closed(c) => closed(p))
  <2>1. p \in OrderInTDSrv /\ p.orderId = c.orderId
        /\ p.orderStatus = IF o.orderStatus > c.orderStatus /\ c.orderStatus < Filled
                           THEN o.orderStatus ELSE c.orderStatus
    BY <1>2, Merge
  <2>2. c.orderStatus \in Nat
    BY <1>2, StatusNumbers DEF OrderInTDSrv, Numbers
  <2> HIDE DEF p, c
  <2> QED BY <1>2, <2>1, <2>2 DEF closed, Filled
<1> HIDE DEF r, p
<1>4. Found(om, r) /\ Lookup(om, r) = c
  <2>1. \A y \in OpenIds(om) : y \in OpenMatch(om, r) <=> y = x
    BY <1>1 DEF OpenMatch, Names, Keeps
  <2>2. \A i \in DOMAIN om.recent : i \in RecentMatch(om, r) <=> om.recent[i].orderId = x
    BY <1>1 DEF RecentMatch, Names
  <2>3. OpenMatch(om, r) \subseteq OpenIds(om) /\ RecentMatch(om, r) \subseteq DOMAIN om.recent
    BY DEF OpenMatch, RecentMatch
  <2>4. CASE x \in OpenIds(om)
    <3>1. OpenMatch(om, r) = {x}
      BY <2>1, <2>3, <2>4
    <3>2. (CHOOSE id \in OpenMatch(om, r) : TRUE) = x
      BY <3>1
    <3> QED BY <2>4, <3>1, <3>2, Held DEF Found, Lookup
  <2>5. CASE x \notin OpenIds(om)
    <3>1. OpenMatch(om, r) = {}
      BY <2>1, <2>3, <2>5
    <3>2. RecentMatch(om, r) # {}
      BY <2>2, <2>5 DEF HeldBy, RecentIds
    <3> DEFINE i == CHOOSE k \in RecentMatch(om, r) : TRUE
    <3>3. i \in RecentMatch(om, r)
      BY <3>2
    <3>4. Lookup(om, r) = om.recent[i]
      BY <3>1 DEF Lookup
    <3> HIDE DEF i
    <3>5. om.recent[i] = c
      BY <2>2, <2>3, <2>5, <3>3, Held
    <3> QED BY <3>2, <3>4, <3>5 DEF Found
  <2> QED BY <2>4, <2>5
<1>5. UpdateFromTDGW(om, r) = Store(om, p)
  BY <1>4 DEF UpdateFromTDGW, p
<1> HIDE DEF c
<1>6. /\ Keeps(Store(om, p)) /\ HeldBy(Store(om, p)) = HeldBy(om)
      /\ OrderOf(Store(om, p), x) = p
      /\ \A id \in HeldBy(om) : id # x => OrderOf(Store(om, p), id) = OrderOf(om, id)
  BY <1>3, PutBack DEF c
<1> QED BY <1>4, <1>5, <1>6 DEF c, p, r

-----------------------------------------------------------------------------
\* A return that leads on from what is known is merged as a whole: the deal
\* counts if and only if it tells of one.
LEMMA MergeLeads ==
  ASSUME NEW c \in OrderInTDSrv, NEW m \in Message, Leads(View(c), m),
         c.side = m.order.side, c.orderSize = m.order.orderSize
  PROVE  LET p == updateByOrderInfoFromTDGW(c, ReportOf(m.order)) IN
         /\ p \in OrderInTDSrv /\ p.orderId = c.orderId /\ Terms(p) = Terms(c)
         /\ View(p) = View(m.order) /\ p.dealSize = c.dealSize + m.lastDealSize
         /\ IsTheOrderCanBeUsedCalcPos(c, ReportOf(m.order)) <=> m.lastDealSize # 0
         /\ ~closed(c) /\ Abs(p.dealSize) <= p.orderSize /\ Abs(c.dealSize) <= Abs(p.dealSize)
<1> DEFINE o == m.order
           d == m.lastDealSize
           p == updateByOrderInfoFromTDGW(c, ReportOf(o))
<1>1. o \in OrderInTDSrv /\ d \in Int
  BY DEF Message
<1>2. /\ c.dealSize \in Int /\ o.dealSize \in Int /\ c.orderSize \in Nat
      /\ c.orderStatus \in Nat /\ o.orderStatus \in Nat /\ c.side \in {"Bid", "Ask"}
  BY <1>1, StatusNumbers, SizeAssumption, TDSrvAssumption DEF OrderInTDSrv, Numbers
<1>3. /\ c.orderStatus < Filled /\ c.orderStatus <= o.orderStatus /\ o.dealSize = c.dealSize + d
      /\ Abs(o.dealSize) <= o.orderSize
      /\ IF o.side = "Bid" THEN c.dealSize >= 0 /\ d >= 0 ELSE c.dealSize <= 0 /\ d <= 0
  BY DEF Leads, View
<1>4. /\ p \in OrderInTDSrv /\ p.orderId = c.orderId /\ p.side = c.side
      /\ p.orderSize = c.orderSize /\ p.acctId = c.acctId /\ p.posDirection = c.posDirection
      /\ p.orderStatus = IF o.orderStatus > c.orderStatus /\ c.orderStatus < Filled
                         THEN o.orderStatus ELSE c.orderStatus
      /\ p.dealSize = IF DealSizeIsValid(c, ReportOf(o)) THEN o.dealSize ELSE c.dealSize
      /\ DealSizeIsValid(c, ReportOf(o)) <=>
           Abs(o.dealSize) > Abs(c.dealSize) /\ Abs(o.dealSize) <= c.orderSize
  BY <1>1, Merge
<1> HIDE DEF p, o, d
<1>5. p.orderStatus = o.orderStatus
  BY <1>2, <1>3, <1>4
<1>6. Abs(o.dealSize) > Abs(c.dealSize) <=> d # 0
  BY <1>1, <1>2, <1>3 DEF Abs
<1>7. Abs(c.dealSize) <= Abs(o.dealSize)
  BY <1>1, <1>2, <1>3 DEF Abs
<1>8. DealSizeIsValid(c, ReportOf(o)) <=> d # 0
  BY <1>3, <1>4, <1>6 DEF o
<1>9. p.dealSize = o.dealSize
  BY <1>1, <1>2, <1>3, <1>4, <1>8
<1>10. ~closed(c)
  BY <1>2, <1>3 DEF closed, Filled
<1> QED BY <1>3, <1>4, <1>5, <1>7, <1>8, <1>9, <1>10
        DEF View, Terms, IsTheOrderCanBeUsedCalcPos, p, o, d

-----------------------------------------------------------------------------
\* What the messages of a kind say of the terms of an order, and what stays
\* true of a queue when messages about other orders come and go.
Said(q, kind, id, t) == \A i \in DOMAIN q : IsMsg(q[i], kind, id) => Terms(q[i].order) = t

SameKind(q, r, k, id) ==
  /\ IsIn(r, k, id) <=> IsIn(q, k, id)
  /\ \A t : Said(q, k, id, t) => Said(r, k, id, t)

SameOf(q, r, id) ==
  /\ SameKind(q, r, "order", id) /\ SameKind(q, r, "ret", id)
  /\ \A v, w : Chain(q, id, v, w) => Chain(r, id, v, w)

Concerns(m, id) == m.kind # "cancel" /\ m.order.orderId = id

LEMMA SameItself == \A q, id : SameOf(q, q, id)
BY DEF SameOf, SameKind

LEMMA ChainTyped ==
  ASSUME NEW q \in Seq(Message), NEW id, NEW v, NEW w, Chain(q, id, v, w)
  PROVE  v \in Int \X Int /\ w \in Int \X Int
<1>1. PICK h : IsHistory(h, q, id, v, w)
  BY DEF Chain
<1>2. Len(q) \in Nat
  OBVIOUS
<1>3. 0 \in 0 .. Len(q) /\ Len(q) \in 0 .. Len(q)
  BY <1>2
<1> QED BY <1>1, <1>3 DEF IsHistory

LEMMA SaidEntered ==
  ASSUME NEW q \in Seq(Message), NEW m \in Message, NEW k, NEW id, NEW t
  PROVE  Said(Append(q, m), k, id, t) <=>
           Said(q, k, id, t) /\ (IsMsg(m, k, id) => Terms(m.order) = t)
<1> DEFINE a == Append(q, m)
           n == Len(q) + 1
<1>1. /\ \A i \in DOMAIN q : i \in DOMAIN a /\ a[i] = q[i]
      /\ a[n] = m /\ n \in DOMAIN a /\ \A i \in DOMAIN a : i \in DOMAIN q \/ i = n
  BY Entered
<1> HIDE DEF a, n
<1> QED BY <1>1 DEF Said, a

LEMMA SaidLeft ==
  ASSUME NEW q \in Seq(Message), q # << >>, NEW k, NEW id, NEW t, Said(q, k, id, t)
  PROVE  Said(Tail(q), k, id, t) /\ (IsMsg(Head(q), k, id) => Terms(Head(q).order) = t)
BY Left DEF Said

LEMMA SaidNothing ==
  ASSUME NEW q, NEW k, NEW id, ~IsIn(q, k, id)
  PROVE  \A t : Said(q, k, id, t)
BY DEF Said, IsIn, IsMsg

LEMMA SameKindEntered ==
  ASSUME NEW q \in Seq(Message), NEW m \in Message, NEW k, NEW id, ~IsMsg(m, k, id)
  PROVE  SameKind(q, Append(q, m), k, id)
<1>1. \A t : Said(q, k, id, t) => Said(Append(q, m), k, id, t)
  BY SaidEntered
<1>2. IsIn(Append(q, m), k, id) <=> IsIn(q, k, id)
  BY InEntered
<1> QED BY <1>1, <1>2 DEF SameKind

LEMMA SameKindLeft ==
  ASSUME NEW q \in Seq(Message), q # << >>, NEW k, NEW id, ~IsMsg(Head(q), k, id)
  PROVE  SameKind(q, Tail(q), k, id)
<1>1. \A t : Said(q, k, id, t) => Said(Tail(q), k, id, t)
  BY SaidLeft
<1>2. IsIn(Tail(q), k, id) <=> IsIn(q, k, id)
  BY InLeft
<1> QED BY <1>1, <1>2 DEF SameKind

LEMMA SameEntered ==
  ASSUME NEW q \in Seq(Message), NEW m \in Message, NEW id, ~Concerns(m, id)
  PROVE  SameOf(q, Append(q, m), id)
<1>1. ~IsMsg(m, "order", id) /\ ~IsMsg(m, "ret", id)
  BY DEF Concerns, IsMsg
<1>2. SameKind(q, Append(q, m), "order", id) /\ SameKind(q, Append(q, m), "ret", id)
  BY <1>1, SameKindEntered
<1>3. ASSUME NEW v, NEW w, Chain(q, id, v, w) PROVE Chain(Append(q, m), id, v, w)
  <2>1. w \in Int \X Int
    BY <1>3, ChainTyped
  <2> QED BY <1>1, <1>3, <2>1, ChainEntered
<1> QED BY <1>2, <1>3 DEF SameOf

LEMMA SameLeft ==
  ASSUME NEW q \in Seq(Message), q # << >>, NEW id, ~Concerns(Head(q), id)
  PROVE  SameOf(q, Tail(q), id)
<1>1. ~IsMsg(Head(q), "order", id) /\ ~IsMsg(Head(q), "ret", id)
  BY DEF Concerns, IsMsg
<1>2. SameKind(q, Tail(q), "order", id) /\ SameKind(q, Tail(q), "ret", id)
  BY <1>1, SameKindLeft
<1>3. ASSUME NEW v, NEW w, Chain(q, id, v, w) PROVE Chain(Tail(q), id, v, w)
  BY <1>1, <1>3, ChainLeft
<1> QED BY <1>2, <1>3 DEF SameOf

-----------------------------------------------------------------------------
\* The second invariant.  An order is in one place at a time: in the queue of
\* OrderPreProc, in that of a module, or at its gateway.  OrderPreProc holds it
\* from its queue on, the first module from the one after; the returns on
\* their way lead from what one has seen to what the next before it has.
P(id) == OrderOf(pre, id)
M(id) == OrderOf(mod[1], id)

HeldOK(id) ==
  /\ id \in HeldBy(pre) =>
       /\ About(stg, P(id)) /\ P(id).posDirection # "Others"
       /\ ~Known(gw[id]) => View(P(id)) = Fresh
  /\ id \in HeldBy(mod[1]) =>
       /\ id \in HeldBy(pre) /\ About(stg, M(id))
       /\ ~Known(gw[id]) => View(M(id)) = Fresh
  /\ ~Known(gw[id]) => ~IsIn(preQueue, "ret", id) /\ ~IsIn(modQueue[1], "ret", id)

WaitsInPre(id) ==
  IsIn(preQueue, "order", id) =>
    /\ id \notin HeldBy(pre) /\ ~Known(gw[id])
    /\ View(stg[id]) = Fresh /\ stg[id].posDirection \in Direction
    /\ Said(preQueue, "order", id, Terms(stg[id]))
    /\ \A n \in Module : ~IsIn(modQueue[n], "order", id)

WaitsInModule(id) ==
  \A n \in Module :
    IsIn(modQueue[n], "order", id) =>
      /\ id \in HeldBy(pre) /\ ~Known(gw[id]) /\ View(stg[id]) = Fresh
      /\ Said(modQueue[n], "order", id, Terms(P(id)))
      /\ id \in HeldBy(mod[1]) <=> n # 1
      /\ \A k \in Module : IsIn(modQueue[k], "order", id) => k = n

Traded(g) ==
  /\ IF g.side = "Bid" THEN g.dealSize >= 0 ELSE g.dealSize <= 0
  /\ Abs(g.dealSize) <= g.orderSize
  /\ g.orderStatus \in {ConfirmedByExch, PartialFilled} => Abs(g.dealSize) < g.orderSize
  /\ g.orderStatus \in {Pending, ConfirmedByExch, Failed, Canceled} => g.dealSize = 0

AtGateway(id) ==
  Known(gw[id]) =>
    /\ id \in HeldBy(pre) /\ id \in HeldBy(mod[1])
    /\ Terms(gw[id]) = Terms(P(id)) /\ Traded(gw[id])
    /\ Said(preQueue, "ret", id, Terms(P(id))) /\ Said(modQueue[1], "ret", id, Terms(P(id)))
    /\ Chain(preQueue, id, View(P(id)), Seen(gw[id]))
    /\ Chain(modQueue[1], id, View(M(id)), View(P(id)))
    /\ View(stg[id]) = View(M(id))

Follows(id) == HeldOK(id) /\ WaitsInPre(id) /\ WaitsInModule(id) /\ AtGateway(id)

Kept == Keeps(pre) /\ Keeps(mod[1])
SentOnce == Once(preQueue) /\ \A n \in Module : Once(modQueue[n])
Copied == Typed /\ Kept /\ SentOnce /\ \A id \in OrderId : Follows(id)

\* A step that has nothing to do with an order.
Untouched(id) ==
  /\ stg'[id] = stg[id] /\ gw'[id] = gw[id]
  /\ id \in HeldBy(pre)' <=> id \in HeldBy(pre)
  /\ id \in HeldBy(pre) => P(id)' = P(id)
  /\ id \in HeldBy(mod[1])' <=> id \in HeldBy(mod[1])
  /\ id \in HeldBy(mod[1]) => M(id)' = M(id)
  /\ SameOf(preQueue, preQueue', id) /\ SameOf(modQueue[1], modQueue'[1], id)
  /\ \A n \in Module : SameKind(modQueue[n], modQueue'[n], "order", id)

LEMMA FollowsFrame ==
  ASSUME Typed, Kept, NEW id \in OrderId, Follows(id), Untouched(id)
  PROVE  Follows(id)'
<1>1. /\ id \in HeldBy(pre) => P(id).orderId = id
      /\ id \in HeldBy(mod[1]) => M(id).orderId = id
  BY Held DEF Kept, P, M
<1>2. 1 \in Module
  BY FirstModule
<1>3. /\ \A k \in {"order", "ret"} : IsIn(preQueue', k, id) <=> IsIn(preQueue, k, id)
      /\ \A n \in Module : IsIn(modQueue'[n], "order", id) <=> IsIn(modQueue[n], "order", id)
      /\ IsIn(modQueue'[1], "ret", id) <=> IsIn(modQueue[1], "ret", id)
      /\ \A k \in {"order", "ret"} : \A t : Said(preQueue, k, id, t) => Said(preQueue', k, id, t)
      /\ \A n \in Module : \A t : Said(modQueue[n], "order", id, t) => Said(modQueue'[n], "order", id, t)
      /\ \A t : Said(modQueue[1], "ret", id, t) => Said(modQueue'[1], "ret", id, t)
      /\ \A v, w : Chain(preQueue, id, v, w) => Chain(preQueue', id, v, w)
      /\ \A v, w : Chain(modQueue[1], id, v, w) => Chain(modQueue'[1], id, v, w)
  BY <1>2 DEF Untouched, SameOf, SameKind
<1>4. /\ stg'[id] = stg[id] /\ gw'[id] = gw[id]
      /\ id \in HeldBy(pre)' <=> id \in HeldBy(pre)
      /\ id \in HeldBy(pre) => P(id)' = P(id)
      /\ id \in HeldBy(mod[1])' <=> id \in HeldBy(mod[1])
      /\ id \in HeldBy(mod[1]) => M(id)' = M(id)
  BY DEF Untouched
<1>5. HeldOK(id)'
  BY <1>1, <1>2, <1>3, <1>4 DEF Follows, HeldOK, About
<1>6. WaitsInPre(id)'
  BY <1>3, <1>4 DEF Follows, WaitsInPre
<1>7. WaitsInModule(id)'
  BY <1>3, <1>4 DEF Follows, WaitsInModule
<1>8. AtGateway(id)'
  BY <1>2, <1>3, <1>4 DEF Follows, AtGateway
<1> QED BY <1>5, <1>6, <1>7, <1>8 DEF Follows

-----------------------------------------------------------------------------
LEMMA CopiedInit == Init => Copied
<1> SUFFICES ASSUME Init PROVE Copied
  OBVIOUS
<1>1. Typed /\ 1 \in Module
  BY TypedInit, FirstModule
<1>2. pre = EmptyGroup /\ mod[1] = EmptyGroup /\ preQueue = << >>
      /\ \A n \in Module : modQueue[n] = << >>
  BY <1>1 DEF Init
<1>3. Kept /\ HeldBy(pre) = {} /\ HeldBy(mod[1]) = {}
  BY <1>2, KeepsNone DEF Kept
<1>4. SentOnce
  BY <1>2 DEF SentOnce, Once
<1>5. \A id \in OrderId : ~Known(gw[id])
  BY DEF Init, Known
<1>6. /\ \A k, id : ~IsIn(preQueue, k, id)
      /\ \A n \in Module : \A k, id : ~IsIn(modQueue[n], k, id)
  BY <1>2, InEmpty
<1>7. \A id \in OrderId : Follows(id)
  BY <1>1, <1>3, <1>5, <1>6 DEF Follows, HeldOK, WaitsInPre, WaitsInModule, AtGateway
<1> QED BY <1>1, <1>3, <1>4, <1>7 DEF Copied

\* Nothing is said of an order before the strategy engine sent it.
LEMMA Unheard ==
  ASSUME Copied, NEW id \in OrderId, ~Known(stg[id])
  PROVE  /\ \A k : ~IsIn(preQueue, k, id) /\ \A n \in Module : ~IsIn(modQueue[n], k, id)
         /\ ~Known(gw[id]) /\ id \notin HeldBy(pre) /\ id \notin HeldBy(mod[1])
<1>1. /\ Carries(stg, preQueue) /\ \A n \in Module : Carries(stg, modQueue[n])
      /\ Known(gw[id]) => gw[id].orderId = id /\ About(stg, gw[id])
  BY DEF Copied, Typed, GwOK, QueuesOK
<1>2. ASSUME NEW q, Carries(stg, q), NEW k PROVE ~IsIn(q, k, id)
  BY <1>2 DEF Carries, MsgOK, About, IsIn
<1>3. id \in HeldBy(pre) => P(id).orderId = id /\ About(stg, P(id))
  BY Held DEF Copied, Follows, HeldOK, Kept, P
<1>4. id \in HeldBy(mod[1]) => M(id).orderId = id /\ About(stg, M(id))
  BY Held DEF Copied, Follows, HeldOK, Kept, M
<1> QED BY <1>1, <1>2, <1>3, <1>4 DEF About

LEMMA StgOrderCopied ==
  ASSUME Copied, NEW id \in OrderId, NEW acct \in Acct, NEW side \in Side,
         NEW direction \in Direction, NEW size \in Size,
         StgOrder(id, acct, side, direction, size)
  PROVE  Copied'
<1> DEFINE o == NewOrder(id, acct, side, direction, size)
           m == Msg("order", o, 0)
<1>1. /\ Typed /\ preQueue \in Seq(Message) /\ \A n \in Module : modQueue[n] \in Seq(Message)
  BY DEF Copied, Typed, QueuesOK, Carries
<1>2. /\ Typed' /\ ~Known(stg[id]) /\ stg'[id] = o
      /\ o.orderId = id /\ o.orderStatus = Created /\ o.dealSize = 0
      /\ \A x \in OrderId : x # id => stg'[x] = stg[x]
      /\ m \in Message /\ m.kind = "order" /\ m.order = o
      /\ preQueue' = Append(preQueue, m)
      /\ UNCHANGED <<pre, hold, modVars, gw, canceling>>
  BY <1>1, StgOrderTyped
<1>3. o.posDirection \in Direction
  BY DEF NewOrder
<1> HIDE DEF o, m
<1>4. pre' = pre /\ mod' = mod /\ gw' = gw /\ modQueue' = modQueue
  BY <1>2 DEF modVars
<1>5. Kept'
  BY <1>4 DEF Copied, Kept
<1>6. /\ \A k : ~IsIn(preQueue, k, id) /\ \A n \in Module : ~IsIn(modQueue[n], k, id)
      /\ ~Known(gw[id]) /\ id \notin HeldBy(pre) /\ id \notin HeldBy(mod[1])
  BY <1>2, Unheard
<1>7. SentOnce'
  <2>1. Once(preQueue')
    BY <1>1, <1>2, <1>6, OnceEntered DEF Copied, SentOnce
  <2> QED BY <1>4, <2>1 DEF Copied, SentOnce
<1>8. ASSUME NEW x \in OrderId, x # id PROVE Follows(x)'
  <2>1. SameOf(preQueue, preQueue', x)
    BY <1>1, <1>2, <1>8, SameEntered DEF Concerns
  <2>2. Untouched(x)
    BY <1>2, <1>4, <1>8, <2>1, SameItself DEF Untouched, SameOf, P, M
  <2> QED BY <1>1, <2>2, FollowsFrame DEF Copied
<1>9. Follows(id)'
  <2>1. View(stg'[id]) = Fresh
    BY <1>2 DEF View, Fresh
  <2>2. Said(preQueue', "order", id, Terms(stg'[id]))
    BY <1>1, <1>2, <1>6, SaidNothing, SaidEntered
  <2>3. ~IsIn(preQueue', "ret", id)
    BY <1>1, <1>2, <1>6, InEntered DEF IsMsg
  <2>4. HeldOK(id)'
    BY <1>4, <1>6, <2>3, FirstModule DEF HeldOK
  <2>5. WaitsInPre(id)'
    BY <1>2, <1>3, <1>4, <1>6, <2>1, <2>2 DEF WaitsInPre
  <2>6. WaitsInModule(id)' /\ AtGateway(id)'
    BY <1>4, <1>6 DEF WaitsInModule, AtGateway
  <2> QED BY <2>4, <2>5, <2>6 DEF Follows
<1>10. \A x \in OrderId : Follows(x)'
  BY <1>8, <1>9
<1> QED BY <1>2, <1>5, <1>7, <1>10 DEF Copied

LEMMA StgCancelCopied ==
  ASSUME Copied, NEW id \in OrderId, StgCancel(id)
  PROVE  Copied'
<1> DEFINE m == Msg("cancel", stg[id], 0)
<1>1. Typed /\ modQueue \in [Module -> Seq(Message)] /\ 1 \in Module
  BY FirstModule DEF Copied, Typed, QueuesOK
<1>2. /\ Typed' /\ m \in Message /\ m.kind = "cancel"
      /\ modQueue'[1] = Append(modQueue[1], m)
      /\ \A n \in Module \ {1} : modQueue'[n] = modQueue[n]
      /\ UNCHANGED <<stg, preQueue, pre, hold, mod, gw>>
  BY <1>1, StgCancelTyped DEF preVars
<1> HIDE DEF m
<1>3. Kept'
  BY <1>2 DEF Copied, Kept
<1>4. Once(modQueue'[1])
  BY <1>1, <1>2, OnceEntered DEF Copied, SentOnce
<1>5. SentOnce'
  BY <1>2, <1>4 DEF Copied, SentOnce
<1>6. ASSUME NEW x \in OrderId PROVE Follows(x)'
  <2>1. SameOf(modQueue[1], modQueue'[1], x)
    BY <1>1, <1>2, SameEntered DEF Concerns
  <2>2. \A n \in Module : SameOf(modQueue[n], modQueue'[n], x)
    BY <1>2, <2>1, SameItself
  <2>3. Untouched(x)
    BY <1>1, <1>2, <2>2, SameItself DEF Untouched, SameOf, P, M
  <2> QED BY <1>1, <2>3, FollowsFrame DEF Copied
<1> QED BY <1>2, <1>3, <1>5, <1>6 DEF Copied

LEMMA PreHandleOrderCopied ==
  ASSUME NoneForgotten, Copied, PreHandleOrder
  PROVE  Copied'
<1>a. PICK o : o = Head(preQueue).order
  OBVIOUS
<1>b. PICK x : x = o.orderId
  OBVIOUS
<1>1. /\ Typed /\ Kept /\ SentOnce /\ 1 \in Module /\ modQueue \in [Module -> Seq(Message)]
  BY FirstModule DEF Copied, Typed, QueuesOK
<1>2. /\ Typed'
      /\ preQueue \in Seq(Message) /\ preQueue # << >> /\ preQueue' = Tail(preQueue)
      /\ Head(preQueue).kind = "order" /\ o \in OrderInTDSrv /\ About(stg, o)
      /\ o.orderStatus = Created /\ o.dealSize = 0
      /\ UNCHANGED <<hold, mod, gw, canceling>>
      /\ \/ \E p \in OrderInTDSrv : PassedOn(p)
         \/ Fail(o) /\ UNCHANGED <<pre, modQueue>>
  BY <1>a, <1>1, PreHandleOrderTyped
<1>3. x \in OrderId /\ Head(preQueue) \in Message
  BY <1>b, <1>2, InLeft DEF OrderInTDSrv
<1>4. /\ IsMsg(Head(preQueue), "order", x)
      /\ \A y \in OrderId : y # x => ~Concerns(Head(preQueue), y)
  BY <1>a, <1>b, <1>2 DEF IsMsg, Concerns
<1>5. IsIn(preQueue, "order", x)
  BY <1>2, <1>4, InLeft
<1>6. Once(preQueue') /\ ~IsIn(preQueue', "order", x)
  BY <1>a, <1>b, <1>1, <1>2, OnceLeft DEF SentOnce
<1>7. Follows(x)
  BY <1>3 DEF Copied
<1>8. /\ x \notin HeldBy(pre) /\ x \notin HeldBy(mod[1]) /\ ~Known(gw[x])
      /\ stg[x].posDirection \in Direction
      /\ Said(preQueue, "order", x, Terms(stg[x]))
      /\ \A n \in Module : ~IsIn(modQueue[n], "order", x)
      /\ View(stg[x]) = Fresh
      /\ ~IsIn(preQueue, "ret", x) /\ ~IsIn(modQueue[1], "ret", x)
  BY <1>5, <1>7 DEF Follows, HeldOK, WaitsInPre
<1>9. o.posDirection \in Direction
  BY <1>a, <1>2, <1>4, <1>8, SaidLeft DEF Terms
<1>10. ~IsIn(preQueue', "ret", x)
  BY <1>2, <1>8, InLeft
<1>11. \A y \in OrderId : y # x => SameOf(preQueue, preQueue', y)
  BY <1>2, <1>4, SameLeft
<1>12. ASSUME NEW p \in OrderInTDSrv, PassedOn(p) PROVE Copied'
  <2> DEFINE m == Msg("order", p, 0)
  <2>1. /\ p \in handleSharedPos(o) /\ pre' = add(pre, p) /\ stg' = stg
        /\ m \in Message /\ m.kind = "order" /\ m.order = p
        /\ modQueue'[1] = Append(modQueue[1], m)
        /\ \A n \in Module \ {1} : modQueue'[n] = modQueue[n]
    BY <1>a, <1>12 DEF PassedOn
  <2> HIDE DEF m
  <2>2. /\ p.orderId = x /\ p.side = o.side /\ p.orderSize = o.orderSize
        /\ p.orderStatus = Created /\ p.dealSize = 0 /\ p.posDirection # "Others"
    BY <1>b, <1>2, <1>9, <2>1, Shared, TDSrvAssumption
  <2>3. ~closed(p) /\ View(p) = Fresh /\ About(stg, p)
    BY <1>b, <1>2, <2>2 DEF closed, Created, Filled, View, Fresh, About
  <2>4. /\ Keeps(pre') /\ HeldBy(pre') = HeldBy(pre) \cup {x} /\ OrderOf(pre', x) = p
        /\ \A id \in HeldBy(pre) : OrderOf(pre', id) = OrderOf(pre, id)
    BY <1>1, <1>8, <2>1, <2>2, <2>3, Added DEF Kept
  <2>5. Kept' /\ mod' = mod /\ gw' = gw
    BY <1>1, <1>2, <2>4 DEF Kept
  <2>6. \A k, y : IsIn(modQueue'[1], k, y) <=> IsIn(modQueue[1], k, y) \/ IsMsg(m, k, y)
    BY <1>1, <2>1, InEntered
  <2>7. Once(modQueue'[1])
    BY <1>1, <1>8, <2>1, <2>2, OnceEntered DEF SentOnce
  <2>8. SentOnce'
    BY <1>1, <1>6, <2>1, <2>7 DEF SentOnce
  <2>9. ASSUME NEW y \in OrderId, y # x PROVE Follows(y)'
    <3>1. SameOf(modQueue[1], modQueue'[1], y)
      BY <1>1, <2>1, <2>2, <2>9, SameEntered DEF Concerns
    <3>2. \A n \in Module : SameOf(modQueue[n], modQueue'[n], y)
      BY <2>1, <3>1, SameItself
    <3>3. Untouched(y)
      BY <1>1, <1>11, <2>1, <2>4, <2>5, <2>9, <3>2 DEF Untouched, SameOf, P, M
    <3> QED BY <1>1, <3>3, FollowsFrame DEF Copied
  <2>10. Follows(x)'
    <3>1. P(x)' = p
      BY <2>4 DEF P
    <3>2. HeldOK(x)'
      <4>1. ~IsIn(modQueue'[1], "ret", x)
        BY <1>8, <2>1, <2>6 DEF IsMsg
      <4>2. x \notin HeldBy(mod[1])'
        BY <1>8, <2>5
      <4> QED BY <1>10, <2>1, <2>2, <2>3, <3>1, <4>1, <4>2 DEF HeldOK
    <3>3. WaitsInPre(x)' /\ AtGateway(x)'
      BY <1>6, <1>8, <2>5 DEF WaitsInPre, AtGateway
    <3>4. WaitsInModule(x)'
      <4>1. \A n \in Module : IsIn(modQueue'[n], "order", x) => n = 1
        BY <1>8, <2>1
      <4>2. Said(modQueue'[1], "order", x, Terms(p))
        BY <1>1, <1>8, <2>1, SaidNothing, SaidEntered
      <4> QED BY <1>8, <2>1, <2>4, <2>5, <3>1, <4>1, <4>2 DEF WaitsInModule
    <3> QED BY <3>2, <3>3, <3>4 DEF Follows
  <2>11. \A y \in OrderId : Follows(y)'
    BY <2>9, <2>10
  <2> QED BY <1>2, <2>5, <2>8, <2>11 DEF Copied
<1>13. CASE Fail(o) /\ UNCHANGED <<pre, modQueue>>
  <2>1. \A y \in OrderId : y # x => stg'[y] = stg[y]
    BY <1>b, <1>1, <1>2, <1>13, Failing
  <2>2. Kept' /\ SentOnce'
    BY <1>1, <1>2, <1>6, <1>13 DEF Kept, SentOnce
  <2>3. ASSUME NEW y \in OrderId, y # x PROVE Follows(y)'
    <3>1. Untouched(y)
      BY <1>2, <1>11, <1>13, <2>1, <2>3, SameItself DEF Untouched, SameOf, P, M
    <3> QED BY <1>1, <3>1, FollowsFrame DEF Copied
  <2>4. Follows(x)'
    BY <1>2, <1>6, <1>8, <1>10, <1>13
       DEF Follows, HeldOK, WaitsInPre, WaitsInModule, AtGateway
  <2>5. \A y \in OrderId : Follows(y)'
    BY <2>3, <2>4
  <2> QED BY <1>2, <2>2, <2>5 DEF Copied
<1> QED BY <1>2, <1>12, <1>13

\* A return OrderPreProc takes is about an order at its gateway, and leads on
\* from what OrderPreProc has seen of it.
LEMMA PreRet ==
  ASSUME NoneForgotten, Copied, PreHandleRet, NEW m, m = Head(preQueue), NEW x, x = m.order.orderId
  PROVE  /\ x \in OrderId /\ m \in Message /\ m.kind = "ret" /\ MsgOK(stg, m)
         /\ preQueue # << >> /\ preQueue' = Tail(preQueue) /\ preQueue \in Seq(Message)
         /\ x \in HeldBy(pre) /\ Known(gw[x]) /\ P(x) \in OrderInTDSrv
         /\ Terms(m.order) = Terms(P(x)) /\ Leads(View(P(x)), m)
         /\ Chain(preQueue', x, View(m.order), Seen(gw[x]))
         /\ Keeps(pre') /\ HeldBy(pre') = HeldBy(pre)
         /\ \A y \in HeldBy(pre) : y # x => OrderOf(pre', y) = OrderOf(pre, y)
         /\ Found(pre, ReportOf(m.order)) /\ Lookup(pre, ReportOf(m.order)) = P(x)
         /\ OrderOf(pre', x) = updateByOrderInfoFromTDGW(P(x), ReportOf(m.order))
         /\ OrderOf(pre', x) \in OrderInTDSrv /\ Terms(OrderOf(pre', x)) = Terms(P(x))
         /\ View(OrderOf(pre', x)) = View(m.order)
<1>1. Typed /\ Keeps(pre)
  BY DEF Copied, Kept
<1>2. /\ preQueue \in Seq(Message) /\ preQueue # << >> /\ preQueue' = Tail(preQueue)
      /\ m.kind = "ret" /\ m \in Message /\ MsgOK(stg, m)
      /\ pre' = UpdateFromTDGW(pre, ReportOf(m.order))
  BY <1>1, PreHandleRetTyped
<1>3. x \in OrderId /\ m.order \in OrderInTDSrv
  BY <1>2 DEF Message, OrderInTDSrv
<1>4. IsMsg(m, "ret", x) /\ Follows(x)
  BY <1>2, <1>3 DEF IsMsg, Copied
<1>5. IsIn(preQueue, "ret", x)
  BY <1>2, <1>4, InLeft
<1>6. /\ Known(gw[x]) /\ x \in HeldBy(pre) /\ About(stg, P(x))
      /\ Said(preQueue, "ret", x, Terms(P(x)))
      /\ Chain(preQueue, x, View(P(x)), Seen(gw[x]))
  BY <1>4, <1>5 DEF Follows, HeldOK, AtGateway
<1>7. Terms(m.order) = Terms(P(x))
  BY <1>2, <1>4, <1>6, SaidLeft
<1>8. Leads(View(P(x)), m) /\ Chain(preQueue', x, View(m.order), Seen(gw[x]))
  BY <1>2, <1>4, <1>6, ChainLeft
<1>9. P(x) \in OrderInTDSrv /\ P(x).side = m.order.side /\ P(x).orderSize = m.order.orderSize
  BY <1>1, <1>6, <1>7, Held DEF P, Terms
<1>10. LET p == updateByOrderInfoFromTDGW(P(x), ReportOf(m.order)) IN
       p \in OrderInTDSrv /\ Terms(p) = Terms(P(x)) /\ View(p) = View(m.order)
  BY <1>2, <1>8, <1>9, MergeLeads
<1>11. /\ Keeps(pre') /\ HeldBy(pre') = HeldBy(pre)
       /\ \A y \in HeldBy(pre) : y # x => OrderOf(pre', y) = OrderOf(pre, y)
       /\ Found(pre, ReportOf(m.order)) /\ Lookup(pre, ReportOf(m.order)) = P(x)
       /\ OrderOf(pre', x) = updateByOrderInfoFromTDGW(P(x), ReportOf(m.order))
  BY <1>1, <1>2, <1>3, <1>6, Updated DEF P
<1> QED BY <1>2, <1>3, <1>6, <1>7, <1>8, <1>9, <1>10, <1>11

LEMMA ViewTyped == \A o \in OrderInTDSrv : View(o) \in Int \X Int
<1> SUFFICES ASSUME NEW o \in OrderInTDSrv PROVE View(o) \in Int \X Int
  OBVIOUS
<1>1. o.orderStatus \in OrderStatus /\ o.dealSize \in Int
  BY DEF OrderInTDSrv
<1>2. OrderStatus \subseteq Nat
  BY StatusNumbers DEF Numbers
<1>3. o.orderStatus \in Nat
  BY <1>1, <1>2
<1> QED BY <1>1, <1>3 DEF View

LEMMA PreHandleRetCopied ==
  ASSUME NoneForgotten, Copied, PreHandleRet
  PROVE  Copied'
<1>a. PICK m : m = Head(preQueue)
  OBVIOUS
<1>b. PICK x : x = m.order.orderId
  OBVIOUS
<1>1. /\ Typed /\ Kept /\ SentOnce /\ 1 \in Module /\ modQueue \in [Module -> Seq(Message)]
  BY FirstModule DEF Copied, Typed, QueuesOK
<1>2. /\ Typed' /\ modQueue'[1] = Append(modQueue[1], m)
      /\ \A n \in Module \ {1} : modQueue'[n] = modQueue[n]
      /\ UNCHANGED <<stg, mod, gw, canceling>>
  BY <1>a, <1>1, PreHandleRetTyped
<1>3. /\ x \in OrderId /\ m \in Message /\ m.kind = "ret" /\ MsgOK(stg, m)
      /\ preQueue # << >> /\ preQueue' = Tail(preQueue) /\ preQueue \in Seq(Message)
      /\ x \in HeldBy(pre) /\ Known(gw[x]) /\ P(x) \in OrderInTDSrv
      /\ Terms(m.order) = Terms(P(x)) /\ Leads(View(P(x)), m)
      /\ Chain(preQueue', x, View(m.order), Seen(gw[x]))
      /\ Keeps(pre') /\ HeldBy(pre') = HeldBy(pre)
      /\ \A y \in HeldBy(pre) : y # x => OrderOf(pre', y) = OrderOf(pre, y)
      /\ OrderOf(pre', x) \in OrderInTDSrv /\ Terms(OrderOf(pre', x)) = Terms(P(x))
      /\ View(OrderOf(pre', x)) = View(m.order)
  BY <1>a, <1>b, PreRet
<1>4. /\ IsMsg(m, "ret", x) /\ ~IsMsg(m, "order", x)
      /\ \A y \in OrderId : y # x => ~Concerns(m, y)
  BY <1>b, <1>3 DEF IsMsg, Concerns
<1>5. Kept'
  BY <1>1, <1>2, <1>3 DEF Kept
<1>6. SentOnce'
  <2>1. Once(preQueue')
    BY <1>1, <1>3, OnceLeft DEF SentOnce
  <2>2. Once(modQueue'[1])
    BY <1>1, <1>2, <1>3, OnceEntered DEF SentOnce
  <2> QED BY <1>1, <1>2, <2>1, <2>2 DEF SentOnce
<1>7. ASSUME NEW y \in OrderId, y # x PROVE Follows(y)'
  <2>1. SameOf(modQueue[1], modQueue'[1], y) /\ SameOf(preQueue, preQueue', y)
    BY <1>a, <1>1, <1>2, <1>3, <1>4, <1>7, SameEntered, SameLeft
  <2>2. \A n \in Module : SameOf(modQueue[n], modQueue'[n], y)
    BY <1>2, <2>1, SameItself
  <2>3. Untouched(y)
    BY <1>2, <1>3, <1>7, <2>1, <2>2 DEF Untouched, SameOf, P, M
  <2> QED BY <1>1, <2>3, FollowsFrame DEF Copied
<1>8. Follows(x)'
  <2>1. Follows(x)
    BY <1>3 DEF Copied
  <2>2. /\ ~IsIn(preQueue, "order", x) /\ \A n \in Module : ~IsIn(modQueue[n], "order", x)
    BY <1>3, <2>1 DEF Follows, WaitsInPre, WaitsInModule
  <2>3. /\ ~IsIn(preQueue', "order", x) /\ \A n \in Module : ~IsIn(modQueue'[n], "order", x)
    <3>1. ~IsIn(preQueue', "order", x)
      BY <1>3, <2>2, InLeft
    <3>2. ~IsIn(modQueue'[1], "order", x)
      BY <1>1, <1>2, <1>3, <1>4, <2>2, InEntered
    <3> QED BY <1>2, <2>2, <3>1, <3>2
  <2>4. WaitsInPre(x)' /\ WaitsInModule(x)'
    BY <2>3 DEF WaitsInPre, WaitsInModule
  <2>5. /\ x \in HeldBy(mod[1]) /\ Terms(gw[x]) = Terms(P(x)) /\ Traded(gw[x])
        /\ Said(preQueue, "ret", x, Terms(P(x))) /\ Said(modQueue[1], "ret", x, Terms(P(x)))
        /\ Chain(modQueue[1], x, View(M(x)), View(P(x)))
        /\ View(stg[x]) = View(M(x))
        /\ About(stg, M(x)) /\ About(stg, P(x)) /\ P(x).posDirection # "Others"
    BY <1>3, <2>1 DEF Follows, AtGateway, HeldOK
  <2>6. P(x)' = OrderOf(pre', x) /\ M(x)' = M(x) /\ HeldBy(mod[1])' = HeldBy(mod[1])
    BY <1>2 DEF P, M
  <2>7. Said(preQueue', "ret", x, Terms(P(x))) /\ Said(modQueue'[1], "ret", x, Terms(P(x)))
    BY <1>1, <1>2, <1>3, <2>5, SaidLeft, SaidEntered
  <2>8. View(m.order) \in Int \X Int
    BY <1>3, ViewTyped DEF Message
  <2>9. Chain(modQueue'[1], x, View(M(x)), View(m.order))
    BY <1>1, <1>2, <1>3, <1>4, <2>5, <2>8, ChainEntered
  <2>10. AtGateway(x)'
    BY <1>2, <1>3, <2>5, <2>6, <2>7, <2>9 DEF AtGateway
  <2>11. About(stg, OrderOf(pre', x)) /\ OrderOf(pre', x).posDirection # "Others"
    <3>1. P(x).orderId = x /\ OrderOf(pre', x).orderId = x
      BY <1>1, <1>3, Held DEF Kept, P
    <3> QED BY <1>3, <2>5, <3>1 DEF About, Terms
  <2>12. HeldOK(x)'
    BY <1>2, <1>3, <2>5, <2>6, <2>11 DEF HeldOK
  <2> QED BY <2>4, <2>10, <2>12 DEF Follows
<1>9. \A y \in OrderId : Follows(y)'
  BY <1>7, <1>8
<1> QED BY <1>2, <1>5, <1>6, <1>9 DEF Copied

-----------------------------------------------------------------------------
\* What a step of a module does to the queues.
LEMMA ModQueues ==
  ASSUME Copied, NEW n \in Module, NEW kind, ModTakes(n, kind), NEW m, m = Head(modQueue[n]),
         NEW x, x = m.order.orderId
  PROVE  /\ x \in OrderId /\ m \in Message /\ m.kind = kind /\ MsgOK(stg, m)
         /\ IsIn(modQueue[n], kind, x) /\ preQueue' = preQueue /\ pre' = pre
         /\ \A y \in OrderId : y # x \/ kind = "cancel" =>
              /\ SameOf(modQueue[1], modQueue'[1], y)
              /\ \A k \in Module : SameKind(modQueue[k], modQueue'[k], "order", y)
         /\ n # 1 => \A y \in OrderId :
                       \A k \in {"order", "ret"} : SameKind(modQueue[1], modQueue'[1], k, y)
         /\ n # 1 => modQueue'[1] = modQueue[1]
         /\ \A k \in Module \ {n, n + 1} : modQueue'[k] = modQueue[k]
         /\ \A k \in Module : \A y : ~IsIn(modQueue[k], "order", y) /\ IsIn(modQueue'[k], "order", y)
              => k = n + 1 /\ kind = "order" /\ y = x
         /\ kind # "order" => SentOnce'
         /\ kind # "order" => \A k \in Module, y \in OrderId :
                                SameKind(modQueue[k], modQueue'[k], "order", y)
         /\ kind = "order" /\ (\A k \in Module : IsIn(modQueue[k], "order", x) => k = n) =>
              SentOnce' /\ ~IsIn(modQueue'[n], "order", x)
<1>1. /\ Typed /\ SentOnce /\ 1 \in Module /\ modQueue \in [Module -> Seq(Message)]
      /\ \A k \in Module : k \in Nat \ {0}
  BY FirstModule DEF Copied, Typed, QueuesOK
<1>2. /\ modQueue[n] \in Seq(Message) /\ modQueue[n] # << >>
      /\ m.kind = kind /\ m \in Message /\ m.order \in OrderInTDSrv /\ MsgOK(stg, m)
      /\ modQueue'[n] = Tail(modQueue[n])
      /\ \A k \in Module \ {n} : \/ modQueue'[k] = modQueue[k]
                                 \/ k = n + 1 /\ modQueue'[k] = Append(modQueue[k], m)
      /\ preQueue' = preQueue /\ pre' = pre
  BY DEF ModTakes
<1>3. x \in OrderId /\ IsMsg(m, kind, x) /\ \A k, y : IsMsg(m, k, y) => k = kind /\ y = x
  BY <1>2 DEF OrderInTDSrv, IsMsg
<1>4. IsIn(modQueue[n], kind, x)
  BY <1>2, <1>3, InLeft
<1>5. \A k \in Module : modQueue[k] \in Seq(Message)
  BY <1>1
<1>6. n + 1 # 1 /\ n + 1 # n
  BY <1>1
<1>7. \A y \in OrderId : y # x \/ kind = "cancel" => ~Concerns(m, y)
  BY <1>2 DEF Concerns
<1>8. ASSUME NEW y \in OrderId, y # x \/ kind = "cancel" PROVE SameOf(modQueue[1], modQueue'[1], y)
  BY <1>1, <1>2, <1>5, <1>6, <1>7, <1>8, SameLeft, SameItself
<1>9. ASSUME NEW k \in Module, NEW y, ~IsMsg(m, "order", y)
      PROVE  SameKind(modQueue[k], modQueue'[k], "order", y)
  <2>1. CASE k = n
    BY <1>2, <1>9, <2>1, SameKindLeft
  <2>2. CASE k # n /\ modQueue'[k] = modQueue[k]
    BY <2>2 DEF SameKind
  <2>3. CASE k # n /\ modQueue'[k] = Append(modQueue[k], m)
    BY <1>2, <1>5, <1>9, <2>3, SameKindEntered
  <2> QED BY <1>2, <2>1, <2>2, <2>3
<1>10. \A y : y # x \/ kind # "order" => ~IsMsg(m, "order", y)
  BY <1>3
<1>11. n # 1 => modQueue'[1] = modQueue[1]
  BY <1>1, <1>2, <1>6
<1>12. ASSUME NEW k \in Module, NEW y, ~IsIn(modQueue[k], "order", y), IsIn(modQueue'[k], "order", y)
       PROVE  k = n + 1 /\ kind = "order" /\ y = x
  <2>1. CASE k = n
    BY <1>2, <1>12, <2>1, InLeft
  <2>2. CASE k # n /\ modQueue'[k] = modQueue[k]
    BY <1>12, <2>2
  <2>3. CASE k = n + 1 /\ modQueue'[k] = Append(modQueue[k], m)
    <3>1. IsMsg(m, "order", y)
      BY <1>2, <1>5, <1>12, <2>3, InEntered
    <3> QED BY <1>3, <2>3, <3>1
  <2> QED BY <1>2, <2>1, <2>2, <2>3
<1>13. ASSUME \A k \in Module \ {n} : kind = "order" => ~IsIn(modQueue[k], "order", x)
       PROVE  SentOnce'
  <2>1. Once(modQueue'[n])
    BY <1>1, <1>2, OnceLeft DEF SentOnce
  <2>2. ASSUME NEW k \in Module \ {n} PROVE Once(modQueue'[k])
    BY <1>1, <1>2, <1>3, <1>5, <1>13, <2>2, OnceEntered DEF SentOnce, IsMsg
  <2> QED BY <1>1, <1>2, <2>1, <2>2 DEF SentOnce
<1>14. kind = "order" => ~IsIn(modQueue'[n], "order", x)
  BY <1>1, <1>2, <1>3, OnceLeft DEF SentOnce, IsMsg
<1>15. \A y : \A k \in {"order", "ret"} : SameKind(modQueue[1], modQueue[1], k, y)
  BY DEF SameKind
<1>16. \A k \in Module \ {n, n + 1} : modQueue'[k] = modQueue[k]
  BY <1>2
<1>17. kind # "order" => SentOnce'
  BY <1>13
<1>18. \A y \in OrderId : y # x \/ kind = "cancel" =>
              /\ SameOf(modQueue[1], modQueue'[1], y)
              /\ \A k \in Module : SameKind(modQueue[k], modQueue'[k], "order", y)
  BY <1>8, <1>9, <1>10
<1>19. kind # "order" => \A k \in Module, y \in OrderId :
                                SameKind(modQueue[k], modQueue'[k], "order", y)
  BY <1>9, <1>10
<1>20. kind = "order" /\ (\A k \in Module : IsIn(modQueue[k], "order", x) => k = n) => SentOnce'
  BY <1>13
<1> QED BY <1>2, <1>3, <1>4, <1>11, <1>12, <1>14, <1>15, <1>16, <1>17, <1>18, <1>19, <1>20

LEMMA ModCancelCopied ==
  ASSUME Copied, NEW n \in Module, ModAcceptsCancel(n) \/ ModRefusesCancel(n)
  PROVE  Copied'
<1>1. Typed /\ 1 \in Module
  BY FirstModule DEF Copied
<1>2. ModTakes(n, "cancel") /\ UNCHANGED <<stg, gw, mod>>
  BY <1>1, ModCancelTyped
<1>3. Typed'
  BY <1>2 DEF ModTakes
<1>4. /\ preQueue' = preQueue /\ pre' = pre /\ SentOnce'
      /\ \A y \in OrderId : /\ SameOf(modQueue[1], modQueue'[1], y)
                            /\ \A k \in Module : SameKind(modQueue[k], modQueue'[k], "order", y)
  BY <1>2, ModQueues
<1>5. \A y \in OrderId : Follows(y)'
  <2>1. \A y \in OrderId : Untouched(y)
    BY <1>2, <1>4, SameItself DEF Untouched, P, M
  <2> QED BY <1>1, <2>1, FollowsFrame DEF Copied
<1> QED BY <1>2, <1>3, <1>4, <1>5 DEF Copied, Kept

\* What is known of an order a module takes.
LEMMA ModOrder ==
  ASSUME Copied, NEW n \in Module, ModTakes(n, "order"), NEW m, m = Head(modQueue[n]),
         NEW o, o = m.order, NEW x, x = o.orderId
  PROVE  /\ x \in OrderId /\ o \in OrderInTDSrv /\ About(stg, o) /\ View(o) = Fresh /\ ~closed(o)
         /\ x \in HeldBy(pre) /\ About(stg, P(x)) /\ P(x).posDirection # "Others"
         /\ View(P(x)) = Fresh /\ ~Known(gw[x]) /\ View(stg[x]) = Fresh
         /\ Terms(o) = Terms(P(x)) /\ Said(modQueue[n], "order", x, Terms(P(x)))
         /\ x \in HeldBy(mod[1]) <=> n # 1
         /\ \A k \in Module : IsIn(modQueue[k], "order", x) => k = n
         /\ ~IsIn(preQueue, "order", x) /\ ~IsIn(preQueue, "ret", x) /\ ~IsIn(modQueue[1], "ret", x)
         /\ x \in HeldBy(mod[1]) => About(stg, M(x)) /\ View(M(x)) = Fresh
<1>1. x \in OrderId /\ m \in Message /\ m.kind = "order" /\ MsgOK(stg, m) /\ IsIn(modQueue[n], "order", x)
  BY ModQueues
<1>2. o \in OrderInTDSrv /\ About(stg, o) /\ o.orderStatus = Created /\ o.dealSize = 0
  BY <1>1 DEF Message, MsgOK
<1>3. View(o) = Fresh /\ ~closed(o)
  BY <1>2 DEF View, Fresh, closed, Created, Filled
<1>4. Follows(x)
  BY <1>1 DEF Copied
<1>5. /\ x \in HeldBy(pre) /\ ~Known(gw[x]) /\ View(stg[x]) = Fresh
      /\ Said(modQueue[n], "order", x, Terms(P(x)))
      /\ x \in HeldBy(mod[1]) <=> n # 1
      /\ \A k \in Module : IsIn(modQueue[k], "order", x) => k = n
  BY <1>1, <1>4 DEF Follows, WaitsInModule
<1>6. Terms(o) = Terms(P(x))
  <2>1. modQueue[n] \in Seq(Message) /\ modQueue[n] # << >>
    BY DEF ModTakes
  <2>2. IsMsg(m, "order", x)
    BY <1>1 DEF IsMsg
  <2> QED BY <1>5, <2>1, <2>2, SaidLeft
<1>7. /\ About(stg, P(x)) /\ P(x).posDirection # "Others" /\ View(P(x)) = Fresh
      /\ x \in HeldBy(mod[1]) => About(stg, M(x)) /\ View(M(x)) = Fresh
      /\ ~IsIn(preQueue, "ret", x) /\ ~IsIn(modQueue[1], "ret", x)
  BY <1>4, <1>5 DEF Follows, HeldOK
<1>8. ~IsIn(preQueue, "order", x)
  BY <1>4, <1>5 DEF Follows, WaitsInPre
<1> QED BY <1>1, <1>2, <1>3, <1>5, <1>6, <1>7, <1>8

LEMMA ModRefusesOrderCopied ==
  ASSUME Copied, NEW n \in Module, ModRefusesOrder(n)
  PROVE  Copied'
<1>a. PICK m : m = Head(modQueue[n])
  OBVIOUS
<1>b. PICK o : o = m.order
  OBVIOUS
<1>c. PICK x : x = o.orderId
  OBVIOUS
<1>1. Typed /\ Kept /\ 1 \in Module
  BY FirstModule DEF Copied
<1>2. /\ ModTakes(n, "order") /\ gw' = gw
      /\ \A k \in Module \ {n} : modQueue'[k] = modQueue[k]
      /\ mod' = [mod EXCEPT ![n] = remove(add(@, o), o.orderId)]
      /\ \A y \in OrderId : y # x => stg'[y] = stg[y]
  BY <1>a, <1>b, <1>c, <1>1, ModRefusesOrderTyped
<1>3. Typed'
  BY <1>2 DEF ModTakes
<1>4. /\ x \in OrderId /\ o \in OrderInTDSrv /\ About(stg, o) /\ ~closed(o)
      /\ x \in HeldBy(pre) /\ About(stg, P(x)) /\ P(x).posDirection # "Others"
      /\ View(P(x)) = Fresh /\ ~Known(gw[x])
      /\ x \in HeldBy(mod[1]) <=> n # 1
      /\ \A k \in Module : IsIn(modQueue[k], "order", x) => k = n
      /\ ~IsIn(preQueue, "order", x) /\ ~IsIn(preQueue, "ret", x) /\ ~IsIn(modQueue[1], "ret", x)
      /\ x \in HeldBy(mod[1]) => About(stg, M(x)) /\ View(M(x)) = Fresh
  BY <1>a, <1>b, <1>c, <1>2, ModOrder
<1>5. /\ preQueue' = preQueue /\ pre' = pre /\ SentOnce' /\ ~IsIn(modQueue'[n], "order", x)
      /\ \A y \in OrderId : y # x => /\ SameOf(modQueue[1], modQueue'[1], y)
                                     /\ \A k \in Module : SameKind(modQueue[k], modQueue'[k], "order", y)
  BY <1>a, <1>b, <1>c, <1>2, <1>4, ModQueues
<1>6. mod'[1] = mod[1]
  <2>0. mod = [k \in Module |-> mod[k]]
    BY <1>1 DEF Typed
  <2>1. CASE n = 1
    <3>1. mod'[1] = remove(add(mod[1], o), o.orderId)
      BY <1>1, <1>2, <2>0, <2>1
    <3>2. Keeps(mod[1]) /\ o.orderId \notin HeldBy(mod[1])
      BY <1>c, <1>1, <1>4, <2>1 DEF Kept
    <3> QED BY <1>4, <3>1, <3>2, Added
  <2>2. CASE n # 1
    BY <1>1, <1>2, <2>0, <2>2
  <2> QED BY <2>1, <2>2
<1>7. ASSUME NEW y \in OrderId, y # x PROVE Follows(y)'
  <2>1. Untouched(y)
    BY <1>2, <1>5, <1>6, <1>7, SameItself DEF Untouched, P, M
  <2> QED BY <1>1, <2>1, FollowsFrame DEF Copied
<1>8. Follows(x)'
  <2>1. P(x)' = P(x) /\ M(x)' = M(x)
    BY <1>5, <1>6 DEF P, M
  <2>2. ~IsIn(modQueue'[1], "ret", x)
    <3>1. CASE n # 1
      BY <1>1, <1>2, <1>4, <3>1
    <3>2. CASE n = 1
      <4>1. modQueue[n] \in Seq(Message) /\ modQueue[n] # << >> /\ modQueue'[n] = Tail(modQueue[n])
        BY <1>2 DEF ModTakes
      <4> QED BY <1>4, <3>2, <4>1, InLeft
    <3> QED BY <3>1, <3>2
  <2>3. \A k \in Module : ~IsIn(modQueue'[k], "order", x)
    BY <1>2, <1>4, <1>5
  <2>4. About(stg', P(x)) /\ (x \in HeldBy(mod[1]) => About(stg', M(x)))
    <3>1. Grows(stg, stg') /\ P(x).orderId = x /\ (x \in HeldBy(mod[1]) => M(x).orderId = x)
      BY <1>1, <1>2, <1>4, Held DEF ModTakes, Kept, P, M
    <3> QED BY <1>4, <3>1 DEF Grows, About
  <2>5. HeldOK(x)'
    BY <1>2, <1>4, <1>5, <1>6, <2>1, <2>2, <2>4 DEF HeldOK
  <2>6. WaitsInPre(x)' /\ WaitsInModule(x)' /\ AtGateway(x)'
    BY <1>2, <1>4, <1>5, <2>3 DEF WaitsInPre, WaitsInModule, AtGateway
  <2> QED BY <2>5, <2>6 DEF Follows
<1>9. \A y \in OrderId : Follows(y)'
  BY <1>7, <1>8
<1>10. Kept'
  BY <1>1, <1>5, <1>6 DEF Kept
<1> QED BY <1>3, <1>5, <1>9, <1>10 DEF Copied

LEMMA ModAcceptsOrderCopied ==
  ASSUME Copied, NEW n \in Module, ModAcceptsOrder(n)
  PROVE  Copied'
<1>a. PICK m : m = Head(modQueue[n])
  OBVIOUS
<1>b. PICK o : o = m.order
  OBVIOUS
<1>c. PICK x : x = o.orderId
  OBVIOUS
<1>1. /\ Typed /\ Kept /\ 1 \in Module /\ modQueue \in [Module -> Seq(Message)]
      /\ mod = [k \in Module |-> mod[k]]
  BY FirstModule DEF Copied, Typed, QueuesOK
<1>2. /\ ModTakes(n, "order") /\ stg' = stg
      /\ n + 1 \in Module => modQueue'[n + 1] = Append(modQueue[n + 1], m)
      /\ mod' = [mod EXCEPT ![n] = add(@, o)]
      /\ gw' = IF n = NumModules
               THEN [gw EXCEPT ![o.orderId] = [o EXCEPT !.orderStatus = Pending]] ELSE gw
  BY <1>a, <1>b, <1>1, ModAcceptsOrderTyped
<1>3. /\ Typed' /\ modQueue[n] \in Seq(Message) /\ modQueue[n] # << >>
      /\ modQueue'[n] = Tail(modQueue[n]) /\ m \in Message /\ m.kind = "order"
  BY <1>a, <1>2 DEF ModTakes
<1>4. /\ x \in OrderId /\ o \in OrderInTDSrv /\ About(stg, o) /\ View(o) = Fresh /\ ~closed(o)
      /\ x \in HeldBy(pre) /\ About(stg, P(x)) /\ P(x).posDirection # "Others"
      /\ View(P(x)) = Fresh /\ ~Known(gw[x]) /\ View(stg[x]) = Fresh
      /\ Terms(o) = Terms(P(x)) /\ Said(modQueue[n], "order", x, Terms(P(x)))
      /\ x \in HeldBy(mod[1]) <=> n # 1
      /\ \A k \in Module : IsIn(modQueue[k], "order", x) => k = n
      /\ ~IsIn(preQueue, "order", x) /\ ~IsIn(preQueue, "ret", x) /\ ~IsIn(modQueue[1], "ret", x)
      /\ x \in HeldBy(mod[1]) => About(stg, M(x)) /\ View(M(x)) = Fresh
  BY <1>a, <1>b, <1>c, <1>2, ModOrder
<1>5. /\ preQueue' = preQueue /\ pre' = pre /\ SentOnce' /\ ~IsIn(modQueue'[n], "order", x)
      /\ n # 1 => modQueue'[1] = modQueue[1]
      /\ \A y \in OrderId : y # x => /\ SameOf(modQueue[1], modQueue'[1], y)
                                     /\ \A k \in Module : SameKind(modQueue[k], modQueue'[k], "order", y)
      /\ \A k \in Module : \A y : ~IsIn(modQueue[k], "order", y) /\ IsIn(modQueue'[k], "order", y)
           => k = n + 1
  <2>1. /\ preQueue' = preQueue /\ pre' = pre /\ SentOnce' /\ ~IsIn(modQueue'[n], "order", x)
        /\ n # 1 => modQueue'[1] = modQueue[1]
    BY <1>a, <1>b, <1>c, <1>2, <1>4, ModQueues
  <2>2. \A y \in OrderId : y # x => /\ SameOf(modQueue[1], modQueue'[1], y)
                                   /\ \A k \in Module : SameKind(modQueue[k], modQueue'[k], "order", y)
    BY <1>a, <1>b, <1>c, <1>2, ModQueues
  <2>3. ASSUME NEW k \in Module, NEW y, ~IsIn(modQueue[k], "order", y), IsIn(modQueue'[k], "order", y)
        PROVE  k = n + 1
    BY <1>a, <1>b, <1>c, <1>2, <2>3, ModQueues
  <2> QED BY <2>1, <2>2, <2>3
\* The first module holds the order now, as it was sent.
<1>6. /\ Keeps(mod'[1]) /\ HeldBy(mod'[1]) = HeldBy(mod[1]) \cup {x}
      /\ \A y \in HeldBy(mod[1]) : OrderOf(mod'[1], y) = M(y)
      /\ About(stg, OrderOf(mod'[1], x)) /\ View(OrderOf(mod'[1], x)) = Fresh
  <2>1. CASE n = 1
    <3>1. mod'[1] = add(mod[1], o)
      BY <1>1, <1>2, <2>1
    <3>2. Keeps(mod[1]) /\ o.orderId \notin HeldBy(mod[1])
      BY <1>c, <1>1, <1>4, <2>1 DEF Kept
    <3> QED BY <1>c, <1>4, <3>1, <3>2, Added DEF M
  <2>2. CASE n # 1
    <3>1. mod'[1] = mod[1] /\ x \in HeldBy(mod[1])
      BY <1>1, <1>2, <1>4, <2>2
    <3> QED BY <1>1, <1>4, <3>1 DEF Kept, M
  <2> QED BY <2>1, <2>2
<1>7. Kept' /\ P(x)' = P(x) /\ M(x)' = OrderOf(mod'[1], x)
  BY <1>1, <1>5, <1>6 DEF Kept, P, M
<1>8. ~IsIn(modQueue'[1], "ret", x)
  <2>1. CASE n = 1
    BY <1>3, <1>4, <2>1, InLeft
  <2>2. CASE n # 1
    BY <1>4, <1>5, <2>2
  <2> QED BY <2>1, <2>2
<1>9. gw \in Copies /\ \A y \in OrderId : y # x => gw'[y] = gw[y]
  BY <1>c, <1>1, <1>2 DEF Typed, GwOK, Copies
<1>10. ASSUME NEW y \in OrderId, y # x PROVE Follows(y)'
  <2>1. Untouched(y)
    BY <1>2, <1>5, <1>6, <1>9, <1>10, SameItself DEF Untouched, P, M
  <2> QED BY <1>1, <2>1, FollowsFrame DEF Copied
<1>11. Follows(x)'
  <2>1. HeldOK(x)'
    BY <1>2, <1>4, <1>5, <1>6, <1>7, <1>8 DEF HeldOK
  <2>2. WaitsInPre(x)'
    BY <1>4, <1>5 DEF WaitsInPre
  <2>3. CASE n # NumModules
    <3>1. n + 1 \in Module /\ n + 1 # 1 /\ n + 1 # n
      BY <2>3, TDSrvAssumption DEF Module
    <3>2. gw' = gw /\ \A k \in Module : IsIn(modQueue'[k], "order", x) => k = n + 1
      BY <1>2, <1>4, <1>5, <2>3
    <3>3. ~IsIn(modQueue[n + 1], "order", x) /\ modQueue[n + 1] \in Seq(Message)
      BY <1>1, <1>4, <3>1
    <3>4. Said(modQueue'[n + 1], "order", x, Terms(P(x)))
      <4>1. Said(modQueue[n + 1], "order", x, Terms(P(x)))
        BY <3>3, SaidNothing
      <4>2. modQueue'[n + 1] = Append(modQueue[n + 1], m) /\ Terms(m.order) = Terms(P(x))
        BY <1>b, <1>2, <1>4, <3>1
      <4>3. Said(Append(modQueue[n + 1], m), "order", x, Terms(P(x)))
        BY <1>3, <3>3, <4>1, <4>2, SaidEntered
      <4> QED BY <4>2, <4>3
    <3>5. WaitsInModule(x)'
      BY <1>2, <1>4, <1>5, <1>6, <1>7, <3>1, <3>2, <3>4 DEF WaitsInModule
    <3>6. AtGateway(x)'
      BY <1>4, <3>2 DEF AtGateway
    <3> QED BY <2>1, <2>2, <3>5, <3>6 DEF Follows
  <2>4. CASE n = NumModules
    <3>1. \A k \in Module : ~IsIn(modQueue'[k], "order", x)
      <4>1. \A k \in Module : k # n + 1
        BY <2>4, TDSrvAssumption DEF Module
      <4> QED BY <1>4, <1>5, <4>1
    <3>2. PICK g : g = [o EXCEPT !.orderStatus = Pending]
      OBVIOUS
    <3>3. gw'[x] = g
      BY <1>c, <1>2, <1>4, <1>9, <2>4, <3>2 DEF Copies
    <3>4. /\ Terms(g) = Terms(o) /\ g.orderStatus = Pending /\ g.dealSize = 0 /\ g.orderSize \in Nat
      <4>1. o.dealSize = 0 /\ o.orderSize \in Nat
        BY <1>4, SizeAssumption DEF View, Fresh, OrderInTDSrv
      <4> QED BY <1>4, <3>2, <4>1 DEF Terms, OrderInTDSrv
    <3>5. Traded(g) /\ Seen(g) = Fresh
      BY <3>4 DEF Traded, Seen, Abs, Pending, ConfirmedByExch, PartialFilled
    <3>6. Fresh \in Int \X Int
      BY DEF Fresh, Created
    <3>7. Chain(preQueue, x, View(P(x)), Fresh)
      <4>1. preQueue \in Seq(Message)
        BY <1>1 DEF Typed, QueuesOK, Carries
      <4> QED BY <1>4, <3>6, <4>1, ChainQuiet
    <3>8. Chain(modQueue'[1], x, Fresh, View(P(x)))
      <4>1. modQueue'[1] \in Seq(Message)
        BY <1>1, <1>3 DEF Typed, QueuesOK
      <4> QED BY <1>4, <1>8, <3>6, <4>1, ChainQuiet
    <3>9. \A t : Said(preQueue, "ret", x, t) /\ Said(modQueue'[1], "ret", x, t)
      BY <1>4, <1>8, SaidNothing
    <3>10. WaitsInModule(x)'
      BY <3>1 DEF WaitsInModule
    <3>11. AtGateway(x)'
      BY <1>2, <1>4, <1>5, <1>6, <1>7, <3>3, <3>4, <3>5, <3>7, <3>8, <3>9 DEF AtGateway
    <3> QED BY <2>1, <2>2, <3>10, <3>11 DEF Follows
  <2> QED BY <2>3, <2>4
<1>12. \A y \in OrderId : Follows(y)'
  BY <1>10, <1>11
<1> QED BY <1>3, <1>5, <1>7, <1>12 DEF Copied

LEMMA ModHandlesRetCopied ==
  ASSUME NoneForgotten, Copied, NEW n \in Module, ModHandlesRet(n)
  PROVE  Copied'
<1>a. PICK m : m = Head(modQueue[n])
  OBVIOUS
<1>b. PICK x : x = m.order.orderId
  OBVIOUS
<1>1. /\ Typed /\ Kept /\ 1 \in Module /\ modQueue \in [Module -> Seq(Message)]
      /\ mod = [k \in Module |-> mod[k]]
  BY FirstModule DEF Copied, Typed, QueuesOK
<1>2. /\ ModTakes(n, "ret") /\ gw' = gw
      /\ mod' = [mod EXCEPT ![n] = UpdateFromTDGW(@, ReportOf(m.order))]
      /\ n # 1 => stg' = stg
      /\ n = 1 => /\ stg[x] \in OrderInTDSrv
                  /\ stg'[x] = Receive(stg[x], m.order)
                  /\ \A id \in OrderId : id # x => stg'[id] = stg[id]
  BY <1>a, <1>b, <1>1, ModHandlesRetTyped
<1>3. /\ Typed' /\ modQueue[n] \in Seq(Message) /\ modQueue[n] # << >> /\ Grows(stg, stg')
      /\ modQueue'[n] = Tail(modQueue[n]) /\ m \in Message /\ m.kind = "ret"
  BY <1>a, <1>2 DEF ModTakes
<1>4. /\ x \in OrderId /\ MsgOK(stg, m) /\ IsIn(modQueue[n], "ret", x)
      /\ preQueue' = preQueue /\ pre' = pre /\ SentOnce'
      /\ n # 1 => modQueue'[1] = modQueue[1]
      /\ \A y \in OrderId : y # x => SameOf(modQueue[1], modQueue'[1], y)
      /\ \A k \in Module, y \in OrderId : SameKind(modQueue[k], modQueue'[k], "order", y)
  BY <1>a, <1>b, <1>2, ModQueues
<1>5. CASE n # 1
  <2>1. mod'[1] = mod[1]
    BY <1>1, <1>2, <1>5
  <2>2. ASSUME NEW y \in OrderId PROVE Follows(y)'
    <3>1. Untouched(y)
      BY <1>2, <1>4, <1>5, <2>1, SameItself DEF Untouched, P, M
    <3> QED BY <1>1, <3>1, FollowsFrame DEF Copied
  <2>3. Kept'
    BY <1>1, <1>4, <2>1 DEF Kept
  <2> QED BY <1>3, <1>4, <2>2, <2>3 DEF Copied
<1>6. CASE n = 1
  <2>1. mod'[1] = UpdateFromTDGW(mod[1], ReportOf(m.order)) /\ m.order \in OrderInTDSrv
    BY <1>1, <1>2, <1>3, <1>6 DEF Message
  <2>2. Follows(x)
    BY <1>4 DEF Copied
  <2>3. Known(gw[x]) /\ x \in HeldBy(mod[1]) /\ x \in HeldBy(pre)
    BY <1>4, <1>6, <2>2 DEF Follows, HeldOK, AtGateway
  <2>4. /\ About(stg, M(x)) /\ About(stg, P(x)) /\ P(x).posDirection # "Others"
        /\ Terms(gw[x]) = Terms(P(x)) /\ Traded(gw[x])
        /\ Said(preQueue, "ret", x, Terms(P(x))) /\ Said(modQueue[1], "ret", x, Terms(P(x)))
        /\ Chain(preQueue, x, View(P(x)), Seen(gw[x]))
        /\ Chain(modQueue[1], x, View(M(x)), View(P(x)))
        /\ View(stg[x]) = View(M(x))
    BY <2>2, <2>3 DEF Follows, HeldOK, AtGateway
  <2>5. IsMsg(m, "ret", x)
    BY <1>b, <1>3 DEF IsMsg
  <2>6. Leads(View(M(x)), m) /\ Chain(modQueue'[1], x, View(m.order), View(P(x)))
    BY <1>a, <1>3, <1>6, <2>4, <2>5, ChainLeft
  <2>7. /\ Keeps(mod'[1]) /\ HeldBy(mod'[1]) = HeldBy(mod[1])
        /\ OrderOf(mod'[1], x) = updateByOrderInfoFromTDGW(M(x), ReportOf(m.order))
        /\ \A y \in HeldBy(mod[1]) : y # x => OrderOf(mod'[1], y) = M(y)
    BY <1>b, <1>1, <2>1, <2>3, Updated DEF Kept, M
  <2>8. M(x) \in OrderInTDSrv /\ M(x).orderId = x /\ P(x).orderId = x /\ stg[x] \in OrderInTDSrv
    BY <1>1, <1>2, <1>6, <2>3, Held DEF Kept, M, P
  <2>9. /\ M(x).side = m.order.side /\ M(x).orderSize = m.order.orderSize
        /\ stg[x].side = m.order.side /\ stg[x].orderSize = m.order.orderSize
    BY <1>b, <1>4, <2>4, <2>8 DEF MsgOK, About
  <2>10. /\ View(OrderOf(mod'[1], x)) = View(m.order) /\ Terms(OrderOf(mod'[1], x)) = Terms(M(x))
         /\ OrderOf(mod'[1], x).orderId = x
    BY <1>3, <2>6, <2>7, <2>8, <2>9, MergeLeads
  <2>11. View(stg'[x]) = View(m.order)
    BY <1>2, <1>3, <1>6, <2>4, <2>6, <2>8, <2>9, MergeLeads DEF Receive
  <2>12. About(stg', OrderOf(mod'[1], x)) /\ About(stg', P(x))
    BY <1>3, <1>4, <2>4, <2>8, <2>10 DEF About, Terms, Grows
  <2>13. Kept' /\ P(x)' = P(x) /\ M(x)' = OrderOf(mod'[1], x)
    BY <1>1, <1>4, <2>7 DEF Kept, P, M
  <2>14. ASSUME NEW y \in OrderId, y # x PROVE Follows(y)'
    <3>1. Untouched(y)
      BY <1>2, <1>4, <1>6, <2>7, <2>14, SameItself DEF Untouched, P, M
    <3> QED BY <1>1, <3>1, FollowsFrame DEF Copied
  <2>15. Follows(x)'
    <3>1. /\ ~IsIn(preQueue', "order", x) /\ \A k \in Module : ~IsIn(modQueue'[k], "order", x)
      BY <1>4, <2>2, <2>3 DEF Follows, WaitsInPre, WaitsInModule, SameKind
    <3>2. WaitsInPre(x)' /\ WaitsInModule(x)'
      BY <3>1 DEF WaitsInPre, WaitsInModule
    <3>3. HeldOK(x)'
      BY <1>2, <1>4, <2>3, <2>4, <2>7, <2>12, <2>13 DEF HeldOK
    <3>4. Said(modQueue'[1], "ret", x, Terms(P(x)))
      BY <1>3, <1>6, <2>4, SaidLeft
    <3>5. AtGateway(x)'
      BY <1>2, <1>4, <2>3, <2>4, <2>6, <2>7, <2>10, <2>11, <2>13, <3>4 DEF AtGateway
    <3> QED BY <3>2, <3>3, <3>5 DEF Follows
  <2>16. \A y \in OrderId : Follows(y)'
    BY <2>14, <2>15
  <2> QED BY <1>3, <1>4, <2>13, <2>16 DEF Copied
<1> QED BY <1>5, <1>6

-----------------------------------------------------------------------------
\* What a gateway reports leads on from what was seen of the order.
LEMMA Reporting ==
  ASSUME NEW id, NEW g \in OrderInTDSrv, g = gw[id], Traded(g), NEW m \in Message, NEW o, o = m.order,
         o.side = g.side, o.orderSize = g.orderSize, Becomes(id, o),
         m.lastDealSize = o.dealSize - g.dealSize
  PROVE  Leads(Seen(g), m) /\ Traded(o) /\ Seen(o) = View(o)
<1>a. PICK d : d = m.lastDealSize
  OBVIOUS
<1>0. o \in OrderInTDSrv /\ d \in Int
  BY <1>a DEF Message
<1>1. /\ o.dealSize \in Int /\ g.dealSize \in Int /\ g.orderSize \in Nat \ {0} /\ d \in Int
      /\ g.side \in {"Bid", "Ask"} /\ o.dealSize = g.dealSize + d
      /\ o.orderSize = g.orderSize /\ o.side = g.side
  <2>1. o.dealSize \in Int /\ g.dealSize \in Int /\ g.orderSize \in Nat \ {0} /\ g.side \in {"Bid", "Ask"}
    BY <1>0, SizeAssumption, TDSrvAssumption DEF OrderInTDSrv
  <2>2. d = o.dealSize - g.dealSize
    BY <1>a
  <2> QED BY <1>0, <2>1, <2>2
<1>2. /\ IF g.side = "Bid" THEN g.dealSize >= 0 ELSE g.dealSize <= 0
      /\ Abs(g.dealSize) <= g.orderSize
      /\ g.orderStatus \in {ConfirmedByExch, PartialFilled} => Abs(g.dealSize) < g.orderSize
      /\ g.orderStatus \in {Pending, ConfirmedByExch, Failed, Canceled} => g.dealSize = 0
  BY DEF Traded
<1>3. CASE g.orderStatus = Pending /\ o.orderStatus \in {ConfirmedByExch, Failed} /\ o.dealSize = g.dealSize
  <2>1. d = 0 /\ g.dealSize = 0 /\ Seen(g) = Fresh
    BY <1>1, <1>2, <1>3 DEF Seen
  <2>2. Leads(Seen(g), m)
    <3>1. o.dealSize = 0 /\ Abs(0) <= o.orderSize
      BY <1>1, <1>3, <2>1 DEF Abs
    <3>2. Fresh[1] < Filled /\ Fresh[1] <= o.orderStatus /\ Fresh[2] = 0
      BY <1>3 DEF Fresh, Created, ConfirmedByExch, Failed, Filled
    <3> QED BY <1>a, <1>3, <2>1, <3>1, <3>2 DEF Leads
  <2>3. Traded(o) /\ Seen(o) = View(o)
    BY <1>1, <1>3, <2>1 DEF Traded, Seen, Abs, ConfirmedByExch, PartialFilled, Pending, Failed, Canceled
  <2> QED BY <2>2, <2>3
<1>4. CASE ~(g.orderStatus = Pending /\ o.orderStatus \in {ConfirmedByExch, Failed} /\ o.dealSize = g.dealSize)
  <2>1. PICK lots \in {0, 1} :
          /\ o.dealSize = g.dealSize + Signed(g.side, lots)
          /\ \/ /\ lots = 1
                /\ o.orderStatus = IF getUndealedSize(g) = 1 THEN Filled ELSE PartialFilled
             \/ /\ lots = 1 => Joint /\ getUndealedSize(g) > 1
                /\ o.orderStatus = IF o.dealSize = 0 THEN Canceled ELSE PartialFilledCanceled
    BY <1>4 DEF Becomes
  <2>2. g.orderStatus \in {ConfirmedByExch, PartialFilled}
    BY <1>4 DEF Becomes
  <2>3. Seen(g) = View(g) /\ Abs(g.dealSize) < g.orderSize /\ g.orderStatus \in Nat
        /\ g.orderStatus <= PartialFilled /\ PartialFilled < Filled
    BY <1>2, <2>2 DEF Seen, Pending, ConfirmedByExch, PartialFilled, Filled
  <2>4. d = Signed(g.side, lots)
    BY <1>1, <2>1 DEF Signed, Abs
  <2>5. /\ Abs(o.dealSize) = Abs(g.dealSize) + lots /\ getUndealedSize(g) = g.orderSize - Abs(g.dealSize)
        /\ IF g.side = "Bid" THEN o.dealSize >= 0 /\ d >= 0 ELSE o.dealSize <= 0 /\ d <= 0
        /\ Abs(g.dealSize) \in Nat /\ (lots = 0 <=> d = 0)
    <3>1. CASE g.side = "Bid"
      BY <1>1, <1>2, <2>1, <2>4, <3>1 DEF Signed, Abs, getUndealedSize
    <3>2. CASE g.side = "Ask"
      BY <1>1, <1>2, <2>1, <2>4, <3>2 DEF Signed, Abs, getUndealedSize
    <3> QED BY <1>1, <3>1, <3>2
  <2>6. /\ Abs(o.dealSize) <= o.orderSize
        /\ o.orderStatus \in {PartialFilled, Filled, Canceled, PartialFilledCanceled}
        /\ o.orderStatus = PartialFilled => Abs(o.dealSize) < o.orderSize
        /\ o.orderStatus = Canceled => o.dealSize = 0
        /\ ~Joint /\ d # 0 => o.orderStatus \in {PartialFilled, Filled}
    BY <1>1, <2>1, <2>3, <2>5 DEF PartialFilled, Filled, Canceled, PartialFilledCanceled
  <2>7. g.orderStatus <= o.orderStatus
    BY <2>3, <2>6 DEF PartialFilled, Filled, Canceled, PartialFilledCanceled
  <2>8. Leads(View(g), m)
    <3>1. View(g)[1] = g.orderStatus /\ View(g)[2] = g.dealSize
      BY DEF View
    <3>2. g.orderStatus < Filled
      BY <2>3 DEF PartialFilled, Filled
    <3>3. IF o.side = "Bid" THEN g.dealSize >= 0 /\ d >= 0 ELSE g.dealSize <= 0 /\ d <= 0
      BY <1>1, <1>2, <2>5
    <3> QED BY <1>a, <1>1, <2>6, <2>7, <3>1, <3>2, <3>3 DEF Leads
  <2>9. Traded(o) /\ Seen(o) = View(o)
    BY <1>1, <2>5, <2>6
       DEF Traded, Seen, ConfirmedByExch, PartialFilled, Filled, Canceled, PartialFilledCanceled,
           Pending, Failed
  <2> QED BY <2>3, <2>8, <2>9
<1> QED BY <1>3, <1>4

LEMMA GatewayCopied ==
  ASSUME Copied, NEW x \in OrderId, NEW m, SaysOf(x, m)
  PROVE  Copied'
<1>a. PICK o : o = m.order
  OBVIOUS
<1>1. /\ Typed /\ Kept /\ SentOnce /\ 1 \in Module /\ preQueue \in Seq(Message) /\ Follows(x)
  BY FirstModule DEF Copied, Typed, QueuesOK, Carries
<1>2. /\ Typed' /\ Known(gw[x]) /\ gw[x] \in OrderInTDSrv
      /\ o \in OrderInTDSrv /\ o.orderId = x /\ Terms(o) = Terms(gw[x])
      /\ o.side = gw[x].side /\ o.orderSize = gw[x].orderSize
      /\ Becomes(x, o) /\ gw'[x] = o /\ \A y \in OrderId : y # x => gw'[y] = gw[y]
      /\ m \in Message /\ m.kind = "ret" /\ m.lastDealSize = o.dealSize - gw[x].dealSize
      /\ preQueue' = Append(preQueue, m)
      /\ stg' = stg /\ pre' = pre /\ modQueue' = modQueue /\ mod' = mod
  BY <1>a DEF SaysOf, Terms, modVars
<1>3. /\ x \in HeldBy(pre) /\ x \in HeldBy(mod[1])
      /\ Terms(gw[x]) = Terms(P(x)) /\ Traded(gw[x])
      /\ Said(preQueue, "ret", x, Terms(P(x))) /\ Said(modQueue[1], "ret", x, Terms(P(x)))
      /\ Chain(preQueue, x, View(P(x)), Seen(gw[x]))
      /\ Chain(modQueue[1], x, View(M(x)), View(P(x)))
      /\ View(stg[x]) = View(M(x))
  BY <1>1, <1>2 DEF Follows, AtGateway
<1>4. Leads(Seen(gw[x]), m) /\ Traded(o) /\ Seen(o) = View(o)
  BY <1>a, <1>2, <1>3, Reporting
<1>5. /\ IsMsg(m, "ret", x) /\ ~IsMsg(m, "order", x)
      /\ \A y \in OrderId : y # x => ~Concerns(m, y)
  BY <1>a, <1>2 DEF IsMsg, Concerns
<1>6. Kept' /\ P(x)' = P(x) /\ M(x)' = M(x)
  BY <1>1, <1>2 DEF Kept, P, M
<1>7. SentOnce'
  <2>1. Once(preQueue')
    BY <1>1, <1>2, OnceEntered DEF SentOnce
  <2> QED BY <1>1, <1>2, <2>1 DEF SentOnce
<1>8. ASSUME NEW y \in OrderId, y # x PROVE Follows(y)'
  <2>1. SameOf(preQueue, preQueue', y)
    BY <1>1, <1>2, <1>5, <1>8, SameEntered
  <2>2. Untouched(y)
    BY <1>2, <1>8, <2>1, SameItself DEF Untouched, SameOf, P, M
  <2> QED BY <1>1, <2>2, FollowsFrame DEF Copied
<1>9. Follows(x)'
  <2>1. IsIn(preQueue', "order", x) <=> IsIn(preQueue, "order", x)
    BY <1>1, <1>2, <1>5, InEntered
  <2>2. WaitsInPre(x)' /\ WaitsInModule(x)'
    BY <1>1, <1>2, <2>1 DEF Follows, WaitsInPre, WaitsInModule
  <2>3. Known(o)
    BY <1>2, KnownOrder
  <2>4. HeldOK(x)'
    BY <1>1, <1>2, <1>3, <1>6, <2>3 DEF Follows, HeldOK
  <2>5. Said(preQueue', "ret", x, Terms(P(x)))
    BY <1>a, <1>1, <1>2, <1>3, SaidEntered
  <2>6. Chain(preQueue', x, View(P(x)), View(o))
    <3>1. View(o) \in Int \X Int
      BY <1>2, ViewTyped
    <3> QED BY <1>a, <1>1, <1>2, <1>3, <1>4, <1>5, <3>1, ChainEntered
  <2>7. AtGateway(x)'
    BY <1>2, <1>3, <1>4, <1>6, <2>5, <2>6 DEF AtGateway
  <2> QED BY <2>2, <2>4, <2>7 DEF Follows
<1>10. \A y \in OrderId : Follows(y)'
  BY <1>8, <1>9
<1> QED BY <1>2, <1>6, <1>7, <1>10 DEF Copied

LEMMA CopiedStep == ASSUME NoneForgotten PROVE Copied /\ [Next]_vars => Copied'
<1> SUFFICES ASSUME Copied, [Next]_vars PROVE Copied'
  OBVIOUS
<1>1. CASE UNCHANGED vars
  <2>1. /\ stg' = stg /\ gw' = gw /\ pre' = pre /\ mod' = mod
        /\ preQueue' = preQueue /\ modQueue' = modQueue /\ hold' = hold
    BY <1>1 DEF vars, preVars, modVars
  <2>2. Typed'
    BY <1>1, TypedStep DEF Copied
  <2>3. \A y \in OrderId : Untouched(y)
    BY <2>1, SameItself DEF Untouched, SameOf, P, M
  <2>4. \A y \in OrderId : Follows(y)'
    BY <2>3, FollowsFrame DEF Copied
  <2> QED BY <2>1, <2>2, <2>4 DEF Copied, Kept, SentOnce
<1>2. CASE \E id \in OrderId, acct \in Acct, side \in Side, direction \in Direction, size \in Size :
             StgOrder(id, acct, side, direction, size)
  BY <1>2, StgOrderCopied
<1>3. CASE PreHandleOrder \/ PreHandleRet
  BY <1>3, PreHandleOrderCopied, PreHandleRetCopied
<1>4. ASSUME NEW n \in Module,
             \/ ModAcceptsOrder(n) \/ ModRefusesOrder(n)
             \/ ModAcceptsCancel(n) \/ ModRefusesCancel(n)
             \/ ModHandlesRet(n)
      PROVE  Copied'
  BY <1>4, ModAcceptsOrderCopied, ModRefusesOrderCopied, ModCancelCopied, ModHandlesRetCopied
<1>5. ASSUME NEW id \in OrderId,
             GWConfirms(id) \/ GWRefuses(id) \/ GWDeals(id) \/ GWCancels(id)
      PROVE  Copied'
  BY <1>5, GatewayTyped, GatewayCopied DEF Copied
<1>6. ASSUME NEW id \in OrderId, StgCancel(id) PROVE Copied'
  BY <1>6, StgCancelCopied
<1> QED BY <1>1, <1>2, <1>3, <1>4, <1>5, <1>6 DEF Next

\* When nothing is under way to them, the strategy engine, OrderPreProc and
\* the first module agree with the gateway about an order.
THEOREM Agreement == ASSUME NoneForgotten PROVE Spec => []SrvAgreesWithGW
<1>1. Copied => SrvAgreesWithGW
  <2> SUFFICES ASSUME Copied, NEW id \in OrderId, Known(gw[id]), gw[id].orderStatus # Pending,
                      ~IsIn(preQueue, "ret", id), ~IsIn(modQueue[1], "ret", id)
               PROVE  /\ Agree(stg[id], gw[id]) /\ Agree(P(id), gw[id]) /\ Agree(M(id), gw[id])
    BY DEF SrvAgreesWithGW, P, M
  <2>1. /\ Chain(preQueue, id, View(P(id)), Seen(gw[id]))
        /\ Chain(modQueue[1], id, View(M(id)), View(P(id)))
        /\ View(stg[id]) = View(M(id))
        /\ preQueue \in Seq(Message) /\ modQueue[1] \in Seq(Message)
    BY FirstModule DEF Copied, Follows, AtGateway, Typed, QueuesOK, Carries
  <2>2. View(P(id)) = Seen(gw[id]) /\ View(M(id)) = View(P(id))
    BY <2>1, ChainQuiet
  <2>3. Seen(gw[id]) = View(gw[id])
    BY DEF Seen
  <2> QED BY <2>1, <2>2, <2>3 DEF View, Agree
<1> QED BY <1>1, CopiedInit, CopiedStep, PTL DEF Spec

-----------------------------------------------------------------------------
\* What a step does to what OrderPreProc knows: an order enters, one advances
\* by a deal of d, or nothing changes.
Enters(x, o, p) ==
  /\ x \in OrderId \ HeldBy(pre) /\ HeldBy(pre)' = HeldBy(pre) \cup {x} /\ P(x)' = p /\ hold' = hold
  /\ \A y \in HeldBy(pre) : P(y)' = P(y)
  /\ p \in OrderInTDSrv /\ p.orderStatus = Created /\ p.dealSize = 0
  /\ o.side = p.side /\ o.orderSize = p.orderSize
  /\ p.posDirection \in {"Open", "Close"} /\ (p.posDirection = "Close" => Enough(o, p.acctId))

Advances(x, d) ==
  /\ x \in HeldBy(pre) /\ HeldBy(pre)' = HeldBy(pre) /\ d \in Int
  /\ \A y \in HeldBy(pre) : y # x => P(y)' = P(y)
  /\ P(x)' \in OrderInTDSrv /\ Terms(P(x)') = Terms(P(x)) /\ ~closed(P(x))
  /\ P(x)'.dealSize = P(x).dealSize + d
  /\ Abs(P(x).dealSize) <= Abs(P(x)'.dealSize) /\ Abs(P(x)'.dealSize) <= P(x).orderSize
  /\ hold' = [hold EXCEPT ![P(x).acctId] = @ + d]

LEMMA OrderEnters ==
  ASSUME NoneForgotten, Copied, PreHandleOrder
  PROVE  (\E x, o, p : Enters(x, o, p)) \/ (pre' = pre /\ hold' = hold)
<1>a. PICK o : o = Head(preQueue).order
  OBVIOUS
<1>b. PICK x : x = o.orderId
  OBVIOUS
<1>1. Typed /\ Keeps(pre)
  BY DEF Copied, Kept
<1>2. /\ preQueue \in Seq(Message) /\ preQueue # << >>
      /\ Head(preQueue).kind = "order" /\ o \in OrderInTDSrv
      /\ o.orderStatus = Created /\ o.dealSize = 0 /\ hold' = hold
      /\ \/ \E p \in OrderInTDSrv : PassedOn(p)
         \/ Fail(o) /\ UNCHANGED <<pre, modQueue>>
  BY <1>a, <1>1, PreHandleOrderTyped
<1>3. x \in OrderId /\ IsMsg(Head(preQueue), "order", x)
  BY <1>a, <1>b, <1>2 DEF OrderInTDSrv, IsMsg
<1>4. IsIn(preQueue, "order", x)
  BY <1>2, <1>3, InLeft
<1>5. /\ x \notin HeldBy(pre) /\ stg[x].posDirection \in Direction
      /\ Said(preQueue, "order", x, Terms(stg[x]))
  BY <1>3, <1>4 DEF Copied, Follows, WaitsInPre
<1>6. o.posDirection \in Direction
  BY <1>a, <1>2, <1>3, <1>5, SaidLeft DEF Terms
<1>7. ASSUME NEW p \in OrderInTDSrv, PassedOn(p) PROVE Enters(x, o, p)
  <2>1. p \in handleSharedPos(o) /\ pre' = add(pre, p)
    BY <1>a, <1>7 DEF PassedOn
  <2>2. /\ p.orderId = x /\ p.side = o.side /\ p.orderSize = o.orderSize
        /\ p.orderStatus = Created /\ p.dealSize = 0
        /\ \/ p.posDirection # "Others" /\ p = o
           \/ p.posDirection = "Close" /\ Enough(o, p.acctId)
    BY <1>b, <1>2, <2>1, Shared
  <2>3. p.posDirection \in {"Open", "Close"} /\ (p.posDirection = "Close" => Enough(o, p.acctId))
    BY <1>6, <2>2, TDSrvAssumption
  <2>4. ~closed(p)
    BY <2>2 DEF closed, Created, Filled
  <2>5. /\ HeldBy(pre') = HeldBy(pre) \cup {x} /\ OrderOf(pre', x) = p
        /\ \A y \in HeldBy(pre) : OrderOf(pre', y) = OrderOf(pre, y)
    BY <1>1, <1>5, <2>1, <2>2, <2>4, Added
  <2> QED BY <1>2, <1>3, <1>5, <2>2, <2>3, <2>5 DEF Enters, P
<1> QED BY <1>2, <1>7

LEMMA OrderAdvances ==
  ASSUME NoneForgotten, ~Joint, Copied, PreHandleRet
  PROVE  \E x, d : Advances(x, d)
<1>a. PICK m : m = Head(preQueue)
  OBVIOUS
<1>b. PICK x : x = m.order.orderId
  OBVIOUS
<1>c. PICK d : d = m.lastDealSize
  OBVIOUS
<1>1. /\ m \in Message /\ x \in HeldBy(pre) /\ P(x) \in OrderInTDSrv
      /\ Terms(m.order) = Terms(P(x)) /\ Leads(View(P(x)), m) /\ HeldBy(pre') = HeldBy(pre)
      /\ \A y \in HeldBy(pre) : y # x => OrderOf(pre', y) = OrderOf(pre, y)
      /\ Found(pre, ReportOf(m.order)) /\ Lookup(pre, ReportOf(m.order)) = P(x)
      /\ OrderOf(pre', x) = updateByOrderInfoFromTDGW(P(x), ReportOf(m.order))
  BY <1>a, <1>b, PreRet
<1>2. hold' = [hold EXCEPT ![m.order.acctId] = @ + DealOf(m)]
  BY <1>a, PreHandleRetTyped DEF Copied
<1>3. /\ P(x).side = m.order.side /\ P(x).orderSize = m.order.orderSize
      /\ P(x).acctId = m.order.acctId /\ d \in Int
  BY <1>c, <1>1 DEF Terms, Message
<1>4. /\ OrderOf(pre', x) \in OrderInTDSrv /\ Terms(OrderOf(pre', x)) = Terms(P(x))
      /\ OrderOf(pre', x).dealSize = P(x).dealSize + d
      /\ IsTheOrderCanBeUsedCalcPos(P(x), ReportOf(m.order)) <=> d # 0
      /\ ~closed(P(x)) /\ Abs(OrderOf(pre', x).dealSize) <= OrderOf(pre', x).orderSize
      /\ Abs(P(x).dealSize) <= Abs(OrderOf(pre', x).dealSize)
  BY <1>c, <1>1, <1>3, MergeLeads
<1>5. DealOf(m) = d
  BY <1>c, <1>1, <1>4 DEF DealOf, Leads
<1>6. Advances(x, d)
  BY <1>1, <1>2, <1>3, <1>4, <1>5 DEF Advances, P, Terms
<1> QED BY <1>6

LEMMA PreChanges ==
  ASSUME NoneForgotten, ~Joint, Copied, [Next]_vars
  PROVE  \/ \E x, o, p : Enters(x, o, p)
         \/ \E x, d : Advances(x, d)
         \/ pre' = pre /\ hold' = hold
<1>1. CASE PreHandleOrder
  BY <1>1, OrderEnters
<1>2. CASE PreHandleRet
  BY <1>2, OrderAdvances
<1>3. CASE ~PreHandleOrder /\ ~PreHandleRet
  BY <1>3 DEF Next, StgOrder, StgCancel, ModAcceptsOrder, ModRefusesOrder, ModAcceptsCancel,
              ModRefusesCancel, ModHandlesRet, GWConfirms, GWRefuses, GWDeals, GWCancels, Reports,
              vars, preVars
<1> QED BY <1>1, <1>2, <1>3

-----------------------------------------------------------------------------
\* The position of an account is what it started with and the deals of the
\* orders OrderPreProc holds.
DealIn(acct) ==
  [id \in OrderId |-> IF id \in HeldBy(pre) /\ P(id).acctId = acct THEN P(id).dealSize ELSE 0]

Holds == \A acct \in Acct : hold[acct] = InitPos[acct] + Total(DealIn(acct), OrderId)

LEMMA DealInTyped ==
  ASSUME Keeps(pre)
  PROVE  \A acct : \A id \in OrderId : DealIn(acct)[id] \in Int
BY Held DEF DealIn, P, OrderInTDSrv

LEMMA HoldsIs ==
  ASSUME NoneForgotten, Keeps(pre)
  PROVE  HoldFollowsDeals <=> Holds
<1> SUFFICES ASSUME NEW acct
             PROVE  Summed([id \in HeldBy(pre) |-> OrderOf(pre, id).dealSize],
                           {id \in HeldBy(pre) : OrderOf(pre, id).acctId = acct})
                      = Total(DealIn(acct), OrderId)
  BY DEF HoldFollowsDeals, Holds
<1> DEFINE f == [id \in HeldBy(pre) |-> OrderOf(pre, id).dealSize]
           S == {id \in HeldBy(pre) : OrderOf(pre, id).acctId = acct}
           e == DealIn(acct)
<1>1. IsFiniteSet(OrderId) /\ S \subseteq OrderId
  BY Held DEF NoneForgotten
<1>2. \A x \in S : f[x] \in Int /\ e[x] = f[x]
  BY Held DEF DealIn, P, OrderInTDSrv
<1>3. \A x \in OrderId \ S : e[x] = 0
  BY DEF DealIn, P
<1> HIDE DEF f, S, e
<1>4. Total(f, S) = Total(e, OrderId)
  BY <1>1, <1>2, <1>3, TotalWhole
<1> QED BY <1>4 DEF Summed, Total, f, S, e

LEMMA HoldsStep ==
  ASSUME NoneForgotten, ~Joint, Copied, Copied', Holds, [Next]_vars
  PROVE  Holds'
<1>1. /\ IsFiniteSet(OrderId) /\ hold \in [Acct -> Int] /\ Keeps(pre) /\ Keeps(pre')
      /\ (\A acct : \A id \in OrderId : DealIn(acct)[id] \in Int)
      /\ \A acct : \A id \in OrderId : DealIn(acct)'[id] \in Int
  <2>1. Keeps(pre) /\ Keeps(pre)'
    BY DEF Copied, Kept
  <2>2. (\A acct : \A id \in OrderId : DealIn(acct)[id] \in Int)'
    BY <2>1, DealInTyped, PTL
  <2> QED BY <2>1, <2>2, DealInTyped DEF Copied, Typed, NoneForgotten
<1>2. CASE pre' = pre /\ hold' = hold
  BY <1>2 DEF Holds, DealIn, P
<1>3. ASSUME NEW x, NEW o, NEW p, Enters(x, o, p) PROVE Holds'
  <2>1. ASSUME NEW acct, NEW id \in OrderId PROVE DealIn(acct)'[id] = DealIn(acct)[id]
    BY <1>3 DEF Enters, DealIn
  <2>2. \A acct : Total(DealIn(acct)', OrderId) = Total(DealIn(acct), OrderId)
    BY <1>1, <2>1, TotalSame
  <2> QED BY <1>3, <2>2 DEF Holds, Enters
<1>4. ASSUME NEW x, NEW d, Advances(x, d) PROVE Holds'
  <2>1. /\ x \in OrderId /\ P(x) \in OrderInTDSrv /\ P(x).acctId \in Acct
        /\ P(x)'.acctId = P(x).acctId /\ d \in Int
        /\ P(x)'.dealSize = P(x).dealSize + d /\ x \in HeldBy(pre) /\ HeldBy(pre)' = HeldBy(pre)
        /\ hold' = [hold EXCEPT ![P(x).acctId] = @ + d]
        /\ \A y \in HeldBy(pre) : y # x => P(y)' = P(y)
    BY <1>1, <1>4, Held DEF Advances, P, OrderInTDSrv, Terms
  <2>2. ASSUME NEW acct \in Acct
        PROVE  Total(DealIn(acct)', OrderId)
                 = Total(DealIn(acct), OrderId) + IF acct = P(x).acctId THEN d ELSE 0
    <3> DEFINE f == DealIn(acct)
    <3>1. \A y \in OrderId \ {x} : f'[y] = f[y]
      BY <2>1 DEF DealIn
    <3>2. f'[x] = f[x] + IF acct = P(x).acctId THEN d ELSE 0
      BY <1>1, <2>1 DEF DealIn, OrderInTDSrv
    <3>3. (\A y \in OrderId : f[y] \in Int) /\ \A y \in OrderId : f'[y] \in Int
      BY <1>1
    <3>4. PICK g : g = f'
      OBVIOUS
    <3> HIDE DEF f
    <3>5. /\ Total(g, OrderId) = Total(f, OrderId) + g[x] - f[x] /\ Total(f, OrderId) \in Int
      BY <1>1, <2>1, <3>1, <3>3, <3>4, TotalChanges
    <3> QED BY <2>1, <3>2, <3>3, <3>4, <3>5 DEF f
  <2>3. ASSUME NEW acct \in Acct PROVE hold'[acct] = InitPos[acct] + Total(DealIn(acct)', OrderId)
    <3>1. hold'[acct] = hold[acct] + IF acct = P(x).acctId THEN d ELSE 0
      BY <1>1, <2>1
    <3>2. /\ hold[acct] = InitPos[acct] + Total(DealIn(acct), OrderId)
          /\ InitPos[acct] \in Int /\ Total(DealIn(acct), OrderId) \in Int
      BY <1>1, TotalInt, InitPosAssumption DEF Holds
    <3> QED BY <2>1, <2>2, <3>1, <3>2
  <2> QED BY <2>3 DEF Holds
<1> QED BY <1>2, <1>3, <1>4, PreChanges

\* The position OrderPreProc decides with is what the deals of its orders make
\* it, as long as no deal is reported together with a cancellation.
THEOREM Positions == ASSUME NoneForgotten, ~Joint PROVE Spec => []HoldFollowsDeals
<1>1. Init => Holds
  <2> SUFFICES ASSUME Init, NEW acct \in Acct
               PROVE  hold[acct] = InitPos[acct] + Total(DealIn(acct), OrderId)
    BY DEF Holds
  <2>1. \A id \in OrderId : DealIn(acct)[id] = 0
    BY KeepsNone DEF Init, DealIn
  <2>2. Total(DealIn(acct), {}) = Total(DealIn(acct), OrderId)
    BY <2>1, TotalWhole DEF NoneForgotten
  <2> QED BY <2>2, TotalEmpty, InitPosAssumption DEF Init
<1>2. Copied /\ Holds /\ [Next]_vars => Copied' /\ Holds'
  BY CopiedStep, HoldsStep
<1>3. Copied /\ Holds => HoldFollowsDeals
  BY HoldsIs DEF Copied, Kept
<1> QED BY <1>1, <1>2, <1>3, CopiedInit, PTL DEF Spec

-----------------------------------------------------------------------------
\* Along a history deals only grow, and nothing follows the closing.
Within(side, v, w) == IF side = "Bid" THEN v[2] >= 0 /\ v[2] <= w[2] ELSE v[2] <= 0 /\ w[2] <= v[2]

LEMMA ChainGrows ==
  ASSUME NEW q \in Seq(Message), NEW id, NEW v, NEW w, Chain(q, id, v, w),
         NEW t, Said(q, "ret", id, t), Within(t[2], w, w)
  PROVE  Within(t[2], v, w) /\ (v[1] >= Filled => v = w)
<1> DEFINE n == Len(q)
<1>1. PICK h : IsHistory(h, q, id, v, w)
  BY DEF Chain
<1>2. n \in Nat /\ DOMAIN q = 1 .. n /\ \A i \in 1 .. n : q[i] \in Message
  OBVIOUS
<1>3. /\ h \in [0 .. n -> Int \X Int] /\ h[0] = v /\ h[n] = w
      /\ \A i \in 1 .. n :
           IF IsMsg(q[i], "ret", id) THEN h[i] = View(q[i].order) /\ Leads(h[i - 1], q[i])
                                     ELSE h[i] = h[i - 1]
  BY <1>1 DEF IsHistory
<1> DEFINE Good(i) == Within(t[2], h[i], w) /\ (h[i][1] >= Filled => h[i] = w)
           Bad == {k \in Nat : k <= n /\ ~Good(n - k)}
<1> HIDE DEF n
<1>4. \A i \in 0 .. n : h[i] \in Int \X Int /\ h[i][1] \in Int /\ h[i][2] \in Int
  BY <1>3
<1>5. ASSUME NEW i \in 1 .. n, Good(i) PROVE Good(i - 1)
  <2>1. i - 1 \in 0 .. n /\ i \in 0 .. n /\ n \in 0 .. n
    BY <1>2
  <2>2. CASE IsMsg(q[i], "ret", id)
    <3>1. PICK d : d = q[i].lastDealSize
      OBVIOUS
    <3>2. q[i].order.side = t[2]
      BY <1>2, <2>2 DEF Said, Terms
    <3>3. h[i] = View(q[i].order) /\ Leads(h[i - 1], q[i]) /\ d \in Int
      BY <1>2, <1>3, <2>2, <3>1 DEF Message
    <3>4. /\ h[i][2] = h[i - 1][2] + d /\ h[i - 1][1] < Filled
          /\ IF t[2] = "Bid" THEN h[i - 1][2] >= 0 /\ d >= 0 ELSE h[i - 1][2] <= 0 /\ d <= 0
      BY <3>1, <3>2, <3>3 DEF Leads, View
    <3>5. w[2] \in Int
      BY <1>3, <1>4, <2>1
    <3> QED BY <1>4, <1>5, <2>1, <3>3, <3>4, <3>5 DEF Within, Filled
  <2>3. CASE ~IsMsg(q[i], "ret", id)
    BY <1>3, <1>5, <2>3
  <2> QED BY <2>2, <2>3
<1>6. Bad = {}
  <2> SUFFICES ASSUME Bad # {} PROVE FALSE
    OBVIOUS
  <2>1. PICK k \in Bad : \A m \in Bad : k <= m
    BY LeastOf
  <2>2. Good(n)
    BY <1>3
  <2>3. k # 0
    <3>1. n - 0 = n
      BY <1>2
    <3> QED BY <2>1, <2>2, <3>1
  <2>4. k - 1 \in Nat /\ k - 1 <= n /\ ~(k <= k - 1) /\ n - (k - 1) \in 1 .. n /\ n - (k - 1) - 1 = n - k
    BY <1>2, <2>1, <2>3
  <2>5. k - 1 \notin Bad
    BY <2>1, <2>4
  <2>6. Good(n - (k - 1))
    BY <2>4, <2>5
  <2>7. Good(n - k)
    BY <1>5, <2>4, <2>6
  <2> QED BY <2>1, <2>7
<1>7. Good(0)
  <2>1. n \notin Bad
    BY <1>6
  <2>2. n - n = 0
    BY <1>2
  <2> QED BY <1>2, <2>1, <2>2
<1> QED BY <1>3, <1>7

\* What an order may still need of the position it closes.
Need(o) == IF closed(o) THEN Abs(o.dealSize) ELSE o.orderSize

\* OrderPreProc is behind the gateway: it has seen fewer of the deals, and
\* counts on more of the position being needed.
LEMMA PreIsBehind ==
  ASSUME Copied, NEW id \in HeldBy(pre)
  PROVE  /\ id \in OrderId /\ P(id) \in OrderInTDSrv /\ P(id).posDirection \in {"Open", "Close"}
         /\ P(id).side \in {"Bid", "Ask"} /\ P(id).orderSize \in Nat
         /\ P(id).dealSize \in Int /\ HasSignOfSide(P(id)) /\ Abs(P(id).dealSize) <= P(id).orderSize
         /\ ~Known(gw[id]) => P(id).dealSize = 0
         /\ Known(gw[id]) =>
              /\ gw[id] \in OrderInTDSrv /\ Terms(gw[id]) = Terms(P(id))
              /\ gw[id].dealSize \in Int /\ HasSignOfSide(gw[id])
              /\ Abs(gw[id].dealSize) <= gw[id].orderSize
              /\ Abs(P(id).dealSize) <= Abs(gw[id].dealSize) /\ Need(gw[id]) <= Need(P(id))
<1>1. Typed /\ Keeps(pre) /\ Follows(id) /\ preQueue \in Seq(Message)
  BY Held DEF Copied, Kept, Typed, QueuesOK, Carries
<1>2. /\ id \in OrderId /\ P(id) \in OrderInTDSrv
  BY <1>1, Held DEF P
<1>3. P(id).posDirection # "Others" /\ (~Known(gw[id]) => View(P(id)) = Fresh)
  BY <1>1 DEF Follows, HeldOK
<1>4. /\ P(id).posDirection \in {"Open", "Close"} /\ P(id).side \in {"Bid", "Ask"}
      /\ P(id).orderSize \in Nat /\ P(id).dealSize \in Int
      /\ P(id).orderStatus \in OrderStatus
  BY <1>2, <1>3, TDSrvAssumption, SizeAssumption DEF OrderInTDSrv
<1>5. CASE ~Known(gw[id])
  <2>1. P(id).dealSize = 0
    BY <1>3, <1>5 DEF View, Fresh
  <2> QED BY <1>2, <1>4, <1>5, <2>1 DEF HasSignOfSide, Abs
<1>6. CASE Known(gw[id])
  <2>1. PICK g : g = gw[id]
    OBVIOUS
  <2>2. PICK p : p = P(id)
    OBVIOUS
  <2>3. g \in OrderInTDSrv /\ g.dealSize \in Int /\ g.orderStatus \in OrderStatus
    BY <1>1, <1>2, <1>6, <2>1 DEF Typed, GwOK, Copies, Known, OrderInTDSrv
  <2>4. /\ Terms(g) = Terms(p) /\ Traded(g) /\ Said(preQueue, "ret", id, Terms(p))
        /\ Chain(preQueue, id, View(p), Seen(g))
    BY <1>1, <1>6, <2>1, <2>2 DEF Follows, AtGateway
  <2>5. /\ g.side = p.side /\ g.orderSize = p.orderSize /\ Terms(p)[2] = p.side
    BY <2>4 DEF Terms
  <2>6. /\ IF g.side = "Bid" THEN g.dealSize >= 0 ELSE g.dealSize <= 0
        /\ Abs(g.dealSize) <= g.orderSize /\ (g.orderStatus = Pending => g.dealSize = 0)
    BY <2>4 DEF Traded
  <2>7. Seen(g)[2] = g.dealSize /\ (Seen(g)[1] >= Filled => Seen(g) = View(g))
    BY <2>6 DEF Seen, Fresh, View, Created, Filled
  <2>8. Within(p.side, Seen(g), Seen(g))
    BY <2>3, <2>5, <2>6, <2>7 DEF Within
  <2>9. Within(p.side, View(p), Seen(g)) /\ (View(p)[1] >= Filled => View(p) = Seen(g))
    BY <1>1, <2>4, <2>5, <2>8, ChainGrows
  <2>10. /\ IF p.side = "Bid" THEN p.dealSize >= 0 /\ p.dealSize <= g.dealSize
                              ELSE p.dealSize <= 0 /\ g.dealSize <= p.dealSize
         /\ closed(p) => p.dealSize = g.dealSize /\ closed(g)
    <3>1. View(p)[1] = p.orderStatus /\ View(p)[2] = p.dealSize /\ View(g)[1] = g.orderStatus
      BY DEF View
    <3> QED BY <2>7, <2>9, <3>1 DEF Within, closed
  <2>11. p.dealSize \in Int /\ p.orderSize \in Nat
    BY <1>4, <2>2
  <2>12. /\ Abs(p.dealSize) <= Abs(g.dealSize) /\ Abs(p.dealSize) <= p.orderSize
         /\ HasSignOfSide(p) /\ HasSignOfSide(g)
    BY <2>3, <2>5, <2>6, <2>10, <2>11 DEF Abs, HasSignOfSide
  <2>13. Need(g) <= Need(p)
    BY <2>3, <2>5, <2>6, <2>10, <2>11 DEF Need, Abs
  <2> QED BY <1>2, <1>4, <1>6, <2>1, <2>2, <2>3, <2>4, <2>6, <2>12, <2>13
<1> QED BY <1>5, <1>6

-----------------------------------------------------------------------------
\* Sums over the orders OrderPreProc holds: what those that close the position
\* of an account by a side need, have closed and freeze, and what those that
\* open such a position have opened.
Closes(o, acct, side) == o.acctId = acct /\ o.side = side /\ o.posDirection = "Close"
Opens(o, acct, side) == o.acctId = acct /\ o.side # side /\ o.posDirection = "Open"

Needed(acct, side) ==
  [id \in OrderId |-> IF id \in HeldBy(pre) /\ Closes(P(id), acct, side) THEN Need(P(id)) ELSE 0]
ClosedBy(acct, side) ==
  [id \in OrderId |-> IF id \in HeldBy(pre) /\ Closes(P(id), acct, side) THEN Abs(P(id).dealSize) ELSE 0]
Frozen(acct, side) ==
  [id \in OrderId |-> IF id \in OpenIds(pre) /\ Closes(P(id), acct, side)
                      THEN getUndealedSize(P(id)) ELSE 0]
Opened(acct, side) ==
  [id \in OrderId |-> IF id \in HeldBy(pre) /\ Opens(P(id), acct, side) THEN Abs(P(id).dealSize) ELSE 0]

Initial(acct, side) == IF InitPos[acct] > 0 <=> side = "Ask" THEN Abs(InitPos[acct]) ELSE 0

\* The orders that close a position need no more than there is.
PreCovered ==
  \A acct \in Acct, side \in {"Bid", "Ask"} :
    Total(Needed(acct, side), OrderId) <= Initial(acct, side) + Total(Opened(acct, side), OrderId)

LEMMA SumsTyped ==
  ASSUME Copied
  PROVE  \A acct, side : \A id \in OrderId :
           /\ Needed(acct, side)[id] \in Nat /\ ClosedBy(acct, side)[id] \in Nat
           /\ Frozen(acct, side)[id] \in Nat /\ Opened(acct, side)[id] \in Nat
           /\ DealIn(acct)[id] \in Int
           /\ ClosedBy(acct, side)[id] <= Needed(acct, side)[id]
           /\ Needed(acct, side)[id] = ClosedBy(acct, side)[id] + Frozen(acct, side)[id]
<1> SUFFICES ASSUME NEW acct, NEW side, NEW id \in OrderId
             PROVE  /\ Needed(acct, side)[id] \in Nat /\ ClosedBy(acct, side)[id] \in Nat
                    /\ Frozen(acct, side)[id] \in Nat /\ Opened(acct, side)[id] \in Nat
                    /\ DealIn(acct)[id] \in Int
                    /\ ClosedBy(acct, side)[id] <= Needed(acct, side)[id]
                    /\ Needed(acct, side)[id] = ClosedBy(acct, side)[id] + Frozen(acct, side)[id]
  OBVIOUS
<1>1. CASE id \notin HeldBy(pre)
  BY <1>1 DEF Needed, ClosedBy, Frozen, Opened, DealIn, HeldBy
<1>2. CASE id \in HeldBy(pre)
  <2>1. PICK p : p = P(id)
    OBVIOUS
  <2>2. /\ p \in OrderInTDSrv /\ p.side \in {"Bid", "Ask"} /\ p.orderSize \in Nat
        /\ p.dealSize \in Int /\ HasSignOfSide(p) /\ Abs(p.dealSize) <= p.orderSize
        /\ id \in OpenIds(pre) <=> ~closed(p)
    BY <1>2, <2>1, PreIsBehind, Held DEF Copied, Kept, P
  <2>3. /\ Abs(p.dealSize) \in Nat /\ getUndealedSize(p) \in Nat
        /\ getUndealedSize(p) = p.orderSize - Abs(p.dealSize)
    BY <2>2 DEF HasSignOfSide, Abs, getUndealedSize
  <2>4. /\ Need(p) \in Nat /\ Abs(p.dealSize) <= Need(p)
        /\ Need(p) = Abs(p.dealSize) + IF id \in OpenIds(pre) THEN getUndealedSize(p) ELSE 0
    BY <2>2, <2>3 DEF Need
  <2>5. /\ Needed(acct, side)[id] = IF Closes(p, acct, side) THEN Need(p) ELSE 0
        /\ ClosedBy(acct, side)[id] = IF Closes(p, acct, side) THEN Abs(p.dealSize) ELSE 0
        /\ Frozen(acct, side)[id] = IF id \in OpenIds(pre) /\ Closes(p, acct, side)
                                    THEN getUndealedSize(p) ELSE 0
        /\ Opened(acct, side)[id] = IF Opens(p, acct, side) THEN Abs(p.dealSize) ELSE 0
        /\ DealIn(acct)[id] = IF p.acctId = acct THEN p.dealSize ELSE 0
    BY <1>2, <2>1 DEF Needed, ClosedBy, Frozen, Opened, DealIn
  <2> QED BY <2>2, <2>3, <2>4, <2>5
<1> QED BY <1>1, <1>2

\* The totals are numbers, those that close need what they have closed and
\* what they freeze, and the deals of an account are those of its four kinds
\* of orders.
LEMMA Totals ==
  ASSUME NoneForgotten, Copied, NEW acct, NEW side
  PROVE  LET T(f) == Total(f, OrderId) IN
         /\ T(Needed(acct, side)) \in Int /\ T(ClosedBy(acct, side)) \in Int
         /\ T(Frozen(acct, side)) \in Int /\ T(Opened(acct, side)) \in Int
         /\ T(DealIn(acct)) \in Int
         /\ T(ClosedBy(acct, side)) <= T(Needed(acct, side))
         /\ T(Needed(acct, side)) = T(ClosedBy(acct, side)) + T(Frozen(acct, side))
         /\ T(DealIn(acct)) + T(Opened(acct, "Bid")) + T(ClosedBy(acct, "Ask"))
              = T(Opened(acct, "Ask")) + T(ClosedBy(acct, "Bid"))
<1>1. IsFiniteSet(OrderId)
  BY DEF NoneForgotten
<1>2. \A s : \A id \in OrderId :
        /\ Needed(acct, s)[id] \in Int /\ ClosedBy(acct, s)[id] \in Int
        /\ Frozen(acct, s)[id] \in Int /\ Opened(acct, s)[id] \in Int /\ DealIn(acct)[id] \in Int
        /\ ClosedBy(acct, s)[id] <= Needed(acct, s)[id]
        /\ Needed(acct, s)[id] = ClosedBy(acct, s)[id] + Frozen(acct, s)[id]
  BY SumsTyped
<1>3. \A s : /\ Total(Needed(acct, s), OrderId) \in Int /\ Total(ClosedBy(acct, s), OrderId) \in Int
             /\ Total(Frozen(acct, s), OrderId) \in Int /\ Total(Opened(acct, s), OrderId) \in Int
  BY <1>1, <1>2, TotalInt
<1>4. Total(DealIn(acct), OrderId) \in Int
  BY <1>1, <1>2, TotalInt
<1>5. Total(ClosedBy(acct, side), OrderId) <= Total(Needed(acct, side), OrderId)
  BY <1>1, <1>2, TotalBounds
<1>6. Total(Needed(acct, side), OrderId)
        = Total(ClosedBy(acct, side), OrderId) + Total(Frozen(acct, side), OrderId)
  BY <1>1, <1>2, TotalAdd
<1>7. /\ Total(DealIn(acct), OrderId) + Total(Opened(acct, "Bid"), OrderId)
           + Total(ClosedBy(acct, "Ask"), OrderId)
           = Total(Opened(acct, "Ask"), OrderId) + Total(ClosedBy(acct, "Bid"), OrderId)
  <2> DEFINE d == DealIn(acct)
             ob == Opened(acct, "Bid")
             oa == Opened(acct, "Ask")
             cb == ClosedBy(acct, "Bid")
             ca == ClosedBy(acct, "Ask")
             l == [id \in OrderId |-> d[id] + ob[id]]
             r == [id \in OrderId |-> oa[id] + cb[id]]
  <2>1. \A id \in OrderId : d[id] + ob[id] + ca[id] = oa[id] + cb[id]
    <3> SUFFICES ASSUME NEW id \in OrderId PROVE d[id] + ob[id] + ca[id] = oa[id] + cb[id]
      OBVIOUS
    <3>1. CASE id \notin HeldBy(pre)
      BY <3>1 DEF DealIn, Opened, ClosedBy
    <3>2. CASE id \in HeldBy(pre)
      <4>1. PICK p : p = P(id)
        OBVIOUS
      <4>2. /\ p.side \in {"Bid", "Ask"} /\ p.posDirection \in {"Open", "Close"}
            /\ p.dealSize \in Int /\ HasSignOfSide(p)
        BY <3>2, <4>1, PreIsBehind
      <4>3. /\ d[id] = IF p.acctId = acct THEN p.dealSize ELSE 0
            /\ ob[id] = IF Opens(p, acct, "Bid") THEN Abs(p.dealSize) ELSE 0
            /\ oa[id] = IF Opens(p, acct, "Ask") THEN Abs(p.dealSize) ELSE 0
            /\ cb[id] = IF Closes(p, acct, "Bid") THEN Abs(p.dealSize) ELSE 0
            /\ ca[id] = IF Closes(p, acct, "Ask") THEN Abs(p.dealSize) ELSE 0
        BY <3>2, <4>1 DEF DealIn, Opened, ClosedBy
      <4> HIDE DEF d, ob, oa, cb, ca
      <4>4. CASE p.acctId # acct
        BY <4>3, <4>4 DEF Opens, Closes
      <4>5. CASE p.acctId = acct /\ p.side = "Bid"
        BY <4>2, <4>3, <4>5 DEF Opens, Closes, HasSignOfSide, Abs
      <4>6. CASE p.acctId = acct /\ p.side = "Ask"
        BY <4>2, <4>3, <4>6 DEF Opens, Closes, HasSignOfSide, Abs
      <4> QED BY <4>2, <4>4, <4>5, <4>6
    <3> QED BY <3>1, <3>2
  <2>2. \A id \in OrderId : /\ d[id] \in Int /\ ob[id] \in Int /\ oa[id] \in Int
                            /\ cb[id] \in Int /\ ca[id] \in Int
    BY <1>2
  <2> HIDE DEF d, ob, oa, cb, ca
  <2>3. \A id \in OrderId : /\ l[id] \in Int /\ l[id] = d[id] + ob[id] /\ r[id] = oa[id] + cb[id]
                            /\ r[id] = l[id] + ca[id]
    <3>1. \A id \in OrderId : l[id] = d[id] + ob[id] /\ r[id] = oa[id] + cb[id]
      OBVIOUS
    <3> HIDE DEF l, r
    <3>2. ASSUME NEW id \in OrderId
          PROVE  l[id] \in Int /\ r[id] = l[id] + ca[id]
      <4>1. l[id] = d[id] + ob[id] /\ r[id] = oa[id] + cb[id] /\ d[id] + ob[id] + ca[id] = oa[id] + cb[id]
            /\ d[id] \in Int /\ ob[id] \in Int
        BY <2>1, <2>2, <3>1
      <4> QED BY <4>1
    <3> QED BY <3>1, <3>2
  <2> HIDE DEF l, r
  <2>4. Total(l, OrderId) = Total(d, OrderId) + Total(ob, OrderId)
    BY <1>1, <2>2, <2>3, TotalAdd
  <2>5. Total(r, OrderId) = Total(oa, OrderId) + Total(cb, OrderId)
    BY <1>1, <2>2, <2>3, TotalAdd
  <2>6. Total(r, OrderId) = Total(l, OrderId) + Total(ca, OrderId)
    BY <1>1, <2>2, <2>3, TotalAdd
  <2> QED BY <2>4, <2>5, <2>6 DEF d, ob, oa, cb, ca
<1> QED BY <1>3, <1>4, <1>5, <1>6, <1>7

LEMMA FrozenIs ==
  ASSUME NoneForgotten, Copied, NEW o, NEW acct
  PROVE  getFrozenPos(o, acct) = Total(Frozen(acct, o.side), OrderId)
<1> DEFINE f == [id \in OpenIds(pre) |-> getUndealedSize(pre.open[id])]
           S == {id \in OpenIds(pre) : /\ pre.open[id].acctId = acct
                                       /\ pre.open[id].posDirection = "Close"
                                       /\ pre.open[id].side = o.side}
           e == Frozen(acct, o.side)
<1>1. IsFiniteSet(OrderId) /\ S \subseteq OrderId
  BY KeptForm DEF NoneForgotten, Copied, Kept
<1>2. \A id \in OpenIds(pre) : P(id) = pre.open[id]
  BY DEF P, OrderOf
<1>3. \A id \in S : f[id] \in Int /\ e[id] = f[id]
  <2>1. \A id \in S : e[id] = f[id]
    BY <1>1, <1>2 DEF Frozen, Closes
  <2> QED BY <1>1, <2>1, SumsTyped
<1>4. \A id \in OrderId \ S : e[id] = 0
  BY <1>2 DEF Frozen, Closes
<1> HIDE DEF f, S, e
<1>5. Total(f, S) = Total(e, OrderId)
  BY <1>1, <1>3, <1>4, TotalWhole
<1> QED BY <1>5 DEF getFrozenPos, Summed, Total, f, S, e

\* What OrderPreProc finds enough is there, whatever deals it has not heard of.
LEMMA EnoughIsThere ==
  ASSUME NoneForgotten, Copied, Holds, PreCovered, NEW o, NEW acct \in Acct, Enough(o, acct),
         o.side \in {"Bid", "Ask"}, o.orderSize \in Nat \ {0}
  PROVE  Total(Needed(acct, o.side), OrderId) + o.orderSize
           <= Initial(acct, o.side) + Total(Opened(acct, o.side), OrderId)
<1> DEFINE T(f) == Total(f, OrderId)
           i == InitPos[acct]
           h == hold[acct]
           d == T(DealIn(acct))
           nb == T(Needed(acct, "Bid"))
           na == T(Needed(acct, "Ask"))
           cb == T(ClosedBy(acct, "Bid"))
           ca == T(ClosedBy(acct, "Ask"))
           fb == T(Frozen(acct, "Bid"))
           fa == T(Frozen(acct, "Ask"))
           ob == T(Opened(acct, "Bid"))
           oa == T(Opened(acct, "Ask"))
<1>1. /\ i \in Int /\ h = i + d /\ d \in Int
      /\ nb \in Int /\ na \in Int /\ cb \in Int /\ ca \in Int /\ fb \in Int /\ fa \in Int
      /\ ob \in Int /\ oa \in Int
      /\ cb <= nb /\ ca <= na /\ nb = cb + fb /\ na = ca + fa
      /\ d + ob + ca = oa + cb
  BY Totals, InitPosAssumption DEF Holds
<1>2. /\ nb <= Initial(acct, "Bid") + ob /\ na <= Initial(acct, "Ask") + oa
  BY DEF PreCovered
<1>3. /\ Initial(acct, "Ask") = IF i > 0 THEN i ELSE 0
      /\ Initial(acct, "Bid") = IF i > 0 THEN 0 ELSE 0 - i
  BY <1>1 DEF Initial, Abs
<1>4. getFrozenPos(o, acct) = IF o.side = "Bid" THEN fb ELSE fa
  BY FrozenIs
<1>5. getPosCanBeBorrowed(o, acct) >= o.orderSize
  BY DEF Enough
<1>6. /\ h # 0 /\ ~(h > 0 <=> o.side = "Bid")
      /\ Abs(h) - (IF o.side = "Bid" THEN fb ELSE fa) >= o.orderSize
  <2>1. ~(h = 0 \/ (h > 0 <=> o.side = "Bid"))
    BY <1>5 DEF getPosCanBeBorrowed
  <2> QED BY <1>4, <1>5, <2>1 DEF getPosCanBeBorrowed
<1> HIDE DEF T, i, h, d, nb, na, cb, ca, fb, fa, ob, oa
<1>7. CASE o.side = "Ask"
  <2>1. h > 0 /\ h - fa >= o.orderSize
    BY <1>1, <1>6, <1>7 DEF Abs
  <2>2. na + o.orderSize <= Initial(acct, "Ask") + oa
    BY <1>1, <1>2, <1>3, <2>1
  <2> QED BY <1>7, <2>2 DEF na, oa, T
<1>8. CASE o.side = "Bid"
  <2>1. h < 0 /\ (0 - h) - fb >= o.orderSize
    BY <1>1, <1>6, <1>8 DEF Abs
  <2>2. nb + o.orderSize <= Initial(acct, "Bid") + ob
    BY <1>1, <1>2, <1>3, <2>1
  <2> QED BY <1>8, <2>2 DEF nb, ob, T
<1> QED BY <1>7, <1>8

LEMMA TermsTyped ==
  ASSUME Copied
  PROVE  \A acct, side : \A id \in OrderId :
           Needed(acct, side)[id] \in Int /\ Opened(acct, side)[id] \in Int
BY SumsTyped

LEMMA PreCoveredStep ==
  ASSUME NoneForgotten, ~Joint, Copied, Copied', Holds, PreCovered, [Next]_vars
  PROVE  PreCovered'
<1>1. IsFiniteSet(OrderId)
  BY DEF NoneForgotten
<1>2. /\ \A acct, side : \A id \in OrderId :
           Needed(acct, side)[id] \in Int /\ Opened(acct, side)[id] \in Int
      /\ \A acct, side : \A id \in OrderId :
           Needed(acct, side)'[id] \in Int /\ Opened(acct, side)'[id] \in Int
  <2>1. (\A acct, side : \A id \in OrderId :
           Needed(acct, side)[id] \in Int /\ Opened(acct, side)[id] \in Int)'
    BY TermsTyped, PTL
  <2> QED BY <2>1, TermsTyped
<1> SUFFICES ASSUME NEW acct \in Acct, NEW side \in {"Bid", "Ask"}
             PROVE  Total(Needed(acct, side)', OrderId)
                      <= Initial(acct, side) + Total(Opened(acct, side)', OrderId)
  BY DEF PreCovered, Initial
<1>3. PICK n : n = Needed(acct, side)
  OBVIOUS
<1>4. PICK w : w = Opened(acct, side)
  OBVIOUS
<1>5. PICK n2 : n2 = Needed(acct, side)'
  OBVIOUS
<1>6. PICK w2 : w2 = Opened(acct, side)'
  OBVIOUS
<1>7. /\ \A id \in OrderId : n[id] \in Int /\ w[id] \in Int /\ n2[id] \in Int /\ w2[id] \in Int
      /\ Total(n, OrderId) \in Int /\ Total(w, OrderId) \in Int
      /\ Total(n2, OrderId) \in Int /\ Total(w2, OrderId) \in Int
      /\ Initial(acct, side) \in Int
  <2>1. \A id \in OrderId : n[id] \in Int /\ w[id] \in Int /\ n2[id] \in Int /\ w2[id] \in Int
    BY <1>2, <1>3, <1>4, <1>5, <1>6
  <2>2. Initial(acct, side) \in Int
    BY InitPosAssumption DEF Initial, Abs
  <2> QED BY <1>1, <2>1, <2>2, TotalInt
<1>8. Total(n, OrderId) <= Initial(acct, side) + Total(w, OrderId)
  BY <1>3, <1>4 DEF PreCovered
<1>9. (\A id \in OrderId : n2[id] <= n[id] /\ w[id] <= w2[id])
        => Total(n2, OrderId) <= Initial(acct, side) + Total(w2, OrderId)
  <2> SUFFICES ASSUME \A id \in OrderId : n2[id] <= n[id] /\ w[id] <= w2[id]
               PROVE  Total(n2, OrderId) <= Initial(acct, side) + Total(w2, OrderId)
    OBVIOUS
  <2>1. Total(n2, OrderId) <= Total(n, OrderId) /\ Total(w, OrderId) <= Total(w2, OrderId)
    BY <1>1, <1>7, TotalBounds
  <2> QED BY <1>7, <1>8, <2>1
<1>10. CASE pre' = pre /\ hold' = hold
  <2>1. Needed(acct, side)' = Needed(acct, side) /\ Opened(acct, side)' = Opened(acct, side)
    BY <1>10 DEF Needed, Opened, P
  <2> QED BY <1>3, <1>4, <1>5, <1>6, <1>8, <2>1
<1>11. ASSUME NEW x, NEW o, NEW p, Enters(x, o, p)
       PROVE  Total(n2, OrderId) <= Initial(acct, side) + Total(w2, OrderId)
  <2>1. /\ x \in OrderId \ HeldBy(pre) /\ HeldBy(pre)' = HeldBy(pre) \cup {x} /\ P(x)' = p
        /\ \A y \in HeldBy(pre) : P(y)' = P(y)
        /\ p \in OrderInTDSrv /\ p.orderStatus = Created /\ p.dealSize = 0
        /\ o.side = p.side /\ o.orderSize = p.orderSize
        /\ p.posDirection \in {"Open", "Close"} /\ (p.posDirection = "Close" => Enough(o, p.acctId))
    BY <1>11 DEF Enters
  <2>2. \A id \in OrderId : w2[id] = w[id]
    BY <1>4, <1>6, <2>1 DEF Opened, Abs
  <2>3. \A id \in OrderId \ {x} : n2[id] = n[id]
    BY <1>3, <1>5, <2>1 DEF Needed
  <2>4. n[x] = 0 /\ n2[x] = IF Closes(p, acct, side) THEN p.orderSize ELSE 0
    BY <1>3, <1>5, <2>1 DEF Needed, Need, closed, Created, Filled
  <2>5. CASE ~Closes(p, acct, side)
    <3>1. \A id \in OrderId : n2[id] = n[id]
      BY <2>3, <2>4, <2>5
    <3> QED BY <1>7, <1>9, <2>2, <3>1
  <2>6. CASE Closes(p, acct, side)
    <3>1. o.side = side /\ Enough(o, acct) /\ o.orderSize \in Nat \ {0}
      BY <2>1, <2>6, SizeAssumption DEF Closes, OrderInTDSrv
    <3>2. Total(n, OrderId) + o.orderSize <= Initial(acct, side) + Total(w, OrderId)
      BY <1>3, <1>4, <3>1, EnoughIsThere
    <3>3. Total(n2, OrderId) = Total(n, OrderId) + n2[x] - n[x]
      BY <1>1, <1>7, <2>1, <2>3, TotalChanges
    <3>4. Total(w2, OrderId) = Total(w, OrderId)
      BY <1>1, <2>2, TotalSame
    <3> QED BY <1>7, <2>1, <2>4, <2>6, <3>1, <3>2, <3>3, <3>4
  <2> QED BY <2>5, <2>6
<1>12. ASSUME NEW x, NEW d, Advances(x, d)
       PROVE  Total(n2, OrderId) <= Initial(acct, side) + Total(w2, OrderId)
  <2>1. PICK p : p = P(x)
    OBVIOUS
  <2>2. PICK q : q = P(x)'
    OBVIOUS
  <2>3. /\ x \in HeldBy(pre) /\ HeldBy(pre)' = HeldBy(pre)
        /\ \A y \in HeldBy(pre) : y # x => P(y)' = P(y)
        /\ Terms(q) = Terms(p) /\ ~closed(p) /\ q \in OrderInTDSrv
        /\ Abs(p.dealSize) <= Abs(q.dealSize) /\ Abs(q.dealSize) <= p.orderSize
    BY <1>12, <2>1, <2>2 DEF Advances
  <2>4. /\ Closes(q, acct, side) <=> Closes(p, acct, side)
        /\ Opens(q, acct, side) <=> Opens(p, acct, side)
        /\ q.orderSize = p.orderSize
    BY <2>3 DEF Closes, Opens, Terms
  <2>5. p.orderSize \in Nat /\ Need(q) <= Need(p)
    BY <2>1, <2>3, <2>4, PreIsBehind DEF Need
  <2>6. \A id \in OrderId \ {x} : n2[id] = n[id] /\ w2[id] = w[id]
    BY <1>3, <1>4, <1>5, <1>6, <2>3 DEF Needed, Opened
  <2>7. x \in OrderId => n2[x] <= n[x] /\ w[x] <= w2[x]
    BY <1>3, <1>4, <1>5, <1>6, <2>1, <2>2, <2>3, <2>4, <2>5 DEF Needed, Opened
  <2>8. \A id \in OrderId : n2[id] <= n[id] /\ w[id] <= w2[id]
    BY <1>7, <2>6, <2>7
  <2> QED BY <1>9, <2>8
<1>13. Total(n2, OrderId) <= Initial(acct, side) + Total(w2, OrderId)
  BY <1>10, <1>11, <1>12, <1>3, <1>4, <1>5, <1>6, PreChanges
<1> QED BY <1>5, <1>6, <1>13

-----------------------------------------------------------------------------
\* The same at the gateways.
NeededAtGW(acct, side) ==
  [id \in OrderId |-> IF Known(gw[id]) /\ Closes(gw[id], acct, side) /\ ~closed(gw[id])
                      THEN getUndealedSize(gw[id]) ELSE 0]
ClosedAtGW(acct, side) ==
  [id \in OrderId |-> IF Known(gw[id]) /\ Closes(gw[id], acct, side) THEN Abs(gw[id].dealSize) ELSE 0]
OpenedAtGW(acct, side) ==
  [id \in OrderId |-> IF Known(gw[id]) /\ Opens(gw[id], acct, side) THEN Abs(gw[id].dealSize) ELSE 0]

LEMMA GWBehind ==
  ASSUME Copied, NEW acct, NEW side, NEW id \in OrderId
  PROVE  /\ NeededAtGW(acct, side)[id] \in Int /\ ClosedAtGW(acct, side)[id] \in Int
         /\ OpenedAtGW(acct, side)[id] \in Int
         /\ NeededAtGW(acct, side)[id] + ClosedAtGW(acct, side)[id] <= Needed(acct, side)[id]
         /\ Opened(acct, side)[id] <= OpenedAtGW(acct, side)[id]
<1>0. Needed(acct, side)[id] \in Nat
  BY SumsTyped
<1>1. CASE ~Known(gw[id])
  <2>1. NeededAtGW(acct, side)[id] = 0 /\ ClosedAtGW(acct, side)[id] = 0 /\ OpenedAtGW(acct, side)[id] = 0
    BY <1>1 DEF NeededAtGW, ClosedAtGW, OpenedAtGW
  <2>2. Opened(acct, side)[id] = 0
    BY <1>1, PreIsBehind DEF Opened, Abs
  <2> QED BY <1>0, <2>1, <2>2
<1>2. CASE Known(gw[id])
  <2>1. id \in HeldBy(pre)
    BY <1>2 DEF Copied, Follows, AtGateway
  <2>2. PICK p : p = P(id)
    OBVIOUS
  <2>3. PICK g : g = gw[id]
    OBVIOUS
  <2>4. /\ p.dealSize \in Int /\ g.dealSize \in Int /\ g.orderSize \in Nat /\ Terms(g) = Terms(p)
        /\ g.side \in {"Bid", "Ask"} /\ HasSignOfSide(g) /\ Abs(g.dealSize) <= g.orderSize
        /\ Abs(p.dealSize) <= Abs(g.dealSize) /\ Need(g) <= Need(p)
    <3>1. /\ p.orderSize \in Nat /\ p.side \in {"Bid", "Ask"} /\ Terms(g) = Terms(p)
          /\ p.dealSize \in Int /\ g.dealSize \in Int
          /\ HasSignOfSide(g) /\ Abs(g.dealSize) <= g.orderSize
          /\ Abs(p.dealSize) <= Abs(g.dealSize) /\ Need(g) <= Need(p)
      BY <1>2, <2>1, <2>2, <2>3, PreIsBehind
    <3> QED BY <3>1 DEF Terms
  <2>5. /\ Closes(g, acct, side) <=> Closes(p, acct, side)
        /\ Opens(g, acct, side) <=> Opens(p, acct, side)
    BY <2>4 DEF Closes, Opens, Terms
  <2>6. /\ Abs(g.dealSize) \in Nat /\ Abs(p.dealSize) \in Nat
        /\ getUndealedSize(g) = g.orderSize - Abs(g.dealSize)
    BY <2>4 DEF HasSignOfSide, Abs, getUndealedSize
  <2>7. /\ (IF closed(g) THEN 0 ELSE getUndealedSize(g)) + Abs(g.dealSize) = Need(g)
        /\ Need(g) \in Int
    BY <2>4, <2>6 DEF Need
  <2>8. /\ NeededAtGW(acct, side)[id] = IF Closes(g, acct, side) /\ ~closed(g)
                                        THEN getUndealedSize(g) ELSE 0
        /\ ClosedAtGW(acct, side)[id] = IF Closes(g, acct, side) THEN Abs(g.dealSize) ELSE 0
        /\ OpenedAtGW(acct, side)[id] = IF Opens(g, acct, side) THEN Abs(g.dealSize) ELSE 0
        /\ Needed(acct, side)[id] = IF Closes(p, acct, side) THEN Need(p) ELSE 0
        /\ Opened(acct, side)[id] = IF Opens(p, acct, side) THEN Abs(p.dealSize) ELSE 0
    BY <1>2, <2>1, <2>2, <2>3 DEF NeededAtGW, ClosedAtGW, OpenedAtGW, Needed, Opened
  <2> QED BY <2>4, <2>5, <2>6, <2>7, <2>8
<1> QED BY <1>1, <1>2

LEMMA PreCovers ==
  ASSUME NoneForgotten, Copied, PreCovered
  PROVE  NeverOverborrowed
<1> SUFFICES ASSUME NEW acct \in Acct, NEW side \in Side
             PROVE  Summed([id \in AtGW |-> getUndealedSize(gw[id])],
                           {id \in AtGW : /\ gw[id].acctId = acct /\ gw[id].side = side
                                          /\ gw[id].posDirection = "Close" /\ ~closed(gw[id])})
                      <= ClosablePos(acct, side)
  BY DEF NeverOverborrowed
<1> DEFINE f == [id \in AtGW |-> getUndealedSize(gw[id])]
           dealt == [id \in AtGW |-> Abs(gw[id].dealSize)]
           asked == {id \in AtGW : /\ gw[id].acctId = acct /\ gw[id].side = side
                                   /\ gw[id].posDirection = "Close" /\ ~closed(gw[id])}
           opened == {id \in AtGW : /\ gw[id].acctId = acct /\ gw[id].side # side
                                    /\ gw[id].posDirection = "Open"}
           closing == {id \in AtGW : /\ gw[id].acctId = acct /\ gw[id].side = side
                                     /\ gw[id].posDirection = "Close"}
           n == NeededAtGW(acct, side)
           c == ClosedAtGW(acct, side)
           w == OpenedAtGW(acct, side)
<1>1. IsFiniteSet(OrderId) /\ AtGW \subseteq OrderId
  BY DEF NoneForgotten, AtGW
<1>2. \A id \in OrderId : /\ n[id] \in Int /\ c[id] \in Int /\ w[id] \in Int
                          /\ n[id] + c[id] <= Needed(acct, side)[id]
                          /\ Opened(acct, side)[id] <= w[id]
                          /\ Needed(acct, side)[id] \in Int /\ Opened(acct, side)[id] \in Int
  BY GWBehind, SumsTyped
<1>3. Total(f, asked) = Total(n, OrderId)
  <2>1. \A id \in asked : n[id] = f[id]
    BY DEF NeededAtGW, Closes, AtGW
  <2>2. \A id \in OrderId \ asked : n[id] = 0
    BY DEF NeededAtGW, Closes, AtGW
  <2>3. asked \subseteq OrderId
    BY <1>1
  <2> HIDE DEF f, asked, n
  <2> QED BY <1>1, <1>2, <2>1, <2>2, <2>3, TotalWhole
<1>4. Total(dealt, opened) = Total(w, OrderId)
  <2>1. \A id \in opened : w[id] = dealt[id]
    BY DEF OpenedAtGW, Opens, AtGW
  <2>2. \A id \in OrderId \ opened : w[id] = 0
    BY DEF OpenedAtGW, Opens, AtGW
  <2>3. opened \subseteq OrderId
    BY <1>1
  <2> HIDE DEF dealt, opened, w
  <2> QED BY <1>1, <1>2, <2>1, <2>2, <2>3, TotalWhole
<1>5. Total(dealt, closing) = Total(c, OrderId)
  <2>1. \A id \in closing : c[id] = dealt[id]
    BY DEF ClosedAtGW, Closes, AtGW
  <2>2. \A id \in OrderId \ closing : c[id] = 0
    BY DEF ClosedAtGW, Closes, AtGW
  <2>3. closing \subseteq OrderId
    BY <1>1
  <2> HIDE DEF dealt, closing, c
  <2> QED BY <1>1, <1>2, <2>1, <2>2, <2>3, TotalWhole
<1>6. ClosablePos(acct, side) = Initial(acct, side) + Total(dealt, opened) - Total(dealt, closing)
  BY DEF ClosablePos, Initial, Summed, Total
<1>7. Summed(f, asked) = Total(f, asked)
  BY DEF Summed, Total
<1> HIDE DEF f, dealt, asked, opened, closing, n, c, w
<1> DEFINE s == [id \in OrderId |-> n[id] + c[id]]
<1>8. \A id \in OrderId : s[id] = n[id] + c[id]
  OBVIOUS
<1> HIDE DEF s
<1>9. Total(s, OrderId) = Total(n, OrderId) + Total(c, OrderId)
  BY <1>1, <1>2, <1>8, TotalAdd
<1>10. Total(s, OrderId) <= Total(Needed(acct, side), OrderId)
  BY <1>1, <1>2, <1>8, TotalBounds
<1>11. Total(Opened(acct, side), OrderId) <= Total(w, OrderId)
  BY <1>1, <1>2, TotalBounds
<1>12. Total(Needed(acct, side), OrderId) <= Initial(acct, side) + Total(Opened(acct, side), OrderId)
  BY TDSrvAssumption DEF PreCovered
<1>13. /\ Total(n, OrderId) \in Int /\ Total(c, OrderId) \in Int /\ Total(w, OrderId) \in Int
       /\ Total(Needed(acct, side), OrderId) \in Int /\ Total(Opened(acct, side), OrderId) \in Int
  BY <1>1, <1>2, TotalInt
<1>14. Initial(acct, side) \in Int
  BY InitPosAssumption DEF Initial, Abs
<1>15. Total(f, asked) <= ClosablePos(acct, side)
  BY <1>3, <1>4, <1>5, <1>6, <1>9, <1>10, <1>11, <1>12, <1>13, <1>14
<1> QED BY <1>7, <1>15 DEF f, asked

\* The live orders that close a position never ask for more than the account
\* has at the exchange.
THEOREM Covered == ASSUME NoneForgotten, ~Joint PROVE Spec => []NeverOverborrowed
<1>1. Init => Holds /\ PreCovered
  <2>1. ASSUME Init PROVE HeldBy(pre) = {}
    BY <2>1, KeepsNone DEF Init
  <2>2. ASSUME NEW f, \A id \in OrderId : f[id] = 0 PROVE Total(f, OrderId) = 0
    <3>1. Total(f, {}) = Total(f, OrderId)
      BY <2>2, TotalWhole DEF NoneForgotten
    <3> QED BY <3>1, TotalEmpty
  <2>3. Init => Holds
    BY <2>1, <2>2, InitPosAssumption DEF Holds, DealIn, Init
  <2>4. ASSUME Init, NEW acct \in Acct, NEW side
        PROVE  /\ Total(Needed(acct, side), OrderId) = 0 /\ Total(Opened(acct, side), OrderId) = 0
               /\ Initial(acct, side) \in Nat
    <3>1. \A id \in OrderId : Needed(acct, side)[id] = 0 /\ Opened(acct, side)[id] = 0
      BY <2>1, <2>4 DEF Needed, Opened
    <3>2. Initial(acct, side) \in Nat
      BY InitPosAssumption DEF Initial, Abs
    <3> QED BY <2>2, <3>1, <3>2
  <2> QED BY <2>3, <2>4 DEF PreCovered
<1>2. Copied /\ Holds /\ PreCovered /\ [Next]_vars => Copied' /\ Holds' /\ PreCovered'
  BY CopiedStep, HoldsStep, PreCoveredStep
<1>3. Copied /\ PreCovered => NeverOverborrowed
  BY PreCovers
<1> QED BY <1>1, <1>2, <1>3, CopiedInit, PTL DEF Spec

-----------------------------------------------------------------------------
\* At any time, with whatever on its way: nobody has learnt of more of an order than the
\* trade server's neighbour towards the gateway, and who takes it for closed has all of it.
DealsWithin(a, b) == Abs(a.dealSize) <= Abs(b.dealSize)
LearnInTurn ==
  \A id \in OrderId : Known(gw[id]) =>
    /\ Agree(stg[id], M(id)) /\ DealsWithin(M(id), P(id)) /\ DealsWithin(P(id), gw[id])
    /\ closed(P(id)) => Agree(P(id), gw[id])
    /\ closed(M(id)) => Agree(M(id), gw[id])

\* The strategy engine and the modules learn of an order in turn: the strategy engine knows
\* what the first module knows, which is behind OrderPreProc, which is behind the gateway;
\* one that takes an order for closed knows all its deals (OrderPreProc, RiskCtrlModule).
THEOREM LearnedInTurn == ASSUME NoneForgotten PROVE Spec => []LearnInTurn
<1>1. Copied => LearnInTurn
  <2> SUFFICES ASSUME Copied, NEW id \in OrderId, Known(gw[id])
               PROVE  /\ Agree(stg[id], M(id)) /\ DealsWithin(M(id), P(id)) /\ DealsWithin(P(id), gw[id])
                      /\ closed(P(id)) => Agree(P(id), gw[id])
                      /\ closed(M(id)) => Agree(M(id), gw[id])
    BY DEF LearnInTurn
  <2>1. PICK g : g = gw[id]
    OBVIOUS
  <2>2. PICK p : p = P(id)
    OBVIOUS
  <2>3. PICK m : m = M(id)
    OBVIOUS
  <2>4. g \in OrderInTDSrv /\ preQueue \in Seq(Message) /\ modQueue[1] \in Seq(Message)
    BY <2>1, FirstModule DEF Copied, Typed, GwOK, QueuesOK, Carries, Copies, Known
  <2>5. /\ Terms(g) = Terms(p) /\ Traded(g)
        /\ Said(preQueue, "ret", id, Terms(p)) /\ Said(modQueue[1], "ret", id, Terms(p))
        /\ Chain(preQueue, id, View(p), Seen(g)) /\ Chain(modQueue[1], id, View(m), View(p))
        /\ View(stg[id]) = View(m) /\ id \in HeldBy(pre) /\ id \in HeldBy(mod[1])
    BY <2>1, <2>2, <2>3 DEF Copied, Follows, AtGateway
  <2>6. p \in OrderInTDSrv /\ m \in OrderInTDSrv
    BY <2>2, <2>3, <2>5, Held DEF Copied, Kept, P, M
  <2>7. g.dealSize \in Int /\ p.dealSize \in Int /\ m.dealSize \in Int
    BY <2>4, <2>6 DEF OrderInTDSrv
  <2>8. Terms(p)[2] = g.side
    BY <2>5 DEF Terms
  <2>9. /\ IF g.side = "Bid" THEN g.dealSize >= 0 ELSE g.dealSize <= 0
        /\ g.orderStatus = Pending => g.dealSize = 0
    BY <2>5 DEF Traded
  <2>10. Seen(g)[2] = g.dealSize /\ (Seen(g)[1] >= Filled => Seen(g) = View(g))
    BY <2>9 DEF Seen, Fresh, View, Created, Filled
  <2>11. Within(g.side, Seen(g), Seen(g))
    BY <2>7, <2>9, <2>10 DEF Within
  <2>12. Within(g.side, View(p), Seen(g)) /\ (View(p)[1] >= Filled => View(p) = Seen(g))
    BY <2>4, <2>5, <2>8, <2>11, ChainGrows
  <2>13. Within(g.side, View(p), View(p))
    BY <2>7, <2>12 DEF Within, View
  <2>14. Within(g.side, View(m), View(p)) /\ (View(m)[1] >= Filled => View(m) = View(p))
    BY <2>4, <2>5, <2>8, <2>13, ChainGrows
  <2>15. /\ View(p)[1] = p.orderStatus /\ View(p)[2] = p.dealSize
         /\ View(m)[1] = m.orderStatus /\ View(m)[2] = m.dealSize
    BY DEF View
  <2>16. DealsWithin(m, p) /\ DealsWithin(p, g)
    BY <2>7, <2>10, <2>12, <2>14, <2>15 DEF Within, DealsWithin, Abs
  <2>17. (closed(p) => View(p) = View(g)) /\ (closed(m) => View(m) = View(g))
    BY <2>10, <2>12, <2>14, <2>15 DEF closed
  <2>18. Agree(stg[id], m) /\ (closed(p) => Agree(p, g)) /\ (closed(m) => Agree(m, g))
    BY <2>5, <2>17 DEF View, Agree
  <2> QED BY <2>1, <2>2, <2>3, <2>16, <2>18
<1> QED BY <1>1, CopiedInit, CopiedStep, PTL DEF Spec
=============================================================================
