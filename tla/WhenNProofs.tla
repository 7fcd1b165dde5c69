----------------------------- MODULE WhenNProofs -----------------------------
(***************************************************************************)
(* Theorems about WhenN, for any number of futures and any values: whenN   *)
(* neither loses a future nor counts one twice while its vectors swap, and *)
(* what the caller gets is complete, sorted and satisfies the condition.   *)
(***************************************************************************)
EXTENDS WhenN, FiniteSetTheorems, SequenceTheorems, WellFoundedInduction, TLAPS

Less == OpToRel(<, Nat)

\* Membership in the relation of the theorems on well-founded relations.
LEMMA LessDef == \A x, y \in Nat : <<x, y>> \in Less <=> x < y
  BY DEF OpToRel, Less

\* Induction over sets of numbers, as the search for the lowest.
LEMMA NatHasLowest ==
    ASSUME NEW S, S \subseteq Nat, S # {}
    PROVE \E x \in S : \A y \in S : x <= y
<1>1. IsWellFoundedOn(Less, Nat)
  BY NatLessThanWellFounded DEF Less
<1>2. PICK x \in S : \A y \in S : ~(<<y, x>> \in Less)
  BY <1>1, WFMin
<1>3. ASSUME NEW y \in S PROVE x <= y
  <2>1. x \in Nat /\ y \in Nat
    OBVIOUS
  <2>2. ~(y < x)
    BY <1>2, <2>1, LessDef
  <2> QED
    BY <2>1, <2>2
<1> QED
  BY <1>3

-----------------------------------------------------------------------------
(* Sorting                                                                 *)

\* A function on 1 .. c is a sequence of that length.
LEMMA FunctionIsSeq ==
    ASSUME NEW X, NEW c \in Nat, NEW f \in [1 .. c -> X]
    PROVE f \in Seq(X) /\ Len(f) = c /\ DOMAIN f = 1 .. c
  OBVIOUS

Descends(f, S, c) ==
    /\ f \in [1 .. c -> S]
    /\ \A x \in S : \E k \in 1 .. c : f[k] = x
    /\ \A k, l \in 1 .. c : k < l => f[k] > f[l]

\* Every finite set of numbers can be put in descending order: the lowest is the
\* last, behind the others in descending order.
LEMMA DescendingExists ==
    ASSUME NEW S, S \subseteq Nat, IsFiniteSet(S)
    PROVE \E f : Descends(f, S, Cardinality(S))
<1> DEFINE Finite == {T \in SUBSET Nat : IsFiniteSet(T)}
           Bad(T) == ~ \E f : Descends(f, T, Cardinality(T))
           Sizes == {c \in Nat : \E T \in Finite : Cardinality(T) = c /\ Bad(T)}
<1>1. SUFFICES ASSUME Sizes # {} PROVE FALSE
  <2>1. S \in Finite /\ Cardinality(S) \in Nat
    BY FS_CardinalityType
  <2> QED
    BY <2>1
<1>2. PICK c \in Sizes : \A d \in Sizes : c <= d
  <2>1. Sizes \subseteq Nat
    OBVIOUS
  <2> QED
    BY <1>1, <2>1, NatHasLowest
<1>3. c \in Nat
  OBVIOUS
<1>4. PICK T \in Finite : Cardinality(T) = c /\ Bad(T)
  OBVIOUS
<1>5. T # {}
  <2> SUFFICES ASSUME T = {} PROVE FALSE
    OBVIOUS
  <2>1. Cardinality(T) = 0
    BY FS_EmptySet
  <2>2. Descends(<<>>, T, 0)
    BY DEF Descends
  <2> QED
    BY <1>4, <2>1, <2>2
<1>6. PICK m \in T : \A y \in T : m <= y
  BY <1>5, NatHasLowest
<1> DEFINE U == T \ {m}
<1>7. /\ U \in Finite /\ Cardinality(U) = c - 1 /\ c - 1 \in Nat
      /\ \A y \in U : y > m /\ y \in Nat
  <2>1. IsFiniteSet(U) /\ Cardinality(U) = c - 1
    BY <1>4, FS_RemoveElement
  <2>2. Cardinality(U) \in Nat
    BY <2>1, FS_CardinalityType
  <2>3. \A y \in U : y > m /\ y \in Nat
    BY <1>6
  <2> QED
    BY <2>1, <2>2, <2>3
<1>8. PICK g : Descends(g, U, c - 1)
  <2>1. ~Bad(U)
    <3>1. c - 1 \notin Sizes
      BY <1>2, <1>3, <1>7
    <3> HIDE DEF Bad
    <3> QED
      BY <3>1, <1>7
  <2> QED
    BY <2>1, <1>7
<1> HIDE DEF U
<1> DEFINE f == [k \in 1 .. c |-> IF k < c THEN g[k] ELSE m]
<1>9. \A k \in 1 .. c : k < c => k \in 1 .. c - 1 /\ g[k] \in U
  BY <1>3, <1>7, <1>8 DEF Descends
<1>10. f \in [1 .. c -> T]
  BY <1>6, <1>9 DEF U
<1>11. ASSUME NEW x \in T PROVE \E k \in 1 .. c : f[k] = x
  <2>1. CASE x = m
    BY <2>1, <1>3, <1>7
  <2>2. CASE x # m
    <3>1. PICK k \in 1 .. c - 1 : g[k] = x
      BY <2>2, <1>8 DEF Descends, U
    <3>2. k \in 1 .. c /\ k < c
      BY <1>3
    <3> QED
      BY <3>1, <3>2
  <2> QED
    BY <2>1, <2>2
<1>12. ASSUME NEW k \in 1 .. c, NEW l \in 1 .. c, k < l PROVE f[k] > f[l]
  <2>1. k < c /\ k \in 1 .. c - 1 /\ f[k] = g[k] /\ g[k] \in U
    BY <1>3, <1>9, <1>12
  <2>2. CASE l < c
    BY <2>1, <2>2, <1>8, <1>9, <1>12 DEF Descends
  <2>3. CASE l = c
    <3>1. f[l] = m
      BY <1>3, <2>3
    <3>2. g[k] > m
      BY <2>1, <1>7
    <3> HIDE DEF f
    <3> QED
      BY <2>1, <3>1, <3>2
  <2>4. l < c \/ l = c
    BY <1>3
  <2> QED
    BY <2>2, <2>3, <2>4
<1>13. Descends(f, T, c)
  BY <1>10, <1>11, <1>12 DEF Descends
<1> QED
  BY <1>4, <1>13

\* There are c numbers up to c.
LEMMA Counting ==
    ASSUME NEW c \in Nat
    PROVE IsFiniteSet(1 .. c) /\ Cardinality(1 .. c) = c
  BY FS_Interval

\* The order in which whenN looks at positions holds each of them.
LEMMA DescendingOK ==
    ASSUME NEW K, K \subseteq Nat, IsFiniteSet(K)
    PROVE /\ Descending(K) \in [1 .. Cardinality(K) -> K]
          /\ \A x \in K : \E k \in 1 .. Cardinality(K) : Descending(K)[k] = x
          /\ \A k, l \in 1 .. Cardinality(K) : k # l => Descending(K)[k] # Descending(K)[l]
<1> DEFINE c == Cardinality(K)
           Ordered(f) == \A k, l \in 1 .. c : k < l => f[k] > f[l]
<1>1. c \in Nat
  BY FS_CardinalityType
<1>2. \E f \in [1 .. c -> K] : Ordered(f)
  BY DescendingExists DEF Descends
<1>3. Descending(K) \in [1 .. c -> K] /\ Ordered(Descending(K))
  BY <1>2 DEF Descending
<1> DEFINE f == Descending(K)
<1>4. ASSUME NEW k \in 1 .. c, NEW l \in 1 .. c, k # l PROVE f[k] # f[l]
  <2>1. k < l \/ l < k
    BY <1>1, <1>4
  <2>2. f[k] \in Nat /\ f[l] \in Nat
    BY <1>3
  <2> QED
    BY <1>3, <2>1, <2>2
<1> HIDE DEF f
<1>5. f \in Surjection(1 .. c, K)
  <2>1. f \in Injection(1 .. c, K)
    <3>1. IsInjective(f)
      BY <1>3, <1>4 DEF IsInjective, f
    <3> QED
      BY <1>3, <3>1 DEF Injection, f
  <2>2. IsFiniteSet(1 .. c) /\ Cardinality(1 .. c) = c
    BY <1>1, Counting
  <2> QED
    BY <2>1, <2>2, FS_Injection DEF f
<1> QED
  BY <1>3, <1>4, <1>5 DEF Surjection, f

\* The results, indexed by places that are in order, are in order.
DistinctIndexes(s) == \A k, l \in DOMAIN s : s[k][1] = s[l][1] => k = l
InOrder(s) == \A k, l \in DOMAIN s : k < l => s[k][1] < s[l][1]

\* Results with different indexes can be sorted, and what is sorted is in order.
LEMMA SortedOK ==
    ASSUME NEW E, \A e \in E : e[1] \in Nat, NEW s \in Seq(E), DistinctIndexes(s)
    PROVE Sorted(s) \in Seq(E) /\ Len(Sorted(s)) = Len(s) /\ InOrder(Sorted(s))
<1> DEFINE m == Len(s)
           S == {s[k][1] : k \in 1 .. m}
           index == [k \in 1 .. m |-> s[k][1]]
<1>1. m \in Nat /\ DOMAIN s = 1 .. m /\ s \in [1 .. m -> E]
  BY LenProperties
<1>2. \A k \in 1 .. m : s[k][1] \in Nat
  BY <1>1
<1>3. S \subseteq Nat
  BY <1>2
<1>4. IsFiniteSet(S) /\ Cardinality(S) = m
  <2>1. index \in Surjection(1 .. m, S)
    BY DEF Surjection
  <2>2. index \in Injection(1 .. m, S)
    BY <1>1 DEF Injection, IsInjective, DistinctIndexes
  <2>3. IsFiniteSet(1 .. m) /\ Cardinality(1 .. m) = m
    BY <1>1, Counting
  <2> HIDE DEF index
  <2>4. IsFiniteSet(S)
    BY <2>1, <2>3, FS_Surjection
  <2>5. ExistsBijection(1 .. m, S)
    BY <2>1, <2>2 DEF ExistsBijection, Bijection
  <2> QED
    BY <1>1, <2>4, <2>5, FS_CountingElements
<1> HIDE DEF S
<1>5. PICK f : Descends(f, S, m)
  BY <1>3, <1>4, DescendingExists
<1>6. ASSUME NEW k \in 1 .. m PROVE m + 1 - k \in 1 .. m
  BY <1>1
<1>7. ASSUME NEW k \in 1 .. m PROVE \E j \in 1 .. m : s[j][1] = f[m + 1 - k]
  <2>1. f[m + 1 - k] \in S
    BY <1>5, <1>6 DEF Descends
  <2> QED
    BY <2>1 DEF S
<1> DEFINE p == [k \in 1 .. m |-> CHOOSE j \in 1 .. m : s[j][1] = f[m + 1 - k]]
<1>8. p \in [1 .. m -> 1 .. m] /\ \A k \in 1 .. m : s[p[k]][1] = f[m + 1 - k]
  BY <1>7
<1> HIDE DEF p
<1>9. ASSUME NEW k \in 1 .. m, NEW l \in 1 .. m, k < l PROVE s[p[k]][1] < s[p[l]][1]
  <2>1. m + 1 - l < m + 1 - k
    BY <1>1, <1>9
  <2>2. f[m + 1 - l] > f[m + 1 - k]
    BY <2>1, <1>5, <1>6 DEF Descends
  <2>3. s[p[k]][1] \in Nat /\ s[p[l]][1] \in Nat
    BY <1>2, <1>8
  <2> QED
    BY <1>8, <2>2, <2>3
<1> DEFINE Places(q) == \A k, l \in DOMAIN s : k < l => s[q[k]][1] < s[q[l]][1]
           places == CHOOSE q \in [DOMAIN s -> DOMAIN s] : Places(q)
<1>10. \E q \in [DOMAIN s -> DOMAIN s] : Places(q)
  BY <1>1, <1>8, <1>9
<1>11. places \in [DOMAIN s -> DOMAIN s] /\ Places(places)
  BY <1>10
<1>12. Sorted(s) = [k \in 1 .. m |-> s[places[k]]]
  BY <1>1 DEF Sorted
<1> HIDE DEF places
<1>13. \A k \in 1 .. m : s[places[k]] \in E
  BY <1>1, <1>11
<1>14. Sorted(s) \in [1 .. m -> E]
  BY <1>12, <1>13
<1>15. Sorted(s) \in Seq(E) /\ Len(Sorted(s)) = m /\ DOMAIN Sorted(s) = 1 .. m
  <2> HIDE DEF m
  <2> QED
    BY <1>1, <1>14, FunctionIsSeq
<1>16. InOrder(Sorted(s))
  BY <1>1, <1>11, <1>12, <1>15 DEF InOrder
<1> QED
  BY <1>15, <1>16

\* Taking the queries at some positions from the back takes just those, once each.
LEMMA FromBackOK ==
    ASSUME queries \in Seq(Sources), IsInjective(queries),
           NEW K, K \subseteq DOMAIN queries
    PROVE /\ IsFiniteSet(K)
          /\ FromBack(K) \in Seq(Sources) /\ Len(FromBack(K)) = Cardinality(K)
          /\ IsInjective(FromBack(K))
          /\ \A k \in DOMAIN FromBack(K) : \E q \in K : FromBack(K)[k] = queries[q]
          /\ \A q \in K : \E k \in DOMAIN FromBack(K) : FromBack(K)[k] = queries[q]
<1> DEFINE c == Cardinality(K)
           d == Descending(K)
           back == [k \in 1 .. c |-> queries[d[k]]]
<1>1. /\ Len(queries) \in Nat /\ DOMAIN queries = 1 .. Len(queries)
      /\ \A k \in DOMAIN queries : queries[k] \in Sources
  BY LenProperties
<1>2. IsFiniteSet(DOMAIN queries) /\ DOMAIN queries \subseteq Nat
  BY <1>1, FS_Interval
<1>3. IsFiniteSet(K) /\ K \subseteq Nat
  BY <1>2, FS_Subset
<1>4. c \in Nat
  BY <1>3, FS_CardinalityType
<1>5. /\ d \in [1 .. c -> K]
      /\ \A x \in K : \E k \in 1 .. c : d[k] = x
      /\ \A k, l \in 1 .. c : k # l => d[k] # d[l]
  BY <1>3, DescendingOK
<1> HIDE DEF c, d
<1>6. back \in [1 .. c -> Sources]
  BY <1>1, <1>5
<1>7. back \in Seq(Sources) /\ Len(back) = c /\ DOMAIN back = 1 .. c
  <2> HIDE DEF back
  <2> QED
    BY <1>4, <1>6, FunctionIsSeq
<1>8. IsInjective(back)
  BY <1>5, <1>7 DEF IsInjective
<1>9. \A k \in 1 .. c : \E q \in K : back[k] = queries[q]
  BY <1>5
<1>10. ASSUME NEW q \in K PROVE \E k \in 1 .. c : back[k] = queries[q]
  <2>1. PICK k \in 1 .. c : d[k] = q
    BY <1>5
  <2> QED
    BY <2>1
<1>11. FromBack(K) = back
  BY DEF FromBack, c, d
<1> HIDE DEF back
<1> QED
  BY <1>3, <1>7, <1>8, <1>9, <1>10, <1>11 DEF c

-----------------------------------------------------------------------------
(* The inductive invariant                                                 *)

States == {"NEW", "READY", "POSTED", "DONE", "CANCEL", "DEAD"}

Kept == Values \cup {Moved}

\* A result: a moved value is of a future whose continuation was posted.
Had == {e \in Sources \X Kept : e[2] = Moved => posted[e[1]] # "none"}
Counted == {e \in Had : e[2] \in Satisfying}

WhenType ==
    /\ state \in [Sources -> States]
    /\ value \in [Sources -> Kept \cup {Default}]
    /\ posted \in [Sources -> Requests]
    /\ kind \in {"all", "n", "any"} /\ n \in 0 .. N
    /\ kind = "any" => n = 1
    /\ kind = "all" => n = N
    /\ pc \in {"poll", "then", "first", "done"}
    /\ queries \in Seq(Sources)
    /\ results \in Seq(Had)

\* A source that counts has a value, which its continuation or a get() may have
\* moved if the continuation was posted; DONE comes only of such a request.
ValuesSet ==
    \A i \in Sources :
        /\ state[i] = "READY" => value[i] \in Values
        /\ state[i] \in {"POSTED", "DONE"} => posted[i] # "none"
        /\ posted[i] # "none" => value[i] \in Kept /\ state[i] \notin {"NEW", "READY"}

\* whenAll has nothing before the turn that copies all.
AllInOrder ==
    kind = "all" =>
        /\ pc # "first"
        /\ pc # "poll" => Len(results) = N /\ InOrder(results)

\* What whenN has collected: different futures, and values that satisfy.
Collects ==
    kind # "all" =>
        /\ DistinctIndexes(results)
        /\ \A k \in DOMAIN results : results[k][2] \in Satisfying
        /\ pc # "poll" => Len(results) = n
        /\ pc \in {"first", "done"} => InOrder(results)
        /\ pc = "first" => kind = "any"

\* While it polls, the futures are divided between the two vectors.
Divided ==
    (kind # "all" /\ pc = "poll") =>
        /\ IsInjective(queries)
        /\ \A k \in DOMAIN queries, l \in DOMAIN results : queries[k] # results[l][1]
        /\ \A i \in Sources : \/ \E k \in DOMAIN queries : queries[k] = i
                              \/ \E l \in DOMAIN results : results[l][1] = i
        /\ Len(queries) + Len(results) = N

WhenInvariant == WhenType /\ ValuesSet /\ AllInOrder /\ Collects /\ Divided

\* What a turn copies of a source that counts may be a result.
LEMMA AnswerHad ==
    ASSUME WhenInvariant, WhenAssumption, NEW i \in Sources, HasValue(i)
    PROVE /\ <<i, value[i]>> \in Had
          /\ Answered(i) => <<i, value[i]>> \in Counted
<1>1. value[i] \in Kept /\ (value[i] = Moved => posted[i] # "none")
  BY DEF WhenInvariant, ValuesSet, HasValue, WhenAssumption, Kept
<1> DEFINE e == <<i, value[i]>>
<1>2. e \in Sources \X Kept /\ e[1] = i /\ e[2] = value[i]
  BY <1>1
<1>3. e \in Had
  BY <1>1, <1>2 DEF Had
<1> QED
  BY <1>2, <1>3 DEF Counted, Answered

\* The queries that are left and the responses divide what was asked.
LEMMA TurnOK ==
    ASSUME WhenInvariant, WhenAssumption, kind # "all", pc = "poll"
    PROVE /\ Rest(Taken) \in Seq(Sources) /\ IsInjective(Rest(Taken))
          /\ Responses(Taken) \in Seq(Counted)
          /\ DistinctIndexes(Responses(Taken))
          /\ \A k \in DOMAIN Rest(Taken) : \E q \in DOMAIN queries \ Taken : Rest(Taken)[k] = queries[q]
          /\ \A q \in DOMAIN queries \ Taken : \E k \in DOMAIN Rest(Taken) : Rest(Taken)[k] = queries[q]
          /\ \A k \in DOMAIN Responses(Taken) : \E q \in Taken : Responses(Taken)[k][1] = queries[q]
          /\ \A q \in Taken : \E k \in DOMAIN Responses(Taken) : Responses(Taken)[k][1] = queries[q]
          /\ Len(Rest(Taken)) + Len(Responses(Taken)) = Len(queries)
<1> DEFINE D == DOMAIN queries
           T == Taken
<1>1. /\ queries \in Seq(Sources) /\ IsInjective(queries)
  BY DEF WhenInvariant, WhenType, Divided
<1>2. /\ Len(queries) \in Nat /\ D = 1 .. Len(queries)
  BY <1>1, LenProperties
<1>3. T \subseteq D /\ \A q \in T : Answered(queries[q])
  BY DEF Taken
<1> HIDE DEF T, D
<1>4. /\ IsFiniteSet(D) /\ Cardinality(D) = Len(queries)
  <2> DEFINE m == Len(queries)
  <2>1. m \in Nat /\ D = 1 .. m
    BY <1>2
  <2> HIDE DEF m
  <2>2. IsFiniteSet(1 .. m) /\ Cardinality(1 .. m) = m
    BY <2>1, Counting
  <2> QED
    BY <2>1, <2>2 DEF m
<1>5. Cardinality(D \ T) = Cardinality(D) - Cardinality(T)
  <2>1. D \cap T = T
    BY <1>3
  <2> QED
    BY <2>1, <1>4, FS_Difference
<1>6. IsFiniteSet(T) /\ Cardinality(T) \in Nat
  BY <1>3, <1>4, FS_Subset, FS_CardinalityType
<1> DEFINE F == FromBack(T)
<1>7. /\ F \in Seq(Sources) /\ Len(F) = Cardinality(T) /\ IsInjective(F)
      /\ \A k \in DOMAIN F : \E q \in T : F[k] = queries[q]
      /\ \A q \in T : \E k \in DOMAIN F : F[k] = queries[q]
  BY <1>1, <1>3, FromBackOK DEF D
<1>8. /\ Rest(T) \in Seq(Sources) /\ Len(Rest(T)) = Cardinality(D \ T) /\ IsInjective(Rest(T))
      /\ \A k \in DOMAIN Rest(T) : \E q \in D \ T : Rest(T)[k] = queries[q]
      /\ \A q \in D \ T : \E k \in DOMAIN Rest(T) : Rest(T)[k] = queries[q]
  <2> DEFINE K == D \ T
  <2>1. Rest(T) = FromBack(K)
    BY DEF Rest, D
  <2>2. K \subseteq DOMAIN queries
    BY DEF D
  <2> HIDE DEF K
  <2>3. /\ FromBack(K) \in Seq(Sources) /\ Len(FromBack(K)) = Cardinality(K)
        /\ IsInjective(FromBack(K))
        /\ \A k \in DOMAIN FromBack(K) : \E q \in K : FromBack(K)[k] = queries[q]
        /\ \A q \in K : \E k \in DOMAIN FromBack(K) : FromBack(K)[k] = queries[q]
    BY <1>1, <2>2, FromBackOK
  <2> QED
    BY <2>1, <2>3 DEF K
<1> DEFINE c == Cardinality(T)
           R == [k \in 1 .. c |-> <<F[k], value[F[k]]>>]
<1>9. Responses(T) = R
  BY DEF Responses
<1> HIDE DEF F
<1>10. DOMAIN F = 1 .. c /\ \A k \in 1 .. c : F[k] \in Sources /\ <<F[k], value[F[k]]>> \in Counted
  <2>1. DOMAIN F = 1 .. c /\ \A k \in 1 .. c : F[k] \in Sources
    BY <1>7, LenProperties
  <2>2. ASSUME NEW k \in 1 .. c PROVE <<F[k], value[F[k]]>> \in Counted
    <3>1. PICK q \in T : F[k] = queries[q]
      BY <2>1, <1>7
    <3> QED
      BY <2>1, <3>1, <1>3, AnswerHad DEF Answered
  <2> QED
    BY <2>1, <2>2
<1>11. R \in [1 .. c -> Counted]
  BY <1>10
<1>12. R \in Seq(Counted) /\ Len(R) = c /\ DOMAIN R = 1 .. c
  <2> HIDE DEF R, c
  <2> QED
    BY <1>6, <1>11, FunctionIsSeq DEF c
<1>13. \A k \in 1 .. c : R[k][1] = F[k]
  OBVIOUS
<1> HIDE DEF R
<1>14. DistinctIndexes(R)
  BY <1>7, <1>10, <1>12, <1>13 DEF DistinctIndexes, IsInjective
<1>15. /\ \A k \in DOMAIN R : \E q \in T : R[k][1] = queries[q]
       /\ \A q \in T : \E k \in DOMAIN R : R[k][1] = queries[q]
  <2>1. ASSUME NEW k \in DOMAIN R PROVE \E q \in T : R[k][1] = queries[q]
    BY <1>7, <1>10, <1>12, <1>13
  <2>2. ASSUME NEW q \in T PROVE \E k \in DOMAIN R : R[k][1] = queries[q]
    <3>1. PICK k \in DOMAIN F : F[k] = queries[q]
      BY <1>7
    <3> QED
      BY <3>1, <1>10, <1>12, <1>13
  <2> QED
    BY <2>1, <2>2
<1>16. Len(Rest(T)) + Len(R) = Len(queries)
  BY <1>2, <1>4, <1>5, <1>6, <1>8, <1>12
<1> QED
  BY <1>8, <1>9, <1>12, <1>14, <1>15, <1>16 DEF T, D

\* What whenN has collected satisfies the condition.
LEMMA ResultsSatisfy ==
    ASSUME WhenInvariant, kind # "all"
    PROVE results \in Seq(Counted)
<1> DEFINE A == results
           E == Counted
<1>1. A \in Seq(Had) /\ \A k \in DOMAIN A : A[k][2] \in Satisfying
  BY DEF WhenInvariant, WhenType, Collects
<1>2. Len(A) \in Nat /\ DOMAIN A = 1 .. Len(A) /\ A \in [1 .. Len(A) -> Had]
  BY <1>1, LenProperties
<1>3. A \in [1 .. Len(A) -> E]
  BY <1>1, <1>2 DEF Counted
<1> HIDE DEF A, E
<1>4. A \in Seq(E)
  BY <1>2, <1>3, FunctionIsSeq
<1> QED
  BY <1>4 DEF A, E

\* Appending the responses of a turn to the results.
LEMMA CollectedOK ==
    ASSUME WhenInvariant, WhenAssumption, kind # "all", pc = "poll"
    PROVE /\ Collected(Taken) \in Seq(Counted)
          /\ Len(Collected(Taken)) = Len(results) + Len(Responses(Taken))
          /\ DistinctIndexes(Collected(Taken))
          /\ \A k \in DOMAIN Collected(Taken) :
                \/ \E l \in DOMAIN results : Collected(Taken)[k] = results[l]
                \/ \E l \in DOMAIN Responses(Taken) : Collected(Taken)[k] = Responses(Taken)[l]
          /\ \A l \in DOMAIN results :
                \E k \in DOMAIN Collected(Taken) : Collected(Taken)[k] = results[l]
          /\ \A l \in DOMAIN Responses(Taken) :
                \E k \in DOMAIN Collected(Taken) : Collected(Taken)[k] = Responses(Taken)[l]
<1> DEFINE A == results
           B == Responses(Taken)
           AB == A \o B
           E == Counted
<1>1. A \in Seq(E)
  BY ResultsSatisfy
<1>2. B \in Seq(E)
  BY TurnOK
<1>3. DistinctIndexes(A) /\ DistinctIndexes(B)
  BY TurnOK DEF WhenInvariant, Collects
<1>4. ASSUME NEW k \in DOMAIN A, NEW l \in DOMAIN B PROVE A[k][1] # B[l][1]
  <2>1. PICK q \in Taken : B[l][1] = queries[q]
    BY TurnOK
  <2>2. q \in DOMAIN queries
    BY DEF Taken
  <2> QED
    BY <2>1, <2>2 DEF WhenInvariant, Divided
<1>5. Collected(Taken) = AB
  BY DEF Collected
<1> HIDE DEF A, B, E
<1>6. /\ Len(A) \in Nat /\ DOMAIN A = 1 .. Len(A)
      /\ Len(B) \in Nat /\ DOMAIN B = 1 .. Len(B)
  BY <1>1, <1>2, LenProperties
<1>7. AB \in Seq(E) /\ Len(AB) = Len(A) + Len(B) /\ DOMAIN AB = 1 .. (Len(A) + Len(B))
  BY <1>1, <1>2
<1>8. \A k \in 1 .. (Len(A) + Len(B)) :
          AB[k] = IF k <= Len(A) THEN A[k] ELSE B[k - Len(A)]
  BY <1>1, <1>2
<1> HIDE DEF AB
<1>9. ASSUME NEW k \in DOMAIN AB
      PROVE \/ k \in DOMAIN A /\ AB[k] = A[k]
            \/ k - Len(A) \in DOMAIN B /\ AB[k] = B[k - Len(A)] /\ k > Len(A)
  BY <1>6, <1>7, <1>8
<1>10. ASSUME NEW l \in DOMAIN A PROVE l \in DOMAIN AB /\ AB[l] = A[l]
  BY <1>6, <1>7, <1>8
<1>11. ASSUME NEW l \in DOMAIN B PROVE Len(A) + l \in DOMAIN AB /\ AB[Len(A) + l] = B[l]
  BY <1>6, <1>7, <1>8
<1>12. ASSUME NEW k \in DOMAIN AB, NEW l \in DOMAIN AB, AB[k][1] = AB[l][1] PROVE k = l
  <2>1. CASE k \in DOMAIN A /\ AB[k] = A[k] /\ l \in DOMAIN A /\ AB[l] = A[l]
    BY <2>1, <1>3, <1>12 DEF DistinctIndexes
  <2>2. CASE /\ k - Len(A) \in DOMAIN B /\ AB[k] = B[k - Len(A)]
             /\ l - Len(A) \in DOMAIN B /\ AB[l] = B[l - Len(A)]
    <3>1. k - Len(A) = l - Len(A)
      BY <2>2, <1>3, <1>12 DEF DistinctIndexes
    <3> QED
      BY <3>1, <1>6, <1>7
  <2>3. CASE k \in DOMAIN A /\ AB[k] = A[k] /\ l - Len(A) \in DOMAIN B /\ AB[l] = B[l - Len(A)]
    BY <2>3, <1>4, <1>12
  <2>4. CASE l \in DOMAIN A /\ AB[l] = A[l] /\ k - Len(A) \in DOMAIN B /\ AB[k] = B[k - Len(A)]
    BY <2>4, <1>4, <1>12
  <2> QED
    BY <1>9, <2>1, <2>2, <2>3, <2>4
<1>13. DistinctIndexes(AB)
  BY <1>12 DEF DistinctIndexes
<1> QED
  BY <1>5, <1>7, <1>9, <1>10, <1>11, <1>13 DEF A, B, E

-----------------------------------------------------------------------------
(* The steps                                                               *)

\* The invariant holds at first.
LEMMA WhenInit == ASSUME WhenAssumption, Init PROVE WhenInvariant
<1>1. queries \in [1 .. N -> Sources]
  BY DEF Init, Sources
<1>2. queries \in Seq(Sources) /\ Len(queries) = N /\ DOMAIN queries = 1 .. N
  BY <1>1, FunctionIsSeq DEF WhenAssumption
<1>3. results \in Seq(Had) /\ Len(results) = 0 /\ DOMAIN results = {}
  BY DEF Init
<1>4. n \in 0 .. N /\ (kind = "any" => n = 1) /\ (kind = "all" => n = N)
  BY DEF Init, WhenAssumption
<1>5. WhenType
  BY <1>2, <1>3, <1>4 DEF Init, WhenType, States, Requests
<1>6. ValuesSet
  BY DEF Init, ValuesSet
<1>7. AllInOrder /\ Collects
  BY <1>3 DEF Init, AllInOrder, Collects, DistinctIndexes
<1>8. Divided
  BY <1>2, <1>3 DEF Init, Divided, IsInjective, Sources, WhenAssumption
<1> QED
  BY <1>5, <1>6, <1>7, <1>8 DEF WhenInvariant

\* A future changes between two turns.
LEMMA SourceStep == ASSUME WhenAssumption, WhenInvariant, Source PROVE WhenInvariant'
<1>1. /\ UNCHANGED <<kind, n, queries, results, pc>>
  BY DEF Source, callVars
<1>2. /\ state' \in [Sources -> States] /\ value' \in [Sources -> Kept \cup {Default}]
      /\ posted' \in [Sources -> Requests]
      /\ \A j \in Sources : posted[j] # "none" => posted'[j] # "none"
      /\ ValuesSet'
  <2> USE DEF WhenInvariant, WhenType, ValuesSet, States, Requests, Kept
  <2>1. PICK i \in Sources :
            SetValue(i) \/ Chain(i) \/ Use(i) \/ Finish(i) \/ Cancel(i) \/ Get(i)
    BY DEF Source
  <2>2. CASE SetValue(i)
    BY <2>2 DEF SetValue, Posts
  <2>3. CASE Chain(i)
    BY <2>3 DEF Chain, Posts
  <2>4. CASE Use(i)
    BY <2>4 DEF Use
  <2>5. CASE Finish(i)
    BY <2>5 DEF Finish
  <2>6. CASE Cancel(i)
    BY <2>6 DEF Cancel
  <2>7. CASE Get(i)
    BY <2>7 DEF Get
  <2> QED
    BY <2>1, <2>2, <2>3, <2>4, <2>5, <2>6, <2>7
<1>3. results' \in Seq(Had')
  <2>1. results \in Seq(Had) /\ Had \subseteq Had'
    BY <1>2 DEF WhenInvariant, WhenType, Had
  <2>2. Len(results) \in Nat /\ results \in [1 .. Len(results) -> Had]
    BY <2>1, LenProperties
  <2>3. results \in [1 .. Len(results) -> Had']
    BY <2>1, <2>2
  <2> QED
    BY <1>1, <2>2, <2>3, FunctionIsSeq
<1>4. WhenType'
  BY <1>1, <1>2, <1>3 DEF WhenInvariant, WhenType, Had
<1> QED
  BY <1>1, <1>2, <1>4 DEF WhenInvariant, AllInOrder, Collects, Divided,
                         DistinctIndexes, InOrder, IsInjective

\* A turn of whenAll.
LEMMA PollAllStep == ASSUME WhenAssumption, WhenInvariant, PollAll PROVE WhenInvariant'
<1>1. UNCHANGED <<state, value, posted, kind, n, queries>> /\ kind = "all" /\ pc' = "then"
  BY DEF PollAll, sourceVars, callVars
<1> DEFINE R == [i \in Sources |-> <<i, value[i]>>]
<1>2. R \in [1 .. N -> Had]
  BY AnswerHad DEF PollAll, AllHave, Sources
<1>3. results' = R
  BY DEF PollAll
<1>4. \A k, l \in 1 .. N : k < l => R[k][1] < R[l][1]
  BY DEF Sources
<1> HIDE DEF R
<1>5. R \in Seq(Had) /\ Len(R) = N /\ DOMAIN R = 1 .. N
  BY <1>2, FunctionIsSeq DEF WhenAssumption
<1>6. InOrder(R)
  BY <1>4, <1>5 DEF InOrder
<1>7. WhenType'
  BY <1>1, <1>3, <1>5 DEF WhenInvariant, WhenType, Had
<1>8. ValuesSet'
  BY <1>1 DEF WhenInvariant, ValuesSet
<1>9. AllInOrder'
  BY <1>1, <1>3, <1>5, <1>6 DEF AllInOrder
<1> QED
  BY <1>1, <1>7, <1>8, <1>9 DEF WhenInvariant, Collects, Divided

\* A turn of whenN.
LEMMA PollNStep == ASSUME WhenAssumption, WhenInvariant, PollN PROVE WhenInvariant'
<1> DEFINE Q == Rest(Taken)
           A == Collected(Taken)
           B == Responses(Taken)
<1>1. /\ UNCHANGED <<state, value, posted, kind, n>> /\ kind # "all" /\ pc = "poll"
      /\ queries' = Q /\ results' = A
      /\ pc' = IF Len(A) = n THEN "then" ELSE "poll"
  BY DEF PollN, sourceVars, callVars
<1>2. /\ Q \in Seq(Sources) /\ IsInjective(Q)
      /\ \A k \in DOMAIN Q : \E q \in DOMAIN queries \ Taken : Q[k] = queries[q]
      /\ \A q \in DOMAIN queries \ Taken : \E k \in DOMAIN Q : Q[k] = queries[q]
      /\ \A k \in DOMAIN B : \E q \in Taken : B[k][1] = queries[q]
      /\ \A q \in Taken : \E k \in DOMAIN B : B[k][1] = queries[q]
      /\ Len(Q) + Len(B) = Len(queries)
  BY <1>1, TurnOK
<1>3. /\ A \in Seq(Counted) /\ Len(A) = Len(results) + Len(B) /\ DistinctIndexes(A)
      /\ \A k \in DOMAIN A : \/ \E l \in DOMAIN results : A[k] = results[l]
                             \/ \E l \in DOMAIN B : A[k] = B[l]
      /\ \A l \in DOMAIN results : \E k \in DOMAIN A : A[k] = results[l]
      /\ \A l \in DOMAIN B : \E k \in DOMAIN A : A[k] = B[l]
  BY <1>1, CollectedOK
<1>4. Len(Q) \in Nat /\ Len(B) \in Nat /\ Len(results) \in Nat /\ Len(queries) \in Nat
  <2>1. B \in Seq(Counted)
    BY <1>1, TurnOK
  <2>2. results \in Seq(Had) /\ queries \in Seq(Sources)
    BY DEF WhenInvariant, WhenType, Had
  <2> HIDE DEF Q, B
  <2> QED
    BY <1>2, <2>1, <2>2, LenProperties
<1>5. Taken \subseteq DOMAIN queries
  BY DEF Taken
<1>6. /\ IsInjective(queries)
      /\ \A k \in DOMAIN queries, l \in DOMAIN results : queries[k] # results[l][1]
      /\ \A i \in Sources : \/ \E k \in DOMAIN queries : queries[k] = i
                            \/ \E l \in DOMAIN results : results[l][1] = i
      /\ Len(queries) + Len(results) = N
  BY <1>1 DEF WhenInvariant, Divided
<1> HIDE DEF Q, A, B
<1>7. \A k \in DOMAIN A : A[k] \in Counted
  BY <1>3, LenProperties
<1>8. A \in Seq(Had)
  <2>1. Len(A) \in Nat /\ DOMAIN A = 1 .. Len(A) /\ A \in [1 .. Len(A) -> Counted]
    BY <1>3, LenProperties
  <2>2. A \in [1 .. Len(A) -> Had]
    BY <2>1 DEF Counted
  <2> QED
    BY <2>1, <2>2, FunctionIsSeq
<1>9. WhenType'
  BY <1>1, <1>2, <1>8 DEF WhenInvariant, WhenType, Had
<1>10. ValuesSet'
  BY <1>1 DEF WhenInvariant, ValuesSet
<1>11. AllInOrder'
  BY <1>1 DEF AllInOrder
<1>12. Collects'
  BY <1>1, <1>3, <1>7 DEF Collects, Counted
<1>13. ASSUME NEW k \in DOMAIN Q, NEW l \in DOMAIN A PROVE Q[k] # A[l][1]
  <2> HIDE DEF Q, A, B
  <2>1. PICK q \in DOMAIN queries \ Taken : Q[k] = queries[q]
    BY <1>2
  <2>2. CASE \E r \in DOMAIN results : A[l] = results[r]
    BY <2>1, <2>2, <1>6
  <2>3. CASE \E r \in DOMAIN B : A[l] = B[r]
    <3>1. PICK t \in Taken : A[l][1] = queries[t]
      <4>1. PICK r \in DOMAIN B : A[l] = B[r]
        BY <2>3
      <4>2. \E t \in Taken : B[r][1] = queries[t]
        BY <1>2
      <4> QED
        BY <4>1, <4>2
    <3>2. t # q /\ t \in DOMAIN queries
      BY <1>5, <2>1
    <3> QED
      BY <1>6, <2>1, <3>1, <3>2 DEF IsInjective
  <2> QED
    BY <1>3, <2>2, <2>3
<1>14. ASSUME NEW i \in Sources
       PROVE (\E k \in DOMAIN Q : Q[k] = i) \/ (\E l \in DOMAIN A : A[l][1] = i)
  <2>1. CASE \E r \in DOMAIN results : results[r][1] = i
    BY <2>1, <1>3
  <2>2. CASE \E q \in DOMAIN queries : queries[q] = i
    <3>1. PICK q \in DOMAIN queries : queries[q] = i
      BY <2>2
    <3>2. CASE q \in Taken
      <4>1. PICK r \in DOMAIN B : B[r][1] = i
        BY <1>2, <3>1, <3>2
      <4> QED
        BY <1>3, <4>1
    <3>3. CASE q \notin Taken
      BY <1>2, <3>1, <3>3
    <3> QED
      BY <3>2, <3>3
  <2> QED
    BY <1>6, <2>1, <2>2
<1>15. Len(Q) + Len(A) = N
  BY <1>2, <1>3, <1>4, <1>6
<1>16. Divided'
  BY <1>1, <1>2, <1>13, <1>14, <1>15 DEF Divided
<1> QED
  BY <1>9, <1>10, <1>11, <1>12, <1>16 DEF WhenInvariant

\* The continuation that sorts what was collected.
LEMMA ThenStep == ASSUME WhenAssumption, WhenInvariant, Then PROVE WhenInvariant'
<1>1. /\ UNCHANGED <<state, value, posted, kind, n, queries>> /\ pc = "then"
      /\ results' = IF kind = "all" THEN results ELSE Sorted(results)
      /\ pc' = IF kind = "any" THEN "first" ELSE "done"
  BY DEF Then, sourceVars, callVars
<1>2. ValuesSet'
  BY <1>1 DEF WhenInvariant, ValuesSet
<1>3. CASE kind = "all"
  BY <1>1, <1>2, <1>3 DEF WhenInvariant, WhenType, Had, AllInOrder, Collects, Divided
<1>4. CASE kind # "all"
  <2> DEFINE E == Counted
  <2>1. DistinctIndexes(results) /\ Len(results) = n /\ results \in Seq(E)
    BY <1>1, <1>4, ResultsSatisfy DEF WhenInvariant, Collects
  <2>2. \A e \in E : e[1] \in Nat
    BY DEF Sources, WhenAssumption, Counted, Had
  <2> HIDE DEF E
  <2>3. Sorted(results) \in Seq(E) /\ Len(Sorted(results)) = n /\ InOrder(Sorted(results))
    BY <2>1, <2>2, SortedOK
  <2> DEFINE R == Sorted(results)
  <2> HIDE DEF R
  <2>4. /\ Len(R) \in Nat /\ DOMAIN R = 1 .. Len(R) /\ R \in [1 .. Len(R) -> E]
    BY <2>3, LenProperties DEF R
  <2>5. R \in Seq(Had) /\ \A k \in DOMAIN R : R[k][2] \in Satisfying
    <3>1. R \in [1 .. Len(R) -> Had]
      BY <2>4 DEF E, Counted
    <3>2. \A k \in DOMAIN R : R[k][2] \in Satisfying
      BY <2>4 DEF E, Counted
    <3> QED
      BY <2>4, <3>1, <3>2, FunctionIsSeq
  <2>6. DistinctIndexes(R)
    <3> SUFFICES ASSUME NEW k \in DOMAIN R, NEW l \in DOMAIN R, R[k][1] = R[l][1] PROVE k = l
      BY DEF DistinctIndexes
    <3>1. ~(k < l) /\ ~(l < k)
      BY <2>2, <2>3, <2>4 DEF InOrder, R
    <3> QED
      BY <2>4, <3>1
  <2>7. WhenType'
    BY <1>1, <1>4, <2>5 DEF WhenInvariant, WhenType, Had, R
  <2>8. Collects'
    BY <1>1, <1>4, <2>3, <2>5, <2>6 DEF Collects, R
  <2> QED
    BY <1>1, <1>2, <1>4, <2>7, <2>8 DEF WhenInvariant, AllInOrder, Divided
<1> QED
  BY <1>3, <1>4

\* The continuation of whenAny that takes the only result.
LEMMA FirstStep == ASSUME WhenAssumption, WhenInvariant, First PROVE WhenInvariant'
<1>1. /\ UNCHANGED <<state, value, posted, kind, n, queries>> /\ pc = "first"
      /\ results' = <<results[1]>> /\ pc' = "done"
  BY DEF First, sourceVars, callVars
<1>2. kind = "any" /\ n = 1 /\ results \in Seq(Had) /\ Len(results) = 1
  BY <1>1 DEF WhenInvariant, WhenType, AllInOrder, Collects
<1>3. results[1] \in Had /\ 1 \in DOMAIN results
  BY <1>2
<1>4. results' \in Seq(Had) /\ Len(results') = 1 /\ DOMAIN results' = {1}
  BY <1>1, <1>3
<1>5. results'[1] = results[1]
  BY <1>1
<1>6. WhenType'
  BY <1>1, <1>4 DEF WhenInvariant, WhenType, Had
<1>7. ValuesSet'
  BY <1>1 DEF WhenInvariant, ValuesSet
<1>8. results[1][2] \in Satisfying
  BY <1>2, <1>3 DEF WhenInvariant, Collects
<1>9. DistinctIndexes(results') /\ InOrder(results')
  BY <1>4 DEF DistinctIndexes, InOrder
<1>10. Collects'
  BY <1>1, <1>2, <1>4, <1>5, <1>8, <1>9 DEF Collects
<1> QED
  BY <1>1, <1>2, <1>6, <1>7, <1>10 DEF WhenInvariant, AllInOrder, Divided

\* Types, and what the two vectors hold, from the call to its end.
THEOREM WhenTheorem == Spec => []WhenInvariant
<1>1. Init => WhenInvariant
  BY WhenAssumption, WhenInit
<1>2. WhenInvariant /\ [Next]_vars => WhenInvariant'
  <2> SUFFICES ASSUME WhenInvariant, [Next]_vars PROVE WhenInvariant'
    OBVIOUS
  <2>1. CASE Source
    BY <2>1, WhenAssumption, SourceStep
  <2>2. CASE PollAll
    BY <2>2, WhenAssumption, PollAllStep
  <2>3. CASE PollN
    BY <2>3, WhenAssumption, PollNStep
  <2>4. CASE Then
    BY <2>4, WhenAssumption, ThenStep
  <2>5. CASE First
    BY <2>5, WhenAssumption, FirstStep
  <2>6. CASE UNCHANGED vars
    BY <2>6 DEF vars, WhenInvariant, WhenType, Had, ValuesSet, AllInOrder, Collects, Divided,
                DistinctIndexes, InOrder, IsInjective
  <2> QED
    BY <2>1, <2>2, <2>3, <2>4, <2>5, <2>6 DEF Next, When
<1> QED
  BY <1>1, <1>2, PTL DEF Spec

\* While whenN polls, each future is still asked or has answered: the two vectors
\* together are as long as the tuple, however often a turn has swapped them.
THEOREM AskedOrFoundTheorem == Spec => []AskedOrFound
<1>1. WhenInvariant => AskedOrFound
  <2> SUFFICES ASSUME WhenInvariant, pc = "poll" /\ kind # "all" PROVE AskedOrFound
    BY DEF AskedOrFound
  <2>1. Divided /\ queries \in Seq(Sources) /\ results \in Seq(Had)
    BY DEF WhenInvariant, WhenType, Had
  <2>2. /\ \A k \in DOMAIN queries : queries[k] \in Sources
        /\ \A k \in DOMAIN results : results[k][1] \in Sources
    BY <2>1, LenProperties DEF Had
  <2>3. Found \cup {queries[k] : k \in DOMAIN queries} = Sources
    BY <2>1, <2>2 DEF Divided, Found
  <2> QED
    BY <2>1, <2>3 DEF Divided, AskedOrFound
<1> QED
  BY <1>1, WhenTheorem, PTL

\* What the caller gets: as many results as it asked for, of different futures in
\* the order of their indexes, of whenN each of a value that satisfies; no result
\* is ever the value of a future that was not set, and a moved value only that of
\* one whose continuation was posted.
THEOREM ResultsCompleteTheorem == Spec => []ResultsComplete
<1>1. WhenInvariant => ResultsComplete
  <2> SUFFICES ASSUME WhenInvariant PROVE ResultsComplete
    OBVIOUS
  <2>1. results \in Seq(Had)
    BY DEF WhenInvariant, WhenType, Had
  <2>2. \A k \in DOMAIN results :
            \/ results[k][2] \in Values
            \/ results[k][2] = Moved /\ posted[results[k][1]] # "none"
    <3>1. ASSUME NEW k \in DOMAIN results PROVE results[k] \in Had
      BY <2>1, LenProperties
    <3> QED
      BY <3>1 DEF Had, Kept
  <2>3. ASSUME pc = "done" PROVE Len(results) = n /\ InOrder(results)
    BY <2>3 DEF WhenInvariant, WhenType, AllInOrder, Collects
  <2>4. kind # "all" => \A k \in DOMAIN results : results[k][2] \in Satisfying
    BY DEF WhenInvariant, Collects
  <2> QED
    BY <2>2, <2>3, <2>4 DEF ResultsComplete, InOrder
<1> QED
  BY <1>1, WhenTheorem, PTL
=============================================================================
