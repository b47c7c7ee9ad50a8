------------------------ MODULE NoteSelectionProofs ------------------------
(***************************************************************************)
(* Proofs about NoteSelection, for any notes, outputs and cost: sums over  *)
(* notes and outputs, what every plan conserves, the split and the move to *)
(* Ironwood of a migration.  The sums are those of MapThenSumSet, which is *)
(* defined by recursion over the subsets of what is summed.                *)
(***************************************************************************)
EXTENDS NoteSelection, FiniteSetTheorems, TLAPS

-----------------------------------------------------------------------------
\* Sums over a finite set, as MapThenSumSet computes them: an element at a
\* time, which one is open.

Some(s) == CHOOSE x \in s : TRUE

\* `iter` gives the sum of `f` over each subset of S.
Sums(iter, f, S) ==
    iter = [s \in SUBSET S |-> IF s = {} THEN 0 ELSE f[Some(s)] + iter[s \ {Some(s)}]]

Total(f, S) == (CHOOSE iter : Sums(iter, f, S))[S]

\* A nonempty collection of subsets of a finite set has a smallest one.
LEMMA SmallestSubset ==
    ASSUME NEW S, IsFiniteSet(S), NEW C, C \subseteq SUBSET S, C # {}
    PROVE  \E s \in C : \A t \in C : t \subseteq s => t = s
<1>1. FiniteSubsetsOf(S) = SUBSET S
  BY FS_FiniteSubsetsOfFinite
<1>2. IsWellFoundedOn(StrictSubsetOrdering(S), FiniteSubsetsOf(S))
  BY FS_StrictSubsetOrderingWellFounded
<1>3. PICK s \in C : \A t \in C : <<t, s>> \notin StrictSubsetOrdering(S)
  BY <1>1, <1>2, WFMin
<1>4. \A t \in C : t \in SUBSET S /\ s \in SUBSET S
  BY <1>3
<1>. QED
  BY <1>3, <1>4 DEF StrictSubsetOrdering

\* The element taken is one.
LEMMA SomeIn == \A s : s # {} => Some(s) \in s
  BY DEF Some

\* Two ways to sum agree where both are defined, if the terms do.
LEMMA SumsAgree ==
    ASSUME NEW S, IsFiniteSet(S), NEW U, NEW V, S \subseteq U, S \subseteq V,
           NEW f, NEW g, \A x \in S : f[x] = g[x],
           NEW i, NEW j, Sums(i, f, U), Sums(j, g, V)
    PROVE  i[S] = j[S]
<1>. DEFINE Bad == {s \in SUBSET S : i[s] # j[s]}
<1>. SUFFICES ASSUME Bad # {} PROVE FALSE
  OBVIOUS
<1>1. PICK s \in Bad : \A t \in Bad : t \subseteq s => t = s
  <2>1. Bad \subseteq SUBSET S
    OBVIOUS
  <2>. HIDE DEF Bad
  <2>. QED
    BY <2>1, SmallestSubset
<1>2. s \in SUBSET U /\ s \in SUBSET V
  OBVIOUS
<1>3. i[s] = IF s = {} THEN 0 ELSE f[Some(s)] + i[s \ {Some(s)}]
  BY <1>2 DEF Sums
<1>4. j[s] = IF s = {} THEN 0 ELSE g[Some(s)] + j[s \ {Some(s)}]
  BY <1>2 DEF Sums
<1>5. s # {}
  BY <1>3, <1>4
<1>6. Some(s) \in s
  BY <1>5, SomeIn
<1>7. i[s \ {Some(s)}] = j[s \ {Some(s)}]
  <2>1. s \ {Some(s)} \subseteq s /\ s \ {Some(s)} # s /\ s \ {Some(s)} \in SUBSET S
    BY <1>6
  <2>2. s \ {Some(s)} \notin Bad
    BY <1>1, <2>1
  <2>. QED
    BY <2>1, <2>2
<1>8. f[Some(s)] = g[Some(s)]
  BY <1>6
<1>. QED
  BY <1>3, <1>4, <1>5, <1>7, <1>8

\* There is a way to sum.
LEMMA SumsExist ==
    ASSUME NEW S, IsFiniteSet(S), NEW f
    PROVE  \E i : Sums(i, f, S)
<1>. DEFINE Bad == {s \in SUBSET S : ~ \E i : Sums(i, f, s)}
<1>. SUFFICES ASSUME Bad # {} PROVE FALSE
  OBVIOUS
<1>1. PICK T \in Bad : \A t \in Bad : t \subseteq T => t = T
  <2>1. Bad \subseteq SUBSET S
    OBVIOUS
  <2>. HIDE DEF Bad
  <2>. QED
    BY <2>1, SmallestSubset
<1>. DEFINE sub(s) == CHOOSE i : Sums(i, f, s)
            rest(s) == s \ {Some(s)}
            G == [s \in SUBSET T |-> IF s = {} THEN 0 ELSE f[Some(s)] + sub(rest(s))[rest(s)]]
<1>2. ASSUME NEW s, s \subseteq T, s # T PROVE Sums(sub(s), f, s)
  <2>1. s \in SUBSET S /\ s \notin Bad
    BY <1>1, <1>2
  <2>2. \E i : Sums(i, f, s)
    BY <2>1
  <2>. QED
    BY <2>2
<1>3. ASSUME NEW s \in SUBSET T, s # {} PROVE G[s] = f[Some(s)] + G[rest(s)]
  <2>1. rest(s) \subseteq T /\ rest(s) # T /\ IsFiniteSet(rest(s))
    <3>1. Some(s) \in s
      BY <1>3, SomeIn
    <3>. QED
      BY <3>1, FS_Subset
  <2>2. G[rest(s)] = sub(rest(s))[rest(s)]
    <3>1. CASE rest(s) = {}
      <4>1. Sums(sub(rest(s)), f, rest(s))
        BY <1>2, <2>1
      <4>2. sub(rest(s))[rest(s)] = 0
        BY <3>1, <4>1 DEF Sums
      <4>3. G[rest(s)] = 0
        BY <3>1
      <4>. QED
        BY <4>2, <4>3
    <3>2. CASE rest(s) # {}
      <4>. DEFINE q == rest(s)
      <4>1. Sums(sub(q), f, q)
        BY <1>2, <2>1
      <4>2. Some(q) \in q
        BY <3>2, SomeIn
      <4>3. rest(q) \subseteq T /\ rest(q) # T /\ IsFiniteSet(rest(q)) /\ rest(q) \subseteq q
        BY <2>1, <4>2, FS_Subset
      <4>4. Sums(sub(rest(q)), f, rest(q))
        BY <1>2, <4>3
      <4>5. sub(q)[rest(q)] = sub(rest(q))[rest(q)]
        BY <4>1, <4>3, <4>4, SumsAgree
      <4>6. sub(q)[q] = f[Some(q)] + sub(q)[rest(q)]
        BY <3>2, <4>1 DEF Sums
      <4>7. G[q] = f[Some(q)] + sub(rest(q))[rest(q)]
        BY <2>1, <3>2
      <4>. QED
        BY <4>5, <4>6, <4>7
    <3>. QED
      BY <3>1, <3>2
  <2>3. G[s] = f[Some(s)] + sub(rest(s))[rest(s)]
    BY <1>3
  <2>. QED
    BY <2>2, <2>3
<1>4. G[{}] = 0
  OBVIOUS
<1>5. G = [s \in SUBSET T |-> IF s = {} THEN 0 ELSE f[Some(s)] + G[rest(s)]]
  <2>. HIDE DEF G
  <2>1. \A s \in SUBSET T : G[s] = IF s = {} THEN 0 ELSE f[Some(s)] + G[rest(s)]
    BY <1>3, <1>4
  <2>2. DOMAIN G = SUBSET T /\ G = [s \in SUBSET T |-> G[s]]
    BY DEF G
  <2>. QED
    BY <2>1, <2>2
<1>6. Sums(G, f, T)
  BY <1>5 DEF Sums
<1>. QED
  BY <1>1, <1>6

\* What any way to sum gives is the total.
LEMMA TotalIs ==
    ASSUME NEW S, IsFiniteSet(S), NEW U, S \subseteq U, NEW f, NEW i, Sums(i, f, U)
    PROVE  Total(f, S) = i[S]
<1>1. Sums(CHOOSE j : Sums(j, f, S), f, S)
  BY SumsExist
<1>. QED
  BY <1>1, SumsAgree DEF Total

\* Equal terms, equal totals.
LEMMA TotalSame ==
    ASSUME NEW S, IsFiniteSet(S), NEW f, NEW g, \A x \in S : f[x] = g[x]
    PROVE  Total(f, S) = Total(g, S)
<1>1. PICK i : Sums(i, f, S)
  BY SumsExist
<1>2. PICK j : Sums(j, g, S)
  BY SumsExist
<1>3. i[S] = j[S]
  BY <1>1, <1>2, SumsAgree
<1>. QED
  BY <1>1, <1>2, <1>3, TotalIs

\* The total takes some element first.
LEMMA TotalSome ==
    ASSUME NEW S, IsFiniteSet(S), NEW f
    PROVE  Total(f, S) = IF S = {} THEN 0 ELSE f[Some(S)] + Total(f, S \ {Some(S)})
<1>1. PICK i : Sums(i, f, S)
  BY SumsExist
<1>2. i[S] = IF S = {} THEN 0 ELSE f[Some(S)] + i[S \ {Some(S)}]
  BY <1>1 DEF Sums
<1>3. Total(f, S) = i[S] /\ Total(f, S \ {Some(S)}) = i[S \ {Some(S)}]
  BY <1>1, TotalIs, FS_Subset
<1>. QED
  BY <1>2, <1>3

\* The total is an integer, and any element can be taken first.
LEMMA TotalRemove ==
    ASSUME NEW S, IsFiniteSet(S), NEW f, \A x \in S : f[x] \in Int
    PROVE  /\ Total(f, S) \in Int
           /\ \A x \in S : Total(f, S) = f[x] + Total(f, S \ {x})
<1>. DEFINE Good(s) == /\ Total(f, s) \in Int
                       /\ \A x \in s : Total(f, s) = f[x] + Total(f, s \ {x})
            Bad == {s \in SUBSET S : ~Good(s)}
<1>. SUFFICES ASSUME Bad # {} PROVE FALSE
  OBVIOUS
<1>1. PICK T \in Bad : \A t \in Bad : t \subseteq T => t = T
  <2>1. Bad \subseteq SUBSET S
    OBVIOUS
  <2>. HIDE DEF Bad
  <2>. QED
    BY <2>1, SmallestSubset
<1>2. ASSUME NEW s \in SUBSET S, s \subseteq T, s # T PROVE Good(s)
  BY <1>1, <1>2
<1>3. IsFiniteSet(T) /\ T \subseteq S
  BY FS_Subset
<1>. HIDE DEF Good
<1>4. CASE T = {}
  BY <1>1, <1>3, <1>4, TotalSome DEF Good
<1>5. CASE T # {}
  <2>. DEFINE y == Some(T)
  <2>0. y \in T /\ f[y] \in Int
    BY <1>3, <1>5, SomeIn
  <2>. HIDE DEF y
  <2>1. Total(f, T) = f[y] + Total(f, T \ {y})
    BY <1>3, <1>5, TotalSome DEF y
  <2>2. ASSUME NEW x \in T PROVE Good(T \ {x})
    <3>1. T \ {x} \in SUBSET S /\ T \ {x} \subseteq T /\ T \ {x} # T
      BY <1>3
    <3>. QED
      BY <1>2, <3>1
  <2>3. Total(f, T) \in Int
    BY <2>0, <2>1, <2>2 DEF Good
  <2>4. ASSUME NEW x \in T PROVE Total(f, T) = f[x] + Total(f, T \ {x})
    <3>1. CASE x = y
      BY <2>1, <3>1
    <3>2. CASE x # y
      <4>1. f[x] \in Int /\ x \in T \ {y} /\ y \in T \ {x}
        BY <1>3, <2>0, <3>2
      <4>2. Total(f, T \ {y}) = f[x] + Total(f, (T \ {y}) \ {x})
        BY <2>0, <2>2, <4>1 DEF Good
      <4>3. Total(f, T \ {x}) = f[y] + Total(f, (T \ {x}) \ {y})
        BY <2>2, <4>1 DEF Good
      <4>4. (T \ {x}) \ {y} = (T \ {y}) \ {x}
        OBVIOUS
      <4>5. Total(f, (T \ {x}) \ {y}) \in Int
        <5>1. T \ {x} # T /\ (T \ {x}) \ {y} \subseteq T /\ (T \ {x}) \ {y} # T /\ (T \ {x}) \ {y} \in SUBSET S
          BY <1>3
        <5>. QED
          BY <1>2, <5>1 DEF Good
      <4>6. Total(f, (T \ {y}) \ {x}) = Total(f, (T \ {x}) \ {y})
        BY <4>4
      <4>. HIDE DEF y
      <4>. QED
        BY <2>0, <2>1, <4>1, <4>2, <4>3, <4>5, <4>6
    <3>. QED
      BY <3>1, <3>2
  <2>5. Good(T)
    BY <2>3, <2>4 DEF Good
  <2>. QED
    BY <1>1, <2>5
<1>. QED
  BY <1>4, <1>5

\* A total of naturals is a natural.
LEMMA TotalNat ==
    ASSUME NEW S, IsFiniteSet(S), NEW f, \A x \in S : f[x] \in Nat
    PROVE  Total(f, S) \in Nat
<1>. DEFINE Bad == {s \in SUBSET S : Total(f, s) \notin Nat}
<1>. SUFFICES ASSUME Bad # {} PROVE FALSE
  OBVIOUS
<1>1. PICK T \in Bad : \A t \in Bad : t \subseteq T => t = T
  <2>1. Bad \subseteq SUBSET S
    OBVIOUS
  <2>. HIDE DEF Bad
  <2>. QED
    BY <2>1, SmallestSubset
<1>2. IsFiniteSet(T) /\ T \subseteq S
  BY FS_Subset
<1>3. T # {} => Some(T) \in T
  BY SomeIn
<1>4. T # {} => Total(f, T \ {Some(T)}) \in Nat
  BY <1>1, <1>2, <1>3
<1>5. T # {} => f[Some(T)] \in Nat
  BY <1>2, <1>3
<1>6. Total(f, T) \in Nat
  <2>1. Total(f, T) = IF T = {} THEN 0 ELSE f[Some(T)] + Total(f, T \ {Some(T)})
    BY <1>2, TotalSome
  <2>2. CASE T = {}
    BY <2>1, <2>2
  <2>3. CASE T # {}
    BY <1>4, <1>5, <2>1, <2>3
  <2>. QED
    BY <2>2, <2>3
<1>. QED
  BY <1>6

\* A part totals no more than the whole, when no term is negative, and what
\* is left out totals no more than its number of times a bound on its terms.
LEMMA TotalOfPart ==
    ASSUME NEW S, IsFiniteSet(S), NEW f, \A x \in S : f[x] \in Nat,
           NEW R, R \subseteq S, NEW c \in Nat, \A x \in R : f[x] <= c
    PROVE  /\ Total(f, S) \in Nat /\ Total(f, S \ R) \in Nat
           /\ Total(f, S \ R) <= Total(f, S)
           /\ Cardinality(R) \in Nat
           /\ Total(f, S) <= Total(f, S \ R) + c * Cardinality(R)
<1>. DEFINE Good(r) == /\ Total(f, S \ r) \in Int
                       /\ Total(f, S \ r) <= Total(f, S)
                       /\ Total(f, S) <= Total(f, S \ r) + c * Cardinality(r)
            Bad == {r \in SUBSET R : ~Good(r)}
<1>0. ASSUME NEW s \in SUBSET S PROVE IsFiniteSet(s) /\ Total(f, s) \in Int
  <2>1. IsFiniteSet(s) /\ \A x \in s : f[x] \in Int
    BY FS_Subset
  <2>. QED
    BY <2>1, TotalRemove
<1>1. Bad = {}
  <2>. SUFFICES ASSUME Bad # {} PROVE FALSE
    OBVIOUS
  <2>1. PICK r \in Bad : \A t \in Bad : t \subseteq r => t = r
    <3>1. Bad \subseteq SUBSET S
      OBVIOUS
    <3>. HIDE DEF Bad
    <3>. QED
      BY <3>1, SmallestSubset
  <2>2. r \subseteq R /\ r \subseteq S /\ IsFiniteSet(r)
    BY <1>0
  <2>3. CASE r = {}
    <3>1. S \ r = S /\ Cardinality(r) = 0
      BY <2>3, FS_EmptySet
    <3>2. Total(f, S) \in Int
      BY <1>0
    <3>3. c * 0 = 0
      OBVIOUS
    <3>4. Total(f, S \ r) = Total(f, S) /\ c * Cardinality(r) = 0
      BY <3>1, <3>3
    <3>5. Good(r)
      BY <3>2, <3>4
    <3>. QED
      BY <2>1, <3>5
  <2>4. CASE r # {}
    <3>1. PICK x : x \in r
      BY <2>4
    <3>. DEFINE q == r \ {x}
    <3>2. q \subseteq r /\ q # r /\ q \in SUBSET R
      BY <2>2, <3>1
    <3>3. Good(q)
      BY <2>1, <3>2
    <3>4. x \in S \ q /\ (S \ q) \ {x} = S \ r
      BY <2>2, <3>1
    <3>5. Total(f, S \ q) = f[x] + Total(f, S \ r)
      <4>1. IsFiniteSet(S \ q) /\ \A z \in S \ q : f[z] \in Int
        BY <1>0
      <4>2. \A z \in S \ q : Total(f, S \ q) = f[z] + Total(f, (S \ q) \ {z})
        BY <4>1, TotalRemove
      <4>. QED
        BY <3>4, <4>2
    <3>6. Cardinality(r) = Cardinality(q) + 1 /\ Cardinality(q) \in Nat
      <4>1. Cardinality(q) = Cardinality(r) - 1
        BY <2>2, <3>1, FS_RemoveElement
      <4>2. Cardinality(r) \in Nat /\ Cardinality(q) \in Nat
        BY <1>0, <2>2, <3>2, FS_CardinalityType
      <4>. QED
        BY <4>1, <4>2
    <3>7. f[x] \in Nat /\ f[x] <= c /\ Total(f, S \ r) \in Int /\ Total(f, S) \in Int
      BY <1>0, <2>2, <3>1
    <3>. HIDE DEF q
    <3>8. c * Cardinality(r) = c * Cardinality(q) + c /\ c * Cardinality(q) \in Int
      <4>1. \A a \in Int : c * (a + 1) = c * a + c /\ c * a \in Int
        OBVIOUS
      <4>2. PICK a \in Int : a = Cardinality(q)
        BY <3>6
      <4>3. c * (a + 1) = c * a + c /\ c * a \in Int
        BY <4>1
      <4>4. Cardinality(r) = a + 1
        BY <3>6, <4>2
      <4>. QED
        BY <4>2, <4>3, <4>4, Zenon
    <3>9. Good(r)
      <4>1. /\ Total(f, S \ q) \in Int
            /\ Total(f, S \ q) <= Total(f, S)
            /\ Total(f, S) <= Total(f, S \ q) + c * Cardinality(q)
        BY <3>3
      <4>2. c \in Int
        OBVIOUS
      <4>. HIDE DEF Good
      <4>3. /\ Total(f, S \ r) <= Total(f, S)
            /\ Total(f, S) <= Total(f, S \ r) + c * Cardinality(r)
        BY <3>5, <3>7, <3>8, <4>1, <4>2
      <4>. QED
        BY <3>7, <4>3 DEF Good
    <3>. QED
      BY <2>1, <3>9
  <2>. QED
    BY <2>3, <2>4
<1>2. Good(R)
  BY <1>1
<1>3. Cardinality(R) \in Nat
  BY <1>0, FS_CardinalityType
<1>. QED
  <2>1. Total(f, S) \in Nat /\ Total(f, S \ R) \in Nat
    <3>1. IsFiniteSet(S \ R) /\ \A x \in S \ R : f[x] \in Nat
      BY <1>0
    <3>. QED
      BY <3>1, TotalNat
  <2>. QED
    BY <1>2, <1>3, <2>1

ValueIn(notes) == [n \in notes |-> n.value]
ValueAt(outs, places) == [i \in places |-> outs[i].value]

\* The sums of the model are totals.
LEMMA ValueIsTotal ==
    ASSUME NEW S, IsFiniteSet(S)
    PROVE  ValueOf(S) = Total(ValueIn(S), S)
<1>. DEFINE Value(i) == i = [s \in SUBSET S |-> IF s = {} THEN 0
                              ELSE (CHOOSE x \in s : TRUE).value + i[s \ {CHOOSE x \in s : TRUE}]]
<1>1. ValueOf(S) = (CHOOSE i : Value(i))[S]
  BY DEF ValueOf, MapThenSumSet, MapThenFoldSet
<1>2. ASSUME NEW i PROVE Value(i) <=> Sums(i, ValueIn(S), S)
  <2>1. \A s \in SUBSET S : s # {} => ValueIn(S)[Some(s)] = Some(s).value
    BY SomeIn DEF ValueIn
  <2>2. [s \in SUBSET S |-> IF s = {} THEN 0 ELSE Some(s).value + i[s \ {Some(s)}]]
          = [s \in SUBSET S |-> IF s = {} THEN 0 ELSE ValueIn(S)[Some(s)] + i[s \ {Some(s)}]]
    BY <2>1
  <2>. QED
    BY <2>2 DEF Sums, Some
<1>3. \E i : Value(i)
  <2>1. PICK i : Sums(i, ValueIn(S), S)
    BY SumsExist
  <2>. HIDE DEF Value
  <2>. QED
    BY <1>2, <2>1
<1>4. Value(CHOOSE i : Value(i))
  BY <1>3, Zenon
<1>5. Sums(CHOOSE i : Value(i), ValueIn(S), S)
  BY <1>2, <1>4
<1>. QED
  BY <1>1, <1>5, TotalIs

\* What is paid is the total at the places of the outputs.
LEMMA PaidIsTotal ==
    ASSUME NEW outs, NEW pools, IsFiniteSet(DOMAIN outs)
    PROVE  LET at == {i \in DOMAIN outs : outs[i].pool \in pools}
           IN  IsFiniteSet(at) /\ PaidTo(outs, pools) = Total(ValueAt(outs, at), at)
<1>. DEFINE S == {i \in DOMAIN outs : outs[i].pool \in pools}
            Value(i) == i = [s \in SUBSET S |-> IF s = {} THEN 0
                              ELSE outs[CHOOSE x \in s : TRUE].value + i[s \ {CHOOSE x \in s : TRUE}]]
<1>0. IsFiniteSet(S)
  BY FS_Subset
<1>1. PaidTo(outs, pools) = (CHOOSE i : Value(i))[S]
  BY DEF PaidTo, MapThenSumSet, MapThenFoldSet
<1>. HIDE DEF S
<1>2. ASSUME NEW i PROVE Value(i) <=> Sums(i, ValueAt(outs, S), S)
  <2>1. \A s \in SUBSET S : s # {} => ValueAt(outs, S)[Some(s)] = outs[Some(s)].value
    BY SomeIn DEF ValueAt
  <2>2. [s \in SUBSET S |-> IF s = {} THEN 0 ELSE outs[Some(s)].value + i[s \ {Some(s)}]]
          = [s \in SUBSET S |-> IF s = {} THEN 0 ELSE ValueAt(outs, S)[Some(s)] + i[s \ {Some(s)}]]
    BY <2>1
  <2>. QED
    BY <2>2 DEF Sums, Some
<1>3. \E i : Value(i)
  <2>1. PICK i : Sums(i, ValueAt(outs, S), S)
    BY <1>0, SumsExist
  <2>. HIDE DEF Value
  <2>. QED
    BY <1>2, <2>1
<1>4. Value(CHOOSE i : Value(i))
  BY <1>3, Zenon
<1>5. Sums(CHOOSE i : Value(i), ValueAt(outs, S), S)
  BY <1>2, <1>4
<1>6. PaidTo(outs, pools) = Total(ValueAt(outs, S), S)
  BY <1>0, <1>1, <1>5, TotalIs
<1>. QED
  BY <1>0, <1>6 DEF S

\* The actions of the transparent inputs are a number, none for no coin.
LEMMA BytesNat ==
    ASSUME NEW S, IsFiniteSet(S)
    PROVE  ByteActions(S) \in Nat /\ (S = {} => ByteActions(S) = 0)
<1>. DEFINE f == [n \in S |-> InputSize(n)]
            Value(i) == i = [s \in SUBSET S |-> IF s = {} THEN 0
                              ELSE InputSize(CHOOSE x \in s : TRUE) + i[s \ {CHOOSE x \in s : TRUE}]]
<1>1. MapThenSumSet(InputSize, S) = (CHOOSE i : Value(i))[S]
  BY DEF MapThenSumSet, MapThenFoldSet
<1>2. ASSUME NEW i PROVE Value(i) <=> Sums(i, f, S)
  <2>1. \A s \in SUBSET S : s # {} => f[Some(s)] = InputSize(Some(s))
    BY SomeIn
  <2>2. [s \in SUBSET S |-> IF s = {} THEN 0 ELSE InputSize(Some(s)) + i[s \ {Some(s)}]]
          = [s \in SUBSET S |-> IF s = {} THEN 0 ELSE f[Some(s)] + i[s \ {Some(s)}]]
    BY <2>1
  <2>. QED
    BY <2>2 DEF Sums, Some
<1>3. \E i : Value(i)
  <2>1. PICK i : Sums(i, f, S)
    BY SumsExist
  <2>. HIDE DEF Value, f
  <2>. QED
    BY <1>2, <2>1
<1>4. Value(CHOOSE i : Value(i))
  BY <1>3, Zenon
<1>5. Sums(CHOOSE i : Value(i), f, S)
  BY <1>2, <1>4
<1>6. MapThenSumSet(InputSize, S) = Total(f, S)
  BY <1>1, <1>5, TotalIs
<1>7. \A x \in S : f[x] \in Nat
  BY DEF InputSize
<1>8. MapThenSumSet(InputSize, S) \in Nat
  <2>. HIDE DEF f
  <2>. QED
    BY <1>6, <1>7, TotalNat
<1>9. S = {} => MapThenSumSet(InputSize, S) = 0
  <2>. HIDE DEF f
  <2>. QED
    BY <1>6, TotalSome
<1>. QED
  BY <1>8, <1>9 DEF ByteActions

-----------------------------------------------------------------------------
\* The fee.

Output == [pool : Pools, value : Nat, own : BOOLEAN]

\* The greater of two numbers.
LEMMA MaxOfTwo ==
    ASSUME NEW a \in Int, NEW b \in Int
    PROVE  Max({a, b}) = IF a >= b THEN a ELSE b
  BY DEF Max

\* The places of a sequence of outputs are finitely many.
LEMMA PlacesFinite ==
    ASSUME NEW outs \in Seq(Output)
    PROVE  /\ IsFiniteSet(DOMAIN outs) /\ DOMAIN outs = 1..Len(outs) /\ Len(outs) \in Nat
           /\ \A i \in DOMAIN outs : outs[i] \in Output
  BY FS_Interval

\* The outputs of each pool are counted by numbers.
LEMMA CountsNat ==
    ASSUME NEW outs \in Seq(Output)
    PROVE  Counts(outs) \in [Pools -> Nat]
<1>1. ASSUME NEW p PROVE Cardinality({i \in DOMAIN outs : outs[i].pool = p}) \in Nat
  <2>1. IsFiniteSet({i \in DOMAIN outs : outs[i].pool = p})
    BY PlacesFinite, FS_Subset
  <2>. QED
    BY <2>1, FS_CardinalityType
<1>. QED
  BY <1>1 DEF Counts

\* A transaction has two actions at least, and its fee is a number.
LEMMA FeeNat ==
    ASSUME NEW notes, IsFiniteSet(notes), NEW counts \in [Pools -> Nat],
           NEW migration, NEW cost \in Nat
    PROVE  /\ LogicalActions(notes, counts, migration) \in Nat
           /\ LogicalActions(notes, counts, migration) >= 2
           /\ Fee(notes, counts, migration, cost) \in Nat
<1>. DEFINE inputs(p) == Cardinality(Of(notes, p))
            most(p) == Max({inputs(p), counts[p]})
            transparent == Max({ByteActions(Of(notes, Transparent)), counts[Transparent]})
            orchard == IF migration THEN inputs(Orchard) + counts[Orchard] ELSE most(Orchard)
<1>1. ASSUME NEW p PROVE IsFiniteSet(Of(notes, p)) /\ inputs(p) \in Nat
  <2>1. IsFiniteSet(Of(notes, p))
    BY FS_Subset DEF Of
  <2>. QED
    BY <2>1, FS_CardinalityType
<1>2. /\ Transparent \in Pools /\ Sapling \in Pools /\ Orchard \in Pools /\ Ironwood \in Pools
  BY DEF Pools
<1>3. \A p \in Pools : counts[p] \in Nat
  OBVIOUS
<1>4. ASSUME NEW p \in Pools PROVE most(p) \in Nat
  <2>. HIDE DEF inputs
  <2>. QED
    BY <1>1, <1>3, MaxOfTwo
<1>5. transparent \in Nat
  <2>1. ByteActions(Of(notes, Transparent)) \in Nat
    BY <1>1, BytesNat
  <2>. QED
    BY <1>2, <1>3, <2>1, MaxOfTwo
<1>6. orchard \in Nat
  <2>1. inputs(Orchard) \in Nat /\ counts[Orchard] \in Nat /\ most(Orchard) \in Nat
    BY <1>1, <1>2, <1>3, <1>4
  <2>. HIDE DEF inputs, most
  <2>. QED
    BY <2>1
<1>7. ASSUME NEW a \in Nat PROVE Padded(a) \in Nat
  BY MaxOfTwo DEF Padded
<1>8. LogicalActions(notes, counts, migration) =
        Max({2, transparent + Padded(most(Sapling)) + Padded(orchard) + Padded(most(Ironwood))})
  BY DEF LogicalActions
<1>9. /\ LogicalActions(notes, counts, migration) \in Nat
      /\ LogicalActions(notes, counts, migration) >= 2
  <2>1. /\ Padded(most(Sapling)) \in Nat /\ Padded(orchard) \in Nat /\ Padded(most(Ironwood)) \in Nat
    BY <1>2, <1>4, <1>6, <1>7
  <2>. HIDE DEF inputs, most, transparent, orchard
  <2>2. PICK sum \in Nat : sum = transparent + Padded(most(Sapling)) + Padded(orchard) + Padded(most(Ironwood))
    BY <1>5, <2>1
  <2>3. LogicalActions(notes, counts, migration) = Max({2, sum})
    BY <1>8, <2>2
  <2>. QED
    BY <2>2, <2>3, MaxOfTwo
<1>10. \A a \in Nat : cost * a \in Nat
  OBVIOUS
<1>. QED
  BY <1>9, <1>10 DEF Fee

-----------------------------------------------------------------------------
\* The score of a choice.

NotesOK(S) == IsFiniteSet(S) /\ \A n \in S : n.value \in Nat /\ n.pool \in Pools

WishOK(w) == w.outs \in Seq(Output) /\ w.cost \in Nat /\ (w.payer => w.outs # <<>>)

\* Notes of value have a value.
LEMMA ValueNat ==
    ASSUME NEW S, NotesOK(S)
    PROVE  ValueOf(S) \in Nat
<1>1. IsFiniteSet(S) /\ \A n \in S : ValueIn(S)[n] \in Nat
  BY DEF NotesOK, ValueIn
<1>. QED
  BY <1>1, ValueIsTotal, TotalNat

\* What holds of the notes holds of a part of them.
LEMMA PartOK == \A S : NotesOK(S) => \A R : R \subseteq S => NotesOK(R)
<1>. SUFFICES ASSUME NEW S, NotesOK(S), NEW R, R \subseteq S PROVE NotesOK(R)
  OBVIOUS
<1>1. IsFiniteSet(R)
  BY FS_Subset DEF NotesOK
<1>. QED
  BY <1>1 DEF NotesOK

\* What outputs pay is a number.
LEMMA PaidNat ==
    ASSUME NEW outs \in Seq(Output), NEW pools
    PROVE  PaidTo(outs, pools) \in Nat
<1>. DEFINE at == {i \in DOMAIN outs : outs[i].pool \in pools}
<1>1. IsFiniteSet(at) /\ PaidTo(outs, pools) = Total(ValueAt(outs, at), at)
  BY PlacesFinite, PaidIsTotal
<1>2. \A i \in at : ValueAt(outs, at)[i] \in Nat
  BY PlacesFinite DEF ValueAt, Output
<1>. HIDE DEF at
<1>. QED
  BY <1>1, <1>2, TotalNat

\* The fee and what is needed are numbers.
LEMMA FeeWithChangeNat ==
    ASSUME NEW S, NotesOK(S), NEW w, WishOK(w), NEW cp
    PROVE  /\ FeeWithChange(S, cp, w) \in Nat
           /\ Needed(S, cp, w) \in Nat
<1>0. Counts(w.outs) \in [Pools -> Nat]
  BY CountsNat DEF WishOK
<1>1. [Counts(w.outs) EXCEPT ![cp] = @ + 1] \in [Pools -> Nat]
  <2>. DEFINE c == Counts(w.outs)
  <2>. HIDE DEF c
  <2>1. c \in [Pools -> Nat]
    BY <1>0 DEF c
  <2>3. \A p \in Pools : c[p] \in Nat /\ c[p] + 1 \in Nat
    BY <2>1
  <2>2. [c EXCEPT ![cp] = @ + 1] \in [Pools -> Nat]
    BY <2>1, <2>3
  <2>. QED
    BY <2>2 DEF c
<1>2. FeeWithChange(S, cp, w) \in Nat
  BY <1>1, FeeNat DEF FeeWithChange, NotesOK, WishOK
<1>3. Paid(w.outs) \in Nat
  BY PaidNat DEF Paid, WishOK
<1>. QED
  BY <1>2, <1>3 DEF Needed

\* What a pool is off its balance by.
Off(S, cp, w, p) ==
    LET change == ValueOf(S) - Needed(S, cp, w)
        balance == ValueOf(Of(S, p)) - PaidTo(w.outs, {p}) - IF p = cp THEN change ELSE 0
    IN  Max({balance, -balance})

\* What a pool gives or takes is a number.
LEMMA OffInt ==
    ASSUME NEW S, NotesOK(S), NEW w, WishOK(w), NEW cp, NEW p
    PROVE  Off(S, cp, w, p) \in Int
<1>1. ValueOf(S) \in Int /\ Needed(S, cp, w) \in Int
  BY ValueNat, FeeWithChangeNat
<1>2. ValueOf(Of(S, p)) \in Int
  BY PartOK, ValueNat DEF Of
<1>3. PaidTo(w.outs, {p}) \in Int
  BY PaidNat DEF WishOK
<1>4. PICK b \in Int : b = ValueOf(Of(S, p)) - PaidTo(w.outs, {p})
                             - IF p = cp THEN ValueOf(S) - Needed(S, cp, w) ELSE 0
  BY <1>1, <1>2, <1>3
<1>5. Off(S, cp, w, p) = Max({b, -b})
  BY <1>4 DEF Off
<1>6. -b \in Int
  BY <1>4
<1>. QED
  BY <1>4, <1>5, <1>6, MaxOfTwo

\* The pools are finitely many.
LEMMA ShieldedFinite ==
    Shielded = {Sapling, Orchard, Ironwood} /\ IsFiniteSet(Shielded) /\ IsFiniteSet(Pools)
<1>1. Shielded = {Sapling, Orchard, Ironwood} /\ Pools = {Sapling, Orchard, Ironwood} \cup {Transparent}
  BY DEF Shielded, Pools, Transparent, Sapling, Orchard, Ironwood
<1>2. IsFiniteSet({Sapling})
  BY FS_Singleton
<1>3. IsFiniteSet({Sapling} \cup {Orchard})
  BY <1>2, FS_AddElement
<1>4. IsFiniteSet(({Sapling} \cup {Orchard}) \cup {Ironwood})
  BY <1>3, FS_AddElement
<1>5. ({Sapling} \cup {Orchard}) \cup {Ironwood} = {Sapling, Orchard, Ironwood}
  OBVIOUS
<1>6. IsFiniteSet({Sapling, Orchard, Ironwood} \cup {Transparent})
  BY <1>4, <1>5, FS_AddElement
<1>. QED
  BY <1>1, <1>4, <1>5, <1>6

\* What crosses between the pools, pool by pool.
LEMMA TurnstileIs ==
    ASSUME NEW S, NotesOK(S), NEW w, WishOK(w), NEW cp
    PROVE  /\ Turnstile(S, cp, w) = ValueOf(Of(S, Transparent)) + PaidTo(w.outs, {Transparent})
                + (Off(S, cp, w, Sapling) + (Off(S, cp, w, Orchard) + Off(S, cp, w, Ironwood)))
           /\ Turnstile(S, cp, w) \in Int
<1>. DEFINE f == [p \in Shielded |-> Off(S, cp, w, p)]
            Value(i) == i = [s \in SUBSET Shielded |-> IF s = {} THEN 0
                              ELSE Off(S, cp, w, CHOOSE x \in s : TRUE) + i[s \ {CHOOSE x \in s : TRUE}]]
<1>1. Turnstile(S, cp, w) = ValueOf(Of(S, Transparent)) + PaidTo(w.outs, {Transparent})
                              + (CHOOSE i : Value(i))[Shielded]
  BY DEF Turnstile, MapThenSumSet, MapThenFoldSet, Off
<1>0. Shielded = {Sapling, Orchard, Ironwood} /\ IsFiniteSet(Shielded)
  BY ShieldedFinite
<1>2. ASSUME NEW i PROVE Value(i) <=> Sums(i, f, Shielded)
  <2>1. \A s \in SUBSET Shielded : s # {} => f[Some(s)] = Off(S, cp, w, Some(s))
    BY SomeIn
  <2>2. [s \in SUBSET Shielded |-> IF s = {} THEN 0 ELSE Off(S, cp, w, Some(s)) + i[s \ {Some(s)}]]
          = [s \in SUBSET Shielded |-> IF s = {} THEN 0 ELSE f[Some(s)] + i[s \ {Some(s)}]]
    BY <2>1
  <2>. QED
    BY <2>2 DEF Sums, Some
<1>. HIDE DEF Value
<1>3. \E i : Value(i)
  <2>1. PICK i : Sums(i, f, Shielded)
    BY <1>0, SumsExist
  <2>. QED
    BY <1>2, <2>1
<1>4. Value(CHOOSE i : Value(i))
  BY <1>3, Zenon
<1>5. Sums(CHOOSE i : Value(i), f, Shielded)
  BY <1>2, <1>4
<1>6. \A p \in Shielded : f[p] \in Int /\ f[p] = Off(S, cp, w, p)
  BY OffInt
<1>. HIDE DEF f
<1>7. Turnstile(S, cp, w) = ValueOf(Of(S, Transparent)) + PaidTo(w.outs, {Transparent})
                              + Total(f, Shielded)
  BY <1>0, <1>1, <1>5, TotalIs
<1>8. /\ Shielded \ {Sapling} = {Orchard, Ironwood}
      /\ {Orchard, Ironwood} \ {Orchard} = {Ironwood}
      /\ {Ironwood} \ {Ironwood} = {}
  BY <1>0 DEF Sapling, Orchard, Ironwood
<1>9. Total(f, Shielded) = f[Sapling] + Total(f, {Orchard, Ironwood})
  BY <1>0, <1>6, <1>8, TotalRemove
<1>10. Total(f, {Orchard, Ironwood}) = f[Orchard] + Total(f, {Ironwood})
  <2>1. IsFiniteSet({Orchard, Ironwood}) /\ \A x \in {Orchard, Ironwood} : f[x] \in Int
    BY <1>0, <1>6, FS_Subset
  <2>2. \A x \in {Orchard, Ironwood} : Total(f, {Orchard, Ironwood}) = f[x] + Total(f, {Orchard, Ironwood} \ {x})
    BY <2>1, TotalRemove
  <2>. QED
    BY <1>8, <2>2
<1>11. Total(f, {Ironwood}) = f[Ironwood]
  <2>1. IsFiniteSet({Ironwood}) /\ \A x \in {Ironwood} : f[x] \in Int
    BY <1>0, <1>6, FS_Subset
  <2>2. Total(f, {Ironwood}) = f[Ironwood] + Total(f, {})
    BY <1>8, <2>1, TotalRemove
  <2>3. Total(f, {}) = 0
    BY FS_EmptySet, TotalSome
  <2>. QED
    BY <2>1, <2>2, <2>3
<1>12. /\ f[Sapling] = Off(S, cp, w, Sapling) /\ f[Orchard] = Off(S, cp, w, Orchard)
       /\ f[Ironwood] = Off(S, cp, w, Ironwood)
       /\ f[Sapling] \in Int /\ f[Orchard] \in Int /\ f[Ironwood] \in Int
  BY <1>0, <1>6
<1>13. ValueOf(Of(S, Transparent)) \in Int /\ PaidTo(w.outs, {Transparent}) \in Int
  <2>1. Of(S, Transparent) \subseteq S
    BY DEF Of
  <2>. QED
    BY <2>1, PartOK, ValueNat, PaidNat DEF WishOK
<1>. QED
  BY <1>7, <1>9, <1>10, <1>11, <1>12, <1>13

-----------------------------------------------------------------------------
\* The best pool for the change.

\* Among finitely many scores one is not beaten.
LEMMA Unbeaten ==
    ASSUME NEW D, IsFiniteSet(D), D # {}, NEW score, \A d \in D : score[d] \in Int \X Int
    PROVE  \E d \in D : \A q \in D : ~Better(score[q], score[d])
<1>. DEFINE beat(d) == {q \in D : Better(score[q], score[d])}
            C == {beat(d) : d \in D}
<1>1. PICK s \in C : \A t \in C : t \subseteq s => t = s
  <2>1. C \subseteq SUBSET D /\ C # {}
    OBVIOUS
  <2>. HIDE DEF C
  <2>. QED
    BY <2>1, SmallestSubset
<1>2. PICK d \in D : s = beat(d)
  BY <1>1
<1>3. ASSUME NEW q \in D, Better(score[q], score[d]) PROVE FALSE
  <2>0. score[q] \in Int \X Int /\ score[d] \in Int \X Int
    OBVIOUS
  <2>1. \A r \in D : Better(score[r], score[q]) => Better(score[r], score[d])
    <3>. SUFFICES ASSUME NEW r \in D, Better(score[r], score[q]) PROVE Better(score[r], score[d])
      OBVIOUS
    <3>1. score[r] \in Int \X Int
      OBVIOUS
    <3>2. PICK a \in Int, b \in Int : score[r] = <<a, b>>
      BY <3>1
    <3>3. PICK a2 \in Int, b2 \in Int : score[q] = <<a2, b2>>
      BY <2>0
    <3>4. PICK a3 \in Int, b3 \in Int : score[d] = <<a3, b3>>
      BY <2>0
    <3>. QED
      BY <1>3, <3>2, <3>3, <3>4 DEF Better
  <2>2. beat(q) \subseteq beat(d)
    BY <2>1
  <2>3. beat(q) = beat(d)
    BY <1>1, <1>2, <2>2
  <2>4. Better(score[q], score[q])
    BY <1>3, <2>3
  <2>5. PICK a \in Int, b \in Int : score[q] = <<a, b>>
    BY <2>0
  <2>. QED
    BY <2>4, <2>5 DEF Better
<1>. QED
  BY <1>3

\* A set of pools has a least one.
LEMMA LeastPool ==
    ASSUME NEW X, X \subseteq Pools, X # {}
    PROVE  Min(X) \in X /\ \A x \in X : Min(X) =< x
<1>1. X \subseteq Int /\ \A x \in X : x = 0 \/ x = 1 \/ x = 2 \/ x = 3
  BY DEF Pools, Transparent, Sapling, Orchard, Ironwood
<1>2. \E x \in X : \A y \in X : x =< y
  <2>1. CASE 0 \in X
    BY <1>1, <2>1
  <2>2. CASE 0 \notin X /\ 1 \in X
    BY <1>1, <2>2
  <2>3. CASE 0 \notin X /\ 1 \notin X /\ 2 \in X
    BY <1>1, <2>3
  <2>4. CASE 0 \notin X /\ 1 \notin X /\ 2 \notin X
    <3>1. PICK x : x \in X
      OBVIOUS
    <3>2. \A y \in X : y = 3
      BY <1>1, <2>4
    <3>. QED
      BY <3>1, <3>2
  <2>. QED
    BY <2>1, <2>2, <2>3, <2>4
<1>. QED
  BY <1>2 DEF Min

\* The change goes to a feasible pool that no other beats.
LEMMA ChangePoolBest ==
    ASSUME NEW S, NotesOK(S), NEW w, WishOK(w), ChangePools(S, w) # {}
    PROVE  /\ ChangePool(S, w) \in ChangePools(S, w) /\ ChangePool(S, w) \in Pools
           /\ \A q \in ChangePools(S, w) : ~Better(Scores(S, w)[q], BestScore(S, w))
           /\ \A q \in ChangePools(S, w) :
                (\A o \in ChangePools(S, w) : ~Better(Scores(S, w)[o], Scores(S, w)[q]))
                    => ChangePool(S, w) =< q
           /\ BestScore(S, w) \in Int \X Int
           /\ \A q \in ChangePools(S, w) :
                Scores(S, w)[q] = <<Turnstile(S, q, w), FeeWithChange(S, q, w)>>
<1>. DEFINE D == ChangePools(S, w)
            score == Scores(S, w)
            best == {cp \in D : \A q \in D : ~Better(score[q], score[cp])}
<1>1. D \subseteq Pools /\ IsFiniteSet(D)
  <2>1. D \subseteq Pools
    BY DEF ChangePools
  <2>. QED
    BY <2>1, ShieldedFinite, FS_Subset
<1>2. DOMAIN score = D /\ \A q \in D : score[q] = <<Turnstile(S, q, w), FeeWithChange(S, q, w)>>
  BY DEF Scores
<1>3. \A q \in D : score[q] \in Int \X Int
  <2>. TAKE q \in D
  <2>1. Turnstile(S, q, w) \in Int /\ FeeWithChange(S, q, w) \in Int
    BY TurnstileIs, FeeWithChangeNat
  <2>. QED
    BY <1>2, <2>1
<1>. HIDE DEF D, score
<1>4. \E d \in D : \A q \in D : ~Better(score[q], score[d])
  BY <1>1, <1>3, Unbeaten DEF D
<1>5. best # {} /\ best \subseteq Pools
  BY <1>1, <1>4
<1>6. ChangePool(S, w) = Min(best)
  BY <1>2 DEF ChangePool, D, score
<1>7. Min(best) \in best /\ \A q \in best : Min(best) =< q
  <2>. HIDE DEF best
  <2>. QED
    BY <1>5, LeastPool
<1>. QED
  BY <1>1, <1>2, <1>3, <1>6, <1>7 DEF D, score, BestScore

\* What is paid is the total over all the places.
LEMMA PaidAll ==
    ASSUME NEW outs \in Seq(Output)
    PROVE  Paid(outs) = Total(ValueAt(outs, DOMAIN outs), DOMAIN outs)
<1>1. {i \in DOMAIN outs : outs[i].pool \in Pools} = DOMAIN outs
  BY PlacesFinite DEF Output
<1>. QED
  BY <1>1, PlacesFinite, PaidIsTotal DEF Paid

\* The fields of an output.
LEMMA OutputFields ==
    \A o \in Output : o.value \in Nat /\ o.value \in Int /\ o.pool \in Pools /\ o.own \in BOOLEAN
  BY DEF Output

\* The first recipient pays the fee.
LEMMA FirstPays ==
    ASSUME NEW outs \in Seq(Output), outs # <<>>, NEW fee \in Nat, fee <= outs[1].value,
           NEW less, less = [outs EXCEPT ![1].value = @ - fee]
    PROVE  /\ less \in Seq(Output)
           /\ Paid(less) = Paid(outs) - fee
           /\ Counts(less) = Counts(outs)
<1>0. 1 \in DOMAIN outs /\ outs[1] \in Output
  BY PlacesFinite
<1>1. outs[1].value - fee \in Nat
  BY <1>0 DEF Output
<1>2. [outs[1] EXCEPT !.value = @ - fee] \in Output
  <2>1. DOMAIN outs[1] = {"pool", "value", "own"}
    BY <1>0 DEF Output
  <2>. QED
    BY <1>0, <1>1, <2>1 DEF Output
<1>3. /\ less \in Seq(Output) /\ DOMAIN less = DOMAIN outs
      /\ \A i \in DOMAIN outs : i # 1 => less[i] = outs[i]
      /\ less[1] = [outs[1] EXCEPT !.value = @ - fee]
  BY <1>0, <1>2
<1>4. less[1].value = outs[1].value - fee /\ less[1].pool = outs[1].pool
  <2>1. DOMAIN outs[1] = {"pool", "value", "own"}
    BY <1>0 DEF Output
  <2>. QED
    BY <1>3, <2>1
<1>5. Counts(less) = Counts(outs)
  <2>1. \A i \in DOMAIN outs : less[i].pool = outs[i].pool
    BY <1>3, <1>4
  <2>2. \A p : {i \in DOMAIN less : less[i].pool = p} = {i \in DOMAIN outs : outs[i].pool = p}
    BY <1>3, <2>1
  <2>. QED
    BY <2>2 DEF Counts
<1>. DEFINE d == DOMAIN outs
            f == ValueAt(outs, d)
            g == ValueAt(less, d)
<1>6. Paid(outs) = Total(f, d) /\ Paid(less) = Total(g, d) /\ IsFiniteSet(d)
  BY <1>3, PaidAll, PlacesFinite
<1>7. \A i \in d : f[i] = outs[i].value /\ g[i] = less[i].value /\ f[i] \in Int /\ g[i] \in Int
  <2>1. \A i \in d : outs[i] \in Output /\ less[i] \in Output
    BY <1>3, PlacesFinite
  <2>2. \A i \in d : outs[i].value \in Int /\ less[i].value \in Int
    BY <2>1, OutputFields
  <2>. QED
    BY <2>2 DEF ValueAt
<1>. HIDE DEF f, g, d
<1>8. Total(f, d) = f[1] + Total(f, d \ {1}) /\ Total(g, d) = g[1] + Total(g, d \ {1})
  <2>1. IsFiniteSet(d) /\ (\A i \in d : f[i] \in Int) /\ (\A i \in d : g[i] \in Int) /\ 1 \in d
    BY <1>0, <1>6, <1>7 DEF d
  <2>2. \A i \in d : Total(f, d) = f[i] + Total(f, d \ {i})
    BY <2>1, TotalRemove
  <2>3. \A i \in d : Total(g, d) = g[i] + Total(g, d \ {i})
    BY <2>1, TotalRemove
  <2>. QED
    BY <2>1, <2>2, <2>3
<1>9. Total(f, d \ {1}) = Total(g, d \ {1})
  <2>1. IsFiniteSet(d \ {1}) /\ \A i \in d \ {1} : f[i] = g[i]
    BY <1>3, <1>6, <1>7, FS_Subset DEF d
  <2>. QED
    BY <2>1, TotalSame
<1>10. Total(f, d \ {1}) \in Int
  <2>1. IsFiniteSet(d \ {1}) /\ \A i \in d \ {1} : f[i] \in Int
    BY <1>6, <1>7, FS_Subset
  <2>. QED
    BY <2>1, TotalRemove
<1>11. f[1] = outs[1].value /\ g[1] = outs[1].value - fee /\ outs[1].value \in Int
  BY <1>0, <1>4, <1>7 DEF d
<1>12. Paid(less) = Paid(outs) - fee
  BY <1>6, <1>8, <1>9, <1>10, <1>11
<1>. QED
  BY <1>3, <1>5, <1>12

\* One output more.
LEMMA OneMore ==
    ASSUME NEW outs \in Seq(Output), NEW o \in Output
    PROVE  /\ outs \o <<o>> \in Seq(Output)
           /\ Paid(outs \o <<o>>) = Paid(outs) + o.value
           /\ Counts(outs \o <<o>>) = [Counts(outs) EXCEPT ![o.pool] = @ + 1]
<1>. DEFINE more == outs \o <<o>>
            d == DOMAIN outs
            e == DOMAIN more
            k == Len(outs) + 1
<1>1. /\ more \in Seq(Output) /\ d = 1..Len(outs) /\ e = 1..k /\ Len(outs) \in Nat
      /\ \A i \in d : more[i] = outs[i]
      /\ more[k] = o
  OBVIOUS
<1>2. e = d \cup {k} /\ k \notin d /\ e \ {k} = d
  BY <1>1
<1>3. IsFiniteSet(d) /\ IsFiniteSet(e)
  BY <1>1, PlacesFinite
<1>. HIDE DEF more, d, e, k
<1>4. Counts(more) = [Counts(outs) EXCEPT ![o.pool] = @ + 1]
  <2>. DEFINE of(s, p) == {i \in DOMAIN s : s[i].pool = p}
  <2>1. ASSUME NEW p \in Pools
        PROVE  Cardinality(of(more, p)) =
                   IF p = o.pool THEN Cardinality(of(outs, p)) + 1 ELSE Cardinality(of(outs, p))
    <3>1. IsFiniteSet(of(outs, p)) /\ k \notin of(outs, p)
      BY <1>2, <1>3, FS_Subset DEF d
    <3>2. CASE p = o.pool
      <4>1. of(more, p) = of(outs, p) \cup {k}
        BY <1>1, <1>2, <3>2 DEF d, e
      <4>. QED
        BY <3>1, <3>2, <4>1, FS_AddElement
    <3>3. CASE p # o.pool
      <4>1. of(more, p) = of(outs, p)
        BY <1>1, <1>2, <3>3 DEF d, e
      <4>. QED
        BY <3>3, <4>1
    <3>. QED
      BY <3>2, <3>3
  <2>. QED
    BY <2>1 DEF Counts
<1>. DEFINE f == ValueAt(outs, d)
            g == ValueAt(more, e)
<1>5. Paid(outs) = Total(f, d) /\ Paid(more) = Total(g, e)
  BY <1>1, PaidAll DEF d, e
<1>6. /\ \A i \in d : f[i] = outs[i].value /\ f[i] \in Int
      /\ \A i \in e : g[i] = more[i].value /\ g[i] \in Int
  <2>1. \A i \in d : outs[i].value \in Int
    BY PlacesFinite, OutputFields DEF d
  <2>2. \A i \in e : more[i].value \in Int
    BY <1>1, PlacesFinite, OutputFields DEF e
  <2>. QED
    BY <2>1, <2>2 DEF ValueAt
<1>. HIDE DEF f, g
<1>7. Total(g, e) = g[k] + Total(g, d)
  <2>1. (\A i \in e : g[i] \in Int) /\ k \in e /\ e \ {k} = d
    BY <1>2, <1>6
  <2>2. \A i \in e : Total(g, e) = g[i] + Total(g, e \ {i})
    BY <1>3, <2>1, TotalRemove
  <2>. QED
    BY <2>1, <2>2
<1>8. Total(g, d) = Total(f, d) /\ Total(f, d) \in Int
  <2>1. \A i \in d : g[i] = f[i]
    BY <1>1, <1>2, <1>6
  <2>. QED
    BY <1>3, <1>6, <2>1, TotalSame, TotalRemove
<1>9. g[k] = o.value /\ o.value \in Int
  BY <1>1, <1>2, <1>6
<1>10. Paid(more) = Paid(outs) + o.value
  BY <1>5, <1>7, <1>8, <1>9
<1>. QED
  BY <1>1, <1>4, <1>10 DEF more

-----------------------------------------------------------------------------
\* A plan.

\* What PlanOf gives, of notes that are enough: the recipients' share and the
\* change are never below zero, and the change is what the search priced.
LEMMA PlanOfEnough ==
    ASSUME NEW S, NotesOK(S), NEW w, WishOK(w), ChangePools(S, w) # {},
           NEW p, p = PlanOf(S, w)
    PROVE  /\ p.notes = S /\ p.pool = ChangePool(S, w) /\ p.pool \in Pools
           /\ p.fee = FeeWithChange(S, p.pool, w) /\ p.fee \in Nat
           /\ p.outs \in Seq(Output) /\ Counts(p.outs) = Counts(w.outs)
           /\ (~w.payer => p.outs = w.outs)
           /\ p.change = ValueOf(S) - Needed(S, p.pool, w) /\ p.change \in Nat
           /\ ValueOf(S) = Paid(p.outs) + p.change + p.fee
<1>. DEFINE pool == ChangePool(S, w)
            fee == FeeWithChange(S, pool, w)
            less == [w.outs EXCEPT ![1].value = @ - fee]
            outs == IF w.payer THEN less ELSE w.outs
<1>1. p = [notes |-> S, outs |-> outs, pool |-> pool, fee |-> fee,
           change |-> ValueOf(S) - Paid(outs) - fee]
  BY DEF PlanOf
<1>2. pool \in Pools /\ pool \in ChangePools(S, w)
  BY ChangePoolBest
<1>3. Feasible(S, pool, w)
  BY <1>2 DEF ChangePools
<1>4. fee \in Nat /\ Needed(S, pool, w) \in Nat /\ ValueOf(S) \in Nat
  BY FeeWithChangeNat, ValueNat
<1>5. w.outs \in Seq(Output) /\ Paid(w.outs) \in Nat
  BY PaidNat DEF WishOK, Paid
<1>. HIDE DEF pool, fee
<1>6. CASE w.payer
  <2>1. fee <= w.outs[1].value /\ w.outs # <<>>
    BY <1>3, <1>6 DEF Feasible, WishOK, fee
  <2>2. less \in Seq(Output) /\ Paid(less) = Paid(w.outs) - fee /\ Counts(less) = Counts(w.outs)
    BY <1>4, <1>5, <2>1, FirstPays
  <2>3. ValueOf(S) >= Needed(S, pool, w) /\ Needed(S, pool, w) = Paid(w.outs)
    BY <1>3, <1>5, <1>6 DEF Feasible, Needed
  <2>4. outs = less
    BY <1>6
  <2>. HIDE DEF less
  <2>5. ValueOf(S) - Paid(outs) - fee = ValueOf(S) - Needed(S, pool, w)
    BY <1>4, <1>5, <2>2, <2>3, <2>4
  <2>6. /\ p.notes = S /\ p.pool = pool /\ p.fee = fee /\ p.outs = outs
        /\ p.change = ValueOf(S) - Paid(outs) - fee
    BY <1>1
  <2>. HIDE DEF outs
  <2>7. p.change = ValueOf(S) - Needed(S, pool, w) /\ p.change \in Nat
    BY <1>4, <2>3, <2>5, <2>6
  <2>8. ValueOf(S) = Paid(p.outs) + p.change + p.fee
    BY <1>4, <1>5, <2>2, <2>3, <2>4, <2>6, <2>7
  <2>. QED
    BY <1>2, <1>4, <1>6, <2>2, <2>4, <2>6, <2>7, <2>8 DEF fee, pool
<1>7. CASE ~w.payer
  <2>1. ValueOf(S) >= Needed(S, pool, w) /\ Needed(S, pool, w) = Paid(w.outs) + fee
    BY <1>3, <1>7 DEF Feasible, Needed, fee
  <2>2. outs = w.outs
    BY <1>7
  <2>3. /\ p.notes = S /\ p.pool = pool /\ p.fee = fee /\ p.outs = outs
        /\ p.change = ValueOf(S) - Paid(outs) - fee
    BY <1>1
  <2>. HIDE DEF outs
  <2>4. p.change = ValueOf(S) - Needed(S, pool, w) /\ p.change \in Nat
    BY <1>4, <1>5, <2>1, <2>2, <2>3
  <2>5. ValueOf(S) = Paid(p.outs) + p.change + p.fee
    BY <1>4, <1>5, <2>1, <2>2, <2>3, <2>4
  <2>. QED
    BY <1>2, <1>4, <1>5, <1>7, <2>2, <2>3, <2>4, <2>5 DEF fee, pool
<1>. QED
  BY <1>6, <1>7

\* The outputs of a plan, with its change.
LEMMA OutputsOfPlan ==
    ASSUME NEW p, p.outs \in Seq(Output), p.change \in Nat, p.pool \in Pools
    PROVE  /\ Outputs(p) \in Seq(Output)
           /\ Paid(Outputs(p)) = Paid(p.outs) + p.change
           /\ p.change = 0 => Outputs(p) = p.outs
           /\ p.change # 0 =>
                /\ Outputs(p) = p.outs \o <<[pool |-> p.pool, value |-> p.change, own |-> TRUE]>>
                /\ Counts(Outputs(p)) = [Counts(p.outs) EXCEPT ![p.pool] = @ + 1]
<1>. DEFINE o == [pool |-> p.pool, value |-> p.change, own |-> TRUE]
<1>1. o \in Output /\ o.value = p.change /\ o.pool = p.pool
  BY DEF Output
<1>2. Paid(p.outs) \in Nat
  BY PaidNat DEF Paid
<1>3. CASE p.change = 0
  <2>1. Outputs(p) = p.outs \o <<>>
    BY <1>3 DEF Outputs
  <2>2. Outputs(p) = p.outs
    BY <2>1
  <2>. QED
    BY <1>2, <1>3, <2>2
<1>4. CASE p.change # 0
  <2>1. Outputs(p) = p.outs \o <<o>>
    BY <1>4 DEF Outputs
  <2>. HIDE DEF o
  <2>2. /\ Outputs(p) \in Seq(Output)
        /\ Paid(Outputs(p)) = Paid(p.outs) + p.change
        /\ Counts(Outputs(p)) = [Counts(p.outs) EXCEPT ![p.pool] = @ + 1]
    BY <1>1, <2>1, OneMore
  <2>. QED
    BY <1>4, <2>1, <2>2 DEF o
<1>. QED
  BY <1>3, <1>4

\* Whether the builder makes all of the outputs.
AllBuilt(outs) == \A i \in DOMAIN outs : outs[i].pool = Transparent => outs[i].value # 0

\* Then what is built is what was counted.
LEMMA BuiltAll ==
    ASSUME NEW outs, AllBuilt(outs)
    PROVE  Built(outs) = Counts(outs)
<1>1. ASSUME NEW p \in Pools
      PROVE  {i \in DOMAIN outs : outs[i].pool = p /\ (p = Transparent => outs[i].value # 0)}
                 = {i \in DOMAIN outs : outs[i].pool = p}
  BY DEF AllBuilt
<1>. QED
  BY <1>1 DEF Built, Counts

\* A pool that counts nothing has no output.
LEMMA NoneCounted ==
    ASSUME NEW outs \in Seq(Output), NEW p \in Pools, Counts(outs)[p] = 0,
           NEW i \in DOMAIN outs
    PROVE  outs[i].pool # p
<1>1. IsFiniteSet({j \in DOMAIN outs : outs[j].pool = p})
  BY PlacesFinite, FS_Subset
<1>2. Cardinality({j \in DOMAIN outs : outs[j].pool = p}) = 0
  BY DEF Counts
<1>. QED
  BY <1>1, <1>2, FS_EmptySet

\* A change that is not zero is built, with the outputs before it.
LEMMA BuiltWithChange ==
    ASSUME NEW p, p.outs \in Seq(Output), p.change # 0, AllBuilt(p.outs)
    PROVE  AllBuilt(Outputs(p))
<1>. DEFINE o == [pool |-> p.pool, value |-> p.change, own |-> TRUE]
<1>1. Outputs(p) = p.outs \o <<o>> /\ o.value # 0
  BY DEF Outputs
<1>. HIDE DEF o
<1>2. \A i \in DOMAIN Outputs(p) : Outputs(p)[i] = IF i \in DOMAIN p.outs THEN p.outs[i] ELSE o
  BY <1>1
<1>. QED
  BY <1>1, <1>2 DEF AllBuilt

RequestOK(r) == r.outs \in Seq(Output) /\ (r.payer => r.outs # <<>>)

\* Every plan spends as much as it pays, change and fee included; nothing it
\* pays is below zero; and when there is change, and the builder drops no
\* output, it agrees with the fee that the search priced.
THEOREM PlansConserve ==
    ASSUME NEW notes, NotesOK(notes), NEW r, RequestOK(r), NEW tip, NEW cost \in Nat,
           NEW p \in Plans(notes, r, tip, cost)
    PROVE  /\ p.notes \subseteq Candidates(notes, r, tip) /\ p.pool \in Pools
           /\ p.fee \in Nat /\ p.change \in Nat
           /\ Outputs(p) \in Seq(Output)
           /\ ValueOf(p.notes) = Paid(Outputs(p)) + p.fee
           /\ ~r.payer => p.outs = r.outs
           /\ p.change # 0 /\ AllBuilt(p.outs) => Balances(p, r.migration, cost)
<1>. DEFINE w == [outs |-> r.outs, cost |-> cost, payer |-> r.payer, migration |-> r.migration]
<1>1. PICK S \in SelectNotes(Candidates(notes, r, tip), w) : p = PlanOf(S, w)
  BY DEF Plans
<1>2. S \subseteq Candidates(notes, r, tip) /\ ChangePools(S, w) # {}
  BY DEF SelectNotes
<1>3. NotesOK(S)
  BY <1>2, PartOK DEF Candidates
<1>4. WishOK(w) /\ w.outs = r.outs /\ w.migration = r.migration /\ w.cost = cost /\ w.payer = r.payer
  BY DEF WishOK, RequestOK
<1>. HIDE DEF w
<1>5. /\ p.notes = S /\ p.pool \in Pools
      /\ p.fee = FeeWithChange(S, p.pool, w) /\ p.fee \in Nat
      /\ p.outs \in Seq(Output) /\ Counts(p.outs) = Counts(w.outs)
      /\ (~r.payer => p.outs = r.outs)
      /\ p.change \in Nat
      /\ ValueOf(S) = Paid(p.outs) + p.change + p.fee
  BY <1>1, <1>2, <1>3, <1>4, PlanOfEnough
<1>6. Outputs(p) \in Seq(Output) /\ Paid(Outputs(p)) = Paid(p.outs) + p.change
  BY <1>5, OutputsOfPlan
<1>7. ASSUME p.change # 0, AllBuilt(p.outs) PROVE Balances(p, r.migration, cost)
  <2>1. Counts(Outputs(p)) = [Counts(w.outs) EXCEPT ![p.pool] = @ + 1]
    BY <1>5, <1>7, OutputsOfPlan
  <2>2. Built(Outputs(p)) = Counts(Outputs(p))
    BY <1>5, <1>7, BuiltAll, BuiltWithChange
  <2>. QED
    BY <1>4, <1>5, <2>1, <2>2 DEF Balances, FeeWithChange
<1>8. ValueOf(p.notes) = Paid(Outputs(p)) + p.fee
  BY <1>5, <1>6
<1>. QED
  BY <1>2, <1>5, <1>6, <1>7, <1>8

-----------------------------------------------------------------------------
\* The plan of a hop.

\* The sum over one element.
LEMMA TotalOne ==
    ASSUME NEW x, NEW f, f[x] \in Int
    PROVE  Total(f, {x}) = f[x]
<1>1. IsFiniteSet({x}) /\ IsFiniteSet({}) /\ {x} \ {x} = {} /\ \A y \in {x} : f[y] \in Int
  BY FS_Singleton, FS_EmptySet
<1>2. Total(f, {}) = 0
  BY <1>1, TotalSome
<1>3. \A y \in {x} : Total(f, {x}) = f[y] + Total(f, {x} \ {y})
  BY <1>1, TotalRemove
<1>4. Total(f, {x}) = f[x] + Total(f, {x} \ {x})
  BY <1>3
<1>5. Total(f, {x}) = f[x] + 0
  BY <1>1, <1>2, <1>4
<1>. QED
  BY <1>5

\* The value of no note, and of one.
LEMMA ValueOfFew ==
    /\ ValueOf({}) = 0
    /\ \A n : n.value \in Int => ValueOf({n}) = n.value
<1>1. ValueOf({}) = 0
  BY FS_EmptySet, ValueIsTotal, TotalSome
<1>2. ASSUME NEW n, n.value \in Int PROVE ValueOf({n}) = n.value
  <2>1. ValueIn({n})[n] = n.value
    BY DEF ValueIn
  <2>. QED
    BY <1>2, <2>1, FS_Singleton, ValueIsTotal, TotalOne
<1>. QED
  BY <1>1, <1>2

\* What one output pays, and to which pool.
LEMMA OneOutput ==
    ASSUME NEW o \in Output
    PROVE  /\ <<o>> \in Seq(Output)
           /\ Paid(<<o>>) = o.value
           /\ \A p : PaidTo(<<o>>, {p}) = IF o.pool = p THEN o.value ELSE 0
           /\ Counts(<<o>>) = [p \in Pools |-> IF o.pool = p THEN 1 ELSE 0]
<1>. DEFINE outs == <<o>>
            at(pools) == {i \in DOMAIN outs : outs[i].pool \in pools}
<1>1. outs \in Seq(Output) /\ DOMAIN outs = {1} /\ outs[1] = o
  OBVIOUS
<1>2. o.value \in Int /\ o.pool \in Pools
  BY OutputFields
<1>3. ASSUME NEW pools PROVE PaidTo(outs, pools) = IF o.pool \in pools THEN o.value ELSE 0
  <2>1. PaidTo(outs, pools) = Total(ValueAt(outs, at(pools)), at(pools))
    BY <1>1, PlacesFinite, PaidIsTotal
  <2>2. CASE o.pool \in pools
    <3>1. at(pools) = {1}
      BY <1>1, <2>2
    <3>2. ValueAt(outs, {1})[1] = o.value
      BY <1>1 DEF ValueAt
    <3>. QED
      BY <1>2, <2>1, <2>2, <3>1, <3>2, TotalOne
  <2>3. CASE o.pool \notin pools
    <3>1. at(pools) = {}
      BY <1>1, <2>3
    <3>. QED
      BY <2>1, <2>3, <3>1, FS_EmptySet, TotalSome
  <2>. QED
    BY <2>2, <2>3
<1>4. ASSUME NEW p PROVE Cardinality({i \in DOMAIN outs : outs[i].pool = p}) = IF o.pool = p THEN 1 ELSE 0
  <2>1. CASE o.pool = p
    <3>1. {i \in DOMAIN outs : outs[i].pool = p} = {1}
      BY <1>1, <2>1
    <3>. QED
      BY <2>1, <3>1, FS_Singleton
  <2>2. CASE o.pool # p
    <3>1. {i \in DOMAIN outs : outs[i].pool = p} = {}
      BY <1>1, <2>2
    <3>. QED
      BY <2>2, <3>1, FS_EmptySet
  <2>. QED
    BY <2>1, <2>2
<1>. HIDE DEF outs
<1>5. Counts(outs) = [p \in Pools |-> IF o.pool = p THEN 1 ELSE 0]
  BY <1>4 DEF Counts
<1>6. Paid(outs) = o.value /\ \A p : PaidTo(outs, {p}) = IF o.pool = p THEN o.value ELSE 0
  BY <1>2, <1>3 DEF Paid
<1>. QED
  BY <1>1, <1>5, <1>6 DEF outs

\* The wish of a hop: one output in Ironwood, in the way of a migration.
HopWish(w) ==
    /\ \E o \in Output : w.outs = <<o>> /\ o.pool = Ironwood /\ o.value > 0
    /\ w.cost \in Nat /\ w.cost > 0 /\ ~w.payer /\ w.migration

\* The pools are four.
LEMMA PoolsApart ==
    /\ Transparent = 0 /\ Sapling = 1 /\ Orchard = 2 /\ Ironwood = 3
    /\ Pools = {0, 1, 2, 3}
  BY DEF Pools, Transparent, Sapling, Orchard, Ironwood

\* The actions of a transaction that spends one Orchard note and pays one
\* output to Ironwood, its change anywhere or nowhere.
LEMMA HopActions ==
    ASSUME NEW n, n.pool = Orchard, NEW counts \in [Pools -> Nat],
           counts[Transparent] <= 1, counts[Sapling] <= 1, counts[Orchard] <= 1,
           counts[Ironwood] \in {1, 2}, NEW m, m
    PROVE  LogicalActions({n}, counts, m) =
               counts[Transparent] + (IF counts[Sapling] = 0 THEN 0 ELSE 2) + 4
<1>1. Of({n}, Orchard) = {n} /\ \A p : p # Orchard => Of({n}, p) = {}
  BY DEF Of
<1>2. Cardinality(Of({n}, Orchard)) = 1 /\ \A p : p # Orchard => Cardinality(Of({n}, p)) = 0
  BY <1>1, FS_Singleton, FS_EmptySet
<1>3. ByteActions(Of({n}, Transparent)) = 0
  BY <1>1, PoolsApart, FS_EmptySet, BytesNat
<1>4. /\ counts[Transparent] \in Nat /\ counts[Sapling] \in Nat
      /\ counts[Orchard] \in Nat /\ counts[Ironwood] \in Nat
  BY PoolsApart
<1>5. \A a \in Nat : Max({0, a}) = a
  BY MaxOfTwo
<1>6. \A a \in Nat : Padded(a) = IF a = 0 THEN 0 ELSE IF a >= 2 THEN a ELSE 2
  BY MaxOfTwo DEF Padded
<1>7. LogicalActions({n}, counts, m) =
        Max({2, counts[Transparent] + Padded(counts[Sapling]) + Padded(1 + counts[Orchard])
                    + Padded(counts[Ironwood])})
  <2>1. /\ Max({Cardinality(Of({n}, Sapling)), counts[Sapling]}) = counts[Sapling]
        /\ Max({Cardinality(Of({n}, Ironwood)), counts[Ironwood]}) = counts[Ironwood]
        /\ Max({ByteActions(Of({n}, Transparent)), counts[Transparent]}) = counts[Transparent]
    BY <1>2, <1>3, <1>4, <1>5, PoolsApart
  <2>2. Cardinality(Of({n}, Orchard)) + counts[Orchard] = 1 + counts[Orchard]
    BY <1>2
  <2>. QED
    BY <2>1, <2>2 DEF LogicalActions
<1>8. /\ Padded(counts[Sapling]) = IF counts[Sapling] = 0 THEN 0 ELSE 2
      /\ Padded(1 + counts[Orchard]) = 2 /\ Padded(counts[Ironwood]) = 2
  BY <1>4, <1>6
<1>9. PICK k \in Nat : k = counts[Transparent] + (IF counts[Sapling] = 0 THEN 0 ELSE 2) + 4
  BY <1>4
<1>10. LogicalActions({n}, counts, m) = Max({2, k}) /\ k >= 2
  <2>1. counts[Transparent] + Padded(counts[Sapling]) + Padded(1 + counts[Orchard])
            + Padded(counts[Ironwood]) = k
    BY <1>4, <1>8, <1>9
  <2>2. k >= 2
    BY <1>4, <1>9
  <2>. QED
    BY <1>7, <2>1, <2>2
<1>11. Max({2, k}) = k
  <2>1. Max({2, k}) = IF 2 >= k THEN 2 ELSE k
    BY <1>9, MaxOfTwo
  <2>. QED
    BY <1>9, <1>10, <2>1
<1>. QED
  BY <1>9, <1>10, <1>11

\* The fee of a hop by the pool of its change, and without a change.
LEMMA HopFees ==
    ASSUME NEW n, n.pool = Orchard, NEW w, HopWish(w)
    PROVE  /\ FeeWithChange({n}, Transparent, w) = 5 * w.cost
           /\ FeeWithChange({n}, Sapling, w) = 6 * w.cost
           /\ FeeWithChange({n}, Orchard, w) = 4 * w.cost
           /\ FeeWithChange({n}, Ironwood, w) = 4 * w.cost
           /\ Fee({n}, Counts(w.outs), w.migration, w.cost) = 4 * w.cost
<1>1. Counts(w.outs) = [p \in Pools |-> IF Ironwood = p THEN 1 ELSE 0]
  BY OneOutput DEF HopWish
<1>. DEFINE c(cp) == [Counts(w.outs) EXCEPT ![cp] = @ + 1]
<1>2. ASSUME NEW cp \in Pools
      PROVE  /\ c(cp) \in [Pools -> Nat]
             /\ \A p \in Pools : c(cp)[p] = (IF p = Ironwood THEN 1 ELSE 0) + (IF p = cp THEN 1 ELSE 0)
  <2>1. c(cp) = [p \in Pools |-> (IF p = Ironwood THEN 1 ELSE 0) + (IF p = cp THEN 1 ELSE 0)]
    BY <1>1
  <2>2. \A p \in Pools : (IF p = Ironwood THEN 1 ELSE 0) + (IF p = cp THEN 1 ELSE 0) \in Nat
    OBVIOUS
  <2>. HIDE DEF c
  <2>. QED
    BY <2>1, <2>2
<1>3. Transparent \in Pools /\ Sapling \in Pools /\ Orchard \in Pools /\ Ironwood \in Pools
  BY PoolsApart
<1>. HIDE DEF c
<1>4. /\ LogicalActions({n}, c(Transparent), w.migration) = 5
      /\ LogicalActions({n}, c(Sapling), w.migration) = 6
      /\ LogicalActions({n}, c(Orchard), w.migration) = 4
      /\ LogicalActions({n}, c(Ironwood), w.migration) = 4
  <2>1. ASSUME NEW cp \in Pools
        PROVE  LogicalActions({n}, c(cp), w.migration) =
                   (IF cp = Transparent THEN 1 ELSE 0) + (IF cp = Sapling THEN 2 ELSE 0) + 4
    <3>1. /\ c(cp)[Transparent] = (IF cp = Transparent THEN 1 ELSE 0)
          /\ c(cp)[Sapling] = (IF cp = Sapling THEN 1 ELSE 0)
          /\ c(cp)[Orchard] = (IF cp = Orchard THEN 1 ELSE 0)
          /\ c(cp)[Ironwood] = (IF cp = Ironwood THEN 2 ELSE 1)
      BY <1>2, <1>3, PoolsApart
    <3>2. PICK d \in [Pools -> Nat] : d = c(cp)
      BY <1>2
    <3>3. d[Transparent] <= 1 /\ d[Sapling] <= 1 /\ d[Orchard] <= 1 /\ d[Ironwood] \in {1, 2}
      BY <3>1, <3>2
    <3>4. LogicalActions({n}, d, w.migration) =
            d[Transparent] + (IF d[Sapling] = 0 THEN 0 ELSE 2) + 4
      BY <3>3, HopActions DEF HopWish
    <3>. QED
      BY <3>1, <3>2, <3>4
  <2>2. /\ Transparent # Sapling /\ Transparent # Orchard /\ Transparent # Ironwood
        /\ Sapling # Orchard /\ Sapling # Ironwood
    BY PoolsApart
  <2>3. LogicalActions({n}, c(Transparent), w.migration) = 5
    BY <1>3, <2>1, <2>2
  <2>4. LogicalActions({n}, c(Sapling), w.migration) = 6
    BY <1>3, <2>1, <2>2
  <2>5. LogicalActions({n}, c(Orchard), w.migration) = 4
    BY <1>3, <2>1, <2>2
  <2>6. LogicalActions({n}, c(Ironwood), w.migration) = 4
    BY <1>3, <2>1, <2>2
  <2>. QED
    BY <2>3, <2>4, <2>5, <2>6
<1>5. LogicalActions({n}, Counts(w.outs), w.migration) = 4
  <2>1. /\ Counts(w.outs) \in [Pools -> Nat]
        /\ Counts(w.outs)[Transparent] = 0 /\ Counts(w.outs)[Sapling] = 0
        /\ Counts(w.outs)[Orchard] = 0 /\ Counts(w.outs)[Ironwood] = 1
    BY <1>1, <1>3, PoolsApart
  <2>2. PICK d \in [Pools -> Nat] : d = Counts(w.outs)
    BY <2>1
  <2>3. d[Transparent] = 0 /\ d[Sapling] = 0 /\ d[Orchard] = 0 /\ d[Ironwood] = 1
    BY <2>1, <2>2
  <2>4. d[Transparent] <= 1 /\ d[Sapling] <= 1 /\ d[Orchard] <= 1 /\ d[Ironwood] \in {1, 2}
    BY <2>3
  <2>5. LogicalActions({n}, d, w.migration) = d[Transparent] + (IF d[Sapling] = 0 THEN 0 ELSE 2) + 4
    BY <2>4, HopActions DEF HopWish
  <2>6. LogicalActions({n}, d, w.migration) = 4
    BY <2>3, <2>5
  <2>. QED
    BY <2>2, <2>6
<1>8. w.cost \in Nat
  BY DEF HopWish
<1>9. \A k \in Nat : w.cost * k = k * w.cost
  BY <1>8
<1>10. \A cp : FeeWithChange({n}, cp, w) = w.cost * LogicalActions({n}, c(cp), w.migration)
  BY DEF FeeWithChange, Fee, c
<1>11. Fee({n}, Counts(w.outs), w.migration, w.cost) = w.cost * LogicalActions({n}, Counts(w.outs), w.migration)
  BY DEF Fee
<1>. QED
  BY <1>4, <1>5, <1>9, <1>10, <1>11

\* What crosses between pools in a hop, by the pool of its change.
LEMMA HopTurnstiles ==
    ASSUME NEW n, n.pool = Orchard, n.value \in Nat, NEW w, HopWish(w),
           NEW cp \in Pools, n.value >= Needed({n}, cp, w)
    PROVE  LET v == Paid(w.outs)
               V == n.value
               change == V - Needed({n}, cp, w)
           IN  /\ cp = Transparent => Turnstile({n}, cp, w) = V + v
               /\ cp = Sapling => Turnstile({n}, cp, w) = change + V + v
               /\ cp = Orchard => Turnstile({n}, cp, w) = V - change + v
               /\ cp = Ironwood => Turnstile({n}, cp, w) = V + v + change
<1>0. WishOK(w) /\ NotesOK({n})
  BY OneOutput, FS_Singleton, PoolsApart DEF HopWish, WishOK, NotesOK
<1>v. PICK v \in Nat : v = Paid(w.outs)
  BY <1>0, PaidNat DEF Paid, WishOK
<1>n. PICK V \in Nat : V = n.value
  OBVIOUS
<1>c. PICK change \in Nat : change = n.value - Needed({n}, cp, w) /\ change <= V
  <2>1. Needed({n}, cp, w) \in Nat
    BY <1>0, FeeWithChangeNat
  <2>. QED
    BY <1>n, <2>1
<1>1. PICK o \in Output : w.outs = <<o>> /\ o.pool = Ironwood
  BY DEF HopWish
<1>2. o.value = v /\ \A p : PaidTo(w.outs, {p}) = IF p = Ironwood THEN v ELSE 0
  BY <1>1, <1>v, OneOutput
<1>3. Of({n}, Orchard) = {n} /\ \A p : p # Orchard => Of({n}, p) = {}
  BY DEF Of
<1>5. ValueOf({n}) = V
  BY <1>n, ValueOfFew
<1>4. \A p : ValueOf(Of({n}, p)) = IF p = Orchard THEN V ELSE 0
  <2>1. ValueOf({}) = 0
    BY ValueOfFew
  <2>. QED
    BY <1>3, <1>5, <2>1
<1>6. \A a \in Int : Max({a, -a}) = IF a >= 0 THEN a ELSE -a
  <2>. TAKE a \in Int
  <2>1. Max({a, -a}) = IF a >= -a THEN a ELSE -a
    BY MaxOfTwo
  <2>. QED
    BY <2>1
<1>. DEFINE balance(p) == (IF p = Orchard THEN V ELSE 0) - (IF p = Ironwood THEN v ELSE 0)
                             - (IF p = cp THEN change ELSE 0)
<1>7. ASSUME NEW p PROVE Off({n}, cp, w, p) = Max({balance(p), -balance(p)})
  BY <1>2, <1>4, <1>5, <1>n, <1>c DEF Off
<1>8. ASSUME NEW p PROVE Off({n}, cp, w, p) = IF balance(p) >= 0 THEN balance(p) ELSE -balance(p)
  <2>1. balance(p) \in Int
    OBVIOUS
  <2>. HIDE DEF balance
  <2>. QED
    BY <1>6, <1>7, <2>1
<1>9. /\ Transparent # Sapling /\ Transparent # Orchard /\ Transparent # Ironwood
      /\ Sapling # Orchard /\ Sapling # Ironwood /\ Orchard # Ironwood
      /\ cp \in {Transparent, Sapling, Orchard, Ironwood}
  BY PoolsApart
<1>10. Off({n}, cp, w, Sapling) = IF cp = Sapling THEN change ELSE 0
  <2>1. PICK b \in Int : b = balance(Sapling) /\ b = IF cp = Sapling THEN 0 - change ELSE 0
    BY <1>9
  <2>. HIDE DEF balance
  <2>2. Off({n}, cp, w, Sapling) = IF b >= 0 THEN b ELSE -b
    BY <1>8, <2>1
  <2>. QED
    BY <2>1, <2>2
<1>11. Off({n}, cp, w, Ironwood) = IF cp = Ironwood THEN v + change ELSE v
  <2>0. balance(Ironwood) = 0 - v - IF cp = Ironwood THEN change ELSE 0
    BY <1>9
  <2>. HIDE DEF balance
  <2>1. PICK b \in Int : b = balance(Ironwood) /\ b = IF cp = Ironwood THEN 0 - v - change ELSE 0 - v
    <3>1. CASE cp = Ironwood
      BY <2>0, <3>1
    <3>2. CASE cp # Ironwood
      BY <2>0, <3>2
    <3>. QED
      BY <3>1, <3>2
  <2>2. Off({n}, cp, w, Ironwood) = IF b >= 0 THEN b ELSE -b
    BY <1>8, <2>1
  <2>. QED
    BY <2>1, <2>2
<1>12. Off({n}, cp, w, Orchard) =
          IF cp = Orchard THEN V - change ELSE V
  <2>1. PICK b \in Nat : b = balance(Orchard) /\ b = IF cp = Orchard THEN V - change ELSE V
    BY <1>9, <1>c
  <2>. HIDE DEF balance
  <2>2. Off({n}, cp, w, Orchard) = IF b >= 0 THEN b ELSE -b
    BY <1>8, <2>1
  <2>. QED
    BY <2>1, <2>2
<1>13. ValueOf(Of({n}, Transparent)) = 0 /\ PaidTo(w.outs, {Transparent}) = 0
  BY <1>2, <1>4, <1>9
<1>14. Turnstile({n}, cp, w) = 0 + 0
          + (Off({n}, cp, w, Sapling) + (Off({n}, cp, w, Orchard) + Off({n}, cp, w, Ironwood)))
  BY <1>0, <1>13, TurnstileIs
<1>15. CASE cp = Transparent
  BY <1>9, <1>10, <1>11, <1>12, <1>14, <1>15, <1>v, <1>n, <1>c
<1>16. CASE cp = Sapling
  BY <1>9, <1>10, <1>11, <1>12, <1>14, <1>16, <1>v, <1>n, <1>c
<1>17. CASE cp = Orchard
  BY <1>9, <1>10, <1>11, <1>12, <1>14, <1>17, <1>v, <1>n, <1>c
<1>18. CASE cp = Ironwood
  BY <1>9, <1>10, <1>11, <1>12, <1>14, <1>18, <1>v, <1>n, <1>c
<1>. QED
  BY <1>9, <1>15, <1>16, <1>17, <1>18

\* The change of a hop stays in Orchard: no other pool lets less cross, and
\* Ironwood, which lets as much cross when there is none, comes after it.
LEMMA HopPool ==
    ASSUME NEW n, n.pool = Orchard, n.value \in Nat, NEW w, HopWish(w), ChangePools({n}, w) # {}
    PROVE  /\ ChangePool({n}, w) = Orchard
           /\ Feasible({n}, Orchard, w)
<1>0. WishOK(w) /\ NotesOK({n})
  BY OneOutput, FS_Singleton, PoolsApart DEF HopWish, WishOK, NotesOK
<1>1. PICK v \in Nat : v = Paid(w.outs) /\ v > 0
  BY OneOutput, OutputFields DEF HopWish
<1>2. PICK c \in Nat : c = w.cost /\ c > 0
  BY DEF HopWish
<1>3. ~w.payer
  BY DEF HopWish
<1>4. /\ FeeWithChange({n}, Transparent, w) = 5 * c /\ FeeWithChange({n}, Sapling, w) = 6 * c
      /\ FeeWithChange({n}, Orchard, w) = 4 * c /\ FeeWithChange({n}, Ironwood, w) = 4 * c
  BY <1>2, HopFees
<1>5. PICK V \in Nat : V = n.value /\ V = ValueOf({n})
  BY ValueOfFew
<1>. DEFINE D == ChangePools({n}, w)
            score == Scores({n}, w)
<1>6. \A cp : Needed({n}, cp, w) = v + FeeWithChange({n}, cp, w)
  BY <1>1, <1>3 DEF Needed
<1>7. ASSUME NEW cp \in Pools, NEW k \in Nat, FeeWithChange({n}, cp, w) = k
      PROVE  cp \in D <=> V >= v + k
  BY <1>3, <1>5, <1>6, <1>7 DEF ChangePools, Feasible
<1>8. /\ Transparent \in Pools /\ Sapling \in Pools /\ Orchard \in Pools /\ Ironwood \in Pools
      /\ Pools = {Transparent, Sapling, Orchard, Ironwood}
      /\ Transparent # Sapling /\ Transparent # Orchard /\ Transparent # Ironwood
      /\ Sapling # Orchard /\ Sapling # Ironwood /\ Orchard # Ironwood
  BY PoolsApart
<1>9. /\ Transparent \in D <=> V >= v + 5 * c
      /\ Sapling \in D <=> V >= v + 6 * c
      /\ Orchard \in D <=> V >= v + 4 * c
      /\ Ironwood \in D <=> V >= v + 4 * c
  <2>1. 5 * c \in Nat /\ 6 * c \in Nat /\ 4 * c \in Nat
    OBVIOUS
  <2>. HIDE DEF D
  <2>. QED
    BY <1>4, <1>7, <1>8, <2>1
<1>10. D \subseteq Pools
  BY DEF ChangePools
<1>11. V >= v + 4 * c /\ Orchard \in D
  <2>1. PICK cp : cp \in D
    OBVIOUS
  <2>2. cp \in {Transparent, Sapling, Orchard, Ironwood}
    BY <1>8, <1>10, <2>1
  <2>. HIDE DEF D
  <2>. QED
    BY <1>9, <2>1, <2>2
<1>12. ASSUME NEW cp \in D, NEW k \in Nat, FeeWithChange({n}, cp, w) = k, NEW d, d = V - (v + k)
       PROVE  /\ d \in Nat
              /\ cp = Transparent => score[cp] = <<V + v, k>>
              /\ cp = Sapling => score[cp] = <<d + V + v, k>>
              /\ cp = Orchard => score[cp] = <<V - d + v, k>>
              /\ cp = Ironwood => score[cp] = <<V + v + d, k>>
  <2>1. score[cp] = <<Turnstile({n}, cp, w), k>>
    BY <1>12 DEF Scores
  <2>2. V >= v + k
    BY <1>7, <1>10, <1>12
  <2>3. Needed({n}, cp, w) = v + k
    BY <1>6, <1>12
  <2>4. n.value >= Needed({n}, cp, w)
    BY <1>5, <2>2, <2>3
  <2>5. cp \in Pools
    BY <1>10
  <2>6. n.value - Needed({n}, cp, w) = d
    BY <1>5, <1>12, <2>3
  <2>7. /\ cp = Transparent => Turnstile({n}, cp, w) = n.value + Paid(w.outs)
        /\ cp = Sapling => Turnstile({n}, cp, w) = (n.value - Needed({n}, cp, w)) + n.value + Paid(w.outs)
        /\ cp = Orchard => Turnstile({n}, cp, w) = n.value - (n.value - Needed({n}, cp, w)) + Paid(w.outs)
        /\ cp = Ironwood => Turnstile({n}, cp, w) = n.value + Paid(w.outs) + (n.value - Needed({n}, cp, w))
    BY <2>4, <2>5, HopTurnstiles
  <2>8. d \in Nat
    BY <1>12, <2>2
  <2>9. n.value = V /\ Paid(w.outs) = v
    BY <1>1, <1>5
  <2>. HIDE DEF score
  <2>. QED
    BY <2>1, <2>6, <2>7, <2>8, <2>9, Zenon
<1>13. score[Orchard] = <<v + v + 4 * c, 4 * c>>
  <2>1. PICK k \in Nat : k = 4 * c
    OBVIOUS
  <2>2. PICK d \in Int : d = V - (v + k)
    OBVIOUS
  <2>3. Orchard \in D /\ FeeWithChange({n}, Orchard, w) = k
    BY <1>4, <1>11, <2>1
  <2>4. score[Orchard] = <<V - d + v, k>>
    BY <1>12, <2>2, <2>3
  <2>5. V - d + v = v + v + k
    BY <2>2
  <2>. QED
    BY <2>1, <2>4, <2>5
<1>14. ASSUME Ironwood \in D PROVE score[Ironwood] = <<V + v + (V - (v + 4 * c)), 4 * c>>
  <2>1. PICK k \in Nat : k = 4 * c
    OBVIOUS
  <2>2. PICK d \in Int : d = V - (v + k)
    OBVIOUS
  <2>3. Ironwood \in D /\ FeeWithChange({n}, Ironwood, w) = k
    BY <1>4, <1>14, <2>1
  <2>4. score[Ironwood] = <<V + v + d, k>>
    BY <1>12, <2>2, <2>3
  <2>. QED
    BY <2>1, <2>2, <2>4
<1>15. ASSUME Transparent \in D PROVE score[Transparent] = <<V + v, 5 * c>>
  <2>1. PICK k \in Nat : k = 5 * c
    OBVIOUS
  <2>2. PICK d \in Int : d = V - (v + k)
    OBVIOUS
  <2>3. Transparent \in D /\ FeeWithChange({n}, Transparent, w) = k
    BY <1>4, <1>15, <2>1
  <2>4. score[Transparent] = <<V + v, k>>
    BY <1>12, <2>2, <2>3
  <2>. QED
    BY <2>1, <2>2, <2>4
<1>16. ASSUME Sapling \in D PROVE score[Sapling] = <<(V - (v + 6 * c)) + V + v, 6 * c>>
  <2>1. PICK k \in Nat : k = 6 * c
    OBVIOUS
  <2>2. PICK d \in Int : d = V - (v + k)
    OBVIOUS
  <2>3. Sapling \in D /\ FeeWithChange({n}, Sapling, w) = k
    BY <1>4, <1>16, <2>1
  <2>4. score[Sapling] = <<d + V + v, k>>
    BY <1>12, <2>2, <2>3
  <2>. QED
    BY <2>1, <2>2, <2>4
<1>. HIDE DEF D, score
<1>17. ASSUME NEW q \in D PROVE ~Better(score[q], score[Orchard])
  <2>1. q \in {Transparent, Sapling, Orchard, Ironwood}
    BY <1>8, <1>10
  <2>2. CASE q = Transparent
    BY <1>2, <1>9, <1>13, <1>15, <1>17, <2>2 DEF Better
  <2>3. CASE q = Sapling
    BY <1>2, <1>9, <1>13, <1>16, <1>17, <2>3 DEF Better
  <2>4. CASE q = Orchard
    BY <1>13, <2>4 DEF Better
  <2>5. CASE q = Ironwood
    BY <1>2, <1>9, <1>13, <1>14, <1>17, <2>5 DEF Better
  <2>. QED
    BY <2>1, <2>2, <2>3, <2>4, <2>5
<1>18. Transparent \in D => Better(score[Orchard], score[Transparent])
  BY <1>2, <1>9, <1>13, <1>15 DEF Better
<1>19. Sapling \in D => Better(score[Orchard], score[Sapling])
  BY <1>2, <1>9, <1>13, <1>16 DEF Better
<1>20. /\ ChangePool({n}, w) \in D
       /\ \A q \in D : ~Better(score[q], score[ChangePool({n}, w)])
       /\ \A q \in D : (\A o \in D : ~Better(score[o], score[q])) => ChangePool({n}, w) =< q
  BY <1>0, ChangePoolBest DEF D, score, BestScore
<1>21. ChangePool({n}, w) =< Orchard
  BY <1>11, <1>17, <1>20
<1>22. ChangePool({n}, w) \in {Transparent, Sapling, Orchard, Ironwood}
  BY <1>8, <1>10, <1>20
<1>23. ChangePool({n}, w) # Transparent /\ ChangePool({n}, w) # Sapling
  BY <1>11, <1>18, <1>19, <1>20
<1>24. ChangePool({n}, w) = Orchard
  BY <1>21, <1>22, <1>23 DEF Orchard, Ironwood
<1>. QED
  BY <1>11, <1>24 DEF D, ChangePools

-----------------------------------------------------------------------------
\* The request of a hop: one output in Ironwood, from Orchard, in the way of a
\* migration.
HopRequest(r) ==
    /\ \E o \in Output : r.outs = <<o>> /\ o.pool = Ironwood /\ o.value > 0
    /\ r.payer = FALSE /\ r.migration = TRUE /\ r.pools = {Orchard}

\* Whatever the search returns for a hop spends its note and keeps the change
\* in Orchard.
LEMMA HopPlans ==
    ASSUME NEW notes, NotesOK(notes), NEW r, HopRequest(r),
           NEW n, \A m \in notes : m.id \in r.notes => m = n,
           NEW tip, NEW cost \in Nat, cost > 0, NEW p \in Plans(notes, r, tip, cost)
    PROVE  /\ p.notes = {n} /\ n \in notes /\ n.id \in r.notes
           /\ p.pool = Orchard /\ p.outs = r.outs
<1>. DEFINE w == [outs |-> r.outs, cost |-> cost, payer |-> r.payer, migration |-> r.migration]
            all == Candidates(notes, r, tip)
<1>1. HopWish(w) /\ WishOK(w)
  <2>1. r.outs \in Seq(Output)
    BY OneOutput DEF HopRequest
  <2>. QED
    BY <2>1 DEF HopRequest, HopWish, WishOK
<1>2. PICK S \in SelectNotes(all, w) : p = PlanOf(S, w)
  BY DEF Plans
<1>3. S \subseteq all /\ ChangePools(S, w) # {}
  BY <1>2 DEF SelectNotes
<1>4. \A m \in all : m = n /\ m \in notes /\ m.id \in r.notes /\ m.pool = Orchard
  BY DEF Candidates, HopRequest
<1>5. S # {}
  <2>. SUFFICES ASSUME S = {} PROVE FALSE
    OBVIOUS
  <2>0. NotesOK(S)
    BY FS_EmptySet DEF NotesOK
  <2>1. PICK cp \in Pools : Feasible(S, cp, w)
    BY <1>3 DEF ChangePools
  <2>2. ValueOf(S) = 0
    BY ValueOfFew
  <2>3. FeeWithChange(S, cp, w) \in Nat
    BY <1>1, <2>0, FeeWithChangeNat
  <2>4. Paid(w.outs) > 0 /\ Paid(w.outs) \in Nat
    BY <1>1, OneOutput, OutputFields DEF HopWish
  <2>5. Needed(S, cp, w) = Paid(w.outs) + FeeWithChange(S, cp, w)
    BY <1>1 DEF Needed, HopWish
  <2>. HIDE DEF w
  <2>. QED
    BY <2>1, <2>2, <2>3, <2>4, <2>5 DEF Feasible
<1>6. S = {n} /\ n \in notes /\ n.id \in r.notes /\ n.pool = Orchard
  BY <1>3, <1>4, <1>5
<1>7. n.value \in Nat /\ NotesOK(S)
  BY <1>6, PartOK DEF NotesOK
<1>8. ChangePool(S, w) = Orchard
  BY <1>1, <1>3, <1>6, <1>7, HopPool
<1>9. p.notes = S /\ p.pool = ChangePool(S, w) /\ (~w.payer => p.outs = w.outs)
  BY <1>1, <1>2, <1>3, <1>7, PlanOfEnough
<1>. QED
  BY <1>1, <1>6, <1>8, <1>9 DEF HopWish

\* The outputs of a plan are the recipients', and one to the pool of the change.
LEMMA OutputsAt ==
    ASSUME NEW p, p.outs \in Seq(Output), p.change \in Nat, p.pool \in Pools
    PROVE  \A i \in DOMAIN Outputs(p) :
               \/ i \in DOMAIN p.outs /\ Outputs(p)[i] = p.outs[i]
               \/ i \notin DOMAIN p.outs /\ Outputs(p)[i].pool = p.pool
<1>. DEFINE o == [pool |-> p.pool, value |-> p.change, own |-> TRUE]
            more == p.outs \o <<o>>
<1>1. o \in Output /\ o.pool = p.pool
  BY DEF Output
<1>2. CASE p.change = 0
  BY <1>2, OutputsOfPlan
<1>3. CASE p.change # 0
  <2>1. Outputs(p) = more
    BY <1>3, OutputsOfPlan
  <2>. HIDE DEF o
  <2>2. /\ DOMAIN p.outs = 1..Len(p.outs) /\ DOMAIN more = 1..(Len(p.outs) + 1)
        /\ Len(p.outs) \in Nat /\ more[Len(p.outs) + 1] = o
        /\ \A i \in DOMAIN p.outs : more[i] = p.outs[i]
    BY <1>1
  <2>. HIDE DEF more
  <2>3. ASSUME NEW i \in DOMAIN more, i \notin DOMAIN p.outs PROVE more[i].pool = p.pool
    BY <1>1, <2>2, <2>3
  <2>. QED
    BY <2>1, <2>2, <2>3
<1>. QED
  BY <1>2, <1>3

-----------------------------------------------------------------------------
\* The denominations of a split.

\* A set of numbers up to a bound has a greatest.
LEMMA Greatest ==
    ASSUME NEW k \in Nat, NEW S \in SUBSET (0..k), S # {}
    PROVE  \E n \in S : \A m \in (n + 1)..k : m \notin S
<1>. DEFINE R == OpToRel(<, Nat)
            T == {k - n : n \in S}
<1>1. IsWellFoundedOn(R, Nat)
  BY NatLessThanWellFounded, Zenon
<1>2. \A y, x \in Nat : y < x => <<y, x>> \in R
  BY DEF OpToRel
<1>3. T \subseteq Nat /\ T # {}
  <2>1. \A n \in 0..k : k - n \in Nat
    OBVIOUS
  <2>2. T # {}
    OBVIOUS
  <2>. QED
    BY <2>1, <2>2
<1>. HIDE DEF R, T
<1>4. PICK x \in T : \A y \in T : <<y, x>> \notin R
  BY <1>1, <1>3, WFMin
<1>5. PICK n \in S : x = k - n
  BY <1>4 DEF T
<1>6. ASSUME NEW m \in (n + 1)..k, m \in S PROVE FALSE
  <2>1. k - m \in T
    BY <1>6 DEF T
  <2>2. k - m \in Nat /\ x \in Nat /\ k - m < x
    BY <1>3, <1>5, <1>6, <2>1
  <2>. QED
    BY <1>2, <1>4, <2>1, <2>2
<1>. QED
  BY <1>5, <1>6

\* What is left after each denomination, and the notes cut so far.
LeftIs(l, total, d) ==
    l = [k \in 5..9 |-> IF k > 8 THEN total ELSE l[k + 1] % d[k]]
Cut(n, v) == [i \in 1..n |-> v]
UnitsIs(u, l, d) ==
    u = [k \in 5..9 |-> IF k > 8 THEN <<>> ELSE u[k + 1] \o Cut(l[k + 1] \div d[k], d[k])]

\* They are defined, a denomination at a time.
LEMMA LeftExists ==
    ASSUME NEW total, NEW d
    PROVE  \E l : LeftIs(l, total, d)
<1>. DEFINE l8 == total % d[8]
            l7 == l8 % d[7]
            l6 == l7 % d[6]
            l5 == l6 % d[5]
            l == [k \in 5..9 |-> IF k = 9 THEN total ELSE IF k = 8 THEN l8
                                 ELSE IF k = 7 THEN l7 ELSE IF k = 6 THEN l6 ELSE l5]
<1>1. l[9] = total /\ l[8] = l8 /\ l[7] = l7 /\ l[6] = l6 /\ l[5] = l5
  OBVIOUS
<1>. HIDE DEF l
<1>2. \A k \in 5..9 : l[k] = IF k > 8 THEN total ELSE l[k + 1] % d[k]
  <2>1. \A k \in 5..9 : k = 9 \/ k = 8 \/ k = 7 \/ k = 6 \/ k = 5
    OBVIOUS
  <2>. QED
    BY <1>1, <2>1
<1>3. LeftIs(l, total, d)
  <2>1. l = [k \in 5..9 |-> l[k]]
    BY DEF l
  <2>. QED
    BY <1>2, <2>1 DEF LeftIs
<1>. QED
  BY <1>3

\* So are the notes cut so far.
LEMMA UnitsExist ==
    ASSUME NEW l, NEW d
    PROVE  \E u : UnitsIs(u, l, d)
<1>. DEFINE cut(k) == Cut(l[k + 1] \div d[k], d[k])
            u8 == <<>> \o cut(8)
            u7 == u8 \o cut(7)
            u6 == u7 \o cut(6)
            u5 == u6 \o cut(5)
            u == [k \in 5..9 |-> IF k = 9 THEN <<>> ELSE IF k = 8 THEN u8
                                 ELSE IF k = 7 THEN u7 ELSE IF k = 6 THEN u6 ELSE u5]
<1>. HIDE DEF cut
<1>0. u8 = <<>> \o cut(8) /\ u7 = u8 \o cut(7) /\ u6 = u7 \o cut(6) /\ u5 = u6 \o cut(5)
  OBVIOUS
<1>. HIDE DEF u5, u6, u7, u8
<1>1. u[9] = <<>> /\ u[8] = u8 /\ u[7] = u7 /\ u[6] = u6 /\ u[5] = u5
  OBVIOUS
<1>. HIDE DEF u
<1>2. \A k \in 5..9 : u[k] = IF k > 8 THEN <<>> ELSE u[k + 1] \o cut(k)
  <2>1. /\ u[8] = u[8 + 1] \o cut(8) /\ u[7] = u[7 + 1] \o cut(7)
        /\ u[6] = u[6 + 1] \o cut(6) /\ u[5] = u[5 + 1] \o cut(5)
    <3>1. 8 + 1 = 9 /\ 7 + 1 = 8 /\ 6 + 1 = 7 /\ 5 + 1 = 6
      OBVIOUS
    <3>. QED
      BY <1>0, <1>1, <3>1, Zenon
  <2>2. \A k \in 5..9 : k = 9 \/ k = 8 \/ k = 7 \/ k = 6 \/ k = 5
    OBVIOUS
  <2>3. ASSUME NEW k \in 5..9 PROVE u[k] = IF k > 8 THEN <<>> ELSE u[k + 1] \o cut(k)
    <3>1. CASE k = 9
      BY <1>1, <3>1
    <3>2. CASE k = 8 \/ k = 7 \/ k = 6 \/ k = 5
      <4>1. ~(k > 8)
        BY <3>2
      <4>2. u[k] = u[k + 1] \o cut(k)
        BY <2>1, <3>2
      <4>. QED
        BY <4>1, <4>2
    <3>. QED
      BY <2>2, <3>1, <3>2
  <2>. QED
    BY <2>3
<1>3. UnitsIs(u, l, d)
  <2>1. u = [k \in 5..9 |-> u[k]]
    BY DEF u
  <2>. QED
    BY <1>2, <2>1 DEF UnitsIs, cut
<1>. QED
  BY <1>3

\* A sequence of notes of one denomination, after others.
LEMMA CutMore ==
    ASSUME NEW D, NEW s \in Seq(D), NEW n \in Nat, NEW v \in D
    PROVE  s \o Cut(n, v) \in Seq(D)
  BY DEF Cut

\* What is left and what is cut are numbers, at every denomination.
LEMMA UnitsTyped ==
    ASSUME NEW total \in Nat, NEW d \in [5..8 -> Nat], \A k \in 5..8 : d[k] > 0,
           NEW l, LeftIs(l, total, d), NEW u, UnitsIs(u, l, d),
           NEW D, \A k \in 5..8 : d[k] \in D
    PROVE  u[5] \in Seq(D)
<1>1. \A k \in 5..9 : l[k] = IF k > 8 THEN total ELSE l[k + 1] % d[k]
  BY DEF LeftIs
<1>2. \A k \in 5..9 : u[k] = IF k > 8 THEN <<>> ELSE u[k + 1] \o Cut(l[k + 1] \div d[k], d[k])
  BY DEF UnitsIs
<1>3. ASSUME NEW k \in 5..8, l[k + 1] \in Nat PROVE l[k] \in Nat /\ l[k + 1] \div d[k] \in Nat
  <2>1. l[k] = l[k + 1] % d[k]
    BY <1>1
  <2>2. PICK a \in Nat : a = l[k + 1]
    BY <1>3
  <2>3. PICK b \in Nat : b = d[k] /\ b > 0
    OBVIOUS
  <2>4. a % b \in Nat /\ a \div b \in Nat
    BY <2>2, <2>3
  <2>. QED
    BY <2>1, <2>2, <2>3, <2>4
<1>4. l[9] \in Nat /\ u[9] \in Seq(D)
  <2>1. 9 \in 5..9 /\ 9 > 8
    OBVIOUS
  <2>2. l[9] = total /\ u[9] = <<>>
    BY <1>1, <1>2, <2>1
  <2>. QED
    BY <2>2
<1>5. ASSUME NEW k \in 5..8, l[k + 1] \in Nat, u[k + 1] \in Seq(D)
      PROVE  l[k] \in Nat /\ u[k] \in Seq(D)
  <2>1. u[k] = u[k + 1] \o Cut(l[k + 1] \div d[k], d[k])
    <3>1. k \in 5..9 /\ ~(k > 8)
      OBVIOUS
    <3>. QED
      BY <1>2, <3>1
  <2>2. d[k] \in D
    OBVIOUS
  <2>. QED
    BY <1>3, <1>5, <2>1, <2>2, CutMore
<1>6. l[8] \in Nat /\ u[8] \in Seq(D)
  BY <1>4, <1>5
<1>7. l[7] \in Nat /\ u[7] \in Seq(D)
  BY <1>5, <1>6
<1>8. l[6] \in Nat /\ u[6] \in Seq(D)
  BY <1>5, <1>7
<1>. QED
  BY <1>5, <1>8

\* The powers of ten.
Power(k) == 10^k

\* Those of the denominations.
LEMMA PowersOfTen == \A k \in 5..8 : Power(k) \in {100000, 1000000, 10000000, 100000000}
<1>1. Power(5) = 100000 /\ Power(6) = 1000000 /\ Power(7) = 10000000 /\ Power(8) = 100000000
  BY DEF Power
<1>2. \A k \in 5..8 : k = 5 \/ k = 6 \/ k = 7 \/ k = 8
  OBVIOUS
<1>. QED
  BY <1>1, <1>2

\* The denominations, with the fee of a move on top.
Denoms(pad) == {Power(k) + pad : k \in 5..8}

\* What is cut is a sequence of denominations, however much there is to cut.
LEMMA DecomposeTyped ==
    ASSUME NEW total \in Nat, NEW pad \in Nat
    PROVE  DecomposeToSD(total, pad) \in Seq(Denoms(pad))
<1>. DEFINE d == [k \in 5..8 |-> Power(k) + pad]
            Left(l) == l = [k \in 5..MaxExponent + 1 |->
                               IF k > MaxExponent THEN total ELSE l[k + 1] % (Power(k) + pad)]
            Units(u, l) == u = [k \in 5..MaxExponent + 1 |->
                               IF k > MaxExponent THEN <<>>
                               ELSE u[k + 1] \o Cut(l[k + 1] \div (Power(k) + pad), Power(k) + pad)]
<1>1. DecomposeToSD(total, pad) = (CHOOSE u : Units(u, CHOOSE l : Left(l)))[5]
  BY DEF DecomposeToSD, Power, Cut
<1>2. MaxExponent = 8 /\ 5..MaxExponent + 1 = 5..9
  BY DEF MaxExponent
<1>3. d \in [5..8 -> Nat] /\ \A k \in 5..8 : d[k] > 0
  <2>1. \A k \in 5..8 : d[k] \in Nat /\ d[k] > 0
    BY PowersOfTen
  <2>. QED
    BY <2>1
<1>4. \A l : Left(l) <=> LeftIs(l, total, d)
  BY <1>2 DEF LeftIs
<1>5. \A u, l : Units(u, l) <=> UnitsIs(u, l, d)
  <2>1. \A k \in 5..9 : ~(k > 8) => d[k] = Power(k) + pad
    OBVIOUS
  <2>. HIDE DEF d
  <2>. QED
    BY <1>2, <2>1 DEF UnitsIs
<1>6. PICK l : l = (CHOOSE m : Left(m)) /\ Left(l)
  BY <1>4, LeftExists
<1>. HIDE DEF Left, Units
<1>7. PICK u : u = (CHOOSE v : Units(v, l)) /\ Units(u, l)
  BY <1>5, UnitsExist
<1>d. \A k \in 5..8 : d[k] \in Denoms(pad)
  BY DEF Denoms
<1>. HIDE DEF d
<1>8. u[5] \in Seq(Denoms(pad))
  BY <1>3, <1>4, <1>5, <1>6, <1>7, <1>d, UnitsTyped
<1>. QED
  BY <1>1, <1>6, <1>7, <1>8

\* The first values are summed as any others.
LEMMA SumOfIsTotal ==
    ASSUME NEW values, NEW n \in Nat
    PROVE  SumOf(values, n) = Total([i \in 1..n |-> values[i]], 1..n)
<1>. DEFINE S == 1..n
            f == [i \in S |-> values[i]]
            Value(i) == i = [s \in SUBSET S |-> IF s = {} THEN 0
                              ELSE values[CHOOSE x \in s : TRUE] + i[s \ {CHOOSE x \in s : TRUE}]]
<1>0. IsFiniteSet(S)
  BY FS_Interval
<1>1. SumOf(values, n) = (CHOOSE i : Value(i))[S]
  BY DEF SumOf, MapThenSumSet, MapThenFoldSet
<1>. HIDE DEF S
<1>2. ASSUME NEW i PROVE Value(i) <=> Sums(i, f, S)
  <2>1. \A s \in SUBSET S : s # {} => f[Some(s)] = values[Some(s)]
    BY SomeIn
  <2>2. [s \in SUBSET S |-> IF s = {} THEN 0 ELSE values[Some(s)] + i[s \ {Some(s)}]]
          = [s \in SUBSET S |-> IF s = {} THEN 0 ELSE f[Some(s)] + i[s \ {Some(s)}]]
    BY <2>1
  <2>. QED
    BY <2>2 DEF Sums, Some
<1>3. \E i : Value(i)
  <2>1. PICK i : Sums(i, f, S)
    BY <1>0, SumsExist
  <2>. HIDE DEF Value, f
  <2>. QED
    BY <1>2, <2>1
<1>4. Value(CHOOSE i : Value(i))
  BY <1>3, Zenon
<1>5. Sums(CHOOSE i : Value(i), f, S)
  BY <1>2, <1>4
<1>6. SumOf(values, n) = Total(f, S)
  BY <1>0, <1>1, <1>5, TotalIs
<1>. QED
  BY <1>6 DEF S

\* The outputs that a split asks for.
OwnOutputs(p, values) == [i \in DOMAIN values |-> [pool |-> p, value |-> values[i], own |-> TRUE]]

\* They pay the values, in one pool.
LEMMA SplitWish ==
    ASSUME NEW values \in Seq(Nat), NEW p \in Pools
    PROVE  LET outs == OwnOutputs(p, values)
           IN  /\ outs \in Seq(Output) /\ Len(outs) = Len(values)
               /\ Paid(outs) = SumOf(values, Len(values))
               /\ Counts(outs) = [q \in Pools |-> IF q = p THEN Len(values) ELSE 0]
<1>. DEFINE outs == [i \in DOMAIN values |-> [pool |-> p, value |-> values[i], own |-> TRUE]]
            k == Len(values)
<1>1. k \in Nat /\ DOMAIN values = 1..k /\ DOMAIN outs = 1..k
  OBVIOUS
<1>2. \A i \in 1..k : outs[i] \in Output /\ outs[i].pool = p /\ outs[i].value = values[i]
  BY <1>1 DEF Output
<1>3. outs \in Seq(Output) /\ Len(outs) = k
  <2>1. outs = [i \in 1..k |-> outs[i]]
    BY <1>1
  <2>. HIDE DEF outs, k
  <2>. QED
    BY <1>1, <1>2, <2>1
<1>. HIDE DEF outs
<1>4. Paid(outs) = SumOf(values, k)
  <2>1. Paid(outs) = Total(ValueAt(outs, 1..k), 1..k)
    BY <1>1, <1>3, PaidAll
  <2>2. SumOf(values, k) = Total([i \in 1..k |-> values[i]], 1..k)
    BY <1>1, SumOfIsTotal
  <2>3. \A i \in 1..k : ValueAt(outs, 1..k)[i] = [j \in 1..k |-> values[j]][i]
    BY <1>2 DEF ValueAt
  <2>4. IsFiniteSet(1..k)
    BY <1>1, FS_Interval
  <2>. QED
    BY <2>1, <2>2, <2>3, <2>4, TotalSame
<1>5. Counts(outs) = [q \in Pools |-> IF q = p THEN k ELSE 0]
  <2>1. Cardinality(1..k) = k /\ Cardinality({}) = 0
    BY <1>1, FS_Interval, FS_EmptySet
  <2>2. ASSUME NEW q PROVE {i \in DOMAIN outs : outs[i].pool = q} = IF q = p THEN 1..k ELSE {}
    BY <1>1, <1>2
  <2>. QED
    BY <2>1, <2>2 DEF Counts
<1>. QED
  BY <1>3, <1>4, <1>5 DEF outs, OwnOutputs

\* A sequence over a set is one over a larger set.
LEMMA SeqWider ==
    ASSUME NEW T, NEW U, \A x \in T : x \in U, NEW s \in Seq(T)
    PROVE  s \in Seq(U)
<1>1. Len(s) \in Nat /\ s \in [1..Len(s) -> T]
  OBVIOUS
<1>2. \A i \in 1..Len(s) : s[i] \in T
  BY <1>1
<1>3. s = [i \in 1..Len(s) |-> s[i]]
  BY <1>1
<1>4. s \in [1..Len(s) -> U]
  BY <1>2, <1>3
<1>. QED
  BY <1>1, <1>4

\* A denomination is a number, and moves as one power of ten.
LEMMA DenomsOK ==
    ASSUME NEW pad \in Nat
    PROVE  Denoms(pad) \subseteq Nat /\ \A v \in Denoms(pad) : IsSD(v, pad)
<1>. SUFFICES ASSUME NEW v \in Denoms(pad) PROVE v \in Nat /\ IsSD(v, pad)
  OBVIOUS
<1>1. PICK k \in 5..8 : v = Power(k) + pad
  BY DEF Denoms
<1>2. PICK t \in {100000, 1000000, 10000000, 100000000} : t = Power(k)
  BY PowersOfTen
<1>3. v \in Nat /\ v > pad /\ v - pad = Power(k)
  BY <1>1, <1>2
<1>4. k \in Exponents
  BY DEF Exponents, MaxExponent
<1>5. IsIwSD(v - pad) <=> \E j \in Exponents : v - pad = Power(j)
  BY DEF IsIwSD, Power
<1>. QED
  BY <1>3, <1>4, <1>5 DEF IsSD

\* What a split asks for is of the denominations, and leaves its fee.
LEMMA SplitPays ==
    ASSUME NEW total \in Nat, NEW inputs \in Nat, NEW cost \in Nat
    PROVE  LET values == PlanSplit(total, inputs, cost)
           IN  /\ values \in Seq(Denoms(FeePad(cost))) /\ values \in Seq(Nat)
               /\ values # <<>> =>
                      SplitFee(inputs, Len(values), cost) <= total - SumOf(values, Len(values))
<1>. DEFINE units == DecomposeToSD(total, FeePad(cost))
            paid(n) == SplitFee(inputs, n, cost) <= total - SumOf(units, n)
            Keeps(n) == (n = 0 \/ paid(n)) /\ \A m \in (n + 1)..Len(units) : ~paid(m)
            kept == CHOOSE n \in 0..Len(units) : Keeps(n)
            values == PlanSplit(total, inputs, cost)
            D == Denoms(FeePad(cost))
<1>1. values = IF total < MinSD(cost) THEN <<>> ELSE SubSeq(units, 1, kept)
  BY DEF PlanSplit
<1>2. units \in Seq(D) /\ units \in Seq(Nat) /\ Len(units) \in Nat /\ D \subseteq Nat
  <2>1. FeePad(cost) \in Nat
    BY DEF FeePad
  <2>. HIDE DEF units
  <2>2. units \in Seq(D) /\ D \subseteq Nat
    BY <2>1, DecomposeTyped, DenomsOK DEF units
  <2>. HIDE DEF D
  <2>3. units \in Seq(Nat)
    BY <2>2, SeqWider
  <2>. QED
    BY <2>2, <2>3
<1>. HIDE DEF units, paid, values, D
<1>3. \E n \in 0..Len(units) : Keeps(n)
  <2>. DEFINE S == {n \in 0..Len(units) : n = 0 \/ paid(n)}
  <2>1. S \in SUBSET (0..Len(units)) /\ S # {}
    BY <1>2
  <2>2. PICK n \in S : \A m \in (n + 1)..Len(units) : m \notin S
    <3>. HIDE DEF S
    <3>. QED
      BY <1>2, <2>1, Greatest
  <2>3. \A m \in (n + 1)..Len(units) : m \in 0..Len(units)
    BY <1>2, <2>2
  <2>4. \A m \in (n + 1)..Len(units) : ~paid(m)
    BY <2>2, <2>3
  <2>. QED
    BY <2>2, <2>4
<1>4. kept \in 0..Len(units) /\ (kept = 0 \/ paid(kept))
  BY <1>3
<1>. HIDE DEF kept
<1>5. ASSUME ~(total < MinSD(cost))
      PROVE  /\ values \in Seq(D) /\ values \in Seq(Nat) /\ Len(values) = kept
             /\ kept # 0 => SplitFee(inputs, kept, cost) <= total - SumOf(values, kept)
  <2>1. values = SubSeq(units, 1, kept)
    BY <1>1, <1>5
  <2>2. /\ values \in Seq(D) /\ values \in Seq(Nat) /\ Len(values) = kept
        /\ \A i \in 1..kept : values[i] = units[i]
    BY <1>2, <1>4, <2>1
  <2>3. SumOf(values, kept) = SumOf(units, kept)
    <3>1. /\ SumOf(values, kept) = Total([i \in 1..kept |-> values[i]], 1..kept)
          /\ SumOf(units, kept) = Total([i \in 1..kept |-> units[i]], 1..kept)
      BY <1>4, SumOfIsTotal
    <3>2. [i \in 1..kept |-> values[i]] = [i \in 1..kept |-> units[i]]
      BY <2>2
    <3>. QED
      BY <3>1, <3>2
  <2>4. kept # 0 => paid(kept)
    BY <1>4
  <2>. QED
    BY <2>2, <2>3, <2>4 DEF paid
<1>6. /\ values \in Seq(D) /\ values \in Seq(Nat)
      /\ values # <<>> =>
             SplitFee(inputs, Len(values), cost) <= total - SumOf(values, Len(values))
  <2>1. values \in Seq(Nat) /\ Len(values) = 0 => values = <<>>
    OBVIOUS
  <2>2. <<>> \in Seq(D) /\ <<>> \in Seq(Nat)
    OBVIOUS
  <2>3. CASE total < MinSD(cost)
    BY <1>1, <2>2, <2>3
  <2>4. CASE ~(total < MinSD(cost))
    BY <1>5, <2>1, <2>4
  <2>. QED
    BY <2>3, <2>4
<1>. QED
  BY <1>6 DEF values, D

\* Every output of a split is a note that a hop moves whole, at the fee that
\* the split was planned with: a power of ten and the pad (decompose_to_sd,
\* plan_split, pick_sd), so that it is not split again.
THEOREM SplitsStandard ==
    ASSUME NEW total \in Nat, NEW inputs \in Nat, NEW cost \in Nat,
           NEW i \in DOMAIN PlanSplit(total, inputs, cost)
    PROVE  IsSD(PlanSplit(total, inputs, cost)[i], FeePad(cost))
<1>1. FeePad(cost) \in Nat
  BY DEF FeePad
<1>2. PICK D : D = Denoms(FeePad(cost)) /\ \A v \in D : IsSD(v, FeePad(cost))
  BY <1>1, DenomsOK
<1>3. PICK values : values = PlanSplit(total, inputs, cost)
  OBVIOUS
<1>4. values \in Seq(D)
  BY <1>2, <1>3, SplitPays
<1>. QED
  BY <1>2, <1>3, <1>4

\* There are as many largest notes as one asks for.
LEMMA LargestExist ==
    ASSUME NEW S, NotesOK(S), NEW k \in Nat, k <= Cardinality(S)
    PROVE  \E T \in SUBSET S : Cardinality(T) = k /\ Largest(T, S)
<1>0. IsFiniteSet(S) /\ \A n \in S : n.value \in Nat
  BY DEF NotesOK
<1>. DEFINE Rest == {R \in SUBSET S : Largest(S \ R, S) /\ Cardinality(S \ R) <= k}
<1>1. S \in Rest
  <2>1. S \ S = {} /\ Cardinality({}) = 0
    BY FS_EmptySet
  <2>. QED
    BY <2>1 DEF Largest
<1>2. PICK R \in Rest : \A Q \in Rest : Q \subseteq R => Q = R
  <2>1. Rest \subseteq SUBSET S /\ Rest # {}
    BY <1>1
  <2>. HIDE DEF Rest
  <2>. QED
    BY <1>0, <2>1, SmallestSubset
<1>. DEFINE T == S \ R
<1>3. /\ R \subseteq S /\ Largest(T, S) /\ Cardinality(T) <= k
      /\ IsFiniteSet(T) /\ IsFiniteSet(R) /\ Cardinality(T) \in Nat
  BY <1>0, FS_Subset, FS_CardinalityType
<1>4. CASE Cardinality(T) = k
  BY <1>3, <1>4
<1>5. CASE Cardinality(T) < k
  <2>1. R # {}
    <3>1. R = {} => T = S
      OBVIOUS
    <3>. QED
      BY <1>3, <1>5, <3>1
  <2>. DEFINE Above(x) == {y \in R : y.value >= x.value}
              C == {Above(x) : x \in R}
  <2>2. C \subseteq SUBSET R /\ C # {}
    BY <2>1
  <2>3. PICK A \in C : \A B \in C : B \subseteq A => B = A
    <3>. HIDE DEF C
    <3>. QED
      BY <1>3, <2>2, SmallestSubset
  <2>4. PICK x \in R : A = Above(x)
    BY <2>3
  <2>5. ASSUME NEW y \in R PROVE x.value >= y.value
    <3>1. SUFFICES ASSUME ~(x.value >= y.value) PROVE FALSE
      OBVIOUS
    <3>2. \A z \in R : z.value \in Nat
      BY <1>0, <1>3
    <3>3. Above(y) \subseteq Above(x) /\ x \in Above(x) /\ x \notin Above(y)
      BY <3>1, <3>2
    <3>4. Above(y) \in C
      OBVIOUS
    <3>. QED
      BY <2>3, <2>4, <3>3, <3>4
  <2>6. /\ S \ (R \ {x}) = T \cup {x} /\ x \notin T /\ x \in S
        /\ R \ {x} \subseteq R /\ R \ {x} # R /\ R \ {x} \in SUBSET S
    BY <1>3
  <2>7. Cardinality(T \cup {x}) = Cardinality(T) + 1
    BY <1>3, <2>6, FS_AddElement
  <2>8. Largest(T \cup {x}, S)
    BY <1>3, <2>5 DEF Largest
  <2>9. R \ {x} \in Rest
    <3>1. Cardinality(T \cup {x}) <= k
      BY <1>3, <1>5, <2>7
    <3>2. Largest(S \ (R \ {x}), S) /\ Cardinality(S \ (R \ {x})) <= k
      BY <2>6, <2>8, <3>1
    <3>. QED
      BY <2>6, <3>2
  <2>. QED
    BY <1>2, <2>6, <2>9
<1>. QED
  BY <1>3, <1>4, <1>5

-----------------------------------------------------------------------------
\* When there is a plan.

\* Enough usable notes are planned: the greedy choice is one.
LEMMA SomePlan ==
    ASSUME NEW notes, NotesOK(notes), NEW w, WishOK(w),
           ChangePools({n \in notes : n.value >= w.cost}, w) # {}
    PROVE  SelectNotes(notes, w) # {}
<1>. DEFINE U == {n \in notes : n.value >= w.cost}
            enough == {taken \in SUBSET U : Largest(taken, U) /\ ChangePools(taken, w) # {}}
<1>1. NotesOK(U)
  BY PartOK
<1>2. U \in enough
  BY DEF Largest
<1>3. PICK g \in enough : \A t \in enough : t \subseteq g => t = g
  <2>1. enough \subseteq SUBSET U /\ enough # {} /\ IsFiniteSet(U)
    BY <1>1, <1>2 DEF NotesOK
  <2>. HIDE DEF enough, U
  <2>. QED
    BY <2>1, SmallestSubset
<1>4. g \in Greedy(U, w)
  BY <1>3 DEF Greedy
<1>5. g \in SUBSET U /\ ChangePools(g, w) # {} /\ NotesOK(g)
  BY <1>1, <1>3, PartOK
<1>6. ~Better(BestScore(g, w), BestScore(g, w))
  <2>1. BestScore(g, w) \in Int \X Int
    BY <1>5, ChangePoolBest
  <2>2. \A b \in Int \X Int : ~Better(b, b)
    BY DEF Better
  <2>. QED
    BY <2>1, <2>2
<1>7. BestScore(g, w) \in {BestScore(taken, w) : taken \in Greedy(U, w)}
  BY <1>4
<1>8. g \in {taken \in SUBSET U :
               /\ ChangePools(taken, w) # {}
               /\ \E score \in {BestScore(t, w) : t \in Greedy(U, w)} :
                      ~Better(score, BestScore(taken, w))}
  BY <1>5, <1>6, <1>7, Zenon
<1>9. g \in SelectNotes(notes, w)
  <2>. HIDE DEF enough
  <2>. QED
    BY <1>8 DEF SelectNotes
<1>. QED
  BY <1>9

\* The actions of a transaction of a migration whose notes and outputs are all
\* in Orchard.
LEMMA OrchardActions ==
    ASSUME NEW S, IsFiniteSet(S), \A n \in S : n.pool = Orchard,
           NEW counts \in [Pools -> Nat], \A q \in Pools : q # Orchard => counts[q] = 0,
           counts[Orchard] >= 2, NEW m, m
    PROVE  LogicalActions(S, counts, m) = Cardinality(S) + counts[Orchard]
<1>1. Of(S, Orchard) = S /\ \A p : p # Orchard => Of(S, p) = {}
  BY DEF Of
<1>2. PICK k \in Nat : Cardinality(Of(S, Orchard)) = k /\ Cardinality(S) = k
  BY <1>1, FS_CardinalityType
<1>3. \A p : p # Orchard => Cardinality(Of(S, p)) = 0
  BY <1>1, FS_EmptySet
<1>4. ByteActions(Of(S, Transparent)) = 0
  BY <1>1, PoolsApart, FS_EmptySet, BytesNat
<1>5. PICK c \in Nat : counts[Orchard] = c /\ c >= 2
  BY PoolsApart
<1>6. counts[Transparent] = 0 /\ counts[Sapling] = 0 /\ counts[Ironwood] = 0
  BY PoolsApart
<1>7. Max({0, 0}) = 0 /\ \A a \in Nat : a >= 2 => Max({2, a}) = a /\ Max({a, 2}) = a
  BY MaxOfTwo
<1>8. Padded(0) = 0 /\ \A a \in Nat : a >= 2 => Padded(a) = a
  BY <1>7 DEF Padded
<1>9. LogicalActions(S, counts, m) = Max({2, 0 + Padded(0) + Padded(k + c) + Padded(0)})
  <2>1. /\ Max({Cardinality(Of(S, Sapling)), counts[Sapling]}) = 0
        /\ Max({Cardinality(Of(S, Ironwood)), counts[Ironwood]}) = 0
        /\ Max({ByteActions(Of(S, Transparent)), counts[Transparent]}) = 0
    BY <1>3, <1>4, <1>6, <1>7, PoolsApart
  <2>2. Cardinality(Of(S, Orchard)) + counts[Orchard] = k + c
    BY <1>2, <1>5
  <2>. QED
    BY <2>1, <2>2 DEF LogicalActions
<1>10. k + c \in Nat /\ k + c >= 2
  BY <1>5
<1>11. 0 + Padded(0) + Padded(k + c) + Padded(0) = k + c
  BY <1>8, <1>10
<1>. QED
  BY <1>2, <1>5, <1>7, <1>9, <1>10, <1>11

\* The notes worth less than a unit of the fee cost no more than they bring:
\* without them there is still enough.
LEMMA UsableAreEnough ==
    ASSUME NEW S, NotesOK(S), \A n \in S : n.pool = Orchard,
           NEW w, WishOK(w), w.outs # <<>>, ~w.payer, w.migration,
           Counts(w.outs) = [q \in Pools |-> IF q = Orchard THEN Len(w.outs) ELSE 0],
           ValueOf(S) >= Paid(w.outs) + SplitFee(Cardinality(S), Len(w.outs), w.cost)
    PROVE  Orchard \in ChangePools({n \in S : n.value >= w.cost}, w)
<1>. DEFINE U == {n \in S : n.value >= w.cost}
            R == S \ U
            f == ValueIn(S)
<1>0. /\ IsFiniteSet(S) /\ \A n \in S : n.value \in Nat /\ n.pool \in Pools
      /\ U \subseteq S /\ S \ R = U /\ R \subseteq S
  BY DEF NotesOK
<1>1. PICK c \in Nat : c = w.cost
  BY DEF WishOK
<1>2. PICK l \in Nat : l = Len(w.outs) /\ l >= 1
  BY DEF WishOK
<1>3. PICK paid \in Nat : paid = Paid(w.outs)
  BY PaidNat DEF Paid, WishOK
<1>4. IsFiniteSet(U) /\ IsFiniteSet(R)
  BY <1>0, FS_Subset
<1>5. PICK u \in Nat, r \in Nat : u = Cardinality(U) /\ r = Cardinality(R)
  BY <1>4, FS_CardinalityType
<1>6. Cardinality(S) = u + r
  <2>1. S = U \cup R /\ U \cap R = {}
    OBVIOUS
  <2>. HIDE DEF U, R
  <2>2. Cardinality(S) = Cardinality(U) + Cardinality(R) - Cardinality(U \cap R)
    BY <1>4, <2>1, FS_Union
  <2>3. Cardinality(U \cap R) = 0
    BY <2>1, FS_EmptySet
  <2>. QED
    BY <1>5, <2>2, <2>3
<1>7. /\ ValueOf(S) \in Nat /\ ValueOf(U) \in Nat
      /\ ValueOf(S) <= ValueOf(U) + c * r
  <2>1. \A n \in S : f[n] = n.value /\ f[n] \in Nat
    BY <1>0 DEF ValueIn
  <2>2. \A n \in R : f[n] <= c
    BY <1>0, <1>1, <2>1
  <2>3. ValueOf(S) = Total(f, S)
    BY <1>0, ValueIsTotal
  <2>4. ValueOf(U) = Total(f, U)
    <3>1. ValueOf(U) = Total(ValueIn(U), U)
      BY <1>4, ValueIsTotal
    <3>2. \A n \in U : ValueIn(U)[n] = f[n]
      BY <1>0, <2>1 DEF ValueIn
    <3>. HIDE DEF U, f
    <3>. QED
      BY <1>4, <3>1, <3>2, TotalSame
  <2>. HIDE DEF U, R, f
  <2>5. Total(f, S) \in Nat /\ Total(f, U) \in Nat /\ Total(f, S) <= Total(f, U) + c * Cardinality(R)
    BY <1>0, <2>1, <2>2, TotalOfPart
  <2>. QED
    BY <1>5, <2>3, <2>4, <2>5
<1>8. PICK more : more = [Counts(w.outs) EXCEPT ![Orchard] = @ + 1]
  OBVIOUS
<1>9. /\ more \in [Pools -> Nat] /\ more[Orchard] = l + 1
      /\ \A q \in Pools : q # Orchard => more[q] = 0
  <2>1. more = [q \in Pools |-> IF q = Orchard THEN l + 1 ELSE 0]
    BY <1>2, <1>8
  <2>. QED
    BY <2>1, PoolsApart
<1>10. LogicalActions(U, more, w.migration) = u + (l + 1)
  <2>1. \A n \in U : n.pool = Orchard
    OBVIOUS
  <2>2. more[Orchard] >= 2
    BY <1>2, <1>9
  <2>. HIDE DEF U
  <2>3. PICK d \in [Pools -> Nat] : d = more
    BY <1>9
  <2>4. d[Orchard] >= 2 /\ \A q \in Pools : q # Orchard => d[q] = 0
    BY <1>9, <2>2, <2>3
  <2>5. LogicalActions(U, d, w.migration) = Cardinality(U) + d[Orchard]
    BY <1>4, <2>1, <2>4, OrchardActions
  <2>. QED
    BY <1>5, <1>9, <2>3, <2>5
<1>11. Needed(U, Orchard, w) = paid + c * (u + (l + 1))
  <2>1. FeeWithChange(U, Orchard, w) = c * (u + (l + 1))
    BY <1>1, <1>8, <1>10 DEF FeeWithChange, Fee
  <2>. QED
    BY <1>3, <2>1 DEF Needed
<1>12. SplitFee(Cardinality(S), Len(w.outs), w.cost) = c * ((u + r) + l + 1)
  <2>1. (u + r) + l + 1 \in Nat /\ (u + r) + l + 1 >= 2
    BY <1>2
  <2>2. Max({2, (u + r) + l + 1}) = (u + r) + l + 1
    BY <2>1, MaxOfTwo
  <2>. QED
    BY <1>1, <1>2, <1>6, <2>2 DEF SplitFee
<1>13. c * ((u + r) + l + 1) = c * (u + (l + 1)) + c * r /\ c * (u + (l + 1)) \in Nat /\ c * r \in Nat
  <2>1. \A a \in Nat, b \in Nat : c * (a + b) = c * a + c * b /\ c * a \in Nat
    OBVIOUS
  <2>2. PICK a \in Nat : a = u + (l + 1)
    OBVIOUS
  <2>3. (u + r) + l + 1 = a + r
    BY <2>2
  <2>. QED
    BY <2>1, <2>2, <2>3
<1>14. ValueOf(U) >= Needed(U, Orchard, w)
  <2>1. PICK x \in Nat, y \in Nat : x = c * (u + (l + 1)) /\ y = c * r
    BY <1>13
  <2>. HIDE DEF U
  <2>2. ValueOf(S) >= paid + (x + y) /\ ValueOf(S) <= ValueOf(U) + y
    BY <1>3, <1>7, <1>12, <1>13, <2>1
  <2>3. ValueOf(U) >= paid + x
    BY <1>7, <2>2
  <2>. QED
    BY <1>11, <2>1, <2>3
<1>15. Feasible(U, Orchard, w)
  BY <1>14 DEF Feasible
<1>. QED
  BY <1>15, PoolsApart DEF ChangePools

\* What a split asks for can be planned, when its notes are worth it and its
\* fee, whatever the value of each.
THEOREM SplitPlans ==
    ASSUME NEW notes, NotesOK(notes), NEW r, r.outs \in Seq(Output), r.outs # <<>>,
           ~r.payer, r.migration, r.pools = {Orchard},
           Counts(r.outs) = [q \in Pools |-> IF q = Orchard THEN Len(r.outs) ELSE 0],
           NEW tip, NEW cost \in Nat, NEW S, S = Candidates(notes, r, tip),
           ValueOf(S) >= Paid(r.outs) + SplitFee(Cardinality(S), Len(r.outs), cost)
    PROVE  Plans(notes, r, tip, cost) # {}
<1>. DEFINE w == [outs |-> r.outs, cost |-> cost, payer |-> r.payer, migration |-> r.migration]
<1>1. WishOK(w) /\ w.outs = r.outs /\ w.cost = cost /\ ~w.payer /\ w.migration
  BY DEF WishOK
<1>2. S \subseteq notes /\ \A n \in S : n.pool = Orchard
  BY DEF Candidates
<1>3. NotesOK(S)
  BY <1>2, PartOK
<1>4. Plans(notes, r, tip, cost) = {PlanOf(taken, w) : taken \in SelectNotes(S, w)}
  BY DEF Plans
<1>. HIDE DEF w
<1>5. ChangePools({n \in S : n.value >= w.cost}, w) # {}
  BY <1>1, <1>2, <1>3, UsableAreEnough
<1>6. SelectNotes(S, w) # {}
  BY <1>1, <1>3, <1>5, SomePlan
<1>. QED
  BY <1>4, <1>6

\* A hop of a note of the right value can be planned, and the builder agrees
\* with its fee, though there is no change to price.
THEOREM HopPays ==
    ASSUME NEW notes, NotesOK(notes), NEW r, HopRequest(r),
           NEW n \in notes, n.id \in r.notes, \A m \in notes : m.id \in r.notes => m = n,
           NEW tip, n \in Candidates(notes, r, tip), NEW cost \in Nat, cost > 0,
           n.value = r.outs[1].value + 4 * cost
    PROVE  /\ Plans(notes, r, tip, cost) # {}
           /\ \A p \in Plans(notes, r, tip, cost) : Balances(p, r.migration, cost)
<1>. DEFINE w == [outs |-> r.outs, cost |-> cost, payer |-> r.payer, migration |-> r.migration]
            S == Candidates(notes, r, tip)
<1>1. PICK o \in Output : r.outs = <<o>> /\ o.pool = Ironwood /\ o.value > 0
  BY DEF HopRequest
<1>2. HopWish(w) /\ WishOK(w) /\ w.outs = r.outs /\ w.cost = cost /\ ~w.payer /\ w.migration = r.migration
  BY <1>1, OneOutput DEF HopRequest, HopWish, WishOK
<1>3. S = {n} /\ n.pool = Orchard
  BY DEF Candidates, HopRequest
<1>4. Plans(notes, r, tip, cost) = {PlanOf(taken, w) : taken \in SelectNotes(S, w)}
  BY DEF Plans
<1>5. PICK v \in Nat : v = o.value /\ Paid(w.outs) = v /\ n.value = v + 4 * cost
  <2>1. o.value \in Nat /\ Paid(<<o>>) = o.value
    BY OneOutput, OutputFields
  <2>2. r.outs[1] = o
    BY <1>1
  <2>. HIDE DEF w
  <2>. QED
    BY <1>1, <1>2, <2>1, <2>2
<1>6. NotesOK({n}) /\ n.value \in Nat
  BY PartOK DEF NotesOK
<1>. HIDE DEF w, S
<1>7. FeeWithChange({n}, Orchard, w) = 4 * cost /\ Fee({n}, Counts(w.outs), w.migration, w.cost) = 4 * cost
  BY <1>2, <1>3, HopFees
<1>8. Feasible({n}, Orchard, w)
  <2>1. Needed({n}, Orchard, w) = v + 4 * cost
    BY <1>2, <1>5, <1>7 DEF Needed
  <2>2. ValueOf({n}) = n.value
    BY <1>6, ValueOfFew
  <2>. QED
    BY <1>2, <1>5, <2>1, <2>2 DEF Feasible
<1>9. Plans(notes, r, tip, cost) # {}
  <2>1. {m \in S : m.value >= w.cost} = {n}
    BY <1>2, <1>3, <1>5
  <2>2. ChangePools({m \in S : m.value >= w.cost}, w) # {}
    BY <1>8, <2>1, PoolsApart DEF ChangePools
  <2>3. NotesOK(S)
    BY <1>3, <1>6
  <2>4. SelectNotes(S, w) # {}
    BY <1>2, <2>2, <2>3, SomePlan
  <2>. QED
    BY <1>4, <2>4
<1>10. ASSUME NEW p \in Plans(notes, r, tip, cost) PROVE Balances(p, r.migration, cost)
  <2>1. p.notes = {n} /\ p.pool = Orchard /\ p.outs = r.outs
    BY HopPlans
  <2>2. r.outs \in Seq(Output)
    BY <1>1, OneOutput
  <2>b. AllBuilt(p.outs)
    BY <1>1, <2>1, PoolsApart DEF AllBuilt
  <2>3. CASE p.change # 0
    <3>1. RequestOK(r)
      BY <2>2 DEF RequestOK, HopRequest
    <3>. QED
      BY <2>b, <2>3, <3>1, PlansConserve
  <2>4. CASE p.change = 0
    <3>1. PICK taken \in SelectNotes(S, w) : p = PlanOf(taken, w)
      BY <1>4
    <3>2. taken \subseteq S /\ ChangePools(taken, w) # {}
      BY <3>1 DEF SelectNotes
    <3>3. NotesOK(taken)
      BY <1>3, <1>6, <3>2, PartOK
    <3>4. p.notes = taken /\ p.fee = FeeWithChange(taken, p.pool, w) /\ p.change \in Nat
      BY <1>2, <3>1, <3>2, <3>3, PlanOfEnough
    <3>5. Outputs(p) = w.outs
      BY <1>2, <2>1, <2>2, <2>4, <3>4, OutputsOfPlan, PoolsApart
    <3>6. Built(Outputs(p)) = Counts(w.outs)
      BY <1>2, <2>1, <2>b, <3>5, BuiltAll
    <3>. QED
      BY <1>2, <1>7, <2>1, <3>4, <3>6 DEF Balances
  <2>. QED
    BY <2>3, <2>4
<1>. QED
  BY <1>9, <1>10
=============================================================================
