--------------------------- MODULE BackendProofs ---------------------------
(***************************************************************************)
(* The parts that keep state over crashes and lost connections, each by    *)
(* itself, for any number of pages' connections, requests, writes, calls,  *)
(* launches, servers, runs and assets: its types and what its run checks.  *)
(* Every part has its inductive invariant, the lemma that it holds at the  *)
(* start, the lemma that a step keeps it, and its theorem; the last section*)
(* puts the parts together as MCBackends does.                             *)
(***************************************************************************)
EXTENDS MCBackends, FiniteSetTheorems, WellFoundedInduction, TLAPS

----------------------------------------------------------------------------
(* Sums over a finite set.  Induction goes by way of a smallest counterexample:*)
(* of a set of finite sets that fail, one has the least cardinality.           *)


\* A set of naturals has a least member.
LEMMA LeastNatural ==
  ASSUME NEW T \in SUBSET Nat, T # {}
  PROVE  \E m \in T : \A k \in T : m <= k
<1>1. PICK m \in T : \A k \in T : <<k, m>> \notin OpToRel(<, Nat)
      BY NatLessThanWellFounded, WFMin
<1>2. ASSUME NEW k \in T, k < m PROVE FALSE
  <2>1. <<k, m>> \in OpToRel(<, Nat)
        BY <1>2 DEF OpToRel
  <2> QED
      BY <1>1, <2>1
<1> QED
    BY <1>2

Any(s) == CHOOSE x \in s : TRUE

Iterates(g, f, D) == g = [s \in D |-> IF s = {} THEN 0 ELSE f[Any(s)] + g[s \ {Any(s)}]]

\* A sum is what an iteration over the subsets says of the whole set.
LEMMA SumIsIterated ==
  ASSUME NEW f, NEW S, NEW g, Iterates(g, f, SUBSET S)
  PROVE  \E h : Iterates(h, f, SUBSET S) /\ SumOf(f, S) = h[S]
<1> DEFINE It == CHOOSE h : h = [s \in SUBSET S |-> IF s = {} THEN 0 ELSE f[Any(s)] + h[s \ {Any(s)}]]
<1>1. Iterates(It, f, SUBSET S)
      BY DEF Iterates
<1>2. SumOf(f, S) = It[S]
      BY DEF SumOf, MapThenSumSet, MapThenFoldSet, Any
<1> QED
    BY <1>1, <1>2

\* The element the iteration takes next.
LEMMA AnyIsIn == ASSUME NEW s, s # {} PROVE Any(s) \in s
  BY DEF Any

\* A set with one element less.
LEMMA OneLess ==
  ASSUME NEW s, IsFiniteSet(s), NEW x \in s
  PROVE  IsFiniteSet(s \ {x}) /\ Cardinality(s) \in Nat /\ Cardinality(s \ {x}) \in Nat
         /\ Cardinality(s \ {x}) < Cardinality(s) /\ Cardinality(s \ {x}) = Cardinality(s) - 1
  BY FS_RemoveElement, FS_CardinalityType

\* What holds of a finite set as soon as it holds of all smaller ones holds of all: no set
\* of finite sets lacks a smallest one.
LEMMA SmallestSet ==
  ASSUME NEW Bad, Bad # {}, \A s \in Bad : IsFiniteSet(s)
  PROVE  \E s \in Bad : \A t \in Bad : Cardinality(s) <= Cardinality(t)
<1> DEFINE Sizes == {n \in Nat : \E s \in Bad : Cardinality(s) = n}
<1>1. \A s \in Bad : Cardinality(s) \in Sizes
      BY FS_CardinalityType
<1>2. Sizes # {} /\ Sizes \in SUBSET Nat
      BY <1>1
<1>3. PICK m \in Sizes : \A k \in Sizes : m <= k
      BY <1>2, LeastNatural
<1> QED
    BY <1>1, <1>3

\* Two iterations agree where the functions do.
LEMMA SameSum ==
  ASSUME NEW f, NEW e, NEW S, NEW T, NEW g, NEW h, Iterates(g, f, SUBSET S), Iterates(h, e, SUBSET T),
         NEW s, s \subseteq S, s \subseteq T, IsFiniteSet(s), \A x \in s : f[x] = e[x]
  PROVE  g[s] = h[s]
<1> DEFINE Bad == {t \in SUBSET s : g[t] # h[t]}
<1>1. SUFFICES ASSUME Bad # {} PROVE FALSE
      OBVIOUS
<1>2. \A t \in Bad : IsFiniteSet(t)
      BY FS_Subset
<1>3. PICK t \in Bad : \A u \in Bad : Cardinality(t) <= Cardinality(u)
      BY <1>1, <1>2, SmallestSet
<1>4. g[t] = (IF t = {} THEN 0 ELSE f[Any(t)] + g[t \ {Any(t)}]) /\ h[t] = (IF t = {} THEN 0 ELSE e[Any(t)] + h[t \ {Any(t)}])
      BY DEF Iterates
<1>5. t # {}
      BY <1>4
<1>6. Any(t) \in t /\ Any(t) \in s
      BY <1>5, AnyIsIn
<1>7. t \ {Any(t)} \notin Bad
  <2>1. Cardinality(t \ {Any(t)}) \in Nat /\ Cardinality(t) \in Nat /\ Cardinality(t \ {Any(t)}) < Cardinality(t)
        BY <1>2, <1>6, OneLess
  <2>2. ~(Cardinality(t) <= Cardinality(t \ {Any(t)}))
        BY <2>1
  <2> QED
      BY <1>3, <2>2
<1> QED
    BY <1>4, <1>5, <1>6, <1>7

\* An iteration over naturals yields naturals.
LEMMA SumType ==
  ASSUME NEW f, NEW S, IsFiniteSet(S), \A x \in S : f[x] \in Nat, NEW g, Iterates(g, f, SUBSET S)
  PROVE  \A s \in SUBSET S : g[s] \in Nat
<1> DEFINE Bad == {t \in SUBSET S : g[t] \notin Nat}
<1>1. SUFFICES ASSUME Bad # {} PROVE FALSE
      OBVIOUS
<1>2. \A t \in Bad : IsFiniteSet(t)
      BY FS_Subset
<1>3. PICK t \in Bad : \A u \in Bad : Cardinality(t) <= Cardinality(u)
      BY <1>1, <1>2, SmallestSet
<1>4. g[t] = (IF t = {} THEN 0 ELSE f[Any(t)] + g[t \ {Any(t)}])
      BY DEF Iterates
<1>5. t # {}
      BY <1>4
<1>6. Any(t) \in t /\ f[Any(t)] \in Nat
      BY <1>5, AnyIsIn
<1>7. t \ {Any(t)} \notin Bad
  <2>1. Cardinality(t \ {Any(t)}) \in Nat /\ Cardinality(t) \in Nat /\ Cardinality(t \ {Any(t)}) < Cardinality(t)
        BY <1>2, <1>6, OneLess
  <2>2. ~(Cardinality(t) <= Cardinality(t \ {Any(t)}))
        BY <2>1
  <2> QED
      BY <1>3, <2>2
<1> QED
    BY <1>4, <1>5, <1>6, <1>7

\* The order in which the elements are taken does not matter.
LEMMA TakeAny ==
  ASSUME NEW f, NEW S, IsFiniteSet(S), \A x \in S : f[x] \in Nat, NEW g, Iterates(g, f, SUBSET S)
  PROVE  \A s \in SUBSET S : \A x \in s : g[s] = f[x] + g[s \ {x}]
<1> DEFINE Bad == {t \in SUBSET S : \E x \in t : g[t] # f[x] + g[t \ {x}]}
<1>1. SUFFICES ASSUME Bad # {} PROVE FALSE
      OBVIOUS
<1>2. \A t \in Bad : IsFiniteSet(t)
      BY FS_Subset
<1>3. PICK t \in Bad : \A u \in Bad : Cardinality(t) <= Cardinality(u)
      BY <1>1, <1>2, SmallestSet
<1>4. PICK x \in t : g[t] # f[x] + g[t \ {x}]
      OBVIOUS
<1> DEFINE p == Any(t)
<1>5. p \in t /\ g[t] = f[p] + g[t \ {p}]
  <2>1. t # {} /\ g[t] = (IF t = {} THEN 0 ELSE f[Any(t)] + g[t \ {Any(t)}])
        BY <1>4 DEF Iterates
  <2> QED
      BY <2>1, AnyIsIn
<1>6. p # x
      BY <1>4, <1>5
<1>7. \A y \in t : t \ {y} \notin Bad /\ t \ {y} \in SUBSET S
  <2>1. ASSUME NEW y \in t PROVE t \ {y} \notin Bad
    <3>1. Cardinality(t \ {y}) \in Nat /\ Cardinality(t) \in Nat /\ Cardinality(t \ {y}) < Cardinality(t)
          BY <1>2, OneLess
    <3>2. ~(Cardinality(t) <= Cardinality(t \ {y}))
          BY <3>1
    <3> QED
        BY <1>3, <3>2
  <2> QED
      BY <2>1
<1>8. g[t \ {p}] = f[x] + g[(t \ {p}) \ {x}] /\ g[t \ {x}] = f[p] + g[(t \ {x}) \ {p}]
      BY <1>5, <1>6, <1>7
<1>9. (t \ {p}) \ {x} = (t \ {x}) \ {p} /\ (t \ {x}) \ {p} \in SUBSET S
      OBVIOUS
<1>10. f[x] \in Nat /\ f[p] \in Nat /\ g[(t \ {x}) \ {p}] \in Nat
      BY <1>5, <1>9, SumType
<1> DEFINE rest == g[(t \ {x}) \ {p}]
<1>11. g[t] = f[p] + (f[x] + rest) /\ f[x] + g[t \ {x}] = f[x] + (f[p] + rest)
      BY <1>5, <1>8, <1>9
<1>12. \A a, b, c \in Nat : a + (b + c) = b + (a + c)
      OBVIOUS
<1>13. f[p] + (f[x] + rest) = f[x] + (f[p] + rest)
      BY <1>10, <1>12
<1> HIDE DEF p, rest
<1> QED
    BY <1>4, <1>11, <1>13

\* The iteration that defines the sum exists.
LEMMA IterationExists ==
  ASSUME NEW f, NEW S, IsFiniteSet(S)
  PROVE  \E g : Iterates(g, f, SUBSET S)
<1> DEFINE UpTo(n) == {s \in SUBSET S : Cardinality(s) <= n}
           Bad == {n \in Nat : ~\E g : Iterates(g, f, UpTo(n))}
<1>0. \A s \in SUBSET S : IsFiniteSet(s) /\ Cardinality(s) \in Nat /\ Cardinality(s) <= Cardinality(S)
      BY FS_Subset, FS_CardinalityType
<1>1. Bad = {}
  <2>1. SUFFICES ASSUME Bad # {} PROVE FALSE
        OBVIOUS
  <2>2. PICK n \in Bad : \A k \in Bad : n <= k
        BY <2>1, LeastNatural
  <2>3. \E g : Iterates(g, f, UpTo(n))
    <3>1. CASE n = 0
      <4> DEFINE g == [s \in UpTo(n) |-> 0]
      <4>1. \A s \in UpTo(n) : s = {}
            BY <1>0, <3>1, FS_EmptySet
      <4>2. Iterates(g, f, UpTo(n))
            BY <4>1 DEF Iterates
      <4> QED
          BY <4>2
    <3>2. CASE n # 0
      <4>1. n - 1 \in Nat /\ n - 1 \notin Bad
        <5>1. n - 1 \in Nat /\ ~(n <= n - 1)
              BY <3>2
        <5> HIDE DEF Bad
        <5> QED
            BY <2>2, <5>1
      <4>2. PICK g : Iterates(g, f, UpTo(n - 1))
            BY <4>1
      <4> DEFINE h == [s \in UpTo(n) |-> IF s = {} THEN 0 ELSE f[Any(s)] + g[s \ {Any(s)}]]
      <4>3. ASSUME NEW s \in UpTo(n - 1) PROVE s \in UpTo(n) /\ h[s] = g[s]
        <5>1. s \in UpTo(n)
              BY <1>0, <4>1
        <5>2. g[s] = IF s = {} THEN 0 ELSE f[Any(s)] + g[s \ {Any(s)}]
              BY <4>2 DEF Iterates
        <5> QED
            BY <5>1, <5>2
      <4>4. ASSUME NEW s \in UpTo(n), s # {} PROVE s \ {Any(s)} \in UpTo(n - 1)
        <5>1. Any(s) \in s /\ s \in SUBSET S
              BY <4>4, AnyIsIn
        <5>2. Cardinality(s \ {Any(s)}) = Cardinality(s) - 1 /\ Cardinality(s) \in Nat
              BY <1>0, <5>1, OneLess
        <5> QED
            BY <5>1, <5>2, <4>1
      <4>5. \A s \in UpTo(n) : h[s] = IF s = {} THEN 0 ELSE f[Any(s)] + h[s \ {Any(s)}]
            BY <4>3, <4>4
      <4>6. h = [s \in UpTo(n) |-> IF s = {} THEN 0 ELSE f[Any(s)] + h[s \ {Any(s)}]]
            BY <4>5
      <4>7. Iterates(h, f, UpTo(n))
            BY <4>6 DEF Iterates
      <4> HIDE DEF h
      <4> QED
          BY <4>7
    <3> QED
        BY <3>1, <3>2
  <2> QED
      BY <2>3
<1>2. UpTo(Cardinality(S)) = SUBSET S /\ Cardinality(S) \in Nat
      BY <1>0
<1> QED
    BY <1>1, <1>2

\* What a proof uses of a sum.
LEMMA SumOfNone == ASSUME NEW f PROVE SumOf(f, {}) = 0
<1>1. PICK g : Iterates(g, f, SUBSET {})
      BY IterationExists, FS_EmptySet
<1>2. PICK h : Iterates(h, f, SUBSET {}) /\ SumOf(f, {}) = h[{}]
      BY <1>1, SumIsIterated
<1> QED
    BY <1>2 DEF Iterates

\* One element and the rest.
LEMMA SumOfRest ==
  ASSUME NEW f, NEW S, IsFiniteSet(S), \A x \in S : f[x] \in Nat, NEW x \in S
  PROVE  SumOf(f, S) = f[x] + SumOf(f, S \ {x}) /\ SumOf(f, S) \in Nat /\ SumOf(f, S \ {x}) \in Nat
<1>1. IsFiniteSet(S \ {x})
      BY FS_RemoveElement
<1>2. PICK g : Iterates(g, f, SUBSET S) /\ SumOf(f, S) = g[S]
      BY IterationExists, SumIsIterated
<1>3. PICK h : Iterates(h, f, SUBSET (S \ {x})) /\ SumOf(f, S \ {x}) = h[S \ {x}]
      BY <1>1, IterationExists, SumIsIterated
<1>4. g[S \ {x}] = h[S \ {x}]
  <2>1. ASSUME NEW T, NEW s, Iterates(h, f, SUBSET T), s \subseteq S, s \subseteq T, IsFiniteSet(s)
        PROVE  g[s] = h[s]
    <3>1. Iterates(g, f, SUBSET S) /\ \A y \in s : f[y] = f[y]
          BY <1>2
    <3> QED
        BY <2>1, <3>1, SameSum
  <2> QED
      BY <1>1, <1>3, <2>1
<1>5. g[S] = f[x] + g[S \ {x}]
      BY <1>2, TakeAny
<1>6. g[S] \in Nat /\ g[S \ {x}] \in Nat
      BY <1>2, SumType
<1> QED
    BY <1>2, <1>3, <1>4, <1>5, <1>6

\* The sum depends on the values at its elements only.
LEMMA SumOfSame ==
  ASSUME NEW f, NEW e, NEW S, IsFiniteSet(S), \A x \in S : f[x] = e[x]
  PROVE  SumOf(f, S) = SumOf(e, S)
<1>1. PICK g : Iterates(g, f, SUBSET S) /\ SumOf(f, S) = g[S]
      BY IterationExists, SumIsIterated
<1>2. PICK h : Iterates(h, e, SUBSET S) /\ SumOf(e, S) = h[S]
      BY IterationExists, SumIsIterated
<1>3. g[S] = h[S]
      BY <1>1, <1>2, SameSum
<1> QED
    BY <1>1, <1>2, <1>3

------------------------------------------------------------------------------
(* The store of tab contexts (AssetStore).                                     *)

(* The store: an asset that is forgotten counts nothing, what is left behind  *)
(* is nobody's, what can still be written to was not told, and a host that    *)
(* has ended has no assets.                                                   *)
Forgotten ==
  /\ IsFiniteSet(active) /\ active \cap left = {}
  /\ \A a \in TabAssets \ active : bytes[a] = 0
  /\ \A a \in TabAssets \ disk : size[a] = 0 /\ told[a] = Untold
  /\ \A a \in open : told[a] = Untold
  /\ ~hosting => active = {}

StoreInv == StoreTypeOK /\ Forgotten /\ StoreSound

\* It holds at the start.
LEMMA StoreStarts == StoreInit => StoreInv
<1> SUFFICES ASSUME StoreInit PROVE StoreInv
    OBVIOUS
<1>1. StoreTypeOK
  <2>1. Untold \in Nat
        BY AssetStoreAssumption DEF AssetStoreAssumption, Untold
  <2> QED
      BY <2>1, AssetStoreAssumption DEF AssetStoreAssumption, StoreInit, StoreTypeOK
<1>2. Forgotten /\ Theirs /\ Frozen
      BY FS_EmptySet DEF StoreInit, Forgotten, Theirs, Frozen
<1>3. Accounted
      BY SumOfNone DEF StoreInit, Accounted
<1> QED
    BY <1>1, <1>2, <1>3 DEF StoreInv, StoreSound

\* What the total is made of, for one of the assets.
LEMMA TotalOfRest ==
  ASSUME StoreInv, NEW a \in active
  PROVE  /\ total = bytes[a] + SumOf(bytes, active \ {a})
         /\ bytes[a] \in Nat /\ total \in Nat /\ SumOf(bytes, active \ {a}) \in Nat
<1>1. IsFiniteSet(active) /\ \A x \in active : bytes[x] \in Nat
      BY DEF StoreInv, StoreTypeOK, Forgotten
<1> QED
    BY <1>1, SumOfRest DEF StoreInv, StoreSound, Accounted

\* The assets in gone \cup kept are forgotten, one or all.
LEMMA Forgetting ==
  ASSUME StoreInv, NEW gone \in SUBSET active, NEW kept \in SUBSET active, gone \cap kept = {},
         Forget(gone, kept), hosting' \in BOOLEAN, hosting' \/ active = gone \cup kept, total' \in 0..MaxTotalBytes,
         total' = SumOf(bytes, active \ (gone \cup kept))
  PROVE  StoreInv'
<1> DEFINE dropping == gone \cup kept
<1>t. StoreTypeOK /\ Forgotten /\ Accounted /\ Theirs /\ Frozen
      BY DEF StoreInv, StoreSound
<1>0. /\ active' = active \ dropping /\ open' = open \ dropping
      /\ disk' = disk \ gone /\ ragged' = ragged \ gone /\ left' = left \cup kept
      /\ bytes' = [a \in TabAssets |-> IF a \in dropping THEN 0 ELSE bytes[a]]
      /\ size' = [a \in TabAssets |-> IF a \in gone THEN 0 ELSE size[a]]
      /\ told' = [a \in TabAssets |-> IF a \in gone THEN Untold ELSE told[a]]
      BY DEF Forget
<1>u. Untold \in Nat
      BY AssetStoreAssumption DEF AssetStoreAssumption, Untold
<1>1. /\ bytes' \in [TabAssets -> 0..MaxAssetBytes] /\ size' \in [TabAssets -> Nat] /\ told' \in [TabAssets -> Nat]
      /\ \A a \in TabAssets : /\ bytes'[a] = IF a \in dropping THEN 0 ELSE bytes[a]
                              /\ size'[a] = IF a \in gone THEN 0 ELSE size[a]
                              /\ told'[a] = IF a \in gone THEN Untold ELSE told[a]
      BY <1>t, <1>0, <1>u, AssetStoreAssumption DEF AssetStoreAssumption, StoreTypeOK
<1>l. dropping \subseteq active /\ gone \subseteq dropping /\ active \subseteq disk /\ disk \subseteq TabAssets /\ kept \cap gone = {}
      BY <1>t DEF StoreTypeOK
<1>d. disk = active \cup left
      BY <1>t DEF Theirs
<1> HIDE DEF dropping
<1>2. StoreTypeOK'
  <2>1. active' \in SUBSET disk' /\ open' \in SUBSET active' /\ disk' \in SUBSET TabAssets
        BY <1>t, <1>0, <1>l DEF StoreTypeOK
  <2>2. ragged' \in SUBSET disk' /\ left' \in SUBSET disk'
    <3>1. ragged' \in SUBSET disk'
          BY <1>t, <1>0 DEF StoreTypeOK
    <3>2. left' \in SUBSET disk'
          BY <1>t, <1>0, <1>l DEF StoreTypeOK, Forgotten
    <3> QED
        BY <3>1, <3>2
  <2> QED
      BY <1>1, <2>1, <2>2 DEF StoreTypeOK
<1>3. Forgotten'
  <2>1. IsFiniteSet(active')
        BY <1>t, <1>0, FS_Subset DEF Forgotten
  <2>2. active' \cap left' = {}
        BY <1>t, <1>0 DEF Forgotten, dropping
  <2>3. \A a \in TabAssets \ active' : bytes'[a] = 0
        BY <1>t, <1>0, <1>1 DEF Forgotten
  <2>4. \A a \in TabAssets \ disk' : size'[a] = 0 /\ told'[a] = Untold
        BY <1>t, <1>0, <1>1 DEF Forgotten
  <2>5. \A a \in open' : told'[a] = Untold
        BY <1>t, <1>0, <1>1, <1>l DEF Forgotten, StoreTypeOK
  <2>6. ~hosting' => active' = {}
        BY <1>0 DEF dropping
  <2> QED
      BY <2>1, <2>2, <2>3, <2>4, <2>5, <2>6 DEF Forgotten
<1>4. Accounted'
  <2>1. \A a \in active' : bytes'[a] = bytes[a]
        BY <1>0, <1>1, <1>l
  <2>2. IsFiniteSet(active') /\ active' = active \ (gone \cup kept)
        BY <1>3, <1>0 DEF Forgotten, dropping
  <2>3. SumOf(bytes', active') = SumOf(bytes, active')
        BY <2>1, <2>2, SumOfSame
  <2>4. total' = SumOf(bytes', active')
        BY <2>2, <2>3
  <2> QED
      BY <2>4 DEF Accounted
<1>5. Theirs' /\ Frozen'
  <2>1. disk' = active' \cup left'
        BY <1>t, <1>0, <1>l, <1>d DEF dropping, Forgotten
  <2>2. \A a \in active' \ ragged' : size'[a] = bytes'[a]
        BY <1>t, <1>0, <1>1, <1>l DEF Theirs
  <2>3. \A a \in disk' : told'[a] # Untold => size'[a] = told'[a]
        BY <1>t, <1>0, <1>1, <1>l DEF Frozen
  <2> QED
      BY <2>1, <2>2, <2>3 DEF Theirs, Frozen
<1> QED
    BY <1>2, <1>3, <1>4, <1>5 DEF StoreInv, StoreSound

\* And every step keeps it.
LEMMA StoreSteps == StoreInv /\ [StoreNext]_storeVars => StoreInv'
<1> SUFFICES ASSUME StoreInv, [StoreNext]_storeVars PROVE StoreInv'
    OBVIOUS
<1>t. StoreTypeOK /\ Forgotten /\ Accounted /\ Theirs /\ Frozen
      BY DEF StoreInv, StoreSound
<1>q. SUFFICES StoreTypeOK' /\ Forgotten' /\ Accounted' /\ Theirs' /\ Frozen'
      BY DEF StoreInv, StoreSound
<1>f. IsFiniteSet(active) /\ \A x \in active : bytes[x] \in Nat
      BY <1>t DEF StoreTypeOK, Forgotten
<1>u. Untold \in Nat
      BY AssetStoreAssumption DEF AssetStoreAssumption, Untold
<1>1. ASSUME NEW a \in TabAssets, Create(a)
      PROVE  StoreTypeOK' /\ Forgotten' /\ Accounted' /\ Theirs' /\ Frozen'
  <2>0. /\ hosting /\ a \notin disk /\ disk' = disk \cup {a} /\ active' = active \cup {a} /\ open' = open \cup {a}
        /\ UNCHANGED <<hosting, bytes, total, size, ragged, left, told>>
        BY <1>1 DEF Create
  <2>1. a \notin active /\ a \notin left /\ bytes[a] = 0
        BY <1>t, <2>0 DEF StoreTypeOK, Forgotten
  <2>2. StoreTypeOK'
        BY <1>t, <2>0 DEF StoreTypeOK
  <2>3. IsFiniteSet(active') /\ Forgotten'
        BY <1>t, <2>0, <2>1, FS_AddElement DEF Forgotten
  <2>4. Accounted'
    <3> DEFINE S == active \cup {a}
    <3>1. IsFiniteSet(S) /\ a \in S /\ (\A x \in S : bytes[x] \in Nat) /\ S \ {a} = active /\ active' = S
          BY <1>f, <2>0, <2>1, FS_AddElement
    <3> HIDE DEF S
    <3>2. SumOf(bytes, S) = bytes[a] + SumOf(bytes, S \ {a}) /\ SumOf(bytes, S \ {a}) \in Nat
          BY <3>1, SumOfRest
    <3>3. total = SumOf(bytes, S)
      <4>1. SumOf(bytes, S \ {a}) = SumOf(bytes, active) /\ SumOf(bytes, active) = total
            BY <1>t, <3>1 DEF Accounted
      <4> QED
          BY <2>1, <3>2, <4>1
    <3> QED
        BY <2>0, <3>1, <3>3 DEF Accounted
  <2>5. Theirs' /\ Frozen'
        BY <1>t, <2>0, <2>1 DEF Theirs, Frozen, Forgotten
  <2> QED
      BY <2>2, <2>3, <2>4, <2>5
<1>2. ASSUME NEW a \in TabAssets, NEW n \in Chunks, AppendChunk(a, n)
      PROVE  StoreTypeOK' /\ Forgotten' /\ Accounted' /\ Theirs' /\ Frozen'
  <2>0. /\ hosting /\ a \in active /\ a \in open /\ bytes[a] + n <= MaxAssetBytes /\ total + n <= MaxTotalBytes
        /\ size' = [size EXCEPT ![a] = @ + n] /\ bytes' = [bytes EXCEPT ![a] = @ + n] /\ total' = total + n
        /\ UNCHANGED <<hosting, active, open, disk, ragged, left, told>>
        BY <1>2 DEF AppendChunk, Appends, Fits
  <2>n. n \in Nat /\ bytes[a] \in Nat /\ total \in Nat /\ size[a] \in Nat /\ MaxAssetBytes \in Nat /\ MaxTotalBytes \in Nat
        BY <1>t, AssetStoreAssumption DEF StoreTypeOK, AssetStoreAssumption
  <2>1. /\ bytes'[a] = bytes[a] + n /\ size'[a] = size[a] + n
        /\ \A x \in TabAssets : x # a => bytes'[x] = bytes[x] /\ size'[x] = size[x]
        /\ bytes' \in [TabAssets -> 0..MaxAssetBytes] /\ size' \in [TabAssets -> Nat]
    <3>1. bytes[a] + n \in 0..MaxAssetBytes /\ size[a] + n \in Nat
          BY <2>0, <2>n
    <3> QED
        BY <1>t, <2>0, <3>1 DEF StoreTypeOK
  <2>2. StoreTypeOK'
    <3>1. total' \in 0..MaxTotalBytes
          BY <2>0, <2>n
    <3> QED
        BY <1>t, <2>0, <2>1, <3>1 DEF StoreTypeOK
  <2>3. Forgotten'
        BY <1>t, <2>0, <2>1 DEF Forgotten, StoreTypeOK
  <2>4. Accounted'
    <3>1. SumOf(bytes', active \ {a}) = SumOf(bytes, active \ {a})
      <4>1. IsFiniteSet(active \ {a}) /\ \A x \in active \ {a} : bytes'[x] = bytes[x]
            BY <1>t, <1>f, <2>1, FS_RemoveElement DEF StoreTypeOK
      <4> QED
          BY <4>1, SumOfSame
    <3>2. SumOf(bytes', active) = bytes'[a] + SumOf(bytes', active \ {a})
      <4>1. \A x \in active : bytes'[x] \in Nat
            BY <1>t, <2>1 DEF StoreTypeOK
      <4>2. ASSUME NEW f, \A x \in active : f[x] \in Nat
            PROVE  SumOf(f, active) = f[a] + SumOf(f, active \ {a})
            BY <1>f, <2>0, <4>2, SumOfRest
      <4> QED
          BY <4>1, <4>2
    <3>3. total = bytes[a] + SumOf(bytes, active \ {a}) /\ SumOf(bytes, active \ {a}) \in Nat
          BY <2>0, TotalOfRest
    <3>4. total + n = (bytes[a] + n) + SumOf(bytes, active \ {a})
          BY <2>n, <3>3
    <3>5. total' = SumOf(bytes', active)
          BY <2>0, <2>1, <3>1, <3>2, <3>4
    <3> QED
        BY <2>0, <3>5 DEF Accounted
  <2>5. Theirs' /\ Frozen'
        BY <1>t, <2>0, <2>1 DEF Theirs, Frozen, Forgotten, StoreTypeOK
  <2> QED
      BY <2>2, <2>3, <2>4, <2>5
<1>3. ASSUME NEW a \in TabAssets, NEW n \in Chunks, AppendFails(a, n)
      PROVE  StoreTypeOK' /\ Forgotten' /\ Accounted' /\ Theirs' /\ Frozen'
  <2>0. PICK k \in 0..(n - 1) : size' = [size EXCEPT ![a] = @ + k]
        BY <1>3 DEF AppendFails
  <2>1. /\ hosting /\ a \in active /\ a \in open /\ ragged' = ragged \cup {a}
        /\ UNCHANGED <<hosting, active, open, bytes, total, disk, left, told>>
        BY <1>3 DEF AppendFails, Appends
  <2>2. size' \in [TabAssets -> Nat] /\ \A x \in TabAssets : x # a => size'[x] = size[x]
    <3>1. size[a] + k \in Nat
          BY <1>t, <2>0, AssetStoreAssumption DEF StoreTypeOK, AssetStoreAssumption
    <3> QED
        BY <1>t, <2>0, <3>1 DEF StoreTypeOK
  <2>3. StoreTypeOK' /\ Forgotten'
        BY <1>t, <2>1, <2>2 DEF StoreTypeOK, Forgotten
  <2>4. Accounted'
        BY <1>t, <2>1 DEF Accounted
  <2>5. Theirs' /\ Frozen'
        BY <1>t, <2>1, <2>2 DEF Theirs, Frozen, Forgotten, StoreTypeOK
  <2> QED
      BY <2>3, <2>4, <2>5
<1>4. ASSUME NEW a \in TabAssets, Finish(a)
      PROVE  StoreTypeOK' /\ Forgotten' /\ Accounted' /\ Theirs' /\ Frozen'
  <2>0. /\ hosting /\ a \in active /\ open' = open \ {a}
        /\ UNCHANGED <<hosting, active, bytes, total, disk, size, ragged, left>>
        BY <1>4 DEF Finish
  <2>1. /\ told' \in [TabAssets -> Nat]
        /\ \A x \in TabAssets : x # a => told'[x] = told[x]
        /\ told'[a] \in {told[a], size[a]} /\ (told[a] # Untold => told'[a] = told[a])
        BY <1>t, <1>4, <1>u DEF Finish, Tells, StoreTypeOK
  <2>3. StoreTypeOK' /\ Forgotten'
        BY <1>t, <2>0, <2>1 DEF StoreTypeOK, Forgotten
  <2>4. Accounted'
        BY <1>t, <2>0 DEF Accounted
  <2>5. Theirs' /\ Frozen'
        BY <1>t, <2>0, <2>1 DEF Theirs, Frozen, StoreTypeOK
  <2> QED
      BY <2>3, <2>4, <2>5
<1>5. ASSUME NEW a \in TabAssets, RemoveAsset(a) PROVE StoreInv'
  <2>0. /\ hosting /\ a \in active /\ hosting' = hosting /\ total' = IF total > bytes[a] THEN total - bytes[a] ELSE 0
        BY <1>5 DEF RemoveAsset
  <2>1. total = bytes[a] + SumOf(bytes, active \ {a}) /\ bytes[a] \in Nat /\ total \in Nat /\ SumOf(bytes, active \ {a}) \in Nat
        BY <2>0, TotalOfRest
  <2>2. total' = SumOf(bytes, active \ {a})
        BY <2>0, <2>1
  <2>3. total' \in 0..MaxTotalBytes /\ hosting' \in BOOLEAN
        BY <1>t, <2>0, <2>1, <2>2, AssetStoreAssumption DEF StoreTypeOK, AssetStoreAssumption
  <2>4. PICK gone \in SUBSET active, kept \in SUBSET active :
          gone \cup kept = {a} /\ gone \cap kept = {} /\ Forget(gone, kept)
    <3>1. CASE Forget({a}, {})
          BY <2>0, <3>1
    <3>2. CASE Forget({}, {a})
          BY <2>0, <3>2
    <3> QED
        BY <1>5, <3>1, <3>2 DEF RemoveAsset
  <2> QED
      BY <2>0, <2>2, <2>3, <2>4, Forgetting
<1>6. CASE HostEnds \/ HostKilled
  <2>1. PICK gone \in SUBSET active, kept \in SUBSET active :
          gone \cup kept = active /\ gone \cap kept = {} /\ Forget(gone, kept)
    <3>1. CASE HostKilled
          BY <3>1 DEF HostKilled
    <3>2. CASE HostEnds
      <4>1. PICK failed \in SUBSET active : Forget(active \ failed, failed)
            BY <3>2 DEF HostEnds
      <4> QED
          BY <4>1
    <3> QED
        BY <1>6, <3>1, <3>2
  <2>2. hosting' = FALSE /\ total' = 0
        BY <1>6 DEF HostEnds, HostKilled
  <2>3. active \ (gone \cup kept) = {}
        BY <2>1
  <2>4. total' = SumOf(bytes, active \ (gone \cup kept)) /\ total' \in 0..MaxTotalBytes
        BY <2>2, <2>3, SumOfNone, AssetStoreAssumption DEF AssetStoreAssumption
  <2>5. hosting' \in BOOLEAN /\ (hosting' \/ active = gone \cup kept)
        BY <2>1, <2>2
  <2>6. gone \in SUBSET active /\ kept \in SUBSET active /\ gone \cap kept = {} /\ Forget(gone, kept)
        BY <2>1
  <2>7. StoreInv'
        BY <2>4, <2>5, <2>6, Forgetting
  <2> QED
      BY <2>7 DEF StoreInv, StoreSound
<1>7. CASE HostStarts
  <2>0. ~hosting /\ hosting' = TRUE /\ UNCHANGED <<active, open, bytes, total, disk, size, ragged, left, told>>
        BY <1>7 DEF HostStarts
  <2> QED
      BY <1>t, <2>0 DEF StoreTypeOK, Forgotten, Accounted, Theirs, Frozen
<1>8. CASE TmpCleaned
  <2>0. /\ ~hosting /\ disk' = {} /\ ragged' = {} /\ left' = {}
        /\ size' = [a \in TabAssets |-> 0] /\ told' = [a \in TabAssets |-> Untold]
        /\ UNCHANGED <<hosting, active, open, bytes, total>>
        BY <1>8 DEF TmpCleaned
  <2>1. active = {} /\ open = {}
        BY <1>t, <2>0 DEF Forgotten, StoreTypeOK
  <2>2. StoreTypeOK' /\ Forgotten' /\ Theirs' /\ Frozen'
        BY <1>t, <1>u, <2>0, <2>1 DEF StoreTypeOK, Forgotten, Theirs, Frozen
  <2>3. Accounted'
        BY <1>t, <2>0 DEF Accounted
  <2> QED
      BY <2>2, <2>3
<1>9. CASE UNCHANGED storeVars
      BY <1>t, <1>9 DEF storeVars, StoreTypeOK, Forgotten, Accounted, Theirs, Frozen
<1> QED
    BY <1>1, <1>2, <1>3, <1>4, <1>5, <1>6, <1>7, <1>8, <1>9 DEF StoreNext, StoreInv, StoreSound

StoreSpec == StoreInit /\ [][StoreNext]_storeVars

(* The total of the store is the sum over its active assets, at most MaxActive *)
(* and none above its limit, whatever of an append, a flush or a deletion      *)
(* failed, and a finished file keeps its size (AssetStore::append, finish,     *)
(* clear).                                                                     *)
THEOREM StoreAlwaysSound == StoreSpec => [](StoreTypeOK /\ StoreSound)
<1>1. StoreInv => StoreTypeOK /\ StoreSound
      BY DEF StoreInv
<1> QED
    BY <1>1, StoreStarts, StoreSteps, PTL DEF StoreSpec

------------------------------------------------------------------------------
(* The IPC client (IpcClient).                                                 *)

(* The client: a request that waits has not ended, and the timer of the next  *)
(* connection runs only while there is none and none was given up.            *)
WaitsOnce ==
  /\ \A r \in Requests : ended[r] <= 1 /\ (r \in pending => ended[r] = 0)
  /\ retry => link = "none" /\ ~stopped

IpcInv == IpcTypeOK /\ WaitsOnce /\ IpcSound

\* It holds at the start.
LEMMA IpcStarts == IpcInit => IpcInv
<1> SUFFICES ASSUME IpcInit PROVE IpcInv
    OBVIOUS
<1> USE IpcAssumption DEF IpcAssumption, IpcInit
<1>0. opens \in 0..MaxOpens /\ ended \in [Requests -> 0..2]
  <2>1. opens \in 0..MaxOpens
        OBVIOUS
  <2>2. ended \in [Requests -> 0..2]
        OBVIOUS
  <2> QED
      BY <2>1, <2>2
<1>1. IpcTypeOK
      BY <1>0 DEF IpcTypeOK
<1>2. WaitsOnce /\ IpcSound
      BY DEF WaitsOnce, IpcSound
<1> QED
    BY <1>1, <1>2 DEF IpcInv

\* What ends requests that wait ends each of them once.
LEMMA EndsOfWaiting ==
  ASSUME IpcTypeOK, WaitsOnce, NEW rs, rs \cap Requests \subseteq pending, Ends(rs)
  PROVE  /\ ended' \in [Requests -> 0..2]
         /\ \A r \in Requests : ended'[r] <= 1 /\ (r \notin rs => ended'[r] = ended[r])
<1>1. \A r \in Requests : ended'[r] = IF r \in rs THEN 1 ELSE ended[r]
      BY DEF IpcTypeOK, WaitsOnce, Ends
<1>2. \A r \in Requests : ended'[r] \in 0..2 /\ ended'[r] <= 1
      BY <1>1 DEF IpcTypeOK, WaitsOnce
<1>3. ended' = [r \in Requests |-> ended'[r]]
      BY DEF Ends
<1> QED
    BY <1>1, <1>2, <1>3

\* And every step keeps it.
LEMMA IpcSteps == IpcInv /\ [IpcNext]_ipcVars => IpcInv'
<1> SUFFICES ASSUME IpcInv, [IpcNext]_ipcVars PROVE IpcInv'
    OBVIOUS
<1>t. IpcTypeOK /\ WaitsOnce /\ IpcSound
      BY DEF IpcInv
<1>q. SUFFICES IpcTypeOK' /\ WaitsOnce' /\ IpcSound'
      BY DEF IpcInv
<1> USE IpcAssumption, <1>t DEF IpcAssumption
<1>1. CASE Connected
      BY <1>1 DEF Connected, IpcTypeOK, WaitsOnce, IpcSound
<1>2. CASE Closed
  <2>1. ended' \in [Requests -> 0..2] /\ \A r \in Requests : ended'[r] <= 1
        BY <1>2, EndsOfWaiting DEF Closed
  <2>2. decoder' \in {"clean", "stale"} /\ (decoder' = "stale" => torn')
        BY <1>2 DEF Closed, Residue, IpcTypeOK, IpcSound
  <2>3. IpcTypeOK'
        BY <1>2, <2>1, <2>2 DEF Closed, IpcTypeOK
  <2>4. WaitsOnce' /\ IpcSound'
        BY <1>2, <2>1, <2>2 DEF Closed, IpcTypeOK, WaitsOnce, IpcSound
  <2> QED
      BY <2>3, <2>4
<1>3. CASE Reconnects
  <2>1. opens' \in 0..MaxOpens
        BY <1>3 DEF Reconnects, IpcTypeOK
  <2>2. IpcTypeOK'
        BY <1>3, <2>1 DEF Reconnects, IpcTypeOK
  <2>3. WaitsOnce' /\ IpcSound'
        BY <1>3 DEF Reconnects, IpcTypeOK, WaitsOnce, IpcSound
  <2> QED
      BY <2>2, <2>3
<1>4. ASSUME NEW r \in Requests, SendRequest(r) PROVE IpcTypeOK' /\ WaitsOnce' /\ IpcSound'
  <2>1. CASE link = "open"
        BY <1>4, <2>1 DEF SendRequest, IpcTypeOK, WaitsOnce, IpcSound
  <2>2. CASE link # "open"
    <3>1. \A q \in Requests : ended'[q] = IF q = r THEN 1 ELSE ended[q]
          BY <1>4, <2>2 DEF SendRequest, Ends, IpcTypeOK
    <3>2. ended' \in [Requests -> 0..2]
          BY <1>4, <2>2, <3>1 DEF SendRequest, Ends, IpcTypeOK
    <3> QED
        BY <1>4, <2>2, <3>1, <3>2 DEF SendRequest, IpcTypeOK, WaitsOnce, IpcSound
  <2> QED
      BY <2>1, <2>2
<1>5. ASSUME NEW r \in pending, Timeout(r) \/ Receive(r) PROVE IpcTypeOK' /\ WaitsOnce' /\ IpcSound'
  <2>1. pending' = pending \ {r} /\ link \in {"open", "closing"} /\ UNCHANGED <<stopped, retry, opens, stopLate, torn>>
        BY <1>5 DEF Timeout, Receive, IpcSound
  <2>2. /\ ended' \in [Requests -> 0..2] /\ \A q \in Requests : ended'[q] <= 1
        /\ \A q \in Requests : q # r => ended'[q] = ended[q]
        BY <1>5, EndsOfWaiting DEF Timeout, Receive
  <2>3. link' \in {link, "closing"} /\ starting' \in BOOLEAN /\ decoder' \in {"clean", decoder}
        BY <1>5 DEF Timeout, Receive, IpcTypeOK
  <2>4. initialized' \in BOOLEAN /\ (initialized' => Hello \notin pending')
        BY <1>5 DEF Timeout, Receive, IpcTypeOK, IpcSound
  <2>5. IpcTypeOK'
        BY <2>1, <2>2, <2>3, <2>4 DEF IpcTypeOK
  <2>6. WaitsOnce'
        BY <2>1, <2>2, <2>3 DEF WaitsOnce
  <2>7. IpcSound'
        BY <2>1, <2>2, <2>3, <2>4 DEF IpcSound
  <2> QED
      BY <2>5, <2>6, <2>7
<1>6. CASE ReceiveOther \/ DecodeFails \/ Misread
  <2>1. /\ link = "open" /\ link' \in {"open", "closing"}
        /\ UNCHANGED <<stopped, retry, initialized, pending, ended, starting, opens, stopLate>>
        BY <1>6 DEF ReceiveOther, DecodeFails, Misread, Decodes
  <2>2. decoder' \in {"clean", "mid", "stale"} /\ torn' \in BOOLEAN /\ (decoder' = "stale" => torn')
        BY <1>6 DEF ReceiveOther, DecodeFails, Misread, Decodes, IpcTypeOK, IpcSound
  <2> QED
      BY <2>1, <2>2 DEF IpcTypeOK, WaitsOnce, IpcSound
<1>7. CASE Stop
  <2>1. ended' \in [Requests -> 0..2] /\ \A r \in Requests : ended'[r] <= 1
        BY <1>7, EndsOfWaiting DEF Stop
  <2>2. IpcTypeOK'
        BY <1>7, <2>1 DEF Stop, IpcTypeOK
  <2>3. WaitsOnce' /\ IpcSound'
        BY <1>7, <2>1 DEF Stop, IpcTypeOK, WaitsOnce, IpcSound
  <2> QED
      BY <2>2, <2>3
<1>8. CASE UNCHANGED ipcVars
      BY <1>8 DEF ipcVars, IpcTypeOK, WaitsOnce, IpcSound
<1> QED
    BY <1>1, <1>2, <1>3, <1>4, <1>5, <1>6, <1>7, <1>8 DEF IpcNext, ConnectFails, SocketCloses

IpcSpec == IpcInit /\ [][IpcNext]_ipcVars

(* Every request of the IPC client ends once, whatever closes its socket, and  *)
(* the decoder holds the rest of a frame only after one was cut (IpcClient,    *)
(* ipc-client.mjs).                                                            *)
THEOREM ClientAlwaysSound == IpcSpec => [](IpcTypeOK /\ IpcSound)
<1>1. IpcInv => IpcTypeOK /\ IpcSound
      BY DEF IpcInv
<1> QED
    BY <1>1, IpcStarts, IpcSteps, PTL DEF IpcSpec

------------------------------------------------------------------------------
(* The publication of a version (Release).                                     *)

(* The runs of the workflow: but for a race only one is publishing; what it   *)
(* has done so far of its turn is there; and one reporter at a time leaves    *)
(* one issue.                                                                 *)
Solitary ==
  ~raced => \A r, o \in Workflows : job[r] \in Publishing /\ job[o] \in Publishing => r = o

Ready(r) ==
  /\ job[r] \in Publishing \cup {"refuse"} => r \in smoked
  /\ job[r] \notin Publishing \cup Over => unsent[r] = Assets

InTurn(r) ==
  /\ job[r] \in {"release", "publish"} => npm = Nothing
  /\ job[r] = "release" => \A a \in Assets \ unsent[r] : assets[a] = r
  /\ job[r] = "publish" => \A a \in Assets : assets[a] = r
  /\ job[r] = "aur" => npm = r

Consistent ==
  /\ npm # Nothing => npm \in smoked /\ \A a \in Assets : assets[a] = npm
  /\ aur \in {Nothing, npm}

Published == ~raced /\ ~misled => Consistent /\ \A r \in Workflows : InTurn(r)

Reported ==
  ~crossed =>
    /\ issues <= 1
    /\ \A r, o \in Workflows : job[r] = "create" /\ job[o] = "create" => r = o
    /\ \A r \in Workflows : job[r] = "create" /\ ~sawIssue[r] => issues = 0

Failed == {r \in Workflows : job[r] = "failed"}

ReleaseInv ==
  /\ ReleaseTypeOK /\ issues <= Cardinality(Failed)
  /\ Solitary /\ (\A r \in Workflows : Ready(r)) /\ Published /\ Reported

\* It holds at the start.
LEMMA ReleaseStarts == ReleaseInit => ReleaseInv
<1> SUFFICES ASSUME ReleaseInit PROVE ReleaseInv
    OBVIOUS
<1>1. ReleaseTypeOK
  <2>1. Cardinality(Workflows) \in Nat /\ issues \in 0..Cardinality(Workflows)
        BY ReleaseAssumption, FS_CardinalityType DEF ReleaseAssumption, ReleaseInit
  <2> QED
      BY <2>1 DEF ReleaseTypeOK, ReleaseInit, Steps
<1>2. Failed = {} /\ Cardinality({}) = 0
      BY FS_EmptySet DEF Failed, ReleaseInit
<1>3. Solitary /\ (\A r \in Workflows : Ready(r)) /\ Published /\ Reported
      BY DEF ReleaseInit, Solitary, Ready, Published, Consistent, InTurn, Reported, Publishing, Over
<1> QED
    BY <1>1, <1>2, <1>3 DEF ReleaseInv, ReleaseInit

\* A run that goes to another step, alone: what the other runs see of it.
Moved(r, step) == job \in [Workflows -> Steps] /\ r \in Workflows /\ step \in Steps /\ Goes(r, step)

LEMMA Moving ==
  ASSUME NEW r, NEW step, Moved(r, step)
  PROVE  /\ job' \in [Workflows -> Steps] /\ job'[r] = step
         /\ \A o \in Workflows : o # r => job'[o] = job[o]
  BY DEF Moved, Goes

\* Runs that failed stay so, and there is one more when one of the others does.
LEMMA MoreFailed ==
  ASSUME NEW r, NEW step, Moved(r, step), ~At(r, "failed"), IsFiniteSet(Workflows)
  PROVE  /\ Cardinality(Failed) \in Nat /\ Cardinality(Failed') \in Nat
         /\ Cardinality(Failed') <= Cardinality(Workflows)
         /\ Cardinality(Failed') >= Cardinality(Failed)
         /\ step = "failed" => Cardinality(Failed') = Cardinality(Failed) + 1
<1>1. Failed \subseteq Workflows /\ Failed' \subseteq Workflows /\ Failed \subseteq Failed'
      BY Moving DEF Failed, At, Moved
<1>2. IsFiniteSet(Failed) /\ IsFiniteSet(Failed')
      BY <1>1, FS_Subset
<1>3. ASSUME step = "failed" PROVE Failed' = Failed \cup {r} /\ r \notin Failed
      BY <1>3, Moving DEF Failed, At, Moved
<1>4. step = "failed" => Cardinality(Failed') = Cardinality(Failed) + 1
      BY <1>2, <1>3, FS_AddElement
<1> QED
    BY <1>1, <1>2, <1>4, FS_CardinalityType, FS_Subset

\* A step of a run before it publishes anything, that reports nothing.
LEMMA BeforePublication ==
  ASSUME ReleaseInv, NEW r \in Workflows, NEW step \in Steps \ Publishing, Goes(r, step),
         job[r] \notin Publishing \cup Over, step \notin {"create", "refuse"},
         UNCHANGED <<publicVars, issueVars>>, trigger' \in [Workflows -> {"schedule", "dispatch", "force"}]
  PROVE  ReleaseInv'
<1> USE DEF publicVars, issueVars
<1>1. Moved(r, step) /\ ~At(r, "failed")
      BY DEF ReleaseInv, ReleaseTypeOK, Moved, At, Over
<1>2. job' \in [Workflows -> Steps] /\ job'[r] = step /\ \A o \in Workflows : o # r => job'[o] = job[o]
      BY <1>1, Moving
<1>3. ReleaseTypeOK' /\ (issues <= Cardinality(Failed))'
      BY <1>1, <1>2, MoreFailed, ReleaseAssumption DEF ReleaseAssumption, ReleaseInv, ReleaseTypeOK
<1>4. Solitary' /\ Reported'
      BY <1>2 DEF ReleaseInv, Solitary, Reported
<1>5. \A o \in Workflows : Ready(o)'
      BY <1>2 DEF ReleaseInv, Ready
<1>6. Published'
      BY <1>2 DEF ReleaseInv, Published, Consistent, InTurn, Publishing
<1> QED
    BY <1>3, <1>4, <1>5, <1>6 DEF ReleaseInv

\* What a step of a run keeps of the types when it leaves the rest to be seen.
LEMMA StepTypes ==
  ASSUME ReleaseInv, NEW r \in Workflows, NEW step \in Steps, Goes(r, step), ~At(r, "failed"),
         UNCHANGED <<issues, trigger>>, sawIssue' \in [Workflows -> BOOLEAN], smoked' \subseteq Workflows,
         npm' \in Workflows \cup {Nothing}, aur' \in Workflows \cup {Nothing}, UNCHANGED <<assets, unsent>>,
         raced' \in BOOLEAN, misled' \in BOOLEAN, crossed' \in BOOLEAN
  PROVE  /\ ReleaseTypeOK' /\ (issues <= Cardinality(Failed))'
         /\ job'[r] = step /\ \A o \in Workflows : o # r => job'[o] = job[o]
<1>1. Moved(r, step)
      BY DEF ReleaseInv, ReleaseTypeOK, Moved
<1>2. /\ job' \in [Workflows -> Steps] /\ job'[r] = step
      /\ \A o \in Workflows : o # r => job'[o] = job[o]
      BY <1>1, Moving
<1>3. ReleaseTypeOK'
      BY <1>2 DEF ReleaseInv, ReleaseTypeOK
<1>4. (issues <= Cardinality(Failed))'
      BY <1>1, MoreFailed, ReleaseAssumption DEF ReleaseAssumption, ReleaseInv, ReleaseTypeOK
<1> QED
    BY <1>2, <1>3, <1>4

\* And every step keeps it.
LEMMA ReleaseSteps == ReleaseInv /\ [ReleaseNext]_releaseVars => ReleaseInv'
<1> SUFFICES ASSUME ReleaseInv, [ReleaseNext]_releaseVars PROVE ReleaseInv'
    OBVIOUS
<1>t. ReleaseTypeOK /\ Solitary /\ (\A r \in Workflows : Ready(r)) /\ Published /\ Reported
      BY DEF ReleaseInv
<1>1. ASSUME NEW r \in Workflows, NEW how \in {"schedule", "dispatch", "force"}, Starts(r, how) PROVE ReleaseInv'
      BY <1>1, <1>t, BeforePublication DEF Starts, At, ReleaseTypeOK, Steps, Publishing, Over
<1>2. ASSUME NEW r \in Workflows, Preflight(r) \/ Canary(r) \/ BuildChannel(r) PROVE ReleaseInv'
  <2>1. PICK step \in {"done", "canary", "build", "report", "failed", "smoke"} : Goes(r, step)
        BY <1>2 DEF Preflight, Canary, BuildChannel
  <2>2. job[r] \in {"preflight", "canary", "build"} /\ UNCHANGED <<trigger, publicVars, issueVars>>
        BY <1>2 DEF Preflight, Canary, BuildChannel, At
  <2> QED
      BY <1>t, <2>1, <2>2, BeforePublication DEF ReleaseTypeOK, Steps, Publishing, Over
<1>3. ASSUME NEW r \in Workflows, ListOpenIssues(r) PROVE ReleaseInv'
  <2>0. /\ At(r, "report") /\ Goes(r, "create") /\ crossed' = (crossed \/ \E o \in Workflows : At(o, "create"))
        /\ sawIssue' = [sawIssue EXCEPT ![r] = issues > 0]
        /\ UNCHANGED <<trigger, smoked, assets, unsent, npm, aur, raced, misled, issues>>
        BY <1>3 DEF ListOpenIssues, publicVars
  <2>a. sawIssue' \in [Workflows -> BOOLEAN] /\ issues \in Nat
        BY <1>t, <2>0, ReleaseAssumption, FS_CardinalityType DEF ReleaseTypeOK, ReleaseAssumption
  <2>b. sawIssue'[r] = (issues > 0) /\ \A o \in Workflows : o # r => sawIssue'[o] = sawIssue[o]
        BY <1>t, <2>0 DEF ReleaseTypeOK
  <2>1. /\ ReleaseTypeOK' /\ (issues <= Cardinality(Failed))'
        /\ job'[r] = "create" /\ \A o \in Workflows : o # r => job'[o] = job[o]
        BY <1>t, <2>0, <2>a, StepTypes DEF ReleaseTypeOK, At, Steps
  <2>2. Solitary' /\ (\A o \in Workflows : Ready(o)')
        BY <1>t, <2>0, <2>1 DEF Solitary, Ready, Publishing, Over, At
  <2>3. Published'
        BY <1>t, <2>0, <2>1 DEF Published, Consistent, InTurn
  <2>4. Reported'
    <3>1. SUFFICES ASSUME ~crossed' PROVE Reported'
          BY DEF Reported
    <3>2. ~crossed /\ \A o \in Workflows : job[o] # "create"
          BY <3>1, <2>0 DEF At
    <3>3. \A o \in Workflows : job'[o] = "create" => o = r
          BY <3>2, <2>1
    <3>s. ~sawIssue'[r] => ~(issues > 0)
          BY <2>b, Zenon
    <3>4. issues <= 1 /\ (~sawIssue'[r] => issues' = 0)
          BY <1>t, <2>0, <2>a, <3>s, <3>2 DEF Reported
    <3> QED
        BY <2>0, <3>3, <3>4 DEF Reported
  <2> QED
      BY <2>1, <2>2, <2>3, <2>4 DEF ReleaseInv
<1>4. ASSUME NEW r \in Workflows, CreateOrUpdateIssue(r) PROVE ReleaseInv'
  <2>0. /\ At(r, "create") /\ Goes(r, "failed") /\ issues' \in {issues, issues + 1}
        /\ sawIssue[r] => issues' = issues
        /\ UNCHANGED <<trigger, smoked, assets, unsent, npm, aur, raced, misled, sawIssue, crossed>>
        BY <1>4 DEF CreateOrUpdateIssue, publicVars, Missing
  <2>1. Moved(r, "failed")
        BY <1>t, <2>0 DEF Moved, ReleaseTypeOK, Steps, Over
  <2>2. /\ job' \in [Workflows -> Steps] /\ job'[r] = "failed"
        /\ \A o \in Workflows : o # r => job'[o] = job[o]
        BY <2>1, Moving
  <2>3. /\ Cardinality(Failed') = Cardinality(Failed) + 1 /\ Cardinality(Failed') <= Cardinality(Workflows)
        /\ Cardinality(Failed) \in Nat /\ Cardinality(Workflows) \in Nat
        BY <2>0, <2>1, MoreFailed, ReleaseAssumption, FS_CardinalityType DEF ReleaseAssumption, At
  <2>4. issues' \in 0..Cardinality(Workflows) /\ issues' <= Cardinality(Failed') /\ issues \in Nat
        BY <1>t, <2>0, <2>3 DEF ReleaseInv, ReleaseTypeOK
  <2>5. ReleaseTypeOK'
        BY <1>t, <2>0, <2>2, <2>4 DEF ReleaseTypeOK
  <2>6. Solitary' /\ (\A o \in Workflows : Ready(o)')
        BY <1>t, <2>0, <2>2 DEF Solitary, Ready, Publishing, Over, At
  <2>7. Published'
        BY <1>t, <2>0, <2>2 DEF Published, Consistent, InTurn
  <2>8. Reported'
    <3>1. SUFFICES ASSUME ~crossed PROVE Reported'
          BY <2>0 DEF Reported
    <3>2. \A o \in Workflows : job'[o] # "create"
          BY <1>t, <2>0, <2>2, <3>1 DEF Reported, At
    <3>3. issues' <= 1
          BY <1>t, <2>0, <2>4, <3>1 DEF Reported, At
    <3> QED
        BY <3>2, <3>3 DEF Reported
  <2> QED
      BY <2>4, <2>5, <2>6, <2>7, <2>8 DEF ReleaseInv
<1>5. CASE CloseIssue
  <2>0. issues > 0 /\ issues' = issues - 1 /\ Failed' = Failed
        /\ UNCHANGED <<job, trigger, smoked, assets, unsent, npm, aur, raced, misled, sawIssue, crossed>>
        BY <1>5 DEF CloseIssue, publicVars, Failed
  <2>1. Cardinality(Workflows) \in Nat /\ issues \in 0..Cardinality(Workflows) /\ issues <= Cardinality(Failed)
        BY <1>t, ReleaseAssumption, FS_CardinalityType DEF ReleaseInv, ReleaseTypeOK, ReleaseAssumption
  <2>c. Cardinality(Failed) \in Nat
        BY ReleaseAssumption, FS_CardinalityType, FS_Subset DEF Failed, ReleaseAssumption
  <2>2. issues' \in 0..Cardinality(Workflows) /\ issues' <= Cardinality(Failed')
        BY <2>0, <2>1, <2>c
  <2>3. ReleaseTypeOK'
        BY <1>t, <2>0, <2>2 DEF ReleaseTypeOK
  <2>4. Solitary' /\ (\A o \in Workflows : Ready(o)') /\ Published'
        BY <1>t, <2>0 DEF Solitary, Ready, Published, Consistent, InTurn
  <2>5. Reported'
        BY <1>t, <2>0, <2>1 DEF Reported
  <2> QED
      BY <2>2, <2>3, <2>4, <2>5 DEF ReleaseInv
<1>6. ASSUME NEW r \in Workflows, Smoke(r) PROVE ReleaseInv'
  <2>0. /\ At(r, "smoke") /\ Goes(r, "refuse") /\ smoked' = smoked \cup {r}
        /\ UNCHANGED <<trigger, assets, unsent, npm, aur, raced, misled, sawIssue, issues, crossed>>
        BY <1>6 DEF Smoke, issueVars
  <2>1. /\ ReleaseTypeOK' /\ (issues <= Cardinality(Failed))'
        /\ job'[r] = "refuse" /\ \A o \in Workflows : o # r => job'[o] = job[o]
        BY <1>t, <2>0, StepTypes DEF ReleaseTypeOK, At, Steps
  <2>2. Solitary' /\ Reported' /\ (\A o \in Workflows : Ready(o)')
        BY <1>t, <2>0, <2>1 DEF Solitary, Reported, Ready, Publishing, Over, At
  <2>3. Published'
        BY <1>t, <2>0, <2>1 DEF Published, Consistent, InTurn
  <2> QED
      BY <2>1, <2>2, <2>3 DEF ReleaseInv
<1>7. ASSUME NEW r \in Workflows, Refuse(r) PROVE ReleaseInv'
  <2>0. PICK published \in NpmSays :
          /\ Goes(r, IF Passes(r, published) THEN "release" ELSE "failed")
          /\ misled' = (misled \/ (npm # Nothing /\ ~published))
          /\ raced' = (raced \/ (Passes(r, published) /\ \E o \in Workflows : job[o] \in Publishing))
        BY <1>7 DEF Refuse
  <2>a. /\ At(r, "refuse")
        /\ UNCHANGED <<trigger, smoked, assets, unsent, npm, aur, sawIssue, issues, crossed>>
        BY <1>7 DEF Refuse, issueVars
  <2>b. PICK step \in {"release", "failed"} : Goes(r, step) /\ (step = "release" <=> ~published)
        BY <2>0 DEF Passes
  <2>c. misled' \in BOOLEAN /\ raced' \in BOOLEAN
        BY <1>t, <2>0 DEF ReleaseTypeOK
  <2>1. /\ ReleaseTypeOK' /\ (issues <= Cardinality(Failed))'
        /\ job'[r] = step /\ \A o \in Workflows : o # r => job'[o] = job[o]
        BY <1>t, <2>a, <2>b, <2>c, StepTypes DEF ReleaseTypeOK, At, Steps, Over, Publishing
  <2>2. Solitary'
    <3>1. SUFFICES ASSUME ~raced' PROVE Solitary'
          BY DEF Solitary
    <3>2. ~raced /\ (step = "release" => \A o \in Workflows : job[o] \notin Publishing)
          BY <2>0, <2>b, <3>1 DEF Passes
    <3> QED
        BY <1>t, <2>1, <3>2 DEF Solitary, Publishing
  <2>3. Reported' /\ (\A o \in Workflows : Ready(o)')
        BY <1>t, <2>a, <2>1 DEF Reported, Ready, Publishing, Over, At
  <2>4. Published'
    <3>1. SUFFICES ASSUME ~raced', ~misled' PROVE Published'
          BY DEF Published
    <3>2. ~raced /\ ~misled /\ (step = "release" => npm = Nothing)
          BY <2>0, <2>b, <3>1
    <3>3. Consistent /\ (\A o \in Workflows : InTurn(o)) /\ unsent[r] = Assets
          BY <1>t, <2>a, <3>2 DEF Published, Ready, At, Publishing, Over
    <3>4. Consistent'
          BY <2>a, <3>3 DEF Consistent
    <3>5. \A o \in Workflows : InTurn(o)'
          BY <2>a, <2>1, <3>2, <3>3 DEF InTurn
    <3> QED
        BY <3>4, <3>5 DEF Published
  <2> QED
      BY <2>1, <2>2, <2>3, <2>4 DEF ReleaseInv
<1>8. ASSUME NEW r \in Workflows, NEW a \in Assets, UploadAsset(r, a) PROVE ReleaseInv'
  <2>0. /\ At(r, "release") /\ a \in unsent[r] /\ Failed' = Failed
        /\ UNCHANGED <<job, trigger, smoked, npm, aur, raced, misled, sawIssue, issues, crossed>>
        BY <1>8 DEF UploadAsset, issueVars, Failed
  <2>1. \E b \in {r, Nothing} : assets' = [assets EXCEPT ![a] = b]
        BY <1>8 DEF UploadAsset
  <2>2. \/ UNCHANGED unsent
        \/ unsent' = [unsent EXCEPT ![r] = @ \ {a}] /\ assets' = [assets EXCEPT ![a] = r]
        BY <1>8 DEF UploadAsset
  <2>3. ReleaseTypeOK'
        BY <1>t, <2>0, <2>1, <2>2 DEF ReleaseTypeOK
  <2>4. Solitary' /\ Reported' /\ (\A o \in Workflows : Ready(o)')
    <3>1. \A o \in Workflows : o # r => unsent'[o] = unsent[o]
          BY <1>t, <2>2 DEF ReleaseTypeOK
    <3> QED
        BY <1>t, <2>0, <3>1 DEF Solitary, Reported, Ready, Publishing, Over, At
  <2>5. Published'
    <3>1. SUFFICES ASSUME ~raced, ~misled PROVE Published'
          BY <2>0 DEF Published
    <3>2. Consistent /\ (\A o \in Workflows : InTurn(o)) /\ npm = Nothing
          BY <1>t, <2>0, <3>1 DEF Published, InTurn, At
    <3>3. \A o \in Workflows : job[o] \in Publishing => o = r
          BY <1>t, <2>0, <3>1 DEF Solitary, Publishing, At
    <3>4. Consistent'
          BY <2>0, <3>2 DEF Consistent
    <3>5. \A b \in Assets \ unsent'[r] : assets'[b] = r
          BY <1>t, <2>0, <2>1, <2>2, <3>2 DEF ReleaseTypeOK, InTurn, At
    <3>6. \A o \in Workflows : InTurn(o)'
          BY <2>0, <3>2, <3>3, <3>5 DEF InTurn, Publishing, At
    <3> QED
        BY <3>4, <3>6 DEF Published
  <2> QED
      BY <2>0, <2>3, <2>4, <2>5 DEF ReleaseInv
<1>9. ASSUME NEW r \in Workflows, Uploaded(r) PROVE ReleaseInv'
  <2>0. /\ At(r, "release") /\ unsent[r] = {} /\ Goes(r, "publish")
        /\ UNCHANGED <<trigger, smoked, assets, unsent, npm, aur, raced, misled, sawIssue, issues, crossed>>
        BY <1>9 DEF Uploaded, issueVars, publicVars
  <2>1. /\ ReleaseTypeOK' /\ (issues <= Cardinality(Failed))'
        /\ job'[r] = "publish" /\ \A o \in Workflows : o # r => job'[o] = job[o]
        BY <1>t, <2>0, StepTypes DEF ReleaseTypeOK, At, Steps, Publishing
  <2>2. Solitary' /\ Reported' /\ (\A o \in Workflows : Ready(o)')
        BY <1>t, <2>0, <2>1 DEF Solitary, Reported, Ready, Publishing, Over, At
  <2>3. Published'
        BY <1>t, <2>0, <2>1 DEF Published, Consistent, InTurn, At
  <2> QED
      BY <2>1, <2>2, <2>3 DEF ReleaseInv
<1>10. ASSUME NEW r \in Workflows, PublishNpm(r) PROVE ReleaseInv'
  <2>0. /\ At(r, "publish")
        /\ UNCHANGED <<trigger, smoked, assets, unsent, aur, raced, misled, sawIssue, issues, crossed>>
        BY <1>10 DEF PublishNpm, issueVars
  <2>a. PICK step \in {"aur", "failed"} :
          /\ Goes(r, step)
          /\ \/ npm = Nothing /\ npm' = r
             \/ npm # Nothing /\ UNCHANGED npm
        BY <1>10 DEF PublishNpm, Goes
  <2>1. /\ ReleaseTypeOK' /\ (issues <= Cardinality(Failed))'
        /\ job'[r] = step /\ \A o \in Workflows : o # r => job'[o] = job[o]
        BY <1>t, <2>0, <2>a, StepTypes DEF ReleaseTypeOK, At, Steps, Publishing, Over
  <2>2. Solitary' /\ Reported' /\ (\A o \in Workflows : Ready(o)')
        BY <1>t, <2>0, <2>1 DEF Solitary, Reported, Ready, Publishing, Over, At
  <2>3. Published'
    <3>1. SUFFICES ASSUME ~raced, ~misled PROVE Published'
          BY <2>0 DEF Published
    <3>2. /\ Consistent /\ (\A o \in Workflows : InTurn(o)) /\ npm = Nothing
          /\ r \in smoked /\ \A b \in Assets : assets[b] = r
          BY <1>t, <2>0, <3>1 DEF Published, InTurn, At, Ready, Publishing
    <3>3. \A o \in Workflows : job[o] \in Publishing => o = r
          BY <1>t, <2>0, <3>1 DEF Solitary, Publishing, At
    <3>4. Consistent'
          BY <2>0, <2>a, <3>2 DEF Consistent
    <3>6. \A o \in Workflows : InTurn(o)'
          BY <2>0, <2>a, <2>1, <3>2, <3>3 DEF InTurn, Publishing, At
    <3> QED
        BY <3>4, <3>6 DEF Published
  <2> QED
      BY <2>1, <2>2, <2>3 DEF ReleaseInv
<1>11. ASSUME NEW r \in Workflows, PublishAur(r) PROVE ReleaseInv'
  <2>0. /\ At(r, "aur") /\ Goes(r, "done") /\ aur' \in {r, aur}
        /\ UNCHANGED <<trigger, smoked, assets, unsent, npm, raced, misled, sawIssue, issues, crossed>>
        BY <1>11 DEF PublishAur, issueVars
  <2>1. /\ ReleaseTypeOK' /\ (issues <= Cardinality(Failed))'
        /\ job'[r] = "done" /\ \A o \in Workflows : o # r => job'[o] = job[o]
        BY <1>t, <2>0, StepTypes DEF ReleaseTypeOK, At, Steps, Over
  <2>2. Solitary' /\ Reported' /\ (\A o \in Workflows : Ready(o)')
        BY <1>t, <2>0, <2>1 DEF Solitary, Reported, Ready, Publishing, Over, At
  <2>3. Published'
        BY <1>t, <2>0, <2>1 DEF Published, Consistent, InTurn, At
  <2> QED
      BY <2>1, <2>2, <2>3 DEF ReleaseInv
<1>12. ASSUME NEW r \in Workflows, StepFails(r) PROVE ReleaseInv'
  <2>0. /\ ~At(r, "failed") /\ Goes(r, "failed")
        /\ UNCHANGED <<trigger, smoked, assets, unsent, npm, aur, raced, misled, sawIssue, issues, crossed>>
        BY <1>12 DEF StepFails, issueVars, publicVars, At, Over
  <2>1. /\ ReleaseTypeOK' /\ (issues <= Cardinality(Failed))'
        /\ job'[r] = "failed" /\ \A o \in Workflows : o # r => job'[o] = job[o]
        BY <1>t, <2>0, StepTypes DEF ReleaseTypeOK, Steps, Over
  <2>2. Solitary' /\ Reported' /\ (\A o \in Workflows : Ready(o)')
        BY <1>t, <2>0, <2>1 DEF Solitary, Reported, Ready, Publishing, Over
  <2>3. Published'
        BY <1>t, <2>0, <2>1 DEF Published, Consistent, InTurn
  <2> QED
      BY <2>1, <2>2, <2>3 DEF ReleaseInv
<1>13. CASE UNCHANGED releaseVars
  <2>1. Failed' = Failed /\ UNCHANGED <<job, trigger, smoked, assets, unsent, npm, aur, sawIssue, issues, raced, misled, crossed>>
        BY <1>13 DEF releaseVars, Failed
  <2> QED
      BY <1>t, <2>1 DEF ReleaseInv, ReleaseTypeOK, Solitary, Ready, Published, Consistent, InTurn, Reported
<1> QED
    BY <1>1, <1>2, <1>3, <1>4, <1>5, <1>6, <1>7, <1>8, <1>9, <1>10, <1>11, <1>12, <1>13 DEF ReleaseNext

ReleaseSpec == ReleaseInit /\ [][ReleaseNext]_releaseVars

(* But for runs that race or a release that misleads, what npm and the AUR     *)
(* have was smoked and agrees with the assets of the release; a failure leaves *)
(* one issue (release.yml and its scripts).                                    *)
THEOREM ReleaseAlwaysHolds == ReleaseSpec => [](ReleaseTypeOK /\ ReleaseHolds)
<1>1. ReleaseInv => ReleaseTypeOK /\ ReleaseHolds
      BY DEF ReleaseInv, ReleaseHolds, Published, Consistent, Reported
<1> QED
    BY <1>1, ReleaseStarts, ReleaseSteps, PTL DEF ReleaseSpec

------------------------------------------------------------------------------
(* The global state on disk (GlobalState).                                     *)

(* The file: a write that has overlapped no other is the only one, carries    *)
(* what the router knows unless that has changed since, and found the file    *)
(* empty when it opened it.                                                   *)
WritesOK == writes \in [Writers -> [step : {"idle", "mkdir", "open"}, payload : States, alone : BOOLEAN]]

AloneIn(i) ==
  writes[i].alone =>
    /\ Busy = {i}
    /\ server # "down" /\ ~armed /\ ~unsaved => writes[i].payload = mem
    /\ writes[i].step = "open" => file.text = "empty"

AtRest == server = "down" => ~armed /\ Busy = {} /\ (spoiled => cut)

GlobalInv == GlobalTypeOK /\ WritesOK /\ AtRest /\ (\A i \in Busy : AloneIn(i)) /\ DiskFollowsMemory

\* What the constants of the module are.
LEMMA IdleOK == Idle \in [step : {"idle", "mkdir", "open"}, payload : States, alone : BOOLEAN] /\ Defaults \in States
  BY GlobalAssumption DEF GlobalAssumption, Idle, Defaults, States

\* What load() makes of a state it has made before is that state.
LEMMA LoadedOK ==
  /\ \A s \in States : Loaded(s) \in States /\ Loaded(Loaded(s)) = Loaded(s)
  /\ Loaded(Defaults) = Defaults
<1>1. ASSUME NEW s \in States
      PROVE  /\ Loaded(s) \in States /\ Loaded(s).saved = IF s.saved = {} THEN {Home} ELSE s.saved
             /\ Loaded(s).active = IF s.active = None THEN Home ELSE s.active
      BY GlobalAssumption DEF GlobalAssumption, Loaded, States
<1>2. ASSUME NEW s \in States, s.saved # {}, s.active # None PROVE Loaded(s) = s
      BY <1>2 DEF Loaded, States
<1>3. Loaded(Defaults) = Defaults
      BY DEF Loaded, Defaults
<1>4. ASSUME NEW s \in States PROVE Loaded(Loaded(s)) = Loaded(s)
  <2>1. Loaded(s).saved # {} /\ Loaded(s).active # None
        BY <1>1, GlobalAssumption DEF GlobalAssumption
  <2> QED
      BY <2>1, <1>1, <1>2
<1> QED
    BY <1>1, <1>2, <1>3, <1>4, IdleOK

\* It holds at the start.
LEMMA GlobalStarts == GlobalInit => GlobalInv
<1> SUFFICES ASSUME GlobalInit PROVE GlobalInv
    OBVIOUS
<1>1. WritesOK /\ Busy = {}
      BY IdleOK DEF GlobalInit, WritesOK, Busy, Idle
<1>2. GlobalTypeOK
      BY <1>1, IdleOK DEF GlobalInit, GlobalTypeOK, WritesOK, Unreadable
<1>3. AtRest /\ DiskFollowsMemory
      BY <1>1 DEF GlobalInit, AtRest, DiskFollowsMemory, Unreadable
<1> QED
    BY <1>1, <1>2, <1>3 DEF GlobalInv

\* A change of what is known, with the timer armed.
LEMMA ChangesKeep ==
  ASSUME GlobalInv, NEW state \in States, Changes(state)
  PROVE  GlobalInv'
<1>1. /\ mem' = state /\ armed' = TRUE /\ server # "down"
      /\ UNCHANGED <<server, file, writes, unsaved, spoiled, cut>>
      BY DEF Changes, Scheduled
<1>2. Busy' = Busy
      BY <1>1 DEF Busy
<1> QED
    BY <1>1, <1>2 DEF GlobalInv, GlobalTypeOK, WritesOK, AtRest, AloneIn, DiskFollowsMemory

\* A snapshot is taken, when the timer fires or the router is disposed of.
LEMMA WriteBeginsKeeps ==
  ASSUME GlobalInv, WriteBegins, server # "down", server' \in {"up", "closing"},
         armed' = FALSE, UNCHANGED <<mem, file, spoiled, cut>>
  PROVE  GlobalInv'
<1>1. PICK i \in Writers \ Busy :
        writes' = [j \in Writers |->
          IF j = i THEN [step |-> "mkdir", payload |-> mem, alone |-> Busy = {}]
          ELSE [writes[j] EXCEPT !.alone = j \notin Busy]]
      BY DEF WriteBegins
<1>2. WritesOK /\ mem \in States /\ Busy \subseteq Writers
      BY DEF GlobalInv, GlobalTypeOK, Busy
<1>3. /\ writes'[i].step = "mkdir" /\ writes'[i].payload = mem /\ (writes'[i].alone <=> Busy = {})
      /\ writes'[i] \in [step : {"idle", "mkdir", "open"}, payload : States, alone : BOOLEAN]
      BY <1>1, <1>2
<1>4. ASSUME NEW j \in Writers, j # i
      PROVE  /\ writes'[j].step = writes[j].step /\ writes'[j].payload = writes[j].payload
             /\ writes'[j].alone <=> j \notin Busy
             /\ writes'[j] \in [step : {"idle", "mkdir", "open"}, payload : States, alone : BOOLEAN]
      BY <1>1, <1>2, <1>4 DEF WritesOK
<1>5. WritesOK'
      BY <1>1, <1>3, <1>4 DEF WritesOK
<1>6. Busy' = Busy \cup {i}
      BY <1>3, <1>4 DEF Busy
<1>7. GlobalTypeOK'
  <2>1. unsaved' = FALSE
        BY DEF WriteBegins
  <2> QED
      BY <1>5, <2>1 DEF GlobalInv, GlobalTypeOK, WritesOK
<1>8. \A j \in Busy' : AloneIn(j)'
      BY <1>2, <1>3, <1>4, <1>6 DEF AloneIn
<1>9. AtRest' /\ DiskFollowsMemory'
  <2>1. \A j \in Busy : j \in Busy' /\ writes'[j].step = writes[j].step
        BY <1>1, <1>2, <1>4, <1>6
  <2> QED
      BY <1>6, <2>1 DEF GlobalInv, AtRest, DiskFollowsMemory
<1> QED
    BY <1>5, <1>7, <1>8, <1>9 DEF GlobalInv

\* One write is over or goes on: the others stay as they are.
LEMMA OneWrite ==
  ASSUME WritesOK, NEW i \in Writers, NEW w \in [step : {"idle", "mkdir", "open"}, payload : States, alone : BOOLEAN],
         writes' = [writes EXCEPT ![i] = w]
  PROVE  /\ WritesOK' /\ writes'[i] = w /\ \A j \in Writers : j # i => writes'[j] = writes[j]
         /\ Busy' = IF w.step = "idle" THEN Busy \ {i} ELSE Busy \cup {i}
<1>1. WritesOK' /\ writes'[i] = w /\ \A j \in Writers : j # i => writes'[j] = writes[j]
      BY DEF WritesOK
<1> QED
    BY <1>1 DEF Busy

\* And every step keeps it.
LEMMA GlobalSteps == GlobalInv /\ [GlobalNext]_globalVars => GlobalInv'
<1> SUFFICES ASSUME GlobalInv, [GlobalNext]_globalVars PROVE GlobalInv'
    OBVIOUS
<1>t. GlobalTypeOK /\ WritesOK /\ AtRest /\ (\A i \in Busy : AloneIn(i)) /\ DiskFollowsMemory /\ mem \in States
      BY DEF GlobalInv, GlobalTypeOK
<1>1. CASE Boot
  <2>1. Load \in States /\ Loaded(Load) = Load
        BY <1>t, LoadedOK, IdleOK DEF Load, GlobalTypeOK
  <2>2. Busy' = Busy /\ Busy = {} /\ Load' = Load /\ mem' = Load
        BY <1>1, <1>t DEF Boot, Busy, AtRest, Load
  <2>3. GlobalTypeOK' /\ WritesOK' /\ AtRest'
        BY <1>t, <1>1, <2>1, <2>2 DEF Boot, GlobalTypeOK, WritesOK, AtRest
  <2>4. DiskFollowsMemory'
        BY <1>t, <1>1, <2>1, <2>2 DEF Boot, AtRest, DiskFollowsMemory
  <2> QED
      BY <2>2, <2>3, <2>4 DEF GlobalInv
<1>2. CASE TimerFires
      BY <1>2, <1>t, WriteBeginsKeeps DEF TimerFires, GlobalTypeOK
<1>3. CASE DisposeState
  <2>1. CASE armed
        BY <1>3, <2>1, WriteBeginsKeeps DEF DisposeState
  <2>2. CASE ~armed
    <3>1. Busy' = Busy
          BY <1>3, <2>2 DEF DisposeState, Busy
    <3>2. UNCHANGED <<mem, file, writes, unsaved, spoiled, cut, armed>> /\ server = "up" /\ server' = "closing"
          BY <1>t, <1>3, <2>2 DEF DisposeState, GlobalTypeOK
    <3> QED
        BY <1>t, <3>1, <3>2 DEF GlobalInv, GlobalTypeOK, WritesOK, AtRest, AloneIn, DiskFollowsMemory, Load
  <2> QED
      BY <2>1, <2>2
<1>4. CASE ProcessEnds
  <2>1. Busy' = {} /\ WritesOK'
        BY <1>4, IdleOK DEF ProcessEnds, Busy, Idle, WritesOK
  <2>2. AtRest' /\ DiskFollowsMemory'
        BY <1>t, <1>4, <2>1 DEF ProcessEnds, AtRest, DiskFollowsMemory, Busy
  <2>3. GlobalTypeOK'
        BY <1>t, <1>4, <2>1 DEF ProcessEnds, GlobalTypeOK, WritesOK
  <2> QED
      BY <2>1, <2>2, <2>3 DEF GlobalInv
<1>5. ASSUME \/ SkipOnboarding \/ DeactivateRoots
             \/ \E v \in Values \cup {None} : SetGlobal(v) \/ SetAtom(v)
             \/ \E roots \in SUBSET {Home} : SaveRoots(roots)
             \/ \E r \in Roots : ActivateRoot(r)
      PROVE  GlobalInv'
  <2>1. PICK state \in States : Changes(state)
        BY <1>5, <1>t, GlobalAssumption
        DEF SkipOnboarding, SetGlobal, SetAtom, SaveRoots, ActivateRoot, DeactivateRoots, States, GlobalAssumption
  <2> QED
      BY <2>1, ChangesKeep
<1>6. ASSUME NEW r \in Roots, OpenFile(r) PROVE GlobalInv'
  <2>1. Busy' = Busy /\ mem' \in States
        BY <1>6, <1>t DEF OpenFile, Busy, States
  <2> QED
      BY <1>6, <1>t, <2>1 DEF OpenFile, GlobalInv, GlobalTypeOK, WritesOK, AtRest, AloneIn, DiskFollowsMemory
<1>7. ASSUME NEW i \in Writers, WriteOpens(i) PROVE GlobalInv'
  <2>1. /\ writes[i].step = "mkdir" /\ file' = Unreadable("empty")
        /\ writes' = [writes EXCEPT ![i] = [@ EXCEPT !.step = "open"]] /\ i \in Busy
        /\ UNCHANGED <<server, mem, armed, unsaved, spoiled, cut>>
        BY <1>7 DEF WriteOpens, Busy
  <2>2. [writes[i] EXCEPT !.step = "open"] \in [step : {"idle", "mkdir", "open"}, payload : States, alone : BOOLEAN]
        BY <1>t DEF WritesOK
  <2>3. /\ WritesOK' /\ \A j \in Writers : j # i => writes'[j] = writes[j]
        /\ writes'[i].step = "open" /\ writes'[i].payload = writes[i].payload /\ writes'[i].alone = writes[i].alone
        /\ Busy' = Busy
    <3>1. /\ WritesOK' /\ \A j \in Writers : j # i => writes'[j] = writes[j]
          /\ writes'[i] = [writes[i] EXCEPT !.step = "open"]
          /\ Busy' = IF [writes[i] EXCEPT !.step = "open"].step = "idle" THEN Busy \ {i} ELSE Busy \cup {i}
          BY <1>t, <2>1, <2>2, OneWrite
    <3> QED
        BY <1>t, <2>1, <3>1 DEF WritesOK
  <2>4. file'.text = "empty" /\ file' \in [text : {"none", "empty", "garbled", "state"}, state : States]
        BY <2>1, IdleOK DEF Unreadable
  <2>5. GlobalTypeOK'
        BY <1>t, <2>1, <2>3, <2>4 DEF GlobalTypeOK, WritesOK
  <2>6. \A j \in Busy' : AloneIn(j)'
        BY <1>t, <2>1, <2>3, <2>4 DEF AloneIn, Busy
  <2>7. AtRest' /\ DiskFollowsMemory'
        BY <1>t, <2>1, <2>3 DEF AtRest, DiskFollowsMemory
  <2> QED
      BY <2>3, <2>5, <2>6, <2>7 DEF GlobalInv
<1>8. ASSUME NEW i \in Writers, WriteEnds(i) PROVE GlobalInv'
  <2>1. /\ writes[i].step = "open" /\ i \in Busy /\ writes' = [writes EXCEPT ![i] = Idle]
        /\ spoiled' = ~writes[i].alone /\ cut' = (cut /\ ~writes[i].alone)
        /\ UNCHANGED <<server, mem, armed, unsaved>>
        BY <1>8 DEF WriteEnds, Busy
  <2>2. \/ file' = Holds(writes[i].payload)
        \/ file.text # "empty" /\ file' = Unreadable("garbled")
        BY <1>8 DEF WriteEnds
  <2>3. WritesOK' /\ (\A j \in Writers : j # i => writes'[j] = writes[j]) /\ Busy' = Busy \ {i}
        BY <1>t, <2>1, IdleOK, OneWrite DEF Idle
  <2>4. /\ writes[i].payload \in States /\ writes[i].alone \in BOOLEAN /\ server # "down"
        /\ writes[i].alone => Busy = {i} /\ file' = Holds(writes[i].payload)
        BY <1>t, <2>1, <2>2 DEF WritesOK, AloneIn, AtRest
  <2>5. file' \in [text : {"none", "empty", "garbled", "state"}, state : States]
        BY <2>2, <2>4, IdleOK DEF Holds, Unreadable
  <2>6. GlobalTypeOK'
        BY <1>t, <2>1, <2>3, <2>4, <2>5 DEF GlobalTypeOK, WritesOK
  <2>7. \A j \in Busy' : AloneIn(j)'
        BY <1>t, <2>1, <2>3, <2>4 DEF AloneIn, Busy
  <2>8. AtRest'
        BY <2>1, <2>4 DEF AtRest
  <2>9. DiskFollowsMemory'
    <3>1. CASE writes[i].alone
      <4>1. file'.text = "state" /\ file'.state = writes[i].payload /\ Load' = Loaded(writes[i].payload)
            BY <2>4, <3>1 DEF Holds, Load
      <4> QED
          BY <1>t, <2>1, <2>4, <3>1, <4>1 DEF DiskFollowsMemory, AloneIn
    <3>2. CASE ~writes[i].alone
          BY <2>1, <3>2 DEF DiskFollowsMemory
    <3> QED
        BY <3>1, <3>2
  <2> QED
      BY <2>3, <2>6, <2>7, <2>8, <2>9 DEF GlobalInv
<1>9. ASSUME NEW i \in Writers, WriteFails(i) PROVE GlobalInv'
  <2>1. /\ i \in Busy /\ writes' = [writes EXCEPT ![i] = Idle] /\ spoiled' = TRUE
        /\ UNCHANGED <<server, mem, file, armed, unsaved, cut>>
        BY <1>9 DEF WriteFails
  <2>2. WritesOK' /\ (\A j \in Writers : j # i => writes'[j] = writes[j]) /\ Busy' = Busy \ {i}
        BY <1>t, <2>1, IdleOK, OneWrite DEF Idle
  <2>3. GlobalTypeOK' /\ AtRest' /\ DiskFollowsMemory'
        BY <1>t, <2>1, <2>2 DEF GlobalTypeOK, WritesOK, AtRest, DiskFollowsMemory
  <2>4. \A j \in Busy' : AloneIn(j)'
        BY <1>t, <2>1, <2>2 DEF AloneIn, Busy
  <2> QED
      BY <2>2, <2>3, <2>4 DEF GlobalInv
<1>10. CASE UNCHANGED globalVars
  <2>1. Busy' = Busy /\ UNCHANGED <<server, mem, file, armed, writes, unsaved, spoiled, cut>>
        BY <1>10 DEF globalVars, Busy
  <2> QED
      BY <1>t, <2>1 DEF GlobalInv, GlobalTypeOK, WritesOK, AtRest, AloneIn, DiskFollowsMemory, Load
<1> QED
    BY <1>1, <1>2, <1>3, <1>4, <1>5, <1>6, <1>7, <1>8, <1>9, <1>10 DEF GlobalNext

GlobalSpec == GlobalInit /\ [][GlobalNext]_globalVars

(* What a restart will load is what the router knew last, unless a change      *)
(* still waits for its timer, a write was cut off, or two overlapped           *)
(* (GlobalState of message-router.mjs).                                        *)
THEOREM DiskAlwaysFollows == GlobalSpec => [](GlobalTypeOK /\ DiskFollowsMemory)
<1>1. GlobalInv => GlobalTypeOK /\ DiskFollowsMemory
      BY DEF GlobalInv
<1> QED
    BY <1>1, GlobalStarts, GlobalSteps, PTL DEF GlobalSpec

------------------------------------------------------------------------------
(* The launcher (Launcher).                                                    *)

(* The launcher: only a launch that downloads has a stream; and of launches   *)
(* that keep no company one at most works, which knows what it left of the    *)
(* bundle.                                                                    *)
StreamsOpen == \A l \in Launches : target[l] # "lost" => launch[l] = "downloading"

Step(l) ==
  /\ target[l] # "archive"
  /\ launch[l] = "verified" => tmp = "whole"
  /\ launch[l] = "renamed" => bundle = todo[l]
  /\ launch[l] = "unpacking" => bundle = Members \ todo[l]

Untouched == \A l \in Launches : launch[l] \notin {"renamed", "unpacking"}
BundleKept ==
  /\ bundle \in {{}, Members}
  /\ (\E l \in Launches : launch[l] = "running") => bundle = Members

OneLaunch == \A l, o \in Working : l = o

LauncherInv ==
  /\ LauncherTypeOK /\ StreamsOpen
  /\ ~company =>
       /\ OneLaunch /\ archive # "part" /\ \A l \in Launches : Step(l)
       /\ ~hurt /\ Untouched => BundleKept

\* It holds at the start.
LEMMA LauncherStarts == LauncherInit => LauncherInv
  BY DEF LauncherInit, LauncherInv, LauncherTypeOK, StreamsOpen, OneLaunch, Step, BundleKept, Working

\* A launch goes to another step.
LaunchGoes(l, step) == launch' = [launch EXCEPT ![l] = step]

\* The other launches stay, and who works is known.
LEMMA OthersStay ==
  ASSUME LauncherTypeOK, NEW l \in Launches,
         NEW step \in {"idle", "downloading", "downloaded", "verified", "renamed", "unpacking", "running"},
         LaunchGoes(l, step)
  PROVE  /\ launch' \in [Launches -> {"idle", "downloading", "downloaded", "verified", "renamed", "unpacking", "running"}]
         /\ launch'[l] = step /\ \A o \in Launches : o # l => launch'[o] = launch[o]
         /\ Working' = IF step \in {"idle", "running"} THEN Working \ {l} ELSE Working \cup {l}
<1>1. /\ launch' \in [Launches -> {"idle", "downloading", "downloaded", "verified", "renamed", "unpacking", "running"}]
      /\ launch'[l] = step /\ \A o \in Launches : o # l => launch'[o] = launch[o]
      BY DEF LauncherTypeOK, LaunchGoes
<1> QED
    BY <1>1 DEF Working

\* And every step keeps it.
LEMMA LauncherSteps == LauncherInv /\ [LauncherNext]_launcherVars => LauncherInv'
<1> SUFFICES ASSUME LauncherInv, [LauncherNext]_launcherVars PROVE LauncherInv'
    OBVIOUS
<1> DEFINE Alone == OneLaunch /\ archive # "part" /\ (\A l \in Launches : Step(l)) /\ (~hurt /\ Untouched => BundleKept)
<1>t. LauncherTypeOK /\ StreamsOpen /\ (~company => Alone)
      BY DEF LauncherInv
<1>q. SUFFICES LauncherTypeOK' /\ StreamsOpen' /\ (~company' => Alone')
      BY DEF LauncherInv
<1> HIDE DEF Alone
<1>1. ASSUME NEW l \in Launches, Runs(l) PROVE LauncherTypeOK' /\ StreamsOpen' /\ (~company' => Alone')
  <2>0. launch[l] = "idle" /\ LaunchGoes(l, "running") /\ UNCHANGED <<target, todo, tmp, archive, bundle, hurt, company>>
        BY <1>1 DEF Runs, LaunchGoes
  <2>1. /\ launch' \in [Launches -> {"idle", "downloading", "downloaded", "verified", "renamed", "unpacking", "running"}]
        /\ launch'[l] = "running" /\ (\A o \in Launches : o # l => launch'[o] = launch[o]) /\ Working' = Working \ {l}
        BY <1>t, <2>0, OthersStay
  <2>2. LauncherTypeOK' /\ StreamsOpen'
        BY <1>t, <2>0, <2>1 DEF LauncherTypeOK, StreamsOpen
  <2>3. ASSUME Alone PROVE Alone'
    <3>1. OneLaunch' /\ archive' # "part" /\ \A o \in Launches : Step(o)'
          BY <2>0, <2>1, <2>3 DEF Alone, OneLaunch, Step
    <3>2. ASSUME ~hurt', Untouched' PROVE BundleKept'
      <4>1. BundleKept
            BY <2>0, <2>1, <2>3, <3>2 DEF Alone, Untouched
      <4>2. bundle = Members
            BY <1>1, <4>1 DEF Runs, Usable, BundleKept
      <4> QED
          BY <2>0, <4>2 DEF BundleKept
    <3> QED
        BY <3>1, <3>2 DEF Alone
  <2> QED
      BY <1>t, <2>0, <2>2, <2>3
<1>2. ASSUME NEW l \in Launches, Downloads(l) PROVE LauncherTypeOK' /\ StreamsOpen' /\ (~company' => Alone')
  <2>0. /\ launch[l] = "idle" /\ LaunchGoes(l, "downloading") /\ target' = [target EXCEPT ![l] = "tmp"]
        /\ tmp' = "part" /\ company' = (company \/ Working # {}) /\ UNCHANGED <<todo, archive, bundle, hurt>>
        BY <1>2 DEF Downloads, LaunchGoes
  <2>1. /\ launch' \in [Launches -> {"idle", "downloading", "downloaded", "verified", "renamed", "unpacking", "running"}]
        /\ launch'[l] = "downloading" /\ (\A o \in Launches : o # l => launch'[o] = launch[o])
        /\ Working' = Working \cup {l}
        BY <1>t, <2>0, OthersStay
  <2>2. LauncherTypeOK' /\ StreamsOpen'
        BY <1>t, <2>0, <2>1 DEF LauncherTypeOK, StreamsOpen
  <2>3. ASSUME ~company' PROVE Alone'
    <3>1. Alone /\ Working = {}
          BY <1>t, <2>0, <2>3
    <3>2. OneLaunch' /\ archive' # "part"
          BY <2>0, <2>1, <3>1 DEF Alone, OneLaunch
    <3>3. \A o \in Launches : Step(o)'
          BY <1>t, <2>0, <2>1, <3>1 DEF Alone, Step, Working, LauncherTypeOK
    <3>4. ~hurt' /\ Untouched' => BundleKept'
          BY <2>0, <2>1, <3>1 DEF Alone, Untouched, BundleKept
    <3> QED
        BY <3>2, <3>3, <3>4 DEF Alone
  <2> QED
      BY <2>2, <2>3
<1>3. ASSUME NEW l \in Launches, DownloadEnds(l) PROVE LauncherTypeOK' /\ StreamsOpen' /\ (~company' => Alone')
  <2>0. /\ launch[l] = "downloading" /\ LaunchGoes(l, "downloaded") /\ target' = [target EXCEPT ![l] = "lost"]
        /\ tmp' \in {tmp, "part", "whole"} /\ archive' \in {archive, "part", "whole"}
        /\ target[l] # "archive" => archive' = archive
        /\ UNCHANGED <<todo, bundle, hurt, company>>
        BY <1>3 DEF DownloadEnds, LaunchGoes
  <2>1. /\ launch' \in [Launches -> {"idle", "downloading", "downloaded", "verified", "renamed", "unpacking", "running"}]
        /\ launch'[l] = "downloaded" /\ (\A o \in Launches : o # l => launch'[o] = launch[o])
        /\ Working' = Working \cup {l}
        BY <1>t, <2>0, OthersStay
  <2>2. LauncherTypeOK' /\ StreamsOpen'
        BY <1>t, <2>0, <2>1 DEF LauncherTypeOK, StreamsOpen
  <2>3. ASSUME Alone PROVE Alone'
    <3>1. \A o \in Working' : o = l
          BY <2>0, <2>1, <2>3 DEF Alone, OneLaunch, Working
    <3>2. OneLaunch' /\ archive' # "part"
          BY <2>0, <2>3, <3>1 DEF Alone, OneLaunch, Step
    <3>3. \A o \in Launches : Step(o)'
          BY <1>t, <2>0, <2>1, <2>3, <3>1 DEF Alone, Step, Working, LauncherTypeOK
    <3>4. ~hurt' /\ Untouched' => BundleKept'
          BY <2>0, <2>1, <2>3 DEF Alone, Untouched, BundleKept
    <3> QED
        BY <3>2, <3>3, <3>4 DEF Alone
  <2> QED
      BY <1>t, <2>0, <2>2, <2>3
<1>4. ASSUME NEW l \in Launches, Verify(l) PROVE LauncherTypeOK' /\ StreamsOpen' /\ (~company' => Alone')
  <2>0. PICK step \in {"verified", "idle"} :
        /\ launch[l] = "downloaded" /\ LaunchGoes(l, step) /\ UNCHANGED <<todo, archive, bundle, hurt, company>>
        /\ step = "verified" => tmp = "whole" /\ UNCHANGED <<target, tmp>>
        /\ step = "idle" => tmp' = "none" /\ target' = [o \in Launches |-> IF target[o] = "tmp" THEN "lost" ELSE target[o]]
        BY <1>4 DEF Verify, LaunchGoes, Matches
  <2>1. /\ launch' \in [Launches -> {"idle", "downloading", "downloaded", "verified", "renamed", "unpacking", "running"}]
        /\ launch'[l] = step /\ (\A o \in Launches : o # l => launch'[o] = launch[o])
        /\ Working' \subseteq Working \cup {l} /\ l \in Working
        BY <1>t, <2>0, OthersStay DEF Working
  <2>2. /\ target' \in [Launches -> {"tmp", "archive", "lost"}]
        /\ \A o \in Launches : target'[o] # "lost" => target'[o] = target[o]
        BY <1>t, <2>0 DEF LauncherTypeOK
  <2>3. LauncherTypeOK' /\ StreamsOpen'
        BY <1>t, <2>0, <2>1, <2>2 DEF LauncherTypeOK, StreamsOpen
  <2>4. ASSUME Alone PROVE Alone'
    <3>1. \A o \in Working : o = l
          BY <2>1, <2>4 DEF Alone, OneLaunch
    <3>2. OneLaunch' /\ archive' # "part"
          BY <2>0, <2>1, <2>4, <3>1 DEF Alone, OneLaunch
    <3>3. \A o \in Launches : Step(o)'
      <4> TAKE o \in Launches
      <4>1. target'[o] # "archive"
            BY <2>2, <2>4 DEF Alone, Step
      <4>2. o = l \/ (o # l /\ launch[o] \in {"idle", "running"} /\ launch'[o] = launch[o])
            BY <1>t, <2>1, <3>1 DEF Working
      <4> QED
          BY <2>0, <2>1, <4>1, <4>2 DEF Step
    <3>4. ~hurt' /\ Untouched' => BundleKept'
          BY <2>0, <2>1, <2>4 DEF Alone, Untouched, BundleKept
    <3> QED
        BY <3>2, <3>3, <3>4 DEF Alone
  <2> QED
      BY <1>t, <2>0, <2>3, <2>4
<1>5. ASSUME NEW l \in Launches, RenameArchive(l) PROVE LauncherTypeOK' /\ StreamsOpen' /\ (~company' => Alone')
  <2>1. CASE tmp = "none"
    <3>0. launch[l] = "verified" /\ LaunchGoes(l, "idle") /\ UNCHANGED <<target, todo, tmp, archive, bundle, hurt, company>>
          BY <1>5, <2>1 DEF RenameArchive, LaunchGoes
    <3>1. /\ launch' \in [Launches -> {"idle", "downloading", "downloaded", "verified", "renamed", "unpacking", "running"}]
          /\ launch'[l] = "idle" /\ (\A o \in Launches : o # l => launch'[o] = launch[o])
          BY <1>t, <3>0, OthersStay
    <3>2. LauncherTypeOK' /\ StreamsOpen'
          BY <1>t, <3>0, <3>1 DEF LauncherTypeOK, StreamsOpen
    <3>3. ~Alone
          BY <2>1, <3>0 DEF Alone, Step
    <3> QED
        BY <1>t, <3>0, <3>2, <3>3
  <2>2. CASE tmp # "none"
    <3>0. /\ launch[l] = "verified" /\ LaunchGoes(l, "renamed") /\ archive' = tmp /\ tmp' = "none"
          /\ target' = [o \in Launches |-> IF target[o] = "tmp" THEN "archive" ELSE "lost"]
          /\ todo' = [todo EXCEPT ![l] = bundle] /\ UNCHANGED <<bundle, hurt, company>>
          BY <1>5, <2>2 DEF RenameArchive, LaunchGoes
    <3>1. /\ launch' \in [Launches -> {"idle", "downloading", "downloaded", "verified", "renamed", "unpacking", "running"}]
          /\ launch'[l] = "renamed" /\ (\A o \in Launches : o # l => launch'[o] = launch[o])
          /\ Working' = Working \cup {l} /\ l \in Working
          BY <1>t, <3>0, OthersStay DEF Working
    <3>2. LauncherTypeOK' /\ StreamsOpen'
      <4>1. target' \in [Launches -> {"tmp", "archive", "lost"}] /\ \A o \in Launches : target'[o] # "lost" => target[o] # "lost" /\ o # l
            BY <1>t, <3>0 DEF LauncherTypeOK, StreamsOpen
      <4>2. todo' \in [Launches -> SUBSET Members]
            BY <1>t, <3>0 DEF LauncherTypeOK
      <4> QED
          BY <1>t, <3>0, <3>1, <4>1, <4>2 DEF LauncherTypeOK, StreamsOpen
    <3>3. ASSUME Alone PROVE Alone'
      <4>1. \A o \in Working : o = l
            BY <3>1, <3>3 DEF Alone, OneLaunch
      <4>2. OneLaunch' /\ archive' # "part"
            BY <3>0, <3>1, <3>3, <4>1 DEF Alone, OneLaunch, Step
      <4>3. \A o \in Launches : target[o] = "lost" \/ target[o] = "archive"
            BY <1>t, <3>0, <4>1 DEF LauncherTypeOK, StreamsOpen, Working
      <4>4. ASSUME NEW o \in Launches PROVE Step(o)'
        <5>1. target'[o] = "lost"
              BY <3>0, <4>3
        <5>2. o = l => bundle' = todo'[o]
              BY <1>t, <3>0 DEF LauncherTypeOK
        <5>3. o # l => launch'[o] \in {"idle", "running"}
              BY <1>t, <3>1, <4>1 DEF Working
        <5> QED
            BY <3>1, <5>1, <5>2, <5>3 DEF Step
      <4>5. ~Untouched'
            BY <3>1 DEF Untouched
      <4> QED
          BY <4>2, <4>4, <4>5 DEF Alone
    <3> QED
        BY <1>t, <3>0, <3>2, <3>3
  <2> QED
      BY <2>1, <2>2
<1>6. ASSUME NEW l \in Launches, Remove(l) \/ Unpack(l) PROVE LauncherTypeOK' /\ StreamsOpen' /\ (~company' => Alone')
  <2>0. launch[l] \in {"renamed", "unpacking"} /\ UNCHANGED <<target, tmp, archive, hurt, company>>
        BY <1>6 DEF Remove, Unpack
  <2>1. /\ launch' \in [Launches -> {"idle", "downloading", "downloaded", "verified", "renamed", "unpacking", "running"}]
        /\ launch'[l] \in {"renamed", "unpacking"} /\ (\A o \in Launches : o # l => launch'[o] = launch[o])
        BY <1>6, <1>t, <2>0 DEF Remove, Unpack, LauncherTypeOK
  <2>2. todo' \in [Launches -> SUBSET Members] /\ bundle' \subseteq Members
        BY <1>6, <1>t DEF Remove, Unpack, LauncherTypeOK
  <2>3. LauncherTypeOK' /\ StreamsOpen'
        BY <1>t, <2>0, <2>1, <2>2 DEF LauncherTypeOK, StreamsOpen
  <2>4. ASSUME Alone PROVE Alone'
    <3>1. /\ launch[l] = "renamed" => bundle = todo[l]
          /\ launch[l] = "unpacking" => bundle = Members \ todo[l]
          BY <2>4 DEF Alone, Step
    <3>2. /\ launch'[l] = "renamed" => bundle' = todo'[l]
          /\ launch'[l] = "unpacking" => bundle' = Members \ todo'[l]
      <4>1. CASE \E m \in todo[l] : bundle' = bundle \ {m} /\ todo' = [todo EXCEPT ![l] = @ \ {m}] /\ UNCHANGED launch /\ launch[l] = "renamed"
            BY <1>t, <3>1, <4>1 DEF LauncherTypeOK
      <4>2. CASE Remove(l) /\ todo[l] = {} /\ todo' = [todo EXCEPT ![l] = Members] /\ launch' = [launch EXCEPT ![l] = "unpacking"] /\ UNCHANGED bundle
            BY <1>t, <3>1, <4>2 DEF LauncherTypeOK, Remove
      <4>3. CASE Unpack(l)
        <5>1. PICK m \in todo[l] : bundle' = bundle \cup {m} /\ todo' = [todo EXCEPT ![l] = @ \ {m}]
              BY <4>3 DEF Unpack
        <5>2. launch[l] = "unpacking" /\ UNCHANGED launch /\ todo'[l] = todo[l] \ {m} /\ m \in Members
              BY <1>t, <4>3, <5>1 DEF Unpack, LauncherTypeOK
        <5> QED
            BY <3>1, <5>1, <5>2
      <4> QED
          BY <1>6, <4>1, <4>2, <4>3 DEF Remove
    <3>3. l \in Working /\ Working' = Working
          BY <1>t, <2>0, <2>1 DEF Working, LauncherTypeOK
    <3>4. OneLaunch' /\ archive' # "part"
          BY <2>0, <2>4, <3>3 DEF Alone, OneLaunch
    <3>5. ASSUME NEW o \in Launches PROVE Step(o)'
      <4>1. o # l => launch'[o] \in {"idle", "running"}
            BY <1>t, <2>1, <2>4, <3>3 DEF Alone, OneLaunch, Working
      <4> QED
          BY <2>0, <2>1, <2>4, <3>2, <4>1 DEF Alone, Step
    <3>6. ~Untouched'
          BY <2>1 DEF Untouched
    <3> QED
        BY <3>4, <3>5, <3>6 DEF Alone
  <2> QED
      BY <1>t, <2>0, <2>3, <2>4
<1>7. ASSUME NEW l \in Launches, Unpacked(l) PROVE LauncherTypeOK' /\ StreamsOpen' /\ (~company' => Alone')
  <2>0. PICK step \in {"running", "idle"} :
        /\ launch[l] = "unpacking" /\ todo[l] = {} /\ LaunchGoes(l, step) /\ UNCHANGED <<target, todo, tmp, archive, bundle>>
        /\ step = "running" <=> "binary" \in bundle
        BY <1>7 DEF Unpacked, LaunchGoes
  <2>1. \/ Working = {l} /\ bundle = Members /\ archive = "whole" /\ hurt' = FALSE /\ company' = FALSE
        \/ UNCHANGED <<hurt, company>>
        BY <1>7 DEF Unpacked
  <2>2. /\ launch' \in [Launches -> {"idle", "downloading", "downloaded", "verified", "renamed", "unpacking", "running"}]
        /\ launch'[l] = step /\ (\A o \in Launches : o # l => launch'[o] = launch[o])
        /\ Working' = Working \ {l} /\ l \in Working
        BY <1>t, <2>0, OthersStay DEF Working
  <2>3. LauncherTypeOK' /\ StreamsOpen'
        BY <1>t, <2>0, <2>1, <2>2 DEF LauncherTypeOK, StreamsOpen
  <2>4. ASSUME ~company' PROVE Alone'
    <3>1. (\A o \in Working : o = l) /\ bundle = Members /\ archive # "part"
          BY <1>t, <2>0, <2>1, <2>2, <2>4 DEF Alone, OneLaunch, Step
    <3>2. OneLaunch' /\ archive' # "part"
          BY <2>0, <2>2, <3>1 DEF OneLaunch
    <3>3. ASSUME NEW o \in Launches PROVE Step(o)'
      <4>1. launch'[o] \in {"idle", "running"}
            BY <1>t, <2>2, <3>1 DEF Working
      <4>2. target'[o] = "lost"
            BY <1>t, <2>0, <2>2, <4>1 DEF LauncherTypeOK, StreamsOpen
      <4> QED
          BY <4>1, <4>2 DEF Step
    <3>4. BundleKept'
          BY <2>0, <3>1 DEF BundleKept
    <3> QED
        BY <3>2, <3>3, <3>4 DEF Alone
  <2> QED
      BY <2>3, <2>4
<1>8. ASSUME NEW l \in Launches, LaunchEnds(l) PROVE LauncherTypeOK' /\ StreamsOpen' /\ (~company' => Alone')
  <2>0. /\ launch[l] # "idle" /\ LaunchGoes(l, "idle") /\ target' = [target EXCEPT ![l] = "lost"]
        /\ todo' = [todo EXCEPT ![l] = {}] /\ hurt' = (hurt \/ launch[l] \in {"renamed", "unpacking"})
        /\ UNCHANGED <<tmp, archive, bundle, company>>
        BY <1>8 DEF LaunchEnds, LaunchGoes
  <2>1. /\ launch' \in [Launches -> {"idle", "downloading", "downloaded", "verified", "renamed", "unpacking", "running"}]
        /\ launch'[l] = "idle" /\ (\A o \in Launches : o # l => launch'[o] = launch[o])
        /\ Working' = Working \ {l}
        BY <1>t, <2>0, OthersStay
  <2>2. LauncherTypeOK' /\ StreamsOpen'
        BY <1>t, <2>0, <2>1 DEF LauncherTypeOK, StreamsOpen
  <2>3. ASSUME Alone PROVE Alone'
    <3>1. OneLaunch' /\ archive' # "part"
          BY <2>0, <2>1, <2>3 DEF Alone, OneLaunch
    <3>2. \A o \in Launches : Step(o)'
          BY <1>t, <2>0, <2>1, <2>3 DEF Alone, Step, LauncherTypeOK
    <3>3. ASSUME ~hurt', Untouched' PROVE BundleKept'
      <4>1. ~hurt /\ Untouched
            BY <1>t, <2>0, <2>1, <3>3 DEF Untouched
      <4> QED
          BY <2>0, <2>1, <2>3, <4>1 DEF Alone, BundleKept
    <3> QED
        BY <3>1, <3>2, <3>3 DEF Alone
  <2> QED
      BY <1>t, <2>0, <2>2, <2>3
<1>9. CASE UNCHANGED launcherVars
      BY <1>t, <1>9 DEF launcherVars, LauncherTypeOK, StreamsOpen, Alone, OneLaunch, Step, Untouched, BundleKept, Working
<1> QED
    BY <1>1, <1>2, <1>3, <1>4, <1>5, <1>6, <1>7, <1>8, <1>9 DEF LauncherNext

LauncherSpec == LauncherInit /\ [][LauncherNext]_launcherVars

(* A bundle that runs is whole, unless launches kept each other company or one *)
(* was killed while it unpacked (ensureBundle of linux-desktop.mjs).           *)
THEOREM BundleAlwaysWhole == LauncherSpec => [](LauncherTypeOK /\ BundleIsWhole)
<1>1. LauncherInv => LauncherTypeOK /\ BundleIsWhole
  <2>1. ASSUME Working = {}, LauncherTypeOK PROVE Untouched
        BY <2>1 DEF Working, Untouched
  <2> QED
      BY <2>1 DEF LauncherInv, BundleIsWhole, BundleKept
<1> QED
    BY <1>1, LauncherStarts, LauncherSteps, PTL DEF LauncherSpec

------------------------------------------------------------------------------
(* The assets of the web server (Assets).                                      *)

(* The servers: one that extracts by itself knows what is in the directory;   *)
(* and a mark over a part of the rest, or a directory that could get one, has *)
(* a server that is still deleting.                                           *)
OneExtracts ==
  /\ \A s, o \in Extracting : s = o
  /\ Mark \in shown => Assembled \subseteq shown
  /\ \A s \in Servers :
       /\ stage[s] = "serving" => Assembled \cup {Mark} \subseteq shown
       /\ s \in Extracting => Mark \notin shown
       /\ stage[s] = "moving" => shown = {}
       /\ stage[s] = "marking" => shown = Assembled

Torn == ~(Assembled \subseteq shown) /\ (Mark \in shown \/ (made /\ \E s \in Servers : stage[s] = "marking"))
BeingCleared == Torn => \E s \in Servers : stage[s] = "clearing"

AssetsInv ==
  /\ AssetTypeOK
  /\ ~together => OneExtracts
  /\ ~dropped => BeingCleared

\* It holds at the start.
LEMMA AssetsStart == AssetInit => AssetsInv
  BY DEF AssetInit, AssetsInv, AssetTypeOK, OneExtracts, BeingCleared, Torn, Extracting, Mark, Assembled

\* A server goes to another stage; the others stay, and who extracts is known.
LEMMA OthersOfStage ==
  ASSUME AssetTypeOK, NEW s \in Servers,
         NEW to \in {"off", "extracting", "clearing", "moving", "marking", "serving"}, Moves(s, to)
  PROVE  /\ stage' \in [Servers -> {"off", "extracting", "clearing", "moving", "marking", "serving"}]
         /\ stage'[s] = to /\ \A o \in Servers : o # s => stage'[o] = stage[o]
         /\ Extracting' = IF to \in {"off", "serving"} THEN Extracting \ {s} ELSE Extracting \cup {s}
<1>1. /\ stage' \in [Servers -> {"off", "extracting", "clearing", "moving", "marking", "serving"}]
      /\ stage'[s] = to /\ \A o \in Servers : o # s => stage'[o] = stage[o]
      BY DEF AssetTypeOK, Moves
<1> QED
    BY <1>1 DEF Extracting

\* And every step keeps it.
LEMMA AssetsStep == AssetsInv /\ [AssetNext]_assetVars => AssetsInv'
<1> SUFFICES ASSUME AssetsInv, [AssetNext]_assetVars PROVE AssetsInv'
    OBVIOUS
<1>t. AssetTypeOK /\ (~together => OneExtracts) /\ (~dropped => BeingCleared)
      BY DEF AssetsInv
<1>q. SUFFICES AssetTypeOK' /\ (~together' => OneExtracts') /\ (~dropped' => BeingCleared')
      BY DEF AssetsInv
<1>1. ASSUME NEW s \in Servers, Looks(s)
      PROVE  AssetTypeOK' /\ (~together' => OneExtracts') /\ (~dropped' => BeingCleared')
  <2>0. /\ stage[s] = "off" /\ UNCHANGED <<found, shown, made, dropped>>
        /\ \/ Complete /\ Moves(s, "serving") /\ UNCHANGED together
           \/ ~Complete /\ Moves(s, "extracting") /\ together' = (together \/ Extracting # {})
        BY <1>1 DEF Looks
  <2>1. PICK to \in {"serving", "extracting"} :
        /\ Moves(s, to) /\ (to = "serving" => Complete /\ UNCHANGED together)
        /\ to = "extracting" => ~Complete /\ together' = (together \/ Extracting # {})
        BY <2>0
  <2>2. /\ stage' \in [Servers -> {"off", "extracting", "clearing", "moving", "marking", "serving"}]
        /\ stage'[s] = to /\ (\A o \in Servers : o # s => stage'[o] = stage[o])
        /\ Extracting' = IF to = "serving" THEN Extracting \ {s} ELSE Extracting \cup {s}
        BY <1>t, <2>1, OthersOfStage
  <2>3. AssetTypeOK'
        BY <1>t, <2>0, <2>1, <2>2 DEF AssetTypeOK
  <2>4. ASSUME ~together' PROVE OneExtracts'
    <3>1. CASE to = "serving"
      <4>1. OneExtracts /\ Mark \in shown /\ Extracting' = Extracting \ {s}
            BY <1>t, <2>1, <2>2, <2>4, <3>1 DEF Complete
      <4> QED
          BY <2>0, <2>2, <3>1, <4>1 DEF OneExtracts
    <3>2. CASE to = "extracting"
      <4>1. OneExtracts /\ Mark \notin shown /\ Extracting = {} /\ Extracting' = {s}
            BY <1>t, <2>1, <2>2, <2>4, <3>2 DEF Complete
      <4> QED
          BY <2>0, <2>2, <3>2, <4>1 DEF OneExtracts
    <3> QED
        BY <3>1, <3>2
  <2>5. ~dropped' => BeingCleared'
        BY <1>t, <2>0, <2>2 DEF BeingCleared, Torn
  <2> QED
      BY <2>3, <2>4, <2>5
<1>2. ASSUME NEW s \in Servers, Extracted(s)
      PROVE  AssetTypeOK' /\ (~together' => OneExtracts') /\ (~dropped' => BeingCleared')
  <2>0. /\ stage[s] = "extracting" /\ Moves(s, "clearing") /\ found' = [found EXCEPT ![s] = shown]
        /\ UNCHANGED <<shown, made, together, dropped>>
        BY <1>2 DEF Extracted
  <2>2. /\ stage' \in [Servers -> {"off", "extracting", "clearing", "moving", "marking", "serving"}]
        /\ stage'[s] = "clearing" /\ (\A o \in Servers : o # s => stage'[o] = stage[o])
        /\ Extracting' = Extracting \cup {s} /\ s \in Extracting
        BY <1>t, <2>0, OthersOfStage DEF Extracting
  <2>3. AssetTypeOK'
        BY <1>t, <2>0, <2>2 DEF AssetTypeOK
  <2>4. ~together' => OneExtracts'
        BY <1>t, <2>0, <2>2 DEF OneExtracts
  <2>5. BeingCleared'
        BY <2>2 DEF BeingCleared
  <2> QED
      BY <2>3, <2>4, <2>5
<1>3. ASSUME NEW s \in Servers, Clears(s)
      PROVE  AssetTypeOK' /\ (~together' => OneExtracts') /\ (~dropped' => BeingCleared')
  <2>0. stage[s] = "clearing" /\ UNCHANGED <<together, dropped>> /\ s \in Extracting
        BY <1>3 DEF Clears, Extracting
  <2>1. CASE shown' \subseteq shown /\ UNCHANGED <<stage, made>> /\ found' \in [Servers -> SUBSET (Assembled \cup {Mark})]
    <3>1. AssetTypeOK'
          BY <1>t, <2>0, <2>1 DEF AssetTypeOK
    <3>2. ASSUME OneExtracts PROVE OneExtracts'
      <4>1. Mark \notin shown /\ Extracting' = Extracting /\ \A o \in Extracting : o = s
            BY <2>0, <2>1, <3>2 DEF OneExtracts, Extracting
      <4>2. ASSUME NEW o \in Servers PROVE stage[o] \notin {"serving", "moving", "marking"}
        <5>1. stage[o] # "serving"
              BY <3>2, <4>1 DEF OneExtracts
        <5>2. stage[o] \in {"moving", "marking"} => o = s
              BY <4>1 DEF Extracting
        <5> QED
            BY <2>0, <5>1, <5>2
      <4> QED
          BY <2>1, <4>1, <4>2 DEF OneExtracts
    <3>3. BeingCleared'
          BY <2>0, <2>1 DEF BeingCleared
    <3> QED
        BY <1>t, <2>0, <3>1, <3>2, <3>3
  <2>2. CASE shown = {} /\ made' = FALSE /\ Moves(s, "moving") /\ UNCHANGED <<shown, found>>
    <3>1. /\ stage' \in [Servers -> {"off", "extracting", "clearing", "moving", "marking", "serving"}]
          /\ stage'[s] = "moving" /\ (\A o \in Servers : o # s => stage'[o] = stage[o])
          /\ Extracting' = Extracting \cup {s}
          BY <1>t, <2>2, OthersOfStage
    <3>2. AssetTypeOK'
          BY <1>t, <2>0, <2>2, <3>1 DEF AssetTypeOK
    <3>3. OneExtracts => OneExtracts'
          BY <2>0, <2>2, <3>1 DEF OneExtracts
    <3>4. BeingCleared'
          BY <2>2 DEF BeingCleared, Torn
    <3> QED
        BY <1>t, <2>0, <3>2, <3>3, <3>4
  <2>3. \/ /\ shown' \subseteq shown /\ UNCHANGED <<stage, made>>
           /\ found' \in [Servers -> SUBSET (Assembled \cup {Mark})]
        \/ shown = {} /\ made' = FALSE /\ Moves(s, "moving") /\ UNCHANGED <<shown, found>>
        BY <1>t, <1>3 DEF Clears, AssetTypeOK
  <2> QED
      BY <2>1, <2>2, <2>3
<1>4. ASSUME NEW s \in Servers, MovesIn(s)
      PROVE  AssetTypeOK' /\ (~together' => OneExtracts') /\ (~dropped' => BeingCleared')
  <2>0. /\ stage[s] = "moving" /\ shown' = Assembled /\ made' = TRUE /\ Moves(s, "marking")
        /\ UNCHANGED <<found, together, dropped>>
        BY <1>4 DEF MovesIn
  <2>2. /\ stage' \in [Servers -> {"off", "extracting", "clearing", "moving", "marking", "serving"}]
        /\ stage'[s] = "marking" /\ (\A o \in Servers : o # s => stage'[o] = stage[o])
        /\ Extracting' = Extracting \cup {s} /\ s \in Extracting
        BY <1>t, <2>0, OthersOfStage DEF Extracting
  <2>3. AssetTypeOK'
        BY <1>t, <2>0, <2>2 DEF AssetTypeOK
  <2>4. ASSUME OneExtracts PROVE OneExtracts'
    <3>1. \A o \in Servers : o # s => stage'[o] \in {"off", "serving"} /\ o \notin Extracting
          BY <1>t, <2>2, <2>4 DEF OneExtracts, Extracting, AssetTypeOK
    <3>2. \A o \in Servers : stage[o] # "serving"
          BY <2>2, <2>4 DEF OneExtracts, Mark
    <3> QED
        BY <2>0, <2>2, <2>4, <3>1, <3>2 DEF OneExtracts, Mark, Assembled
  <2>5. BeingCleared'
        BY <2>0 DEF BeingCleared, Torn
  <2> QED
      BY <1>t, <2>0, <2>3, <2>4, <2>5
<1>5. ASSUME NEW s \in Servers, MarksComplete(s)
      PROVE  AssetTypeOK' /\ (~together' => OneExtracts') /\ (~dropped' => BeingCleared')
  <2>0. /\ stage[s] = "marking" /\ made /\ shown' = shown \cup {Mark} /\ Moves(s, "serving")
        /\ \/ Extracting = {s} /\ Assembled \subseteq shown /\ together' = FALSE /\ dropped' = FALSE
           \/ UNCHANGED <<together, dropped>>
        /\ UNCHANGED <<found, made>>
        BY <1>5 DEF MarksComplete
  <2>2. /\ stage' \in [Servers -> {"off", "extracting", "clearing", "moving", "marking", "serving"}]
        /\ stage'[s] = "serving" /\ (\A o \in Servers : o # s => stage'[o] = stage[o])
        /\ Extracting' = Extracting \ {s} /\ s \in Extracting
        BY <1>t, <2>0, OthersOfStage DEF Extracting
  <2>3. AssetTypeOK'
        BY <1>t, <2>0, <2>2 DEF AssetTypeOK
  <2>4. ASSUME ~together' PROVE OneExtracts'
    <3>1. Extracting = {s} /\ Assembled \subseteq shown
      <4>1. OneExtracts => (\A o \in Extracting : o = s) /\ Assembled \subseteq shown
            BY <2>0, <2>2 DEF OneExtracts
      <4> QED
          BY <1>t, <2>0, <2>2, <2>4, <4>1
    <3>2. Extracting' = {} /\ Assembled \cup {Mark} \subseteq shown' /\ \A o \in Servers : stage'[o] \notin {"moving", "marking"}
      <4>1. Extracting' = {}
            BY <2>2, <3>1
      <4> QED
          BY <2>0, <3>1, <4>1 DEF Extracting
    <3> QED
        BY <3>2 DEF OneExtracts
  <2>5. ASSUME ~dropped' PROVE BeingCleared'
    <3>1. CASE Assembled \subseteq shown
          BY <2>0, <3>1 DEF BeingCleared, Torn
    <3>2. CASE ~(Assembled \subseteq shown)
      <4>1. Torn /\ ~dropped
            BY <2>0, <2>5, <3>2 DEF Torn
      <4>2. \E o \in Servers : stage[o] = "clearing" /\ o # s
            BY <1>t, <2>0, <4>1 DEF BeingCleared
      <4> QED
          BY <2>2, <4>2 DEF BeingCleared
    <3> QED
        BY <3>1, <3>2
  <2> QED
      BY <2>3, <2>4, <2>5
<1>6. ASSUME NEW s \in Servers, ServerStops(s)
      PROVE  AssetTypeOK' /\ (~together' => OneExtracts') /\ (~dropped' => BeingCleared')
  <2>0. /\ stage[s] # "off" /\ Moves(s, "off") /\ found' = [found EXCEPT ![s] = {}]
        /\ dropped' = (dropped \/ (stage[s] = "clearing" /\ (Mark \in shown \/ Extracting # {s})))
        /\ UNCHANGED <<shown, made, together>>
        BY <1>6 DEF ServerStops
  <2>2. /\ stage' \in [Servers -> {"off", "extracting", "clearing", "moving", "marking", "serving"}]
        /\ stage'[s] = "off" /\ (\A o \in Servers : o # s => stage'[o] = stage[o])
        /\ Extracting' = Extracting \ {s}
        BY <1>t, <2>0, OthersOfStage
  <2>3. AssetTypeOK'
        BY <1>t, <2>0, <2>2 DEF AssetTypeOK
  <2>4. OneExtracts => OneExtracts'
        BY <2>0, <2>2 DEF OneExtracts
  <2>5. ASSUME ~dropped' PROVE BeingCleared'
    <3>1. SUFFICES ASSUME Torn' PROVE \E o \in Servers : stage'[o] = "clearing"
          BY DEF BeingCleared
    <3>2. Torn /\ ~dropped
          BY <2>0, <2>2, <2>5, <3>1 DEF Torn
    <3>3. PICK o \in Servers : stage[o] = "clearing"
          BY <1>t, <3>2 DEF BeingCleared
    <3>4. CASE o # s
          BY <2>2, <3>3, <3>4
    <3>5. CASE o = s
      <4>1. Mark \notin shown /\ Extracting = {s}
            BY <2>0, <2>5, <3>3, <3>5
      <4>2. PICK m \in Servers : stage'[m] = "marking"
            BY <2>0, <3>1, <4>1 DEF Torn
      <4>3. m # s /\ m \in Extracting
            BY <2>2, <4>2 DEF Extracting
      <4> QED
          BY <4>1, <4>3
    <3> QED
        BY <3>4, <3>5
  <2> QED
      BY <1>t, <2>0, <2>3, <2>4, <2>5
<1>7. CASE UNCHANGED assetVars
      BY <1>t, <1>7 DEF assetVars, AssetTypeOK, OneExtracts, BeingCleared, Torn, Extracting
<1> QED
    BY <1>1, <1>2, <1>3, <1>4, <1>5, <1>6, <1>7 DEF AssetNext

AssetSpec == AssetInit /\ [][AssetNext]_assetVars

(* A directory of web assets that carries the mark is whole, unless two        *)
(* servers extracted at once or one ended in its rm (ensureExtractedAssets).   *)
THEOREM AssetsAlwaysWhole == AssetSpec => [](AssetTypeOK /\ AssetsAreWhole)
<1>1. AssetsInv => AssetTypeOK /\ AssetsAreWhole
  <2>1. ASSUME AssetsInv PROVE Extracting = {} /\ ~dropped /\ Mark \in shown => Assembled \subseteq shown
        BY <2>1 DEF AssetsInv, BeingCleared, Torn, Extracting
  <2> QED
      BY <2>1 DEF AssetsInv, AssetsAreWhole, OneExtracts
<1> QED
    BY <1>1, AssetsStart, AssetsStep, PTL DEF AssetSpec

------------------------------------------------------------------------------
(* Commands in a repository (RepoCommands).                                    *)

(* The handlers: the commands of one follow its table, and what the one it    *)
(* is at has done is still true.                                              *)
Kinds == {"createBranch", "checkout", "push", "prCreate", "prStatus", "message", "gitOrigin", "mergeBase"}

LEMMA KindsAre == DOMAIN Handlers = Kinds
  BY DEF Handlers, Kinds

\* What the tables say of the handlers whose answers tell something of the repository.
LEMMA CreateBranchTable ==
  /\ DOMAIN Handlers["createBranch"] = {"show", "branch"} /\ FirstCommand["createBranch"] = "show"
  /\ Handlers["createBranch"]["show"] = [ok |-> "ok", fail |-> "branch"]
  /\ Handlers["createBranch"]["branch"] = [ok |-> "ok", fail |-> "error"]
  BY DEF Handlers, FirstCommand, CreateBranch, Then

LEMMA CheckoutTable ==
  /\ DOMAIN Handlers["checkout"] = {"checkout", "current"} /\ FirstCommand["checkout"] = "checkout"
  /\ Handlers["checkout"]["checkout"] = [ok |-> "current", fail |-> "error"]
  /\ Handlers["checkout"]["current"] = [ok |-> "ok", fail |-> "ok"]
  BY DEF Handlers, FirstCommand, CheckoutBranch, Joined, CurrentBranch, Then, Either

LEMMA PushTable ==
  /\ DOMAIN Handlers["push"] = {"push"} /\ FirstCommand["push"] = "push"
  /\ Handlers["push"]["push"] = [ok |-> "ok", fail |-> "error"]
  BY DEF Handlers, FirstCommand, GitPush, Then

LEMMA CreateTable ==
  /\ DOMAIN Handlers["prCreate"] = {"version", "auth", "create"} /\ FirstCommand["prCreate"] = "version"
  /\ Handlers["prCreate"]["version"] = [ok |-> "auth", fail |-> "error"]
  /\ Handlers["prCreate"]["auth"] = [ok |-> "create", fail |-> "error"]
  /\ Handlers["prCreate"]["create"] = [ok |-> "ok", fail |-> "error"]
  BY DEF Handlers, FirstCommand, GhPrCreate, GhCliStatus, Joined, Then
\* The others change nothing, and all stay in their table until they answer.
LEMMA ReadingTables ==
  ASSUME NEW kind \in {"prStatus", "message", "gitOrigin", "mergeBase"}
  PROVE  /\ DOMAIN Handlers[kind] \cap (Changing \cup Answers \cup {"unasked"}) = {}
         /\ FirstCommand[kind] \in DOMAIN Handlers[kind]
         /\ \A at \in DOMAIN Handlers[kind], result \in {"ok", "fail"} :
              Handlers[kind][at][result] \in DOMAIN Handlers[kind] \cup Answers
<1>1. CASE kind = "prStatus"
      BY <1>1 DEF Handlers, FirstCommand, Changing, Answers, GhPrStatus, GhCliStatus, Joined, Then
<1>2. CASE kind = "message"
  <2> DEFINE M == CodexMessage
  <2>1. /\ DOMAIN M = {"codex", "origin", "candidates", "log", "names", "numstat", "current"}
        /\ M["codex"] = [ok |-> "ok", fail |-> "origin"] /\ M["origin"] = [ok |-> "log", fail |-> "candidates"]
        /\ M["candidates"] = [ok |-> "log", fail |-> "log"] /\ M["log"] = [ok |-> "names", fail |-> "names"]
        /\ M["names"] = [ok |-> "numstat", fail |-> "numstat"] /\ M["numstat"] = [ok |-> "current", fail |-> "current"]
        /\ M["current"] = [ok |-> "ok", fail |-> "ok"]
        BY DEF CodexMessage, FallbackMessage, DiffSummary, Joined, BaseRef, CurrentBranch, Then, Either
  <2>2. Handlers[kind] = M /\ FirstCommand[kind] = "codex"
        BY <1>2 DEF Handlers, FirstCommand
  <2> HIDE DEF M
  <2> QED
      BY <2>1, <2>2 DEF Changing, Answers
<1>3. CASE kind = "gitOrigin"
      BY <1>3 DEF Handlers, FirstCommand, Changing, Answers, GitOrigin, Then, Either
<1>4. CASE kind = "mergeBase"
      BY <1>4 DEF Handlers, FirstCommand, Changing, Answers, MergeBase, Then, Either
<1> QED
    BY <1>1, <1>2, <1>3, <1>4

\* Every handler begins in its table and stays there until it answers.
LEMMA Tables ==
  ASSUME NEW kind \in Kinds
  PROVE  /\ FirstCommand[kind] \in DOMAIN Handlers[kind] /\ DOMAIN Handlers[kind] \subseteq Commands
         /\ DOMAIN Handlers[kind] \cap (Answers \cup {"unasked"}) = {}
         /\ \A at \in DOMAIN Handlers[kind], result \in {"ok", "fail"} :
              Handlers[kind][at][result] \in DOMAIN Handlers[kind] \cup Answers
<1>1. DOMAIN Handlers[kind] \subseteq Commands
      BY KindsAre DEF Commands
<1>2. CASE kind \in {"createBranch", "checkout", "push", "prCreate"}
  <2>1. CASE kind = "createBranch"
        BY <1>1, <2>1, CreateBranchTable DEF Answers
  <2>2. CASE kind = "checkout"
        BY <1>1, <2>2, CheckoutTable DEF Answers
  <2>3. CASE kind = "push"
        BY <1>1, <2>3, PushTable DEF Answers
  <2>4. CASE kind = "prCreate"
        BY <1>1, <2>4, CreateTable DEF Answers
  <2> QED
      BY <1>2, <2>1, <2>2, <2>3, <2>4
<1>3. CASE kind \in {"prStatus", "message", "gitOrigin", "mergeBase"}
      BY <1>1, <1>3, ReadingTables
<1> QED
    BY <1>2, <1>3 DEF Kinds

\* A command is never taken for an answer.
LEMMA CommandsAreNoAnswers == Commands \cap (Answers \cup {"unasked"}) = {}
<1>1. ASSUME NEW at \in Commands PROVE at \notin Answers \cup {"unasked"}
  <2>1. PICK kind \in Kinds : at \in DOMAIN Handlers[kind]
        BY KindsAre DEF Commands
  <2> QED
      BY <2>1, Tables
<1> QED
    BY <1>1

\* The record of a call.
CallRecord ==
  [kind : Kinds, branch : Branches, at : Commands \cup Answers \cup {"unasked"},
   did : BOOLEAN, acted : BOOLEAN, unsure : BOOLEAN, moved : BOOLEAN, reported : Branches]

\* What is so of a call in the repository: of its answer, of what its command has done,
\* and of what an error would have to own up to.
Answered(c) ==
  /\ calls[c].at = "ok" /\ calls[c].kind = "createBranch" => calls[c].branch \in branches
  /\ calls[c].at = "ok" /\ calls[c].kind = "push" => calls[c].branch \in pushed
  /\ calls[c].at = "ok" /\ calls[c].kind = "prCreate" => calls[c].branch \in prs
  /\ calls[c].at = "ok" /\ calls[c].kind = "checkout" => calls[c].reported = calls[c].branch \/ calls[c].moved
  /\ calls[c].at = "error" /\ calls[c].acted => calls[c].unsure

Done(c) ==
  /\ calls[c].did /\ calls[c].at \in {"show", "branch"} => calls[c].branch \in branches
  /\ calls[c].did /\ calls[c].at = "push" => calls[c].branch \in pushed
  /\ calls[c].did /\ calls[c].at = "create" => calls[c].branch \in prs
  /\ calls[c].did /\ calls[c].at = "checkout" =>
       (head = calls[c].branch \/ calls[c].moved) /\ calls[c].reported = calls[c].branch
  /\ calls[c].kind = "checkout" /\ calls[c].at = "current" =>
       /\ calls[c].reported = calls[c].branch \/ calls[c].moved
       /\ ~calls[c].did => head = calls[c].branch \/ calls[c].moved

Owed(c) ==
  calls[c].acted => \/ calls[c].unsure \/ calls[c].at = "ok"
                    \/ calls[c].at \in Changing /\ calls[c].did
                    \/ calls[c].kind = "checkout" /\ calls[c].at = "current"

InTable(c) == calls[c].at \in DOMAIN Handlers[calls[c].kind] \cup Answers \cup {"unasked"}

CallOK(c) == InTable(c) /\ Answered(c) /\ Done(c) /\ Owed(c)

RepoInv ==
  /\ calls \in [Calls -> CallRecord]
  /\ branches \subseteq Branches /\ head \in branches /\ pushed \subseteq branches /\ prs \subseteq pushed
  /\ orphans \subseteq Changing \X Branches
  /\ \A c \in Calls : CallOK(c)

\* The table of commands grows, nothing is taken back.
LEMMA DoesMore ==
  ASSUME RepoInv, NEW command, NEW b \in Branches, Does(command, b)
  PROVE  /\ branches' \subseteq Branches /\ head' \in branches' /\ pushed' \subseteq branches' /\ prs' \subseteq pushed'
         /\ branches \subseteq branches' /\ pushed \subseteq pushed' /\ prs \subseteq prs'
         /\ command \in {"show", "branch"} => b \in branches'
         /\ command = "push" => b \in pushed'
         /\ command = "create" => b \in prs'
         /\ IF command = "checkout" THEN head' = b ELSE head' = head
  BY DEF Does, RepoInv, Changing

\* A call to which nothing happened but that the working tree moved under it.
LEMMA CallStays ==
  ASSUME NEW c \in Calls, calls[c] \in CallRecord, CallOK(c),
         calls'[c] \in {calls[c], [calls[c] EXCEPT !.moved = TRUE]}, head' # head => calls'[c].moved,
         branches \subseteq branches', pushed \subseteq pushed', prs \subseteq prs'
  PROVE  calls'[c] \in CallRecord /\ CallOK(c)'
<1>1. /\ calls'[c] \in CallRecord /\ calls'[c].kind = calls[c].kind /\ calls'[c].branch = calls[c].branch
      /\ calls'[c].at = calls[c].at /\ calls'[c].did = calls[c].did /\ calls'[c].acted = calls[c].acted
      /\ calls'[c].unsure = calls[c].unsure /\ calls'[c].reported = calls[c].reported
      /\ calls[c].moved => calls'[c].moved
      BY DEF CallRecord
<1>2. CallOK(c)'
  <2>1. InTable(c)' /\ Owed(c)'
        BY <1>1 DEF CallOK, InTable, Owed
  <2>2. Answered(c)'
        BY <1>1 DEF CallOK, Answered
  <2>3. Done(c)'
        BY <1>1 DEF CallOK, Done
  <2> QED
      BY <2>1, <2>2, <2>3 DEF CallOK
<1> QED
    BY <1>1, <1>2

LEMMA RepoStarts ==
  ASSUME RepoInit PROVE RepoInv
<1>1. Unasked \in CallRecord
      BY RepoAssumption DEF RepoAssumption, Unasked, CallRecord, Kinds
<1>2. ASSUME NEW c \in Calls PROVE CallOK(c)
      BY <1>2 DEF RepoInit, Unasked, CallOK, InTable, Answered, Done, Owed, Changing
<1> QED
    BY <1>1, <1>2, RepoAssumption DEF RepoAssumption, RepoInit, RepoInv

\* A handler begins.
LEMMA AskedKeeps ==
  ASSUME RepoInv, NEW c \in Calls, NEW kind \in Kinds, NEW b \in Branches, Asked(c, kind, b)
  PROVE  RepoInv'
<1> DEFINE new == [Unasked EXCEPT !.kind = kind, !.branch = b, !.at = FirstCommand[kind]]
<1>1. FirstCommand[kind] \in DOMAIN Handlers[kind] /\ FirstCommand[kind] \in Commands
      BY Tables
<1>2. /\ new \in CallRecord /\ new.kind = kind /\ new.at = FirstCommand[kind]
      /\ ~new.did /\ ~new.acted
      BY <1>1, RepoAssumption DEF RepoAssumption, Unasked, CallRecord, Kinds
<1> HIDE DEF new
<1>3. new.at \notin Answers /\ (new.kind = "checkout" => new.at # "current")
      BY <1>1, <1>2, CommandsAreNoAnswers, CheckoutTable
<1>4. calls' = [calls EXCEPT ![c] = new] /\ UNCHANGED <<branches, head, pushed, prs, orphans>>
      BY DEF Asked, new
<1>5. calls'[c] = new /\ CallOK(c)'
  <2>1. calls'[c] = new
        BY <1>4 DEF RepoInv
  <2> QED
      BY <1>1, <1>2, <1>3, <2>1 DEF CallOK, InTable, Answered, Done, Owed, Answers
<1>6. ASSUME NEW d \in Calls PROVE calls'[d] \in CallRecord /\ CallOK(d)'
  <2>1. CASE d = c
        BY <1>2, <1>5, <2>1 DEF RepoInv
  <2>2. CASE d # c
        BY <1>4, <2>2, CallStays DEF RepoInv
  <2> QED
      BY <2>1, <2>2
<1> QED
    BY <1>4, <1>6 DEF RepoInv

\* The command of a call does what it was run for.
LEMMA WorksKeeps ==
  ASSUME RepoInv, NEW c \in Calls, Works(c)
  PROVE  RepoInv'
<1> DEFINE call == calls[c]
           new == calls'[c]
<1>1. call \in CallRecord /\ CallOK(c) /\ call.branch \in Branches
      BY DEF RepoInv, CallRecord
<1>2. /\ branches' \subseteq Branches /\ head' \in branches' /\ pushed' \subseteq branches' /\ prs' \subseteq pushed'
      /\ branches \subseteq branches' /\ pushed \subseteq pushed' /\ prs \subseteq prs'
      /\ call.at \in {"show", "branch"} => call.branch \in branches'
      /\ call.at = "push" => call.branch \in pushed'
      /\ call.at = "create" => call.branch \in prs'
      /\ IF call.at = "checkout" THEN head' = call.branch ELSE head' = head
      BY <1>1, DoesMore DEF Works
<1>3. /\ new \in CallRecord /\ new.kind = call.kind /\ new.branch = call.branch /\ new.at = call.at
      /\ new.did /\ new.acted = (call.acted \/ call.at \in Changing) /\ new.unsure = call.unsure
      /\ new.moved = ((call.moved /\ call.at # "checkout") \/ FALSE)
      /\ new.reported = IF call.at = "current" THEN head ELSE call.branch
      BY <1>1 DEF Works, Noticed, CallRecord, RepoInv
<1>4. call.at \in Commands /\ call.at \notin Answers /\ ~call.did
      BY CommandsAreNoAnswers DEF Works
<1>5. UNCHANGED orphans
      BY DEF Works
<1>6. ASSUME NEW d \in Calls, d # c
      PROVE  calls'[d] \in {calls[d], [calls[d] EXCEPT !.moved = TRUE]} /\ (head' # head => calls'[d].moved)
      BY <1>6 DEF Works, Noticed, RepoInv, CallRecord
<1>7. calls' \in [Calls -> CallRecord]
  <2>1. calls' = [d \in Calls |-> calls'[d]]
        BY DEF Works, Noticed
  <2>2. ASSUME NEW d \in Calls PROVE calls'[d] \in CallRecord
        BY <1>2, <1>3, <1>6, CallStays DEF RepoInv
  <2> QED
      BY <2>1, <2>2
<1>8. CallOK(c)'
  <2>1. InTable(c)'
        BY <1>1, <1>3 DEF CallOK, InTable
  <2>2. Answered(c)'
        BY <1>3, <1>4 DEF Answered, Answers
  <2>3. Done(c)'
        BY <1>1, <1>2, <1>3, <1>4 DEF CallOK, Done
  <2>4. Owed(c)'
        BY <1>1, <1>3, <1>4 DEF CallOK, Owed, Answers
  <2> QED
      BY <2>1, <2>2, <2>3, <2>4 DEF CallOK
<1>9. ASSUME NEW d \in Calls PROVE CallOK(d)'
      BY <1>2, <1>6, <1>8, CallStays DEF RepoInv
<1> QED
    BY <1>2, <1>5, <1>7, <1>9 DEF RepoInv

\* A handler goes on after its command, whatever ended it; a command that succeeded has
\* done its work, or gh has named the request that was there before.
LEMMA ContinueKeeps ==
  ASSUME RepoInv, NEW c \in Calls, NEW result \in {"ok", "fail"}, calls[c].at \in Commands, Continue(c, result),
         result = "ok" => calls[c].did \/ AlreadyThere(c),
         UNCHANGED <<branches, head, pushed, prs>>, orphans' \subseteq Changing \X Branches
  PROVE  RepoInv'
<1> DEFINE call == calls[c]
           new == calls'[c]
<1>1. call \in CallRecord /\ CallOK(c) /\ call.kind \in Kinds
      BY DEF RepoInv, CallRecord
<1>2. call.at \in DOMAIN Handlers[call.kind]
      BY <1>1, CommandsAreNoAnswers DEF CallOK, InTable
<1>3. Handlers[call.kind][call.at][result] \in DOMAIN Handlers[call.kind] \cup Answers
      BY <1>1, <1>2, Tables
<1>4. Handlers[call.kind][call.at][result] \in Commands \cup Answers
      BY <1>1, <1>3, Tables
<1>5. /\ new \in CallRecord /\ new.kind = call.kind /\ new.branch = call.branch
      /\ new.at = Handlers[call.kind][call.at][result] /\ ~new.did
      /\ new.acted = call.acted /\ new.moved = call.moved /\ new.reported = call.reported
      /\ new.unsure = (call.unsure \/ (result = "fail" /\ call.did))
      /\ calls' \in [Calls -> CallRecord]
      /\ \A d \in Calls : d # c => calls'[d] = calls[d]
  <2> DEFINE N == [call EXCEPT !.at = Handlers[call.kind][call.at][result], !.did = FALSE,
                               !.unsure = @ \/ (result = "fail" /\ call.did)]
  <2>1. calls' = [calls EXCEPT ![c] = N]
        BY DEF Continue
  <2>2. N \in CallRecord
        BY <1>1, <1>4 DEF CallRecord
  <2> QED
      BY <1>1, <2>1, <2>2 DEF RepoInv, CallRecord
<1>6. result = "ok" /\ call.at # "create" => call.did
      BY DEF AlreadyThere
<1>7. result = "ok" /\ call.at = "create" => call.did \/ call.branch \in prs
      BY DEF AlreadyThere
<1>8. CallOK(c)'
  <2> SUFFICES Answered(c)' /\ Done(c)' /\ Owed(c)'
      BY <1>3, <1>5 DEF CallOK, InTable
  <2>0. /\ new.kind = call.kind /\ new.branch = call.branch /\ ~new.did
        /\ new.at = Handlers[call.kind][call.at][result]
        /\ new.acted => call.acted
        /\ call.moved => new.moved
        /\ new.reported = call.reported
        /\ call.unsure => new.unsure
        /\ result = "fail" /\ call.did => new.unsure
        BY <1>5
  <2>9. Answered(c) /\ Done(c) /\ Owed(c)
        BY <1>1 DEF CallOK
  <2>1. CASE call.kind = "createBranch"
    <3>1. call.at \in {"show", "branch"}
          BY <1>2, <2>1, CreateBranchTable
    <3>2. CASE call.at = "show"
          BY <1>6, <1>7, <2>0, <2>9, <2>1, <3>2, CreateBranchTable DEF Answered, Done, Owed, Changing
    <3>3. CASE call.at = "branch"
          BY <1>6, <1>7, <2>0, <2>9, <2>1, <3>3, CreateBranchTable DEF Answered, Done, Owed, Changing
    <3> QED
        BY <3>1, <3>2, <3>3
  <2>2. CASE call.kind = "checkout"
    <3>1. call.at \in {"checkout", "current"}
          BY <1>2, <2>2, CheckoutTable
    <3>2. CASE call.at = "checkout"
          BY <1>6, <1>7, <2>0, <2>9, <2>2, <3>2, CheckoutTable DEF Answered, Done, Owed, Changing
    <3>3. CASE call.at = "current"
          BY <1>6, <1>7, <2>0, <2>9, <2>2, <3>3, CheckoutTable DEF Answered, Done, Owed, Changing
    <3> QED
        BY <3>1, <3>2, <3>3
  <2>3. CASE call.kind = "push"
    <3>1. call.at \in {"push"}
          BY <1>2, <2>3, PushTable
    <3>2. CASE call.at = "push"
          BY <1>6, <1>7, <2>0, <2>9, <2>3, <3>2, PushTable DEF Answered, Done, Owed, Changing
    <3> QED
        BY <3>1, <3>2
  <2>4. CASE call.kind = "prCreate"
    <3>1. call.at \in {"version", "auth", "create"}
          BY <1>2, <2>4, CreateTable
    <3>2. CASE call.at = "version"
          BY <1>6, <1>7, <2>0, <2>9, <2>4, <3>2, CreateTable DEF Answered, Done, Owed, Changing
    <3>3. CASE call.at = "auth"
          BY <1>6, <1>7, <2>0, <2>9, <2>4, <3>3, CreateTable DEF Answered, Done, Owed, Changing
    <3>4. CASE call.at = "create"
          BY <1>6, <1>7, <2>0, <2>9, <2>4, <3>4, CreateTable DEF Answered, Done, Owed, Changing
    <3> QED
        BY <3>1, <3>2, <3>3, <3>4
  <2>5. CASE call.kind \in {"prStatus", "message", "gitOrigin", "mergeBase"}
        <3>1. call.at \notin Changing
              BY <1>2, <2>5, ReadingTables
        <3>2. call.at \notin Answers
              BY <1>2, CommandsAreNoAnswers, KindsAre DEF Commands
        <3>3. call.acted => call.unsure
              BY <1>1, <2>5, <3>1, <3>2 DEF CallOK, Owed, Answers
        <3> QED
            BY <1>5, <2>5, <3>3 DEF Answered, Done, Owed
  <2> QED
      BY <1>1, <2>1, <2>2, <2>3, <2>4, <2>5 DEF Kinds
<1>9. ASSUME NEW d \in Calls PROVE CallOK(d)'
      BY <1>5, <1>8, CallStays DEF RepoInv
<1> QED
    BY <1>5, <1>9 DEF RepoInv

\* A command that was sent the signal does its work after all.
LEMMA WorksLateKeeps ==
  ASSUME RepoInv, NEW o \in orphans, WorksLate(o)
  PROVE  RepoInv'
<1>1. o[2] \in Branches
      BY DEF RepoInv
<1>2. /\ branches' \subseteq Branches /\ head' \in branches' /\ pushed' \subseteq branches' /\ prs' \subseteq pushed'
      /\ branches \subseteq branches' /\ pushed \subseteq pushed' /\ prs \subseteq prs'
      BY <1>1, DoesMore DEF WorksLate
<1>3. orphans' \subseteq Changing \X Branches
      BY DEF WorksLate, RepoInv
<1>4. ASSUME NEW d \in Calls PROVE calls'[d] \in CallRecord /\ CallOK(d)'
  <2>1. calls'[d] \in {calls[d], [calls[d] EXCEPT !.moved = TRUE]} /\ (head' # head => calls'[d].moved)
        BY DEF WorksLate, Noticed, RepoInv, CallRecord
  <2> QED
      BY <1>2, <2>1, CallStays DEF RepoInv
<1>5. calls' = [d \in Calls |-> calls'[d]]
      BY DEF WorksLate, Noticed
<1> QED
    BY <1>2, <1>3, <1>4, <1>5 DEF RepoInv

\* And every step keeps it.
LEMMA RepoKeeps ==
  ASSUME RepoInv, [RepoNext]_repoVars
  PROVE  RepoInv'
<1>1. CASE UNCHANGED repoVars
      BY <1>1 DEF repoVars, RepoInv, CallOK, InTable, Answered, Done, Owed
<1>2. ASSUME NEW c \in Calls, NEW kind \in DOMAIN Handlers, NEW b \in Branches, Asked(c, kind, b) PROVE RepoInv'
      BY <1>2, KindsAre, AskedKeeps
<1>3. ASSUME NEW c \in Calls, Works(c) PROVE RepoInv'
      BY <1>3, WorksKeeps
<1>4. ASSUME NEW c \in Calls, Exits(c) PROVE RepoInv'
  <2>1. orphans' \subseteq Changing \X Branches
        BY <1>4 DEF Exits, RepoInv
  <2> QED
      BY <1>4, <2>1, ContinueKeeps DEF Exits
<1>5. ASSUME NEW c \in Calls, TimesOut(c) PROVE RepoInv'
  <2>1. orphans' \subseteq Changing \X Branches
        BY <1>5 DEF TimesOut, RepoInv
  <2> QED
      BY <1>5, <2>1, ContinueKeeps DEF TimesOut
<1>6. ASSUME NEW o \in orphans, WorksLate(o) PROVE RepoInv'
      BY <1>6, WorksLateKeeps
<1> QED
    BY <1>1, <1>2, <1>3, <1>4, <1>5, <1>6 DEF RepoNext

RepoSpec == RepoInit /\ [][RepoNext]_repoVars

LEMMA RepoHolds ==
  ASSUME RepoInv PROVE RepoTypeOK /\ AnswersAreTrue
<1>1. RepoTypeOK
      BY KindsAre DEF RepoInv, RepoTypeOK, CallRecord
<1>2. AnswersAreTrue
      BY DEF RepoInv, CallOK, Answered, AnswersAreTrue
<1> QED
    BY <1>1, <1>2

(* A handler that answers success tells the truth of the repository and of     *)
(* GitHub, however the handlers interleave and whatever timed out before; an   *)
(* error answered for what was done comes from a command cut off (_runCommand  *)
(* and its callers).                                                           *)
THEOREM AnswersAlwaysTrue == RepoSpec => [](RepoTypeOK /\ AnswersAreTrue)
<1>1. RepoInit => RepoInv
      BY RepoStarts
<1>2. RepoInv /\ [RepoNext]_repoVars => RepoInv'
      BY RepoKeeps
<1>3. RepoInv => RepoTypeOK /\ AnswersAreTrue
      BY RepoHolds
<1> QED
    BY <1>1, <1>2, <1>3, PTL DEF RepoSpec

------------------------------------------------------------------------------
(* Pages, sessions and sockets (Session).                                      *)

(* The sequences of envelopes: what a step leaves at the ends of one.          *)
Precedes(S, T) == \A e \in S, f \in T : e < f

\* A sequence over a set is one over every larger set.
LEMMA SequencesGrow ==
  ASSUME NEW S, NEW T, S \subseteq T, NEW s \in Seq(S)
  PROVE  s \in Seq(T)
<1>1. Len(s) \in Nat /\ s \in [1..Len(s) -> S]
      OBVIOUS
<1>2. s \in [1..Len(s) -> T]
      BY <1>1
<1> QED
    BY <1>1, <1>2

\* What is left of a sequence after its head.
LEMMA TailOfSeq ==
  ASSUME NEW S, NEW s \in Seq(S), s # <<>>
  PROVE  /\ Tail(s) \in Seq(S) /\ Head(s) \in S /\ Len(s) \in Nat \ {0} /\ Head(s) = s[1]
         /\ Len(Tail(s)) = Len(s) - 1
         /\ \A i \in 1..(Len(s) - 1) : Tail(s)[i] = s[i + 1]
<1>1. /\ Tail(s) \in Seq(S) /\ Len(s) \in Nat \ {0} /\ Head(s) = s[1]
      /\ Len(Tail(s)) = Len(s) - 1
      /\ \A i \in 1..(Len(s) - 1) : Tail(s)[i] = s[i + 1]
      OBVIOUS
<1>2. s[1] \in S
      BY <1>1
<1> QED
    BY <1>1, <1>2

\* The envelopes of a sequence are numbered ones.
LEMMA EnvelopesOfSeq ==
  ASSUME NEW s \in Seq(Sendable)
  PROVE  Envelopes(s) \subseteq 1..MaxEnvelopes
  BY SessionAssumption DEF SessionAssumption, Envelopes, Sendable, Subscription

LEMMA NoEnvelopes == Envelopes(<<>>) = {} /\ Ordered(<<>>)
  BY DEF Envelopes, Ordered

\* A sequence in order stays so when what is appended is newer, or a subscription.
LEMMA EnvelopesOfAppend ==
  ASSUME NEW s \in Seq(Sendable), NEW e \in Sendable
  PROVE  /\ Append(s, e) \in Seq(Sendable)
         /\ Envelopes(Append(s, e)) = Envelopes(s) \cup ({e} \ {Subscription})
         /\ Ordered(s) /\ (e = Subscription \/ \A f \in Envelopes(s) : f < e) => Ordered(Append(s, e))
<1> DEFINE t == Append(s, e)
<1>1. /\ t \in Seq(Sendable) /\ Len(t) = Len(s) + 1 /\ t[Len(s) + 1] = e
      /\ \A i \in 1..Len(s) : t[i] = s[i]
      /\ DOMAIN s = 1..Len(s) /\ DOMAIN t = 1..(Len(s) + 1) /\ Len(s) \in Nat
      OBVIOUS
<1> HIDE DEF t
<1>2. Envelopes(t) = Envelopes(s) \cup ({e} \ {Subscription})
      BY <1>1 DEF Envelopes
<1>3. ASSUME Ordered(s), e = Subscription \/ \A f \in Envelopes(s) : f < e
      PROVE  Ordered(t)
  <2>1. SUFFICES ASSUME NEW i \in 1..(Len(s) + 1), NEW j \in 1..(Len(s) + 1), i < j, t[i] # Subscription, t[j] # Subscription
        PROVE t[i] < t[j]
        BY <1>1 DEF Ordered
  <2>2. i \in 1..Len(s) /\ t[i] = s[i] /\ s[i] \in Envelopes(s)
        BY <1>1, <2>1 DEF Envelopes
  <2>3. CASE j = Len(s) + 1
        BY <1>1, <1>3, <2>1, <2>2, <2>3
  <2>4. CASE j # Len(s) + 1
    <3>1. j \in 1..Len(s) /\ t[j] = s[j]
          BY <1>1, <2>1, <2>4
    <3> QED
        BY <1>1, <1>3, <2>1, <2>2, <3>1 DEF Ordered
  <2> QED
      BY <2>3, <2>4
<1> QED
    BY <1>1, <1>2, <1>3 DEF t

\* The head of a sequence in order is the oldest.
LEMMA EnvelopesOfTail ==
  ASSUME NEW s \in Seq(Sendable), s # <<>>
  PROVE  /\ Head(s) \in Sendable /\ Tail(s) \in Seq(Sendable)
         /\ Envelopes(s) = ({Head(s)} \ {Subscription}) \cup Envelopes(Tail(s))
         /\ Ordered(s) => Ordered(Tail(s))
         /\ Ordered(s) /\ Head(s) # Subscription => \A f \in Envelopes(Tail(s)) : Head(s) < f
<1> DEFINE t == Tail(s)
<1>1. /\ t \in Seq(Sendable) /\ Len(s) \in Nat \ {0} /\ Head(s) = s[1]
      /\ DOMAIN s = 1..Len(s) /\ DOMAIN t = 1..(Len(s) - 1)
      /\ \A i \in 1..(Len(s) - 1) : t[i] = s[i + 1]
      /\ s[1] \in Sendable
      OBVIOUS
<1> HIDE DEF t
<1>2. Envelopes(s) = ({Head(s)} \ {Subscription}) \cup Envelopes(t)
  <2>1. ASSUME NEW i \in DOMAIN s PROVE s[i] = Head(s) \/ \E k \in DOMAIN t : t[k] = s[i]
    <3>1. CASE i = 1
          BY <1>1, <3>1
    <3>2. CASE i # 1
          <4>1. i - 1 \in 1..(Len(s) - 1) /\ t[i - 1] = s[i]
                BY <1>1, <3>2
          <4> QED
              BY <1>1, <4>1
    <3> QED
        BY <3>1, <3>2
  <2>2. ASSUME NEW k \in DOMAIN t PROVE \E i \in DOMAIN s : s[i] = t[k]
    <3>1. k + 1 \in 1..Len(s) /\ s[k + 1] = t[k]
          BY <1>1
    <3> QED
        BY <1>1, <3>1
  <2>3. 1 \in DOMAIN s
        BY <1>1
  <2>4. Envelopes(s) \subseteq ({Head(s)} \ {Subscription}) \cup Envelopes(t)
        BY <2>1 DEF Envelopes
  <2>5. Envelopes(t) \subseteq Envelopes(s)
        BY <2>2 DEF Envelopes
  <2>6. {Head(s)} \ {Subscription} \subseteq Envelopes(s)
        BY <1>1, <2>3 DEF Envelopes
  <2> QED
      BY <2>4, <2>5, <2>6
<1>3. ASSUME Ordered(s) PROVE Ordered(t)
  <2>1. SUFFICES ASSUME NEW i \in 1..(Len(s) - 1), NEW j \in 1..(Len(s) - 1), i < j, t[i] # Subscription, t[j] # Subscription
        PROVE t[i] < t[j]
        BY <1>1 DEF Ordered
  <2>2. i + 1 \in 1..Len(s) /\ j + 1 \in 1..Len(s) /\ i + 1 < j + 1 /\ t[i] = s[i + 1] /\ t[j] = s[j + 1]
        BY <1>1, <2>1
  <2> QED
      BY <1>1, <1>3, <2>1, <2>2 DEF Ordered
<1>4. ASSUME Ordered(s), Head(s) # Subscription, NEW f \in Envelopes(t) PROVE Head(s) < f
  <2>1. PICK k \in DOMAIN t : t[k] = f /\ f # Subscription
        BY DEF Envelopes
  <2>2. 1 \in 1..Len(s) /\ k + 1 \in 1..Len(s) /\ 1 < k + 1 /\ s[k + 1] = f
        BY <1>1, <2>1
  <2> QED
      BY <1>1, <1>4, <2>1, <2>2 DEF Ordered
<1> QED
    BY <1>1, <1>2, <1>3, <1>4 DEF t

\* Two sequences in order, one after the other.
LEMMA EnvelopesOfConcat ==
  ASSUME NEW s \in Seq(Sendable), NEW t \in Seq(Sendable)
  PROVE  /\ s \o t \in Seq(Sendable)
         /\ Envelopes(s \o t) = Envelopes(s) \cup Envelopes(t)
         /\ Ordered(s) /\ Ordered(t) /\ Precedes(Envelopes(s), Envelopes(t)) => Ordered(s \o t)
<1> DEFINE u == s \o t
<1>1. /\ u \in Seq(Sendable) /\ Len(s) \in Nat /\ Len(t) \in Nat
      /\ DOMAIN s = 1..Len(s) /\ DOMAIN t = 1..Len(t) /\ DOMAIN u = 1..(Len(s) + Len(t))
      /\ \A i \in 1..Len(s) : u[i] = s[i]
      /\ \A i \in 1..Len(t) : u[Len(s) + i] = t[i]
      OBVIOUS
<1> HIDE DEF u
<1>2. ASSUME NEW i \in DOMAIN u, i \notin 1..Len(s)
      PROVE  i - Len(s) \in DOMAIN t /\ u[i] = t[i - Len(s)]
  <2>1. i - Len(s) \in 1..Len(t) /\ i = Len(s) + (i - Len(s))
        BY <1>1, <1>2
  <2> QED
      BY <1>1, <2>1
<1>3. Envelopes(u) = Envelopes(s) \cup Envelopes(t)
  <2>1. ASSUME NEW i \in DOMAIN u PROVE (\E k \in DOMAIN s : s[k] = u[i]) \/ (\E k \in DOMAIN t : t[k] = u[i])
    <3>1. CASE i \in 1..Len(s)
          BY <1>1, <3>1
    <3>2. CASE i \notin 1..Len(s)
          BY <1>2, <3>2
    <3> QED
        BY <3>1, <3>2
  <2>2. ASSUME NEW k \in DOMAIN s PROVE \E i \in DOMAIN u : u[i] = s[k]
    <3>1. k \in DOMAIN u /\ u[k] = s[k]
          BY <1>1
    <3> QED
        BY <3>1
  <2>3. ASSUME NEW k \in DOMAIN t PROVE \E i \in DOMAIN u : u[i] = t[k]
    <3>1. Len(s) + k \in DOMAIN u /\ u[Len(s) + k] = t[k]
          BY <1>1
    <3> QED
        BY <3>1
  <2> QED
      BY <2>1, <2>2, <2>3 DEF Envelopes
<1>4. ASSUME Ordered(s), Ordered(t), Precedes(Envelopes(s), Envelopes(t)) PROVE Ordered(u)
  <2>1. SUFFICES ASSUME NEW i \in DOMAIN u, NEW j \in DOMAIN u, i < j, u[i] # Subscription, u[j] # Subscription
        PROVE u[i] < u[j]
        BY DEF Ordered
  <2>2. CASE i \in 1..Len(s) /\ j \in 1..Len(s)
        BY <1>1, <1>4, <2>1, <2>2 DEF Ordered
  <2>3. CASE i \in 1..Len(s) /\ j \notin 1..Len(s)
    <3>1. u[i] \in Envelopes(s)
          BY <1>1, <2>1, <2>3 DEF Envelopes
    <3>2. u[j] \in Envelopes(t)
          BY <1>2, <2>1, <2>3 DEF Envelopes
    <3> QED
        BY <1>4, <3>1, <3>2 DEF Precedes
  <2>4. CASE i \notin 1..Len(s)
    <3>1. j \notin 1..Len(s)
          BY <1>1, <2>1, <2>4
    <3>2. i - Len(s) < j - Len(s)
          BY <1>1, <2>1
    <3>3. /\ i - Len(s) \in DOMAIN t /\ u[i] = t[i - Len(s)]
          /\ j - Len(s) \in DOMAIN t /\ u[j] = t[j - Len(s)]
          BY <1>2, <2>4, <3>1
    <3> QED
        BY <1>4, <2>1, <3>2, <3>3 DEF Ordered
  <2> QED
      BY <2>2, <2>3, <2>4
<1> QED
    BY <1>1, <1>3, <1>4 DEF u

(* What the view shows once everything under way to it has arrived.            *)
Shown == IF down = <<>> THEN view ELSE down[Len(down)]

\* The index of the property is that of the last message, or of the view.
LEMMA ShownIs ==
  ASSUME down \in Seq(0..MaxValue)
  PROVE  (<<view>> \o down)[Len(down) + 1] = Shown
<1>1. CASE down = <<>>
      BY <1>1 DEF Shown
<1>2. CASE down # <<>>
  <2>1. Len(down) \in 1..Len(down) /\ Len(<<view>>) = 1
        BY <1>2
  <2>2. (<<view>> \o down)[Len(down) + 1] = down[Len(down)]
        BY <2>1
  <2> QED
      BY <1>2, <2>2 DEF Shown
<1> QED
    BY <1>1, <1>2

----------------------------------------------------------------------------
(* The socket, its two directions and the queue.  What is under way belongs to *)
(* the open socket, and an open socket has nothing in the queue.               *)
Linked ==
  /\ ws = "open" => running /\ conn \in conns /\ queue = <<>>
  /\ ws # "open" => up = <<>> /\ down = <<>>
  /\ \A c \in conns : c <= conn
  /\ subscribed <= conn
  /\ ws = "open" /\ subscribed = conn => conn \in subscribers /\ Shown = shared

\* Every envelope sent is in one place, and what is further on was sent before.
Sequenced ==
  /\ Ordered(taken) /\ Ordered(up) /\ Ordered(queue)
  /\ Precedes(Envelopes(taken), Envelopes(up)) /\ Precedes(Envelopes(taken), Envelopes(queue))
  /\ Envelopes(taken) \cup Envelopes(up) \cup Envelopes(queue) \cup lost = 1..sent
  /\ (Envelopes(taken) \cup Envelopes(up) \cup Envelopes(queue)) \cap lost = {}

SessionInv == SessionTypeOK /\ Linked /\ Sequenced

\* Nothing sent, nothing under way.
LEMMA Empties ==
  /\ <<>> \in Seq(Sendable) /\ <<>> \in Seq(0..MaxValue) /\ <<>> \in Seq(1..MaxEnvelopes)
  /\ 0 \in 0..MaxEnvelopes /\ 0 \in 0..MaxConns /\ 0 \in 0..MaxValue
  BY SessionAssumption DEF SessionAssumption

\* It holds at the start.
LEMMA SessionStarts ==
  ASSUME SessionInit PROVE SessionInv
<1>1. SessionTypeOK
      BY Empties DEF SessionInit, SessionTypeOK
<1>2. Linked
      BY DEF SessionInit, Linked
<1>3. Sequenced
  <2>1. 1..0 = {}
        OBVIOUS
  <2> QED
      BY <2>1, NoEnvelopes DEF SessionInit, Sequenced, Precedes
<1> QED
    BY <1>1, <1>2, <1>3 DEF SessionInv

\* Steps that touch neither the wire nor the queue nor a subscription.
Quiet == UNCHANGED <<queue, up, down, sent, taken, lost, view, shared, subscribed>>

\* They keep the invariant when an open socket stays what it was.
LEMMA QuietKeeps ==
  ASSUME SessionInv, Quiet, SessionTypeOK',
         ws' = "open" => ws = "open" /\ running' /\ conn' \in conns' /\ (conn \in subscribers => conn \in subscribers'),
         ws = "open" => ws' = "open",
         conn' = conn, conns' \subseteq conns
  PROVE  SessionInv'
<1>1. Linked'
      BY DEF SessionInv, Linked, Quiet, Shown
<1>2. Sequenced'
      BY DEF SessionInv, Sequenced, Quiet
<1> QED
    BY <1>1, <1>2 DEF SessionInv

LEMMA QuietSteps ==
  ASSUME SessionInv,
         \/ StartServer \/ SessionExpires \/ UpgradeFails \/ Closing \/ PageNotices \/ Reconnect
         \/ \E c \in conns : ServerNotices(c)
         \/ UNCHANGED sessionVars
  PROVE  SessionInv'
<1> USE DEF serverVars, objectVars, pageVars, wireVars, viewVars
<1>1. CASE StartServer
      BY <1>1, QuietKeeps DEF StartServer, Gone, SessionInv, SessionTypeOK, Linked, Quiet
<1>2. CASE SessionExpires
      BY <1>2, QuietKeeps DEF SessionExpires, SessionInv, SessionTypeOK, Linked, Quiet
<1>3. CASE UpgradeFails
      BY <1>3, QuietKeeps DEF UpgradeFails, SessionInv, SessionTypeOK, Linked, Quiet
<1>4. CASE Closing \/ PageNotices
      BY <1>4, QuietKeeps DEF Closing, PageNotices, SessionInv, SessionTypeOK, Linked, Quiet
<1>5. CASE Reconnect
      BY <1>5, QuietKeeps DEF Reconnect, SessionInv, SessionTypeOK, Linked, Quiet
<1>6. ASSUME NEW c \in conns, ServerNotices(c) PROVE SessionInv'
      BY <1>6, QuietKeeps DEF ServerNotices, SessionInv, SessionTypeOK, Linked, Quiet
<1>7. CASE UNCHANGED sessionVars
      BY <1>7, QuietKeeps DEF sessionVars, SessionInv, SessionTypeOK, Linked, Quiet
<1> QED
    BY <1>1, <1>2, <1>3, <1>4, <1>5, <1>6, <1>7

\* What a dying connection carried is lost, and nothing else moves.
LEMMA LossKeeps ==
  ASSUME SessionInv, UNCHANGED <<sent, taken>>,
         up' = <<>>, queue' \in {queue, <<>>},
         lost' = lost \cup Envelopes(up) \cup (IF queue' = queue THEN {} ELSE Envelopes(queue))
  PROVE  Sequenced' /\ lost' \subseteq 1..MaxEnvelopes
<1>1. Envelopes(up) \subseteq 1..MaxEnvelopes /\ Envelopes(queue) \subseteq 1..MaxEnvelopes
      BY EnvelopesOfSeq DEF SessionInv, SessionTypeOK
<1>2. Envelopes(up)' = {} /\ Ordered(up)'
      BY NoEnvelopes DEF Envelopes, Ordered
<1>3. Envelopes(taken)' = Envelopes(taken) /\ Ordered(taken)' = Ordered(taken)
      BY DEF Envelopes, Ordered
<1>4. CASE queue' = queue
  <2>1. Envelopes(queue)' = Envelopes(queue) /\ Ordered(queue)' = Ordered(queue)
        BY <1>4 DEF Envelopes, Ordered
  <2>2. lost' = lost \cup Envelopes(up) /\ sent' = sent
        BY <1>4
  <2>3. lost' \subseteq 1..MaxEnvelopes
        BY <1>1, <2>2 DEF SessionInv, SessionTypeOK
  <2>4. Envelopes(up) \cap Envelopes(taken) = {} /\ Envelopes(up) \cap Envelopes(queue) = {}
    <3>1. up = <<>> \/ queue = <<>>
          BY DEF SessionInv, Linked
    <3>2. Envelopes(up) = {} \/ Envelopes(queue) = {}
          BY <3>1, NoEnvelopes
    <3>3. ASSUME NEW e \in Envelopes(taken), e \in Envelopes(up) PROVE FALSE
          BY <1>1, <3>3 DEF SessionInv, Sequenced, Precedes
    <3> QED
        BY <3>2, <3>3
  <2> QED
      BY <1>2, <1>3, <2>1, <2>2, <2>3, <2>4 DEF SessionInv, Sequenced, Precedes
<1>5. CASE queue' # queue
  <2>1. Envelopes(queue)' = {} /\ Ordered(queue)'
        BY <1>5, NoEnvelopes DEF Envelopes, Ordered
  <2>2. lost' = lost \cup Envelopes(up) \cup Envelopes(queue) /\ sent' = sent
        BY <1>5
  <2>3. ASSUME NEW e \in Envelopes(taken), e \in Envelopes(up) \cup Envelopes(queue) PROVE FALSE
        BY <1>1, <2>3 DEF SessionInv, Sequenced, Precedes
  <2>4. lost' \subseteq 1..MaxEnvelopes
        BY <1>1, <2>2 DEF SessionInv, SessionTypeOK
  <2> QED
      BY <1>2, <1>3, <2>1, <2>2, <2>3, <2>4 DEF SessionInv, Sequenced, Precedes
<1> QED
    BY <1>4, <1>5

\* A connection breaks, or the page is loaded again.
LEMMA LossSteps ==
  ASSUME SessionInv, ServerEnds \/ Breaks \/ OpenAuthUrl \/ Reload
  PROVE  SessionInv'
<1> USE DEF serverVars, objectVars, pageVars, wireVars, viewVars
<1>1. CASE ServerEnds \/ Breaks
  <2>1. Sequenced' /\ lost' \subseteq 1..MaxEnvelopes
        BY <1>1, LossKeeps DEF ServerEnds, Breaks, Cut
  <2>2. SessionTypeOK'
        BY <1>1, <2>1, Empties DEF ServerEnds, Breaks, Cut, SessionInv, SessionTypeOK
  <2>3. Linked'
        BY <1>1 DEF ServerEnds, Breaks, Cut, SessionInv, SessionTypeOK, Linked
  <2> QED
      BY <2>1, <2>2, <2>3 DEF SessionInv
<1>2. CASE OpenAuthUrl \/ Reload
  <2>1. FreshPage /\ UNCHANGED <<running, tokenKept, conns, subscribers, shared, conn, sent, taken>>
        /\ cookie' = "valid" /\ url' \in {url, "good"}
        BY <1>2 DEF OpenAuthUrl, Reload
  <2>2. lost' = lost \cup Envelopes(up) \cup (IF queue' = queue THEN {} ELSE Envelopes(queue))
        BY <2>1, NoEnvelopes DEF FreshPage
  <2>3. Sequenced' /\ lost' \subseteq 1..MaxEnvelopes
        BY <2>1, <2>2, LossKeeps DEF FreshPage
  <2>4. SessionTypeOK'
        BY <2>1, <2>3, Empties DEF FreshPage, SessionInv, SessionTypeOK
  <2>5. Linked'
        BY <2>1 DEF FreshPage, SessionInv, SessionTypeOK, Linked
  <2> QED
      BY <2>3, <2>4, <2>5 DEF SessionInv
<1> QED
    BY <1>1, <1>2

\* The queue is put on the wire of the new connection.
LEMMA UpgradeKeeps ==
  ASSUME SessionInv, Upgrade
  PROVE  SessionInv'
<1> USE DEF serverVars, objectVars, pageVars, wireVars, viewVars
<1>1. up' = queue /\ queue' = <<>> /\ down' = <<>> /\ UNCHANGED <<sent, taken, lost>> /\ up = <<>>
      BY DEF Upgrade, Flushed, SessionInv, Linked
<1>2. SessionTypeOK'
      BY <1>1, SessionAssumption DEF SessionAssumption, Upgrade, SessionInv, SessionTypeOK
<1>3. Linked'
      BY <1>1, SessionAssumption DEF SessionAssumption, Upgrade, SessionInv, SessionTypeOK, Linked
<1>4. Sequenced'
  <2>1. /\ Envelopes(taken)' = Envelopes(taken) /\ Ordered(taken)' = Ordered(taken)
        /\ Envelopes(up)' = Envelopes(queue) /\ Ordered(up)' = Ordered(queue)
        BY <1>1 DEF Envelopes, Ordered
  <2>2. Envelopes(queue)' = {} /\ Ordered(queue)' /\ Envelopes(up) = {}
        BY <1>1, NoEnvelopes DEF Envelopes, Ordered
  <2> QED
      BY <1>1, <2>1, <2>2 DEF SessionInv, Sequenced, Precedes
<1> QED
    BY <1>2, <1>3, <1>4 DEF SessionInv

\* The page sends: onto the wire, into the queue, or into a socket that is dead.
LEMMA SendKeeps ==
  ASSUME SessionInv, NEW e \in Sendable, Send(e), UNCHANGED taken,
         \/ e = Subscription /\ sent' = sent
         \/ e = sent + 1 /\ sent < MaxEnvelopes /\ sent' = sent + 1
  PROVE  /\ Sequenced' /\ lost' \subseteq 1..MaxEnvelopes
         /\ up' \in Seq(Sendable) /\ queue' \in Seq(Sendable)
         /\ ws # "open" => up' = up
         /\ ws = "open" => queue' = queue
<1> DEFINE E == {e} \ {Subscription}
<1>1. /\ sent \in 0..MaxEnvelopes /\ up \in Seq(Sendable) /\ queue \in Seq(Sendable) /\ taken \in Seq(Sendable)
      /\ lost \subseteq 1..MaxEnvelopes
  <2>1. taken \in Seq(1..MaxEnvelopes) /\ 1..MaxEnvelopes \subseteq Sendable
        BY SessionAssumption DEF SessionAssumption, SessionInv, SessionTypeOK, Sendable, Subscription
  <2>2. taken \in Seq(Sendable)
        BY <2>1, SequencesGrow
  <2> QED
      BY <2>2 DEF SessionInv, SessionTypeOK
<1>2. 1..sent' = 1..sent \cup E /\ (\A f \in 1..sent : \A g \in E : f < g) /\ E \subseteq 1..MaxEnvelopes
      BY <1>1, SessionAssumption DEF SessionAssumption, Subscription
<1>3. \A f \in Envelopes(taken) \cup Envelopes(up) \cup Envelopes(queue) \cup lost : f \in 1..sent
      BY DEF SessionInv, Sequenced
<1>4. Envelopes(taken)' = Envelopes(taken) /\ Ordered(taken)' = Ordered(taken)
      BY DEF Envelopes, Ordered
<1>5. CASE ws = "open" /\ up' = Append(up, e) /\ UNCHANGED <<queue, lost>>
  <2>1. /\ up' \in Seq(Sendable) /\ Envelopes(up)' = Envelopes(up) \cup E /\ Ordered(up)'
    <3>1. e = Subscription \/ \A f \in Envelopes(up) : f < e
          BY <1>2, <1>3
    <3>2. Ordered(up)
          BY DEF SessionInv, Sequenced
    <3>3. Append(up, e) \in Seq(Sendable) /\ Envelopes(Append(up, e)) = Envelopes(up) \cup E /\ Ordered(Append(up, e))
          BY <1>1, <3>1, <3>2, EnvelopesOfAppend
    <3>4. Envelopes(up)' = Envelopes(Append(up, e)) /\ Ordered(up)' = Ordered(Append(up, e))
          BY <1>5 DEF Envelopes, Ordered
    <3> QED
        BY <1>5, <3>3, <3>4
  <2>2. Envelopes(queue)' = Envelopes(queue) /\ Ordered(queue)' = Ordered(queue)
        BY <1>5 DEF Envelopes, Ordered
  <2>3. lost' = lost /\ queue' = queue
        BY <1>5
  <2> HIDE DEF E
  <2>4. \A f \in 1..sent : f \notin E
        BY <1>1, <1>2
  <2> QED
      BY <1>1, <1>2, <1>3, <1>4, <1>5, <2>1, <2>2, <2>3, <2>4 DEF SessionInv, Sequenced, Precedes
<1>6. CASE ws = "dead" /\ lost' = lost \cup Envelopes(<<e>>) /\ UNCHANGED <<queue, up>>
  <2>1. /\ Envelopes(queue)' = Envelopes(queue) /\ Ordered(queue)' = Ordered(queue)
        /\ Envelopes(up)' = Envelopes(up) /\ Ordered(up)' = Ordered(up)
        BY <1>6 DEF Envelopes, Ordered
  <2>2. Envelopes(<<e>>) = E
        BY DEF Envelopes
  <2>3. lost' = lost \cup E /\ up' = up /\ queue' = queue
        BY <1>6, <2>2
  <2> HIDE DEF E
  <2>4. \A f \in 1..sent : f \notin E
        BY <1>1, <1>2
  <2> QED
      BY <1>1, <1>2, <1>3, <1>4, <2>1, <2>3, <2>4 DEF SessionInv, Sequenced, Precedes
<1>7. CASE ws \in {"none", "connecting", "closing"} /\ queue' = Append(queue, e) /\ UNCHANGED <<up, lost>>
  <2>1. /\ queue' \in Seq(Sendable) /\ Envelopes(queue)' = Envelopes(queue) \cup E /\ Ordered(queue)'
    <3>1. e = Subscription \/ \A f \in Envelopes(queue) : f < e
          BY <1>2, <1>3
    <3>2. Ordered(queue)
          BY DEF SessionInv, Sequenced
    <3>3. Append(queue, e) \in Seq(Sendable) /\ Envelopes(Append(queue, e)) = Envelopes(queue) \cup E
          /\ Ordered(Append(queue, e))
          BY <1>1, <3>1, <3>2, EnvelopesOfAppend
    <3>4. Envelopes(queue)' = Envelopes(Append(queue, e)) /\ Ordered(queue)' = Ordered(Append(queue, e))
          BY <1>7 DEF Envelopes, Ordered
    <3> QED
        BY <1>7, <3>3, <3>4
  <2>2. Envelopes(up)' = Envelopes(up) /\ Ordered(up)' = Ordered(up)
        BY <1>7 DEF Envelopes, Ordered
  <2>3. lost' = lost /\ up' = up
        BY <1>7
  <2> HIDE DEF E
  <2>4. \A f \in 1..sent : f \notin E
        BY <1>1, <1>2
  <2> QED
      BY <1>1, <1>2, <1>3, <1>4, <1>7, <2>1, <2>2, <2>3, <2>4 DEF SessionInv, Sequenced, Precedes
<1> QED
    BY <1>5, <1>6, <1>7 DEF Send

LEMMA SendSteps ==
  ASSUME SessionInv, SendEnvelope \/ Subscribe
  PROVE  SessionInv'
<1> USE DEF serverVars, objectVars, pageVars, wireVars, viewVars
<1>1. PICK e \in Sendable : /\ Send(e)
                           /\ \/ e = Subscription /\ sent' = sent
                              \/ e = sent + 1 /\ sent < MaxEnvelopes /\ sent' = sent + 1
      BY SessionAssumption DEF SessionAssumption, SessionInv, SessionTypeOK, SendEnvelope, Subscribe, Sendable, Subscription
<1>2. UNCHANGED <<serverVars, conns, objectVars, url, ws, conn, timer, down, taken, subscribed, view>> /\ wants' \in {wants, TRUE}
      BY DEF SendEnvelope, Subscribe
<1>3. /\ Sequenced' /\ lost' \subseteq 1..MaxEnvelopes
      /\ up' \in Seq(Sendable) /\ queue' \in Seq(Sendable)
      /\ ws # "open" => up' = up
      /\ ws = "open" => queue' = queue
      BY <1>1, <1>2, SendKeeps
<1>4. sent' \in 0..MaxEnvelopes
      BY <1>1, SessionAssumption DEF SessionAssumption, SessionInv, SessionTypeOK
<1>5. SessionTypeOK'
      BY <1>2, <1>3, <1>4 DEF SessionInv, SessionTypeOK
<1>6. Linked'
      BY <1>2, <1>3 DEF SessionInv, Linked, Shown
<1> QED
    BY <1>3, <1>5, <1>6 DEF SessionInv

----------------------------------------------------------------------------
(* What arrives at the server and at the page.                                 *)
\* A value sent down is what the view will show.
LEMMA ShownAfterAppend ==
  ASSUME down \in Seq(0..MaxValue), NEW v \in 0..MaxValue, down' = Append(down, v)
  PROVE  Shown' = v /\ down' \in Seq(0..MaxValue)
<1>1. Append(down, v) \in Seq(0..MaxValue) /\ Append(down, v) # <<>> /\ Append(down, v)[Len(Append(down, v))] = v
      OBVIOUS
<1> QED
    BY <1>1 DEF Shown

\* A value taken changes nothing of what the view will show.
LEMMA ShownAfterTake ==
  ASSUME down \in Seq(0..MaxValue), down # <<>>, view' = Head(down), down' = Tail(down)
  PROVE  Shown' = Shown /\ view' \in 0..MaxValue /\ down' \in Seq(0..MaxValue)
<1>1. /\ Tail(down) \in Seq(0..MaxValue) /\ Head(down) \in 0..MaxValue /\ Len(down) \in Nat \ {0}
      /\ Len(Tail(down)) = Len(down) - 1 /\ Head(down) = down[1]
      /\ \A i \in 1..(Len(down) - 1) : Tail(down)[i] = down[i + 1]
      BY TailOfSeq
<1>2. CASE Len(down) = 1
  <2>1. Tail(down) = <<>> /\ down[Len(down)] = Head(down)
        BY <1>1, <1>2
  <2> QED
      BY <1>1, <2>1 DEF Shown
<1>3. CASE Len(down) # 1
  <2>1. Len(down) - 1 \in 1..(Len(down) - 1) /\ (Len(down) - 1) + 1 = Len(down)
        BY <1>1, <1>3
  <2>2. Tail(down)[Len(down) - 1] = down[Len(down)]
        BY <1>1, <2>1
  <2>3. Shown' = Tail(down)[Len(down) - 1]
    <3>1. Tail(down) # <<>>
          BY <1>1, <1>3
    <3> QED
        BY <1>1, <3>1 DEF Shown
  <2> QED
      BY <1>1, <2>2, <2>3 DEF Shown
<1> QED
    BY <1>1, <1>2, <1>3

\* The server takes the oldest on the wire.
LEMMA ServerTakesKeeps ==
  ASSUME SessionInv, ServerTakes
  PROVE  SessionInv'
<1> USE DEF serverVars, objectVars, pageVars, wireVars, viewVars
<1>1. /\ up # <<>> /\ up' = Tail(up) /\ up \in Seq(Sendable) /\ ws = "open" /\ conn \in conns
      /\ UNCHANGED <<queue, sent, lost, shared, view, ws, conn, conns, running>>
      BY DEF ServerTakes, SessionInv, SessionTypeOK, Linked
<1>2. /\ Head(up) \in Sendable /\ up' \in Seq(Sendable)
      /\ Envelopes(up) = ({Head(up)} \ {Subscription}) \cup Envelopes(Tail(up))
      /\ Ordered(up) => Ordered(Tail(up))
      /\ Ordered(up) /\ Head(up) # Subscription => \A f \in Envelopes(Tail(up)) : Head(up) < f
      BY <1>1, EnvelopesOfTail
<1>3. /\ Envelopes(up)' = Envelopes(Tail(up)) /\ Ordered(up)' = Ordered(Tail(up))
      /\ Envelopes(queue)' = Envelopes(queue) /\ Ordered(queue)' = Ordered(queue)
      BY <1>1 DEF Envelopes, Ordered
<1>4. CASE Head(up) = Subscription
  <2>1. /\ subscribers' = subscribers \cup {conn} /\ down' = Append(down, shared) /\ subscribed' = conn /\ taken' = taken
        BY <1>4 DEF ServerTakes
  <2>2. Shown' = shared /\ down' \in Seq(0..MaxValue)
        BY <2>1, ShownAfterAppend DEF SessionInv, SessionTypeOK
  <2>3. SessionTypeOK'
        BY <1>1, <1>2, <2>1, <2>2 DEF ServerTakes, SessionInv, SessionTypeOK
  <2>4. conn' <= conn'
        BY <1>1, SessionAssumption DEF SessionAssumption, SessionInv, SessionTypeOK
  <2>5. Linked'
        BY <1>1, <2>1, <2>2, <2>4 DEF SessionInv, Linked
  <2>6. Envelopes(taken)' = Envelopes(taken) /\ Ordered(taken)' = Ordered(taken)
        BY <2>1 DEF Envelopes, Ordered
  <2>7. Sequenced'
        BY <1>1, <1>2, <1>3, <1>4, <2>6 DEF SessionInv, Sequenced, Precedes
  <2> QED
      BY <2>3, <2>5, <2>7 DEF SessionInv
<1>5. CASE Head(up) # Subscription
  <2> DEFINE e == Head(up)
  <2>1. taken' = Append(taken, e) /\ UNCHANGED <<subscribers, down, subscribed>>
        BY <1>5 DEF ServerTakes
  <2>2. e \in 1..MaxEnvelopes /\ taken \in Seq(1..MaxEnvelopes)
        BY <1>2, <1>5, SessionAssumption DEF SessionAssumption, Sendable, Subscription, SessionInv, SessionTypeOK
  <2>3. taken' \in Seq(1..MaxEnvelopes)
        BY <2>1, <2>2
  <2>4. SessionTypeOK'
        BY <1>1, <1>2, <2>1, <2>3 DEF ServerTakes, SessionInv, SessionTypeOK
  <2>5. Linked'
        BY <1>1, <2>1 DEF SessionInv, Linked, Shown
  <2>6. Envelopes(taken)' = Envelopes(taken) \cup {e} /\ Ordered(taken)'
    <3>1. taken \in Seq(Sendable)
      <4>1. 1..MaxEnvelopes \subseteq Sendable
            BY SessionAssumption DEF SessionAssumption, Sendable, Subscription
      <4> QED
          BY <2>2, <4>1, SequencesGrow
    <3>2. Ordered(taken) /\ \A f \in Envelopes(taken) : f < e
          BY <1>2, <1>5 DEF SessionInv, Sequenced, Precedes
    <3>3. Envelopes(Append(taken, e)) = Envelopes(taken) \cup {e} /\ Ordered(Append(taken, e))
          BY <1>2, <1>5, <3>1, <3>2, EnvelopesOfAppend
    <3> QED
        BY <2>1, <3>3 DEF Envelopes, Ordered
  <2>7. Sequenced'
    <3>1. Envelopes(up) = {e} \cup Envelopes(Tail(up)) /\ Ordered(Tail(up)) /\ \A f \in Envelopes(Tail(up)) : e < f
          BY <1>2, <1>5 DEF SessionInv, Sequenced
    <3>2. queue = <<>> /\ Envelopes(queue) = {}
          BY <1>1, NoEnvelopes DEF SessionInv, Linked
    <3> QED
        BY <1>1, <1>3, <2>6, <3>1, <3>2 DEF SessionInv, Sequenced, Precedes
  <2> QED
      BY <2>4, <2>5, <2>7 DEF SessionInv
<1> QED
    BY <1>4, <1>5

\* The object is set, or the page takes a value.
LEMMA ViewSteps ==
  ASSUME SessionInv, SetObject \/ PageTakes
  PROVE  SessionInv'
<1> USE DEF serverVars, objectVars, pageVars, wireVars, viewVars
<1>1. UNCHANGED <<serverVars, conns, subscribers, pageVars, up, sent, taken, lost, wants, subscribed>>
      BY DEF SetObject, PageTakes
<1>2. Sequenced'
      BY <1>1 DEF SessionInv, Sequenced
<1>3. CASE SetObject
  <2>1. shared + 1 \in 0..MaxValue /\ down \in Seq(0..MaxValue)
        BY <1>3, SessionAssumption DEF SessionAssumption, SetObject, SessionInv, SessionTypeOK
  <2>2. CASE conn \in subscribers /\ ws = "open"
    <3>1. shared' = shared + 1 /\ view' = view /\ down' = Append(down, shared + 1)
          BY <1>3, <2>2 DEF SetObject
    <3>2. Shown' = shared + 1 /\ down' \in Seq(0..MaxValue)
          BY <2>1, <3>1, ShownAfterAppend
    <3>3. SessionTypeOK'
          BY <1>1, <2>1, <3>1, <3>2 DEF SessionInv, SessionTypeOK
    <3>4. Linked'
          BY <1>1, <2>2, <3>1, <3>2 DEF SessionInv, Linked
    <3> QED
        BY <1>2, <3>3, <3>4 DEF SessionInv
  <2>3. CASE ~(conn \in subscribers /\ ws = "open")
    <3>1. shared' = shared + 1 /\ view' = view /\ down' = down
          BY <1>3, <2>3 DEF SetObject
    <3>2. SessionTypeOK'
          BY <1>1, <2>1, <3>1 DEF SessionInv, SessionTypeOK
    <3>3. Linked'
          BY <1>1, <2>3, <3>1 DEF SessionInv, Linked
    <3> QED
        BY <1>2, <3>2, <3>3 DEF SessionInv
  <2> QED
      BY <2>2, <2>3
<1>4. CASE PageTakes
  <2>1. down # <<>> /\ view' = Head(down) /\ down' = Tail(down) /\ shared' = shared /\ down \in Seq(0..MaxValue)
        BY <1>4 DEF PageTakes, SessionInv, SessionTypeOK
  <2>2. Shown' = Shown /\ view' \in 0..MaxValue /\ down' \in Seq(0..MaxValue)
        BY <2>1, ShownAfterTake
  <2>3. SessionTypeOK'
        BY <1>1, <2>1, <2>2 DEF SessionInv, SessionTypeOK
  <2>4. Linked'
        BY <1>1, <2>1, <2>2 DEF SessionInv, Linked
  <2> QED
      BY <1>2, <2>3, <2>4 DEF SessionInv
<1> QED
    BY <1>3, <1>4

\* And every step keeps it.
LEMMA SessionKeeps ==
  ASSUME SessionInv, [SessionNext]_sessionVars PROVE SessionInv'
  BY QuietSteps, LossSteps, UpgradeKeeps, SendSteps, ServerTakesKeeps, ViewSteps DEF SessionNext

LEMMA SessionHolds ==
  ASSUME SessionInv PROVE SessionTypeOK /\ EnvelopesInOrder /\ ViewIsCurrent
<1>1. ViewIsCurrent
      BY ShownIs DEF SessionInv, SessionTypeOK, Linked, ViewIsCurrent
<1>2. EnvelopesInOrder
  <2>1. taken \in Seq(Sendable) /\ up \in Seq(Sendable) /\ queue \in Seq(Sendable)
    <3>1. 1..MaxEnvelopes \subseteq Sendable /\ taken \in Seq(1..MaxEnvelopes)
          BY SessionAssumption DEF SessionAssumption, Sendable, Subscription, SessionInv, SessionTypeOK
    <3>2. taken \in Seq(Sendable)
          BY <3>1, SequencesGrow
    <3> QED
        BY <3>2 DEF SessionInv, SessionTypeOK
  <2>2. up = <<>> \/ queue = <<>>
        BY DEF SessionInv, Linked
  <2>3. Precedes(Envelopes(up), Envelopes(queue))
        BY <2>2, NoEnvelopes DEF Precedes
  <2>4. /\ taken \o up \in Seq(Sendable) /\ Envelopes(taken \o up) = Envelopes(taken) \cup Envelopes(up)
        /\ Ordered(taken \o up)
        BY <2>1, EnvelopesOfConcat DEF SessionInv, Sequenced
  <2>5. Precedes(Envelopes(taken \o up), Envelopes(queue))
        BY <2>3, <2>4 DEF SessionInv, Sequenced, Precedes
  <2>6. /\ Envelopes((taken \o up) \o queue) = Envelopes(taken) \cup Envelopes(up) \cup Envelopes(queue)
        /\ Ordered((taken \o up) \o queue)
        BY <2>1, <2>4, <2>5, EnvelopesOfConcat DEF SessionInv, Sequenced
  <2> QED
      BY <2>6 DEF EnvelopesInOrder, SessionInv, Sequenced
<1> QED
    BY <1>1, <1>2 DEF SessionInv

SessionSpec == SessionInit /\ [][SessionNext]_sessionVars

LEMMA SessionAlways == SessionSpec => [](SessionTypeOK /\ EnvelopesInOrder /\ ViewIsCurrent)
<1>1. SessionInit => SessionInv
      BY SessionStarts
<1>2. SessionInv /\ [SessionNext]_sessionVars => SessionInv'
      BY SessionKeeps
<1>3. SessionInv => SessionTypeOK /\ EnvelopesInOrder /\ ViewIsCurrent
      BY SessionHolds
<1> QED
    BY <1>1, <1>2, <1>3, PTL DEF SessionSpec

(* The server takes the envelopes of a page in the order they were sent, none  *)
(* twice, and every one sent is taken, on its way, queued or lost with a       *)
(* connection or a page: the queue that waits for a socket never overtakes     *)
(* what is on it (sendEnvelope, flushQueue).                                   *)
THEOREM EnvelopesAlwaysInOrder == SessionSpec => []EnvelopesInOrder
  BY SessionAlways, PTL

(* A page whose subscription the connection it still has has taken comes to    *)
(* show the value of the shared object, whichever older connections the server *)
(* still buries (_subscribeSharedObject, unregisterClient).                    *)
THEOREM ViewAlwaysCurrent == SessionSpec => []ViewIsCurrent
  BY SessionAlways, PTL

------------------------------------------------------------------------------
(* The parts together.  A step of the joint specification is one of a single   *)
(* part and a stutter of all others.                                           *)
\* What the others are told of a step of one part.
LEMMA OneAtATime ==
  MCNext \/ UNCHANGED allVars =>
    /\ [SessionNext]_sessionVars /\ [IpcNext]_ipcVars /\ [GlobalNext]_globalVars /\ [RepoNext]_repoVars
    /\ [LauncherNext]_launcherVars /\ [AssetNext]_assetVars /\ [ReleaseNext]_releaseVars /\ [StoreNext]_storeVars
  BY DEF MCNext, allVars, SessionOnly, IpcOnly

(* The joint specification implements that of each part.                       *)
LEMMA PartsTogether ==
  MCSpec => /\ SessionSpec /\ IpcSpec /\ GlobalSpec /\ RepoSpec
            /\ LauncherSpec /\ AssetSpec /\ ReleaseSpec /\ StoreSpec
  BY OneAtATime, PTL DEF MCSpec, MCInit, SessionSpec, IpcSpec, GlobalSpec, RepoSpec, LauncherSpec, AssetSpec,
       ReleaseSpec, StoreSpec

(* Whatever part a behaviour exercises, the types of all of them are kept.     *)
THEOREM TypesAlwaysCorrect == MCSpec => []TypeOK
  BY PartsTogether, SessionAlways, ClientAlwaysSound, DiskAlwaysFollows, AnswersAlwaysTrue, BundleAlwaysWhole,
     AssetsAlwaysWhole, ReleaseAlwaysHolds, StoreAlwaysSound, PTL DEF TypeOK

(* What the launcher and the web server keep unpacked is whole when it is      *)
(* used, but for the company and the kills each of them names, and the host's  *)
(* store of tab contexts knows its files (linux-desktop.mjs, webstrap's        *)
(* assets.mjs, assets.rs).                                                     *)
THEOREM FilesAlwaysSound == MCSpec => []FilesAreSound
  BY PartsTogether, BundleAlwaysWhole, AssetsAlwaysWhole, StoreAlwaysSound, PTL DEF FilesAreSound
=============================================================================
