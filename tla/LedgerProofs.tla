---------------------------- MODULE LedgerProofs ----------------------------
(* Lemmas about the append-only logs of Ledger and about sums of rows. *)
EXTENDS Ledger, Sums, FiniteSetTheorems, WellFoundedInduction, TLAPS

(* Appending the row a change writes keeps a log reconciled with its cell: *)
(* the fact behind changeBalance.                                          *)
LEMMA ReconcilesAppend ==
    ASSUME NEW K, NEW R, NEW log \in Seq(EntrySet(K, R)),
           NEW q \in Int, Reconciles(log, q),
           NEW kind \in K, NEW delta \in Int, NEW ref \in R
    PROVE  LET e == Entry(kind, delta, q, ref) IN
           /\ e \in EntrySet(K, R)
           /\ Append(log, e) \in Seq(EntrySet(K, R))
           /\ Reconciles(Append(log, e), q + delta)
<1> DEFINE e == Entry(kind, delta, q, ref)
           new == Append(log, e)
<1>1. e \in EntrySet(K, R)
  BY DEF Entry, EntrySet
<1>2. new \in Seq(EntrySet(K, R))
  BY <1>1
<1>3. /\ Len(new) = Len(log) + 1
      /\ new[Len(new)] = e
      /\ \A i \in 1..Len(log) : new[i] = log[i]
      /\ DOMAIN new = 1..Len(new)
      /\ DOMAIN log = 1..Len(log)
      /\ Len(log) \in Nat
  BY <1>1
<1>4. e.after = q + delta /\ e.delta = delta /\ e.before = q
  BY DEF Entry
<1>5. q = IF Len(log) = 0 THEN 0 ELSE log[Len(log)].after
  BY <1>3 DEF Reconciles
<1>6. ASSUME NEW i \in DOMAIN new
      PROVE  /\ new[i].after = new[i].before + new[i].delta
             /\ new[i].before = IF i = 1 THEN 0 ELSE new[i-1].after
  <2>1. CASE i \in 1..Len(log)
    <3>1. i # 1 => i - 1 \in 1..Len(log)
      BY <2>1, <1>3
    <3>. QED
      BY <2>1, <3>1, <1>3 DEF Reconciles
  <2>2. CASE i = Len(log) + 1
    <3>1. i # 1 => i - 1 = Len(log) /\ i - 1 \in 1..Len(log)
      BY <2>2, <1>3
    <3>2. new[i] = e
      BY <2>2, <1>3
    <3>3. new[i].after = new[i].before + new[i].delta
      BY <3>2, <1>4
    <3>4. CASE i = 1
      <4>1. Len(log) = 0
        BY <3>4, <2>2, <1>3
      <4>. QED
        BY <4>1, <3>4, <3>2, <3>3, <1>4, <1>5
    <3>5. CASE i # 1
      <4>1. new[i-1] = log[Len(log)] /\ Len(log) # 0
        BY <3>5, <3>1, <2>2, <1>3
      <4>. QED
        BY <4>1, <3>5, <3>2, <3>3, <1>4, <1>5
    <3>. QED
      BY <3>4, <3>5
  <2>. QED
    BY <2>1, <2>2, <1>3
<1>7. new # << >>
  BY <1>3
<1>. QED
  BY <1>1, <1>2, <1>3, <1>4, <1>6, <1>7 DEF Reconciles

-----------------------------------------------------------------------------
(* Sums.  The sum over a finite set is the recursive function of           *)
(* MapThenFoldSet; what it is of any set follows by induction over its     *)
(* subsets, that is: of the subsets for which it fails, one is minimal.    *)

(* SumOf with the set apart, so that it can shrink under the same summands. *)
SumOver(g, S) == MapThenSumSet(LAMBDA x : g[x], S)

First(S) == CHOOSE x \in S : TRUE

(* The function a sum over S is computed with, on every subset of S. *)
Summing(h, S, g) ==
    h = [T \in SUBSET S |-> IF T = {} THEN 0 ELSE g[First(T)] + h[T \ {First(T)}]]

(* Induction over the subsets of a finite set: of those that fail a property *)
(* one is minimal.                                                           *)
LEMMA MinimalSet ==
    ASSUME NEW S, IsFiniteSet(S), NEW Bad \in SUBSET SUBSET S, Bad # {}
    PROVE  \E T \in Bad : \A U \in Bad : U \subseteq T => U = T
<1>1. IsWellFoundedOn(StrictSubsetOrdering(S), SUBSET S)
  BY FS_StrictSubsetOrderingWellFounded, FS_FiniteSubsetsOfFinite
<1>2. PICK T \in Bad : \A U \in Bad : <<U, T>> \notin StrictSubsetOrdering(S)
  BY <1>1, WFMin
<1> QED BY <1>2 DEF StrictSubsetOrdering

LEMMA FirstIsIn == ASSUME NEW S, S # {} PROVE First(S) \in S
BY DEF First

LEMMA SummingUnique ==
    ASSUME NEW g, NEW S, NEW T, IsFiniteSet(T), T \subseteq S,
           NEW h, Summing(h, S, g), NEW k, Summing(k, T, g)
    PROVE  h[T] = k[T]
<1> DEFINE Bad == {U \in SUBSET T : h[U] # k[U]}
<1>1. CASE Bad = {}
  BY <1>1
<1>2. CASE Bad # {}
  <2>1. PICK U \in Bad : \A V \in Bad : V \subseteq U => V = U
    <3>1. Bad \in SUBSET SUBSET T
      OBVIOUS
    <3> HIDE DEF Bad
    <3> QED BY <1>2, <3>1, MinimalSet
  <2> DEFINE V == U \ {First(U)}
  <2>2. U \in SUBSET T /\ U \in SUBSET S /\ h[U] # k[U]
    BY <2>1
  <2>3. /\ h[U] = IF U = {} THEN 0 ELSE g[First(U)] + h[V]
        /\ k[U] = IF U = {} THEN 0 ELSE g[First(U)] + k[V]
    BY <2>2 DEF Summing
  <2>4. U # {}
    BY <2>2, <2>3
  <2>5. V \subseteq U /\ V # U
    BY <2>4, FirstIsIn
  <2>6. h[V] = k[V]
    BY <2>1, <2>2, <2>5
  <2> QED BY <2>2, <2>3, <2>4, <2>6
<1> QED BY <1>1, <1>2

LEMMA SummingExists ==
    ASSUME NEW g, NEW S, IsFiniteSet(S)
    PROVE  \E h : Summing(h, S, g)
<1> DEFINE Bad == {T \in SUBSET S : ~ \E h : Summing(h, T, g)}
           Of(T) == CHOOSE h : Summing(h, T, g)
<1>1. CASE Bad = {}
  BY <1>1
<1>2. CASE Bad # {}
  <2>1. PICK U \in Bad : \A V \in Bad : V \subseteq U => V = U
    <3>1. Bad \in SUBSET SUBSET S
      OBVIOUS
    <3> HIDE DEF Bad
    <3> QED BY <1>2, <3>1, MinimalSet
  <2>2. U \in SUBSET S /\ IsFiniteSet(U) /\ ~ \E h : Summing(h, U, g)
    BY <2>1, FS_Subset
  <2>3. ASSUME NEW T, T \subseteq U, T # U
        PROVE  Summing(Of(T), T, g) /\ IsFiniteSet(T)
    <3>1. T \in SUBSET S /\ T \notin Bad /\ IsFiniteSet(T)
      BY <2>1, <2>2, <2>3, FS_Subset
    <3>2. \E h : Summing(h, T, g)
      BY <3>1
    <3> QED BY <3>1, <3>2, Zenon
  <2> DEFINE Rest(T) == T \ {First(T)}
             k == [T \in SUBSET U |->
                      IF T = {} THEN 0 ELSE g[First(T)] + Of(Rest(T))[Rest(T)]]
  <2>4. ASSUME NEW V, V \subseteq U, V # U
        PROVE  k[V] = Of(V)[V]
    <3>1. Summing(Of(V), V, g)
      BY <2>3, <2>4
    <3>2. Of(V)[V] = IF V = {} THEN 0 ELSE g[First(V)] + Of(V)[Rest(V)]
      <4> HIDE DEF Of
      <4> QED BY <3>1 DEF Summing
    <3>3. k[V] = IF V = {} THEN 0 ELSE g[First(V)] + Of(Rest(V))[Rest(V)]
      <4> HIDE DEF Of, Rest
      <4> QED BY <2>4
    <3>4. CASE V = {}
      <4> HIDE DEF k, Of, Rest
      <4> QED BY <3>2, <3>3, <3>4
    <3>5. CASE V # {}
      <4>1. Rest(V) \subseteq V /\ Rest(V) # V
        BY <3>5, FirstIsIn
      <4>2. Rest(V) \subseteq U /\ Rest(V) # U
        BY <4>1, <2>4
      <4>3. Summing(Of(Rest(V)), Rest(V), g) /\ IsFiniteSet(Rest(V))
        <5> HIDE DEF Of, Rest
        <5> QED BY <2>3, <4>2
      <4> HIDE DEF Of, Rest, k
      <4>4. Of(V)[Rest(V)] = Of(Rest(V))[Rest(V)]
        BY <3>1, <4>1, <4>3, SummingUnique
      <4> QED BY <3>2, <3>3, <3>5, <4>4
    <3> QED BY <3>4, <3>5
  <2>5. Summing(k, U, g)
    <3>1. ASSUME NEW T \in SUBSET U
          PROVE  k[T] = IF T = {} THEN 0 ELSE g[First(T)] + k[Rest(T)]
      <4>1. k[T] = IF T = {} THEN 0 ELSE g[First(T)] + Of(Rest(T))[Rest(T)]
        <5> HIDE DEF Of, Rest
        <5> QED OBVIOUS
      <4>2. T # {} => k[Rest(T)] = Of(Rest(T))[Rest(T)]
        <5>1. T # {} => Rest(T) \subseteq U /\ Rest(T) # U
          BY FirstIsIn
        <5> HIDE DEF k, Of, Rest
        <5> QED BY <2>4, <5>1
      <4> HIDE DEF k, Of, Rest
      <4> QED BY <4>1, <4>2
    <3>2. k = [T \in SUBSET U |-> k[T]]
      OBVIOUS
    <3> HIDE DEF k
    <3> QED BY <3>1, <3>2 DEF Summing
  <2> QED BY <2>2, <2>5
<1> QED BY <1>1, <1>2

(* A sum is computed with a function that is there. *)
LEMMA SumIsSumming ==
    ASSUME NEW g, NEW S, IsFiniteSet(S)
    PROVE  \E h : Summing(h, S, g) /\ SumOver(g, S) = h[S]
<1>1. SumOver(g, S) = (CHOOSE h : Summing(h, S, g))[S]
  BY Zenon DEF SumOver, MapThenSumSet, MapThenFoldSet, Summing, First
<1>2. Summing(CHOOSE h : Summing(h, S, g), S, g)
  BY SummingExists, Zenon
<1> QED BY <1>1, <1>2

LEMMA SumEmpty == \A g : SumOver(g, {}) = 0
<1> TAKE g
<1>1. PICK h : Summing(h, {}, g) /\ SumOver(g, {}) = h[{}]
  BY FS_EmptySet, SumIsSumming
<1> QED BY <1>1 DEF Summing

LEMMA SumFirst ==
    ASSUME NEW g, NEW S, IsFiniteSet(S), S # {}
    PROVE  SumOver(g, S) = g[First(S)] + SumOver(g, S \ {First(S)})
<1> DEFINE T == S \ {First(S)}
<1>1. PICK h : Summing(h, S, g) /\ SumOver(g, S) = h[S]
  BY SumIsSumming
<1>2. IsFiniteSet(T)
  BY FS_Subset
<1>3. PICK k : Summing(k, T, g) /\ SumOver(g, T) = k[T]
  BY <1>2, SumIsSumming
<1>4. h[T] = k[T]
  BY <1>1, <1>2, <1>3, SummingUnique
<1>5. h[S] = g[First(S)] + h[T]
  BY <1>1 DEF Summing
<1> QED BY <1>1, <1>3, <1>4, <1>5

LEMMA SumType ==
    ASSUME NEW g, NEW S, IsFiniteSet(S), \A x \in S : g[x] \in Int
    PROVE  SumOver(g, S) \in Int
<1> DEFINE Bad == {T \in SUBSET S : SumOver(g, T) \notin Int}
<1>1. CASE Bad = {}
  BY <1>1
<1>2. CASE Bad # {}
  <2>1. PICK U \in Bad : \A V \in Bad : V \subseteq U => V = U
    <3>1. Bad \in SUBSET SUBSET S
      OBVIOUS
    <3> HIDE DEF Bad
    <3> QED BY <1>2, <3>1, MinimalSet
  <2>2. U \in SUBSET S /\ IsFiniteSet(U) /\ SumOver(g, U) \notin Int
    BY <2>1, FS_Subset
  <2>3. U # {}
    BY <2>2, SumEmpty
  <2>4. First(U) \in U
    BY <2>3, FirstIsIn
  <2>5. SumOver(g, U \ {First(U)}) \in Int
    BY <2>1, <2>2, <2>4
  <2> QED BY <2>2, <2>3, <2>4, <2>5, SumFirst
<1> QED BY <1>1, <1>2

(* Any element may be taken out first. *)
LEMMA SumStep ==
    ASSUME NEW g, NEW S, IsFiniteSet(S), \A x \in S : g[x] \in Int, NEW x \in S
    PROVE  SumOver(g, S) = g[x] + SumOver(g, S \ {x})
<1> DEFINE Holds(T) == \A y \in T : SumOver(g, T) = g[y] + SumOver(g, T \ {y})
           Bad == {T \in SUBSET S : ~Holds(T)}
<1>1. CASE Bad = {}
  BY <1>1
<1>2. CASE Bad # {}
  <2>1. PICK U \in Bad : \A V \in Bad : V \subseteq U => V = U
    <3>1. Bad \in SUBSET SUBSET S
      OBVIOUS
    <3> HIDE DEF Bad
    <3> QED BY <1>2, <3>1, MinimalSet
  <2>2. U \in SUBSET S /\ ~Holds(U)
    BY <2>1
  <2>3. PICK y \in U : SumOver(g, U) # g[y] + SumOver(g, U \ {y})
    BY <2>2
  <2> DEFINE z == First(U)
  <2>4. z \in U /\ IsFiniteSet(U)
    BY <2>2, <2>3, FirstIsIn, FS_Subset
  <2>5. SumOver(g, U) = g[z] + SumOver(g, U \ {z})
    BY <2>3, <2>4, SumFirst
  <2>6. z # y
    BY <2>3, <2>5
  <2>7. Holds(U \ {z}) /\ Holds(U \ {y})
    <3>1. U \ {z} \notin Bad /\ U \ {y} \notin Bad
      <4> HIDE DEF Bad, z
      <4> QED BY <2>1, <2>3, <2>4
    <3> HIDE DEF Holds, z
    <3> QED BY <3>1, <2>2
  <2>8. (U \ {z}) \ {y} = (U \ {y}) \ {z}
    OBVIOUS
  <2> DEFINE W == (U \ {z}) \ {y}
  <2>9. /\ SumOver(g, U \ {z}) = g[y] + SumOver(g, W)
        /\ SumOver(g, U \ {y}) = g[z] + SumOver(g, W)
    BY <2>3, <2>4, <2>6, <2>7, <2>8
  <2>10. SumOver(g, W) \in Int /\ g[y] \in Int /\ g[z] \in Int
    <3>1. IsFiniteSet(W) /\ W \subseteq S
      BY <2>2, <2>4, FS_Subset
    <3> HIDE DEF W, z
    <3> QED BY <3>1, <2>2, <2>3, <2>4, SumType
  <2> HIDE DEF W, z
  <2> QED BY <2>3, <2>5, <2>9, <2>10
<1> QED BY <1>1, <1>2

(* A sum depends on the summands only. *)
LEMMA SumSame ==
    ASSUME NEW g, NEW h, NEW S, IsFiniteSet(S), \A x \in S : g[x] = h[x]
    PROVE  SumOver(g, S) = SumOver(h, S)
<1> DEFINE Bad == {T \in SUBSET S : SumOver(g, T) # SumOver(h, T)}
<1>1. CASE Bad = {}
  BY <1>1
<1>2. CASE Bad # {}
  <2>1. PICK U \in Bad : \A V \in Bad : V \subseteq U => V = U
    <3>1. Bad \in SUBSET SUBSET S
      OBVIOUS
    <3> HIDE DEF Bad
    <3> QED BY <1>2, <3>1, MinimalSet
  <2>2. U \in SUBSET S /\ IsFiniteSet(U) /\ SumOver(g, U) # SumOver(h, U)
    BY <2>1, FS_Subset
  <2>3. U # {}
    BY <2>2, SumEmpty
  <2>4. First(U) \in U
    BY <2>3, FirstIsIn
  <2>5. SumOver(g, U \ {First(U)}) = SumOver(h, U \ {First(U)})
    BY <2>1, <2>2, <2>4
  <2> QED BY <2>2, <2>3, <2>4, <2>5, SumFirst
<1> QED BY <1>1, <1>2

(* Natural summands: no sum is below zero or below one of its summands. *)
LEMMA SumNat ==
    ASSUME NEW g, NEW S, IsFiniteSet(S), \A x \in S : g[x] \in Nat
    PROVE  SumOver(g, S) \in Nat /\ \A x \in S : g[x] <= SumOver(g, S)
<1> DEFINE Bad == {T \in SUBSET S : SumOver(g, T) \notin Nat}
<1>1. SumOver(g, S) \in Nat /\ \A T \in SUBSET S : SumOver(g, T) \in Nat
  <2>1. CASE Bad = {}
    BY <2>1
  <2>2. CASE Bad # {}
    <3>1. PICK U \in Bad : \A V \in Bad : V \subseteq U => V = U
      <4>1. Bad \in SUBSET SUBSET S
        OBVIOUS
      <4> HIDE DEF Bad
      <4> QED BY <2>2, <4>1, MinimalSet
    <3>2. U \in SUBSET S /\ IsFiniteSet(U) /\ SumOver(g, U) \notin Nat
      BY <3>1, FS_Subset
    <3>3. U # {}
      BY <3>2, SumEmpty
    <3>4. First(U) \in U
      BY <3>3, FirstIsIn
    <3>5. SumOver(g, U \ {First(U)}) \in Nat
      BY <3>1, <3>2, <3>4
    <3> QED BY <3>2, <3>3, <3>4, <3>5, SumFirst
  <2> QED BY <2>1, <2>2
<1>2. ASSUME NEW x \in S PROVE g[x] <= SumOver(g, S)
  <2>1. SumOver(g, S) = g[x] + SumOver(g, S \ {x})
    BY SumStep
  <2>2. SumOver(g, S \ {x}) \in Nat /\ g[x] \in Nat
    BY <1>1
  <2> QED BY <2>1, <2>2
<1> QED BY <1>1, <1>2

(* Sums of sums: what adds up element by element adds up in the whole. *)
LEMMA SumPlus ==
    ASSUME NEW f, NEW g, NEW h, NEW S, IsFiniteSet(S),
           \A x \in S : f[x] \in Int /\ g[x] \in Int /\ h[x] = f[x] + g[x]
    PROVE  SumOver(h, S) = SumOver(f, S) + SumOver(g, S)
<1> DEFINE Bad == {T \in SUBSET S : SumOver(h, T) # SumOver(f, T) + SumOver(g, T)}
<1>1. CASE Bad = {}
  BY <1>1
<1>2. CASE Bad # {}
  <2>1. PICK U \in Bad : \A V \in Bad : V \subseteq U => V = U
    <3>1. Bad \in SUBSET SUBSET S
      OBVIOUS
    <3> HIDE DEF Bad
    <3> QED BY <1>2, <3>1, MinimalSet
  <2>2. U \in SUBSET S /\ IsFiniteSet(U) /\ SumOver(h, U) # SumOver(f, U) + SumOver(g, U)
    BY <2>1, FS_Subset
  <2>3. U # {}
    BY <2>2, SumEmpty
  <2> DEFINE z == First(U)
             V == U \ {z}
  <2>4. z \in U /\ z \in S
    BY <2>2, <2>3, FirstIsIn
  <2>5. SumOver(h, V) = SumOver(f, V) + SumOver(g, V)
    BY <2>1, <2>2, <2>4
  <2>6. /\ SumOver(h, U) = h[z] + SumOver(h, V)
        /\ SumOver(f, U) = f[z] + SumOver(f, V)
        /\ SumOver(g, U) = g[z] + SumOver(g, V)
    BY <2>2, <2>3, SumFirst
  <2>7. SumOver(f, V) \in Int /\ SumOver(g, V) \in Int
    <3>1. IsFiniteSet(V) /\ V \subseteq S
      BY <2>2, FS_Subset
    <3> HIDE DEF V
    <3> QED BY <3>1, SumType
  <2>8. f[z] \in Int /\ g[z] \in Int /\ h[z] = f[z] + g[z]
    BY <2>4
  <2> HIDE DEF V, z
  <2> QED BY <2>2, <2>5, <2>6, <2>7, <2>8
<1> QED BY <1>1, <1>2

-----------------------------------------------------------------------------
(* The same of SumOf, as the tables change.                                *)

LEMMA SumOfIsOver == \A f : SumOf(f) = SumOver(f, DOMAIN f)
BY DEF SumOf, SumOver

LEMMA SumOfType ==
    ASSUME NEW f, IsFiniteSet(DOMAIN f), \A x \in DOMAIN f : f[x] \in Int
    PROVE  SumOf(f) \in Int
BY SumOfIsOver, SumType

LEMMA SumOfNat ==
    ASSUME NEW f, IsFiniteSet(DOMAIN f), \A x \in DOMAIN f : f[x] \in Nat
    PROVE  SumOf(f) \in Nat /\ \A x \in DOMAIN f : f[x] <= SumOf(f)
BY SumOfIsOver, SumNat

LEMMA SumOfEmpty == \A f : DOMAIN f = {} => SumOf(f) = 0
BY SumOfIsOver, SumEmpty

LEMMA SumOfSame ==
    ASSUME NEW f, NEW h, IsFiniteSet(DOMAIN f), DOMAIN h = DOMAIN f,
           \A x \in DOMAIN f : h[x] = f[x]
    PROVE  SumOf(h) = SumOf(f)
<1>1. SumOver(h, DOMAIN f) = SumOver(f, DOMAIN f)
  BY SumSame
<1> QED BY <1>1, SumOfIsOver

(* A row more. *)
LEMMA SumOfAdded ==
    ASSUME NEW f, NEW h, IsFiniteSet(DOMAIN h), \A y \in DOMAIN h : h[y] \in Int,
           NEW x \in DOMAIN h, DOMAIN f = DOMAIN h \ {x},
           \A y \in DOMAIN f : f[y] = h[y]
    PROVE  SumOf(h) = SumOf(f) + h[x]
<1> DEFINE S == DOMAIN f
<1>1. IsFiniteSet(S)
  BY FS_Subset
<1>2. SumOver(h, DOMAIN h) = h[x] + SumOver(h, S)
  BY SumStep
<1>3. SumOver(h, S) = SumOver(f, S)
  BY <1>1, SumSame
<1>4. SumOver(h, S) \in Int /\ h[x] \in Int
  BY <1>1, SumType
<1> QED BY <1>2, <1>3, <1>4, SumOfIsOver

(* A row changed. *)
LEMMA SumOfChanged ==
    ASSUME NEW f, NEW h, IsFiniteSet(DOMAIN f), DOMAIN h = DOMAIN f,
           \A y \in DOMAIN f : f[y] \in Int /\ h[y] \in Int,
           NEW x \in DOMAIN f, \A y \in DOMAIN f : y # x => h[y] = f[y]
    PROVE  SumOf(h) = SumOf(f) + (h[x] - f[x])
<1> DEFINE S == DOMAIN f \ {x}
<1>1. IsFiniteSet(S)
  BY FS_Subset
<1>2. /\ SumOver(f, DOMAIN f) = f[x] + SumOver(f, S)
      /\ SumOver(h, DOMAIN f) = h[x] + SumOver(h, S)
  BY SumStep
<1>3. SumOver(h, S) = SumOver(f, S)
  BY <1>1, SumSame
<1>4. SumOver(f, S) \in Int /\ h[x] \in Int /\ f[x] \in Int
  BY <1>1, SumType
<1> QED BY <1>2, <1>3, <1>4, SumOfIsOver

(* Rows whose amounts add up. *)
LEMMA SumOfPlus ==
    ASSUME NEW f, NEW g, NEW h, IsFiniteSet(DOMAIN f), DOMAIN g = DOMAIN f, DOMAIN h = DOMAIN f,
           \A x \in DOMAIN f : f[x] \in Int /\ g[x] \in Int /\ h[x] = f[x] + g[x]
    PROVE  SumOf(h) = SumOf(f) + SumOf(g)
<1>1. SumOver(h, DOMAIN f) = SumOver(f, DOMAIN f) + SumOver(g, DOMAIN f)
  BY SumPlus
<1> QED BY <1>1, SumOfIsOver

=============================================================================
