--------------------------- MODULE PricingProofs ---------------------------
(***************************************************************************)
(* What a catalogue holds, whatever the order in which from_json visits    *)
(* the entries of its file.  The indexes from_json may build are defined   *)
(* by recursion over sets of entries: that the recursion has a solution,   *)
(* and what its solution is like, follows from the least set of entries    *)
(* for which it would not.                                                 *)
(***************************************************************************)
EXTENDS Pricing, FiniteSetTheorems, WellFoundedInduction, TLAPS

(* Some index of every set of entries less one, with the last one added.   *)
Round(g, S) ==
  IF S = {} THEN {<<>>}
  ELSE UNION {{Indexed(index, k) : index \in g[S \ {k}]} : k \in S}

(* g gives the indexes of every set of entries of U.                       *)
IsLoad(g, U) == g = [S \in SUBSET U |-> Round(g, S)]

(* A collection of subsets of a finite set has a least member.             *)
LEMMA LeastSubset ==
  ASSUME NEW U, IsFiniteSet(U), NEW T \in SUBSET (SUBSET U), T # {}
  PROVE  \E V \in T : \A W \in T : W \subseteq V => W = V
<1>1. IsWellFoundedOn(StrictSubsetOrdering(U), FiniteSubsetsOf(U))
  BY FS_StrictSubsetOrderingWellFounded
<1>2. T \subseteq FiniteSubsetsOf(U)
  BY FS_Subset DEF FiniteSubsetsOf
<1>3. PICK V \in T : \A W \in T : ~(<<W, V>> \in StrictSubsetOrdering(U))
  BY <1>1, <1>2, WFMin
<1>4. ASSUME NEW W \in T, W \subseteq V PROVE W = V
  BY <1>3, <1>4 DEF StrictSubsetOrdering
<1> QED BY <1>4

(* Rounds over equal indexes are equal.                                    *)
LEMMA RoundSame ==
  ASSUME NEW g, NEW h, NEW S, \A k \in S : g[S \ {k}] = h[S \ {k}]
  PROVE  Round(g, S) = Round(h, S)
<1>1. CASE S = {}
  BY <1>1 DEF Round
<1>2. CASE S # {}
  <2> DEFINE G(k) == {Indexed(index, k) : index \in g[S \ {k}]}
             H(k) == {Indexed(index, k) : index \in h[S \ {k}]}
  <2>1. \A k \in S : G(k) = H(k)
    OBVIOUS
  <2>2. Round(g, S) = UNION {G(k) : k \in S} /\ Round(h, S) = UNION {H(k) : k \in S}
    BY <1>2, Zenon DEF Round
  <2> HIDE DEF G, H
  <2>3. {G(k) : k \in S} = {H(k) : k \in S}
    BY <2>1
  <2> QED BY <2>2, <2>3
<1> QED BY <1>1, <1>2

(* Loads agree on what they have in common.                                *)
LEMMA LoadUnique ==
  ASSUME NEW U, IsFiniteSet(U), NEW A \in SUBSET U, NEW B \in SUBSET U,
         NEW g, NEW h, IsLoad(g, A), IsLoad(h, B),
         NEW S, S \in SUBSET A, S \in SUBSET B
  PROVE  g[S] = h[S]
<1> DEFINE T == {V \in SUBSET (A \cap B) : g[V] # h[V]}
<1> SUFFICES ASSUME T # {} PROVE FALSE
  OBVIOUS
<1>1. PICK V \in T : \A W \in T : W \subseteq V => W = V
  <2>1. T \in SUBSET (SUBSET U)
    OBVIOUS
  <2> HIDE DEF T
  <2> QED BY <2>1, LeastSubset
<1>2. g[V] = Round(g, V) /\ h[V] = Round(h, V)
  BY DEF IsLoad
<1>3. \A k \in V : g[V \ {k}] = h[V \ {k}]
  <2> SUFFICES ASSUME NEW k \in V, g[V \ {k}] # h[V \ {k}] PROVE FALSE
    OBVIOUS
  <2>1. V \ {k} \in T /\ V \ {k} \subseteq V /\ V \ {k} # V
    OBVIOUS
  <2> HIDE DEF T
  <2> QED BY <2>1, <1>1
<1>4. g[V] = h[V]
  BY <1>2, <1>3, RoundSame
<1> QED BY <1>4

(* Every finite set of entries can be loaded.                              *)
LEMMA LoadExists ==
  ASSUME NEW U, IsFiniteSet(U)
  PROVE  \E g : IsLoad(g, U)
<1> DEFINE T == {V \in SUBSET U : ~\E g : IsLoad(g, V)}
<1> SUFFICES ASSUME T # {} PROVE FALSE
  OBVIOUS
<1>1. PICK V \in T : \A W \in T : W \subseteq V => W = V
  <2>1. T \in SUBSET (SUBSET U)
    OBVIOUS
  <2> HIDE DEF T
  <2> QED BY <2>1, LeastSubset
<1>2. V \in SUBSET U /\ ~\E g : IsLoad(g, V)
  OBVIOUS
<1>3. \A W \in SUBSET U : W \subseteq V /\ W # V => \E g : IsLoad(g, W)
  BY <1>1
<1> HIDE DEF T
<1> DEFINE G(W) == CHOOSE g : IsLoad(g, W)
           last == [W \in SUBSET V |-> G(W)[W]]
           load == [S \in SUBSET V |-> Round(last, S)]
<1>4. \A W \in SUBSET V : W # V => IsLoad(G(W), W)
  BY <1>2, <1>3
<1> HIDE DEF G
<1>5. ASSUME NEW W \in SUBSET V, W # V PROVE load[W] = last[W]
  <2>1. ASSUME NEW k \in W PROVE last[W \ {k}] = G(W)[W \ {k}]
    <3>1. W \ {k} \in SUBSET V /\ W \ {k} # V /\ W \ {k} \in SUBSET W /\ W \in SUBSET U
      BY <1>2
    <3>2. IsLoad(G(W \ {k}), W \ {k}) /\ IsLoad(G(W), W)
      BY <1>4, <1>5, <3>1
    <3>3. G(W \ {k})[W \ {k}] = G(W)[W \ {k}]
      BY <3>1, <3>2, LoadUnique
    <3> QED BY <3>1, <3>3
  <2>2. Round(last, W) = Round(G(W), W)
    <3> HIDE DEF last
    <3> QED BY <2>1, RoundSame
  <2>3. G(W)[W] = Round(G(W), W)
    <3>1. IsLoad(G(W), W)
      BY <1>4, <1>5
    <3> QED BY <3>1 DEF IsLoad
  <2> QED BY <2>2, <2>3
<1>6. ASSUME NEW S \in SUBSET V PROVE Round(last, S) = Round(load, S)
  <2>1. \A k \in S : S \ {k} \in SUBSET V /\ S \ {k} # V
    OBVIOUS
  <2>2. \A k \in S : last[S \ {k}] = load[S \ {k}]
    BY <2>1, <1>5
  <2> HIDE DEF last, load
  <2> QED BY <2>2, RoundSame
<1>7. IsLoad(load, V)
  <2>1. load = [S \in SUBSET V |-> Round(last, S)]
    OBVIOUS
  <2> HIDE DEF load, last
  <2> QED BY <2>1, <1>6 DEF IsLoad
<1> QED BY <1>2, <1>7

(* from_json is the last set of a load of the usable entries.              *)
LEMMA FromJsonLoads ==
  ASSUME NEW f, IsFiniteSet(Usable(f))
  PROVE  \E g : IsLoad(g, Usable(f)) /\ from_json(f) = g[Usable(f)]
<1> DEFINE U == Usable(f)
           after == CHOOSE g : IsLoad(g, U)
<1>1. IsLoad(after, U)
  BY LoadExists
<1>2. from_json(f) = after[U]
  BY DEF from_json, IsLoad, Round
<1> QED BY <1>1, <1>2

-----------------------------------------------------------------------------
(* What an index holds *)

(* The names under which an entry is indexed.                              *)
Names(k) == {ModelKey(k)} \cup Fallbacks(ModelKey(k))

(* An index of the entries S knows the names of all of them and no other,  *)
(* gives each name to an entry that has it, and a name that is an entry's  *)
(* own to such an entry.                                                   *)
GoodIndex(index, S) ==
  /\ \A n : n \in DOMAIN index <=> \E k \in S : n \in Names(k)
  /\ \A n \in DOMAIN index : index[n] \in S /\ n \in Names(index[n])
  /\ \A k \in S : ModelKey(index[ModelKey(k)]) = ModelKey(k)

(* One more entry keeps an index good.                                     *)
LEMMA IndexedGood ==
  ASSUME NEW S, NEW k \in S, NEW index, GoodIndex(index, S \ {k})
  PROVE  GoodIndex(Indexed(index, k), S)
<1> DEFINE new == Indexed(index, k)
           own == ModelKey(k)
<1>1. /\ DOMAIN new = DOMAIN index \cup Names(k)
      /\ \A n \in DOMAIN new : new[n] = IF n \in DOMAIN index /\ n # own THEN index[n] ELSE k
      /\ own \in Names(k)
  BY DEF Indexed, Names
<1> HIDE DEF new
<1>2. \A n : n \in DOMAIN new <=> \E j \in S : n \in Names(j)
  BY <1>1 DEF GoodIndex
<1>3. ASSUME NEW n \in DOMAIN new PROVE new[n] \in S /\ n \in Names(new[n])
  <2>1. CASE n \in DOMAIN index /\ n # own
    BY <2>1, <1>1 DEF GoodIndex
  <2>2. CASE ~(n \in DOMAIN index /\ n # own)
    BY <2>2, <1>1
  <2> QED BY <2>1, <2>2
<1>4. ASSUME NEW j \in S PROVE ModelKey(new[ModelKey(j)]) = ModelKey(j)
  <2>0. ModelKey(j) \in Names(j)
    BY DEF Names
  <2>1. ModelKey(j) \in DOMAIN new
    BY <2>0, <1>2
  <2>2. CASE ModelKey(j) = own
    BY <1>1, <2>1, <2>2
  <2>3. CASE ModelKey(j) # own
    <3>1. j \in S \ {k}
      BY <2>3
    <3>2. ModelKey(j) \in DOMAIN index /\ ModelKey(index[ModelKey(j)]) = ModelKey(j)
      BY <3>1, <2>0 DEF GoodIndex
    <3> QED BY <1>1, <2>1, <2>3, <3>2
  <2> QED BY <2>2, <2>3
<1> QED BY <1>2, <1>3, <1>4 DEF GoodIndex, new

(* Every index of a file is good.                                          *)
LEMMA FromJsonGood ==
  ASSUME NEW f, IsFiniteSet(Usable(f)), NEW index \in from_json(f)
  PROVE  GoodIndex(index, Usable(f))
<1> DEFINE U == Usable(f)
<1> HIDE DEF U
<1>1. PICK g : IsLoad(g, U) /\ from_json(f) = g[U]
  BY FromJsonLoads DEF U
<1> DEFINE T == {S \in SUBSET U : \E x \in g[S] : ~GoodIndex(x, S)}
<1>2. ASSUME T # {} PROVE FALSE
  <2>1. PICK V \in T : \A W \in T : W \subseteq V => W = V
    <3>1. T \in SUBSET (SUBSET U) /\ IsFiniteSet(U)
      BY DEF U
    <3> HIDE DEF T
    <3> QED BY <3>1, <1>2, LeastSubset
  <2>2. V \in SUBSET U
    OBVIOUS
  <2>3. PICK x \in g[V] : ~GoodIndex(x, V)
    OBVIOUS
  <2>4. \A k \in V : \A y \in g[V \ {k}] : GoodIndex(y, V \ {k})
    <3> SUFFICES ASSUME NEW k \in V, V \ {k} \in T PROVE FALSE
      BY <2>2
    <3> HIDE DEF T
    <3> QED BY <2>1
  <2>5. g[V] = Round(g, V)
    BY <1>1, <2>2 DEF IsLoad
  <2>6. CASE V = {}
    <3>1. x = <<>>
      BY <2>3, <2>5, <2>6 DEF Round
    <3> QED BY <3>1, <2>3, <2>6 DEF GoodIndex
  <2>7. CASE V # {}
    <3>1. PICK k \in V : \E y \in g[V \ {k}] : x = Indexed(y, k)
      BY <2>3, <2>5, <2>7 DEF Round
    <3>2. PICK y \in g[V \ {k}] : x = Indexed(y, k)
      BY <3>1
    <3> QED BY <3>2, <2>3, <2>4, IndexedGood
  <2> QED BY <2>6, <2>7
<1> QED BY <1>1, <1>2 DEF U

-----------------------------------------------------------------------------
(* What is looked up *)

(* A lookup finds what the index holds under the name, or else under the   *)
(* name without its date.                                                  *)
LEMMA LookupFinds ==
  ASSUME NEW index, NEW n
  PROVE  /\ n \in DOMAIN index => lookup(index, n) = {index[n]}
         /\ n \notin DOMAIN index =>
              lookup(index, n) = {index[x] : x \in strip_date_suffix(n) \cap DOMAIN index}
<1>1. CASE n \in DOMAIN index
  BY <1>1 DEF lookup
<1>2. CASE n \notin DOMAIN index
  <2>1. n \notin ({n} \cup strip_date_suffix(n)) \cap DOMAIN index
    BY <1>2
  <2>2. ({n} \cup strip_date_suffix(n)) \cap DOMAIN index = strip_date_suffix(n) \cap DOMAIN index
    BY <1>2
  <2> QED BY <1>2, <2>1, <2>2 DEF lookup
<1> QED BY <1>1, <1>2

(* The catalogue is always an index of its file.                           *)
CatalogInv ==
  /\ catalog.file \in DOMAIN Files
  /\ catalog.index \in from_json(catalog.file)

(* The bundled file is loaded first.                                       *)
LEMMA CatalogInit == PricingInit => CatalogInv
BY PricingAssumption DEF PricingInit, CatalogInv, Catalogs

(* A refresh swaps in a whole index, a failed one keeps what there is.     *)
LEMMA CatalogStep ==
  ASSUME CatalogInv, PricingNext \/ UNCHANGED catalog
  PROVE  CatalogInv'
<1>1. CASE UNCHANGED catalog
  BY <1>1 DEF CatalogInv
<1>2. ASSUME NEW f \in DOMAIN Files, Refresh(f) PROVE CatalogInv'
  BY <1>2 DEF Refresh, CatalogInv, Catalogs
<1> QED BY <1>1, <1>2 DEF PricingNext, RefreshFails

(* Its index is good, whatever order it was loaded in.                     *)
LEMMA CatalogGood ==
  ASSUME CatalogInv
  PROVE  /\ GoodIndex(catalog.index, Usable(catalog.file))
         /\ \A k \in Usable(catalog.file) : k = [x \in NameFields |-> k[x]]
<1>1. Usable(catalog.file) \in SUBSET DOMAIN Files[catalog.file]
  BY DEF Usable
<1>2. /\ IsFiniteSet(DOMAIN Files[catalog.file])
      /\ \A k \in DOMAIN Files[catalog.file] : k = [x \in NameFields |-> k[x]]
  BY PricingAssumption DEF CatalogInv
<1>3. IsFiniteSet(Usable(catalog.file))
  BY <1>1, <1>2, FS_Subset
<1> QED BY <1>1, <1>2, <1>3, FromJsonGood DEF CatalogInv

(* In a good index a name that is an entry's own leads to such an entry.   *)
LEMMA OwnPrice == CatalogInv => OwnPriceWins
<1> SUFFICES ASSUME CatalogInv, NEW k \in Usable(catalog.file),
                    NEW j \in lookup(catalog.index, ModelKey(k))
             PROVE  ModelKey(j) = ModelKey(k)
  BY DEF OwnPriceWins
<1>1. ModelKey(k) \in DOMAIN catalog.index /\ ModelKey(catalog.index[ModelKey(k)]) = ModelKey(k)
  BY CatalogGood DEF GoodIndex, Names
<1> QED BY <1>1, LookupFinds

(* A name is a record of its parts.                                        *)
LEMMA NamesAreRecords ==
  ASSUME NEW k, k = [x \in NameFields |-> k[x]]
  PROVE  /\ ModelKey(k) = [x \in NameFields |-> ModelKey(k)[x]]
         /\ \A n \in Unprefixed(k) : n = [x \in NameFields |-> n[x]]
BY DEF ModelKey, Unprefixed, NameFields

(* An entry is indexed under its name and its name without its first       *)
(* prefix, and under both without their dates.                             *)
LEMMA UndatedIndexed ==
  ASSUME NEW k, k = [x \in NameFields |-> k[x]],
         NEW n \in {ModelKey(k)} \cup Unprefixed(ModelKey(k))
  PROVE  n \in Names(k) /\ [n EXCEPT !.date = ""] \in Names(k)
<1>1. n = [x \in NameFields |-> n[x]]
  BY NamesAreRecords
<1>2. n \in Names(k)
  BY DEF Names, Fallbacks
<1>3. CASE n.date = ""
  <2>1. [n EXCEPT !.date = ""] = n
    BY <1>1, <1>3 DEF NameFields
  <2> QED BY <1>2, <2>1
<1>4. CASE n.date # ""
  <2>1. [n EXCEPT !.date = ""] \in strip_date_suffix(n)
    BY <1>4 DEF strip_date_suffix
  <2> QED BY <1>2, <2>1 DEF Names, Fallbacks
<1> QED BY <1>3, <1>4

(* In a good index every variant of an entry leads to some entry.          *)
LEMMA Variants == CatalogInv => VariantsPriced
<1> SUFFICES ASSUME CatalogInv, NEW k \in Usable(catalog.file),
                    NEW n \in {ModelKey(k)} \cup Unprefixed(ModelKey(k)),
                    NEW d \in {"", "2024-08-06", "20991231"}
             PROVE  lookup(catalog.index, [n EXCEPT !.date = d]) # {}
  BY DEF VariantsPriced
<1> DEFINE dated == [n EXCEPT !.date = d]
           plain == [n EXCEPT !.date = ""]
<1>1. k = [x \in NameFields |-> k[x]] /\ GoodIndex(catalog.index, Usable(catalog.file))
  BY CatalogGood
<1>2. n = [x \in NameFields |-> n[x]]
  <2>1. ModelKey(k) = [x \in NameFields |-> ModelKey(k)[x]]
    BY <1>1, NamesAreRecords
  <2> QED BY <2>1, NamesAreRecords
<1>3. plain \in DOMAIN catalog.index
  <2>1. plain \in Names(k)
    BY <1>1, UndatedIndexed
  <2> QED BY <1>1, <2>1 DEF GoodIndex
<1>4. CASE dated \in DOMAIN catalog.index
  <2> HIDE DEF dated
  <2>1. lookup(catalog.index, dated) = {catalog.index[dated]}
    BY <1>4, LookupFinds
  <2> QED BY <2>1 DEF dated
<1>5. CASE dated \notin DOMAIN catalog.index
  <2>1. d # ""
    BY <1>3, <1>5
  <2>2. plain \in strip_date_suffix(dated)
    BY <2>1, <1>2 DEF strip_date_suffix, NameFields
  <2> HIDE DEF dated, plain
  <2>3. lookup(catalog.index, dated) =
          {catalog.index[x] : x \in strip_date_suffix(dated) \cap DOMAIN catalog.index}
    BY <1>5, LookupFinds
  <2>4. lookup(catalog.index, dated) # {}
    BY <1>3, <2>2, <2>3
  <2> QED BY <2>4 DEF dated
<1> QED BY <1>4, <1>5

(* A lookup in a good index depends on the order of the load only for      *)
(* names with several sources.                                             *)
LEMMA LookupOfOneSource ==
  ASSUME NEW f, NEW a, NEW b, GoodIndex(a, Usable(f)), GoodIndex(b, Usable(f)),
         NEW n, Cardinality(Sources(f, n)) = 1, IsFiniteSet(Usable(f))
  PROVE  lookup(a, n) = lookup(b, n)
<1>1. PICK s : Sources(f, n) = {s}
  <2>1. Sources(f, n) \in SUBSET Usable(f)
    BY DEF Sources
  <2>2. IsFiniteSet(Sources(f, n))
    BY <2>1, FS_Subset
  <2> QED BY <2>2, FS_Singleton
<1>2. DOMAIN a = DOMAIN b
  BY DEF GoodIndex
<1>3. ASSUME NEW index \in {a, b}, NEW x \in ({n} \cup strip_date_suffix(n)) \cap DOMAIN index
      PROVE  index[x] = s
  <2>1. index[x] \in Usable(f) /\ x \in Names(index[x])
    BY DEF GoodIndex
  <2>2. index[x] \in Sources(f, n)
    BY <2>1 DEF Sources, Names
  <2> QED BY <2>2, <1>1
<1>4. CASE n \in DOMAIN a
  <2>1. lookup(a, n) = {a[n]} /\ lookup(b, n) = {b[n]}
    BY <1>2, <1>4, LookupFinds
  <2>2. a[n] = s /\ b[n] = s
    BY <1>2, <1>3, <1>4
  <2> QED BY <2>1, <2>2
<1>5. CASE n \notin DOMAIN a
  <2> DEFINE A == {a[x] : x \in strip_date_suffix(n) \cap DOMAIN a}
             B == {b[x] : x \in strip_date_suffix(n) \cap DOMAIN b}
  <2>1. lookup(a, n) = A /\ lookup(b, n) = B
    BY <1>2, <1>5, LookupFinds
  <2>2. \A x \in strip_date_suffix(n) \cap DOMAIN a : a[x] = s /\ b[x] = s
    BY <1>2, <1>3
  <2>3. A = B
    BY <1>2, <2>2
  <2> QED BY <2>1, <2>3
<1> QED BY <1>4, <1>5

(* Two loads of one file agree on the names with one source.               *)
LEMMA RefreshPrices ==
  ASSUME CatalogInv, CatalogInv', catalog'.file = catalog.file,
         NEW n, Cardinality(Sources(catalog.file, n)) = 1
  PROVE  lookup(catalog'.index, n) = lookup(catalog.index, n)
<1>1. /\ GoodIndex(catalog.index, Usable(catalog.file))
      /\ GoodIndex(catalog'.index, Usable(catalog.file))
      /\ IsFiniteSet(Usable(catalog.file))
  <2>1. Usable(catalog.file) \in SUBSET DOMAIN Files[catalog.file]
    BY DEF Usable
  <2>2. IsFiniteSet(Usable(catalog.file))
    BY <2>1, PricingAssumption, FS_Subset DEF CatalogInv
  <2>3. catalog.index \in from_json(catalog.file) /\ catalog'.index \in from_json(catalog.file)
    BY DEF CatalogInv
  <2> QED BY <2>2, <2>3, FromJsonGood
<1> QED BY <1>1, LookupOfOneSource

-----------------------------------------------------------------------------
(* Sums.  The library adds up the values of a function over a set by       *)
(* taking out some element, again and again: here is what does not depend  *)
(* on which.                                                               *)

(* The element a fold takes next.                                          *)
Pick(S) == CHOOSE x \in S : TRUE

(* One step of a sum over S, from the sums h of smaller sets.              *)
Plus(g, h, S) == IF S = {} THEN 0 ELSE g[Pick(S)] + h[S \ {Pick(S)}]

(* h gives the sum of g over every subset of U.                            *)
IsSum(h, g, U) == h = [S \in SUBSET U |-> Plus(g, h, S)]

(* Sums over a set agree.                                                  *)
LEMMA SumUnique ==
  ASSUME NEW U, IsFiniteSet(U), NEW A \in SUBSET U, NEW B \in SUBSET U,
         NEW g, NEW x, NEW y, IsSum(x, g, A), IsSum(y, g, B),
         NEW S, S \in SUBSET A, S \in SUBSET B
  PROVE  x[S] = y[S]
<1> DEFINE T == {V \in SUBSET S : x[V] # y[V]}
<1> SUFFICES ASSUME T # {} PROVE FALSE
  OBVIOUS
<1>1. PICK V \in T : \A W \in T : W \subseteq V => W = V
  <2>1. T \in SUBSET (SUBSET U)
    OBVIOUS
  <2> HIDE DEF T
  <2> QED BY <2>1, LeastSubset
<1>2. x[V] = Plus(g, x, V) /\ y[V] = Plus(g, y, V)
  BY DEF IsSum
<1>3. CASE V = {}
  BY <1>2, <1>3 DEF Plus
<1>4. CASE V # {}
  <2>1. Pick(V) \in V
    BY <1>4 DEF Pick
  <2>2. x[V \ {Pick(V)}] = y[V \ {Pick(V)}]
    <3> SUFFICES ASSUME x[V \ {Pick(V)}] # y[V \ {Pick(V)}] PROVE FALSE
      OBVIOUS
    <3>1. V \ {Pick(V)} \in T /\ V \ {Pick(V)} \subseteq V /\ V \ {Pick(V)} # V
      BY <2>1
    <3> HIDE DEF T
    <3> QED BY <3>1, <1>1
  <2> QED BY <1>2, <1>4, <2>2 DEF Plus
<1> QED BY <1>3, <1>4

(* Every finite set has a sum.                                             *)
LEMMA SumExists ==
  ASSUME NEW U, IsFiniteSet(U), NEW g
  PROVE  \E h : IsSum(h, g, U)
<1> DEFINE T == {V \in SUBSET U : ~\E h : IsSum(h, g, V)}
<1> SUFFICES ASSUME T # {} PROVE FALSE
  OBVIOUS
<1>1. PICK V \in T : \A W \in T : W \subseteq V => W = V
  <2>1. T \in SUBSET (SUBSET U)
    OBVIOUS
  <2> HIDE DEF T
  <2> QED BY <2>1, LeastSubset
<1>2. V \in SUBSET U /\ ~\E h : IsSum(h, g, V)
  OBVIOUS
<1>3. \A W \in SUBSET U : W \subseteq V /\ W # V => \E h : IsSum(h, g, W)
  BY <1>1
<1> HIDE DEF T
<1> DEFINE G(W) == CHOOSE h : IsSum(h, g, W)
           last == [W \in SUBSET V |-> G(W)[W]]
           sum == [S \in SUBSET V |-> Plus(g, last, S)]
<1>4. \A W \in SUBSET V : W # V => IsSum(G(W), g, W)
  BY <1>2, <1>3
<1> HIDE DEF G
<1>5. ASSUME NEW W \in SUBSET V, W # V PROVE sum[W] = last[W]
  <2>1. IsSum(G(W), g, W) /\ W \in SUBSET U
    BY <1>2, <1>4, <1>5
  <2>2. G(W)[W] = Plus(g, G(W), W)
    BY <2>1 DEF IsSum
  <2>3. CASE W = {}
    BY <2>2, <2>3 DEF Plus
  <2>4. CASE W # {}
    <3> DEFINE X == W \ {Pick(W)}
    <3>1. X \in SUBSET V /\ X # V /\ X \in SUBSET W /\ X \in SUBSET U
      BY <1>2, <1>5
    <3>2. IsSum(G(X), g, X)
      BY <1>4, <3>1
    <3> HIDE DEF X
    <3>3. G(X)[X] = G(W)[X]
      BY <3>1, <3>2, <2>1, SumUnique
    <3>4. last[X] = G(W)[X]
      BY <3>1, <3>3
    <3> QED BY <2>2, <2>4, <3>4 DEF Plus, X
  <2> QED BY <2>3, <2>4
<1>6. ASSUME NEW S \in SUBSET V PROVE Plus(g, last, S) = Plus(g, sum, S)
  <2>1. CASE S = {}
    BY <2>1 DEF Plus
  <2>2. CASE S # {}
    <3>1. Pick(S) \in S
      BY <2>2 DEF Pick
    <3>2. S \ {Pick(S)} \in SUBSET V /\ S \ {Pick(S)} # V
      BY <3>1
    <3>3. last[S \ {Pick(S)}] = sum[S \ {Pick(S)}]
      BY <3>2, <1>5
    <3> HIDE DEF last, sum
    <3> QED BY <2>2, <3>3 DEF Plus
  <2> QED BY <2>1, <2>2
<1>7. IsSum(sum, g, V)
  <2>1. sum = [S \in SUBSET V |-> Plus(g, last, S)]
    OBVIOUS
  <2> HIDE DEF sum, last
  <2> QED BY <2>1, <1>6 DEF IsSum
<1> QED BY <1>2, <1>7

(* The library's sum solves the recursion.                                 *)
LEMMA SumSolved ==
  ASSUME NEW S, IsFiniteSet(S), NEW g
  PROVE  \E h : IsSum(h, g, S) /\ SumFunctionOnSet(g, S) = h[S]
<1> DEFINE iter == CHOOSE h : IsSum(h, g, S)
<1>1. IsSum(iter, g, S)
  BY SumExists
<1>2. SumFunctionOnSet(g, S) = iter[S]
  BY DEF SumFunctionOnSet, FoldFunctionOnSet, MapThenFoldSet, IsSum, Plus, Pick
<1> QED BY <1>1, <1>2

(* Whatever solves the recursion of a sum is the sum.                      *)
LEMMA SumIs ==
  ASSUME NEW U, IsFiniteSet(U), NEW g, NEW h, IsSum(h, g, U), NEW S \in SUBSET U
  PROVE  SumFunctionOnSet(g, S) = h[S]
<1>1. IsFiniteSet(S)
  BY FS_Subset
<1>2. PICK x : IsSum(x, g, S) /\ SumFunctionOnSet(g, S) = x[S]
  BY <1>1, SumSolved
<1>3. S \in SUBSET S
  OBVIOUS
<1> QED BY <1>2, <1>3, SumUnique

(* The sum of nothing.                                                     *)
LEMMA SumEmpty ==
  ASSUME NEW g
  PROVE  SumFunctionOnSet(g, {}) = 0
<1>1. PICK h : IsSum(h, g, {}) /\ SumFunctionOnSet(g, {}) = h[{}]
  BY SumSolved, FS_EmptySet
<1> QED BY <1>1 DEF IsSum, Plus

(* The recursion of a sum.                                                 *)
LEMMA SumStep ==
  ASSUME NEW S, IsFiniteSet(S), S # {}, NEW g
  PROVE  SumFunctionOnSet(g, S) = g[Pick(S)] + SumFunctionOnSet(g, S \ {Pick(S)})
<1>1. PICK h : IsSum(h, g, S) /\ SumFunctionOnSet(g, S) = h[S]
  BY SumSolved
<1>2. h[S] = g[Pick(S)] + h[S \ {Pick(S)}]
  BY <1>1 DEF IsSum, Plus
<1>3. SumFunctionOnSet(g, S \ {Pick(S)}) = h[S \ {Pick(S)}]
  <2>1. S \ {Pick(S)} \in SUBSET S
    OBVIOUS
  <2> QED BY <1>1, <2>1, SumIs
<1> QED BY <1>1, <1>2, <1>3

(* A sum of naturals is one.                                               *)
LEMMA SumNat ==
  ASSUME NEW S, IsFiniteSet(S), NEW g, \A i \in S : g[i] \in Nat
  PROVE  SumFunctionOnSet(g, S) \in Nat
<1> DEFINE T == {V \in SUBSET S : SumFunctionOnSet(g, V) \notin Nat}
<1> SUFFICES ASSUME T # {} PROVE FALSE
  OBVIOUS
<1>1. PICK V \in T : \A W \in T : W \subseteq V => W = V
  <2>1. T \in SUBSET (SUBSET S)
    OBVIOUS
  <2> HIDE DEF T
  <2> QED BY <2>1, LeastSubset
<1>2. V \in SUBSET S /\ SumFunctionOnSet(g, V) \notin Nat /\ IsFiniteSet(V)
  BY FS_Subset
<1>3. CASE V = {}
  BY <1>2, <1>3, SumEmpty
<1>4. CASE V # {}
  <2>1. Pick(V) \in V
    BY <1>4 DEF Pick
  <2>2. SumFunctionOnSet(g, V \ {Pick(V)}) \in Nat
    BY <2>1, <1>1
  <2>3. SumFunctionOnSet(g, V) = g[Pick(V)] + SumFunctionOnSet(g, V \ {Pick(V)})
    BY <1>2, <1>4, SumStep
  <2>4. g[Pick(V)] \in Nat
    BY <2>1, <1>2
  <2> QED BY <1>2, <2>2, <2>3, <2>4
<1> QED BY <1>3, <1>4

(* Any element can be taken out of a sum.                                  *)
LEMMA SumRemove ==
  ASSUME NEW S, IsFiniteSet(S), NEW g, \A i \in S : g[i] \in Nat, NEW a \in S
  PROVE  SumFunctionOnSet(g, S) = g[a] + SumFunctionOnSet(g, S \ {a})
<1> DEFINE T == {V \in SUBSET S : \E x \in V : SumFunctionOnSet(g, V) # g[x] + SumFunctionOnSet(g, V \ {x})}
<1> SUFFICES ASSUME T # {} PROVE FALSE
  OBVIOUS
<1>1. PICK V \in T : \A W \in T : W \subseteq V => W = V
  <2>1. T \in SUBSET (SUBSET S)
    OBVIOUS
  <2> HIDE DEF T
  <2> QED BY <2>1, LeastSubset
<1>2. PICK x \in V : SumFunctionOnSet(g, V) # g[x] + SumFunctionOnSet(g, V \ {x})
  OBVIOUS
<1> DEFINE c == Pick(V)
<1>3. c \in V
  BY <1>2 DEF Pick
<1>4. IsFiniteSet(V) /\ IsFiniteSet(V \ {x}) /\ V \in SUBSET S
  BY FS_Subset
<1>5. SumFunctionOnSet(g, V) = g[c] + SumFunctionOnSet(g, V \ {c})
  BY <1>2, <1>4, SumStep
<1> HIDE DEF c
<1>6. x # c
  BY <1>2, <1>5
<1>7. \A W \in SUBSET V : W # V => \A y \in W : SumFunctionOnSet(g, W) = g[y] + SumFunctionOnSet(g, W \ {y})
  BY <1>1, <1>4
<1>8. SumFunctionOnSet(g, V \ {c}) = g[x] + SumFunctionOnSet(g, (V \ {c}) \ {x})
  BY <1>3, <1>6, <1>7
<1>9. SumFunctionOnSet(g, V \ {x}) = g[c] + SumFunctionOnSet(g, (V \ {x}) \ {c})
  BY <1>3, <1>6, <1>7
<1>10. (V \ {c}) \ {x} = (V \ {x}) \ {c}
  OBVIOUS
<1>11. g[c] \in Nat /\ g[x] \in Nat /\ SumFunctionOnSet(g, (V \ {x}) \ {c}) \in Nat
  <2>1. IsFiniteSet((V \ {x}) \ {c}) /\ \A i \in (V \ {x}) \ {c} : g[i] \in Nat
    BY <1>4, FS_Subset
  <2> QED BY <2>1, <1>3, <1>4, SumNat
<1> QED BY <1>2, <1>5, <1>8, <1>9, <1>10, <1>11

(* The sum over two sets that have nothing in common.                      *)
LEMMA SumUnion ==
  ASSUME NEW A, NEW B, IsFiniteSet(A), IsFiniteSet(B), A \cap B = {},
         NEW g, \A i \in A \cup B : g[i] \in Nat
  PROVE  SumFunctionOnSet(g, A \cup B) = SumFunctionOnSet(g, A) + SumFunctionOnSet(g, B)
<1> DEFINE T == {V \in SUBSET A : SumFunctionOnSet(g, V \cup B) # SumFunctionOnSet(g, V) + SumFunctionOnSet(g, B)}
<1> SUFFICES ASSUME T # {} PROVE FALSE
  OBVIOUS
<1>1. PICK V \in T : \A W \in T : W \subseteq V => W = V
  <2>1. T \in SUBSET (SUBSET A)
    OBVIOUS
  <2> HIDE DEF T
  <2> QED BY <2>1, LeastSubset
<1>2. /\ V \in SUBSET A /\ IsFiniteSet(V) /\ IsFiniteSet(V \cup B)
      /\ SumFunctionOnSet(g, V \cup B) # SumFunctionOnSet(g, V) + SumFunctionOnSet(g, B)
  BY FS_Subset, FS_Union
<1>3. \A W \in SUBSET V : W # V => SumFunctionOnSet(g, W \cup B) = SumFunctionOnSet(g, W) + SumFunctionOnSet(g, B)
  BY <1>1, <1>2
<1>4. SumFunctionOnSet(g, B) \in Nat
  BY SumNat
<1> HIDE DEF T
<1>5. CASE V = {}
  <2>1. V \cup B = B
    BY <1>5
  <2>2. SumFunctionOnSet(g, V \cup B) = SumFunctionOnSet(g, B)
    BY <2>1, Zenon
  <2>3. SumFunctionOnSet(g, V) = 0
    BY <1>5, SumEmpty
  <2> QED BY <1>2, <1>4, <2>2, <2>3
<1>6. CASE V # {}
  <2>1. PICK x \in V : TRUE
    BY <1>6
  <2>2. SumFunctionOnSet(g, V) = g[x] + SumFunctionOnSet(g, V \ {x})
    BY <1>2, SumRemove
  <2>3. SumFunctionOnSet(g, V \cup B) = g[x] + SumFunctionOnSet(g, (V \cup B) \ {x})
    <3>1. x \in V \cup B /\ \A i \in V \cup B : g[i] \in Nat
      BY <1>2
    <3> QED BY <3>1, <1>2, SumRemove
  <2>4. (V \cup B) \ {x} = (V \ {x}) \cup B
    BY <1>2
  <2>5. SumFunctionOnSet(g, (V \cup B) \ {x}) = SumFunctionOnSet(g, V \ {x}) + SumFunctionOnSet(g, B)
    <3>1. SumFunctionOnSet(g, (V \ {x}) \cup B) = SumFunctionOnSet(g, V \ {x}) + SumFunctionOnSet(g, B)
      BY <1>3
    <3> QED BY <3>1, <2>4, Zenon
  <2>6. SumFunctionOnSet(g, V \ {x}) \in Nat /\ g[x] \in Nat
    <3>1. IsFiniteSet(V \ {x}) /\ \A i \in V \ {x} : g[i] \in Nat
      BY <1>2, FS_Subset
    <3> QED BY <3>1, <1>2, SumNat
  <2> QED BY <1>2, <1>4, <2>2, <2>3, <2>5, <2>6
<1> QED BY <1>5, <1>6

(* More elements, a larger sum.                                            *)
LEMMA SumMonotone ==
  ASSUME NEW A, NEW B, IsFiniteSet(B), A \subseteq B, NEW g, \A i \in B : g[i] \in Nat
  PROVE  SumFunctionOnSet(g, A) <= SumFunctionOnSet(g, B)
<1>1. IsFiniteSet(A) /\ IsFiniteSet(B \ A) /\ A \cup (B \ A) = B /\ A \cap (B \ A) = {}
  BY FS_Subset
<1>2. SumFunctionOnSet(g, B) = SumFunctionOnSet(g, A) + SumFunctionOnSet(g, B \ A)
  <2>1. SumFunctionOnSet(g, A \cup (B \ A)) = SumFunctionOnSet(g, A) + SumFunctionOnSet(g, B \ A)
    BY <1>1, SumUnion
  <2> QED BY <1>1, <2>1, Zenon
<1>3. SumFunctionOnSet(g, A) \in Nat /\ SumFunctionOnSet(g, B \ A) \in Nat
  BY <1>1, SumNat
<1> QED BY <1>2, <1>3

(* A sum depends on the values it adds up only.                            *)
LEMMA SumSame ==
  ASSUME NEW S, IsFiniteSet(S), NEW g, NEW h, \A i \in S : g[i] = h[i]
  PROVE  SumFunctionOnSet(g, S) = SumFunctionOnSet(h, S)
<1>1. PICK y : IsSum(y, h, S)
  BY SumExists
<1>2. \A V \in SUBSET S : Plus(g, y, V) = Plus(h, y, V)
  BY DEF Plus, Pick
<1>3. IsSum(y, g, S)
  BY <1>1, <1>2 DEF IsSum
<1>4. y[S] = SumFunctionOnSet(g, S) /\ y[S] = SumFunctionOnSet(h, S)
  <2>1. S \in SUBSET S
    OBVIOUS
  <2> QED BY <1>1, <1>3, <2>1, SumIs
<1> QED BY <1>4

-----------------------------------------------------------------------------
(* Bills *)

(* Saturation cuts off what is above the largest amount.                   *)
LEMMA NanosCut ==
  ASSUME NEW n \in Nat
  PROVE  SaturatedNanos(n) = (IF n <= MaxNanos THEN n ELSE MaxNanos)
<1>1. CASE n <= MaxNanos
  <2>1. \A x \in {n, MaxNanos} : (\A y \in {n, MaxNanos} : x <= y) <=> x = n
    BY <1>1, PricingAssumption
  <2> QED BY <1>1, <2>1 DEF SaturatedNanos, Min
<1>2. CASE ~(n <= MaxNanos)
  <2>1. \A x \in {n, MaxNanos} : (\A y \in {n, MaxNanos} : x <= y) <=> x = MaxNanos
    BY <1>2, PricingAssumption
  <2> QED BY <1>2, <2>1 DEF SaturatedNanos, Min
<1> QED BY <1>1, <1>2

(* The same for a count of tokens that is in range.                        *)
LEMMA CountFits ==
  ASSUME NEW n \in Nat, n <= MaxCount
  PROVE  SaturatedCount(n) = n
<1>1. \A x \in {n, MaxCount} : (\A y \in {n, MaxCount} : x <= y) <=> x = n
  BY PricingAssumption
<1> QED BY <1>1 DEF SaturatedCount, Min

(* The larger of a number and zero.                                        *)
LEMMA AtLeastZero ==
  ASSUME NEW n \in Nat
  PROVE  Max({n, 0}) = n
<1>1. \A x \in {n, 0} : (\A y \in {n, 0} : x >= y) <=> x = n
  OBVIOUS
<1> QED BY <1>1 DEF Max

(* A sum over an interval, last element first.                             *)
LEMMA SumUpTo ==
  ASSUME NEW n \in Nat, NEW g, \A i \in 1 .. n + 1 : g[i] \in Nat
  PROVE  SumFunctionOnSet(g, 1 .. n + 1) = SumFunctionOnSet(g, 1 .. n) + g[n + 1]
<1>1. IsFiniteSet(1 .. n + 1) /\ IsFiniteSet(1 .. n) /\ n + 1 \in 1 .. n + 1
  BY FS_Interval
<1>2. SumFunctionOnSet(g, 1 .. n + 1) = g[n + 1] + SumFunctionOnSet(g, (1 .. n + 1) \ {n + 1})
  BY <1>1, SumRemove
<1>3. (1 .. n + 1) \ {n + 1} = 1 .. n
  OBVIOUS
<1>4. SumFunctionOnSet(g, (1 .. n + 1) \ {n + 1}) = SumFunctionOnSet(g, 1 .. n)
  BY <1>3, Zenon
<1>5. SumFunctionOnSet(g, 1 .. n) \in Nat /\ g[n + 1] \in Nat
  <2>1. \A i \in 1 .. n : g[i] \in Nat
    OBVIOUS
  <2> QED BY <1>1, <2>1, SumNat
<1> QED BY <1>2, <1>4, <1>5

(* The sum of eight lines.                                                 *)
LEMMA SumOfEight ==
  ASSUME NEW g, \A i \in 1 .. 8 : g[i] \in Nat
  PROVE  SumFunctionOnSet(g, 1 .. 8) =
           g[1] + g[2] + g[3] + g[4] + g[5] + g[6] + g[7] + g[8]
<1> DEFINE s(n) == SumFunctionOnSet(g, 1 .. n)
<1>1. \A n \in 0 .. 7 : s(n + 1) = s(n) + g[n + 1]
  <2> TAKE n \in 0 .. 7
  <2>1. n \in Nat /\ \A i \in 1 .. n + 1 : g[i] \in Nat
    OBVIOUS
  <2> QED BY <2>1, SumUpTo
<1>2. s(0) = 0
  <2>1. 1 .. 0 = {}
    OBVIOUS
  <2>2. s(0) = SumFunctionOnSet(g, {})
    BY <2>1, Zenon
  <2> QED BY <2>2, SumEmpty
<1> HIDE DEF s
<1>3. s(1) = g[1]
  BY <1>1, <1>2
<1>4. s(2) = g[1] + g[2]
  BY <1>1, <1>3
<1>5. s(3) = g[1] + g[2] + g[3]
  BY <1>1, <1>4
<1>6. s(4) = g[1] + g[2] + g[3] + g[4]
  BY <1>1, <1>5
<1>7. s(5) = g[1] + g[2] + g[3] + g[4] + g[5]
  BY <1>1, <1>6
<1>8. s(6) = g[1] + g[2] + g[3] + g[4] + g[5] + g[6]
  BY <1>1, <1>7
<1>9. s(7) = g[1] + g[2] + g[3] + g[4] + g[5] + g[6] + g[7]
  BY <1>1, <1>8
<1>10. s(8) = g[1] + g[2] + g[3] + g[4] + g[5] + g[6] + g[7] + g[8]
  BY <1>1, <1>9
<1> QED BY <1>10 DEF s

(* What compute_cost makes of its lines.                                   *)
Bill(lines) == SaturatedNanos(SumFunction([i \in DOMAIN lines |-> SaturatedNanos(lines[i])]))

(* Lines that are cut off one by one add up to what their sum is cut to.   *)
LEMMA LinesAddUp ==
  ASSUME NEW lines, DOMAIN lines = 1 .. 8, \A i \in 1 .. 8 : lines[i] \in Nat
  PROVE  Bill(lines) =
           SaturatedNanos(lines[1] + lines[2] + lines[3] + lines[4]
                            + lines[5] + lines[6] + lines[7] + lines[8])
<1> DEFINE cut == [i \in DOMAIN lines |-> SaturatedNanos(lines[i])]
           Cut(n) == IF n <= MaxNanos THEN n ELSE MaxNanos
           total == lines[1] + lines[2] + lines[3] + lines[4]
                      + lines[5] + lines[6] + lines[7] + lines[8]
           sum == cut[1] + cut[2] + cut[3] + cut[4] + cut[5] + cut[6] + cut[7] + cut[8]
<1>1. \A n \in Nat : SaturatedNanos(n) = Cut(n) /\ Cut(n) \in Nat
  BY NanosCut, PricingAssumption
<1>2. \A i \in 1 .. 8 : cut[i] = Cut(lines[i]) /\ cut[i] \in Nat
  <2> HIDE DEF Cut
  <2> QED BY <1>1
<1>3. SumFunction(cut) = SumFunctionOnSet(cut, 1 .. 8)
  BY Zenon DEF SumFunction
<1> HIDE DEF cut
<1>4. SumFunction(cut) = sum
  BY <1>2, <1>3, SumOfEight
<1>5. total \in Nat /\ sum \in Nat
  BY <1>2
<1>6. Cut(sum) = Cut(total)
  <2>1. CASE \A i \in 1 .. 8 : lines[i] <= MaxNanos
    <3>1. \A i \in 1 .. 8 : cut[i] = lines[i]
      BY <1>2, <2>1
    <3>2. sum = total
      BY <3>1
    <3> QED BY <3>2
  <2>2. ASSUME NEW i \in 1 .. 8, ~(lines[i] <= MaxNanos) PROVE Cut(sum) = Cut(total)
    <3>1. cut[i] = MaxNanos
      BY <1>2, <2>2
    <3>2. sum >= cut[i] /\ total >= lines[i]
      BY <1>2
    <3> HIDE DEF sum, total
    <3> QED BY <3>1, <3>2, <2>2, <1>5, PricingAssumption
  <2> QED BY <2>1, <2>2
<1> HIDE DEF Cut, sum, total
<1>7. SaturatedNanos(SumFunction(cut)) = SaturatedNanos(total)
  BY <1>1, <1>4, <1>5, <1>6
<1> QED BY <1>7, Zenon DEF cut, Bill, total

(* A product of naturals is one.                                           *)
LEMMA ProductNat ==
  ASSUME NEW m \in Nat, NEW n \in Nat
  PROVE  m * n \in Nat
OBVIOUS

(* With one price for input and one for output, every token is billed      *)
(* once: the lines are the tokens Usage calls billable at these prices.    *)
LEMMA FlatBill ==
  ASSUME NEW v, NEW p, NEW u, NEW in \in Nat, NEW out \in Nat, NEW opts \in CostOpts,
         p["input"] = {in}, p["output"] = {out},
         \A r \in Rates \ {"input", "output"} : p[r] = {},
         \A f \in UsageFields : u[f] \in Nat,
         v \in CacheExclusive \/ u["cache_read"] <= u["input"],
         u["input"] + u["cache_creation"] + u["cache_read"] <= MaxCount,
         u["output"] + u["reasoning"] <= MaxCount
  PROVE  compute_cost(v, p, u, opts) =
           SaturatedNanos(in * total_billable_input_tokens(v, u) + out * total_output_tokens(u))
<1>1. /\ u["input"] \in Nat /\ u["cache_creation"] \in Nat /\ u["cache_read"] \in Nat
      /\ u["output"] \in Nat /\ u["reasoning"] \in Nat /\ u["audio_in"] \in Nat
      /\ u["video_seconds"] \in Nat /\ u["search_queries"] \in Nat
  BY DEF UsageFields
<1>2. /\ p["input_batches"] = {} /\ p["input_200k"] = {} /\ p["output_batches"] = {}
      /\ p["output_200k"] = {} /\ p["cache_read"] = {} /\ p["cache_read_200k"] = {}
      /\ p["cache_creation"] = {} /\ p["cache_creation_200k"] = {}
      /\ p["cache_creation_1hr"] = {} /\ p["reasoning"] = {} /\ p["audio"] = {}
      /\ p["video"] = {} /\ p["search"] = {}
  BY DEF Rates
<1>3. \A x : Unwrap({x}, 0) = x /\ \A y : Unwrap({}, y) = y
  BY DEF Unwrap
<1>4. \A r \in Rates \ {"input", "output"} : \A b, o :
        OrElse(When(b, p[r]), o) = o /\ OrElse(p[r], o) = o
  BY DEF When, OrElse
<1>5. /\ pick_input_rate(p, opts) = in /\ pick_output_rate(p, opts) = out
      /\ pick_cache_read_rate(p, opts) = in /\ pick_cache_create_rate(p, opts) = in
  <2>1. \A b, o :
          /\ OrElse(When(b, p["input_batches"]), o) = o /\ OrElse(When(b, p["input_200k"]), o) = o
          /\ OrElse(When(b, p["output_batches"]), o) = o /\ OrElse(When(b, p["output_200k"]), o) = o
          /\ OrElse(When(b, p["cache_read_200k"]), o) = o /\ OrElse(p["cache_read"], o) = o
          /\ OrElse(When(b, p["cache_creation_200k"]), o) = o
          /\ OrElse(When(b, p["cache_creation_1hr"]), o) = o /\ OrElse(p["cache_creation"], o) = o
    BY <1>4 DEF Rates
  <2>2. Unwrap(p["input"], 0) = in /\ Unwrap(p["output"], 0) = out
    BY <1>3, Zenon
  <2>3. pick_input_rate(p, opts) = in
    BY <2>1, <2>2 DEF pick_input_rate
  <2>4. pick_output_rate(p, opts) = out
    BY <2>1, <2>2 DEF pick_output_rate
  <2>5. pick_cache_read_rate(p, opts) = in
    BY <2>1, <2>2 DEF pick_cache_read_rate
  <2>6. pick_cache_create_rate(p, opts) = in
    BY <2>1, <2>2 DEF pick_cache_create_rate
  <2> QED BY <2>3, <2>4, <2>5, <2>6
<1> DEFINE five == << u["output"] * out, u["reasoning"] * out, 0, 0, 0 >>
           lines == InputLines(v, p, u, opts) \o five
<1>6. compute_cost(v, p, u, opts) = Bill(lines)
  <2>1. /\ Unwrap(p["reasoning"], out) = out /\ Unwrap(p["audio"], 0) = 0
        /\ Unwrap(p["video"], 0) = 0 /\ Unwrap(p["search"], 0) = 0
    BY <1>2, <1>3
  <2>2. u["audio_in"] * 0 = 0 /\ u["video_seconds"] * 0 = 0 /\ u["search_queries"] * 0 = 0
    BY <1>1
  <2> QED BY <2>1, <2>2, <1>5, Zenon DEF compute_cost, Bill
<1>7. total_output_tokens(u) = u["output"] + u["reasoning"]
  BY <1>1, CountFits DEF total_output_tokens
<1>8. /\ u["output"] * out \in Nat /\ u["reasoning"] * out \in Nat
      /\ u["input"] * in \in Nat /\ u["cache_read"] * in \in Nat /\ u["cache_creation"] * in \in Nat
  BY <1>1, ProductNat
<1>9. out * (u["output"] + u["reasoning"]) = u["output"] * out + u["reasoning"] * out
  BY <1>1
<1>10. CASE v \in CacheExclusive
  <2>1. total_billable_input_tokens(v, u) = u["input"] + u["cache_creation"] + u["cache_read"]
    BY <1>1, <1>10, CountFits DEF total_billable_input_tokens
  <2>2. lines = << u["input"] * in, u["cache_read"] * in, u["cache_creation"] * in >> \o five
    BY <1>5, <1>10, Zenon DEF InputLines
  <2>3. in * (u["input"] + u["cache_creation"] + u["cache_read"]) =
          u["input"] * in + u["cache_read"] * in + u["cache_creation"] * in
    BY <1>1
  <2> HIDE DEF lines
  <2>4. compute_cost(v, p, u, opts) =
          SaturatedNanos(u["input"] * in + u["cache_read"] * in + u["cache_creation"] * in
                           + u["output"] * out + u["reasoning"] * out + 0 + 0 + 0)
    <3>1. /\ DOMAIN lines = 1 .. 8
          /\ lines[1] = u["input"] * in /\ lines[2] = u["cache_read"] * in
          /\ lines[3] = u["cache_creation"] * in /\ lines[4] = u["output"] * out
          /\ lines[5] = u["reasoning"] * out /\ lines[6] = 0 /\ lines[7] = 0 /\ lines[8] = 0
      BY <2>2
    <3>2. \A i \in 1 .. 8 : lines[i] \in Nat
      BY <3>1, <1>8
    <3> QED BY <3>1, <3>2, <1>6, LinesAddUp
  <2>5. u["input"] * in + u["cache_read"] * in + u["cache_creation"] * in
          + u["output"] * out + u["reasoning"] * out + 0 + 0 + 0
        = in * total_billable_input_tokens(v, u) + out * total_output_tokens(u)
    BY <1>7, <1>8, <1>9, <2>1, <2>3
  <2> QED BY <2>4, <2>5, Zenon
<1>11. CASE v \notin CacheExclusive
  <2>1. total_billable_input_tokens(v, u) = u["input"]
    BY <1>11 DEF total_billable_input_tokens
  <2>2. u["input"] - u["cache_read"] \in Nat
    BY <1>1, <1>11
  <2>3. Max({u["input"] - u["cache_read"], 0}) = u["input"] - u["cache_read"]
    BY <2>2, AtLeastZero
  <2>4. lines = << (u["input"] - u["cache_read"]) * in, u["cache_read"] * in,
                   0 >> \o five
    <3>1. u["cache_creation"] * 0 = 0 /\ Unwrap(p["cache_read"], in) = in
          /\ Unwrap(p["cache_creation"], 0) = 0
      BY <1>1, <1>2, <1>3
    <3> QED BY <3>1, <1>5, <1>11, <2>3, Zenon DEF InputLines
  <2>5. in * u["input"] = (u["input"] - u["cache_read"]) * in + u["cache_read"] * in
    BY <1>1
  <2>6. (u["input"] - u["cache_read"]) * in \in Nat
    BY <1>1, <2>2, ProductNat
  <2> HIDE DEF lines
  <2>7. compute_cost(v, p, u, opts) =
          SaturatedNanos((u["input"] - u["cache_read"]) * in + u["cache_read"] * in + 0
                           + u["output"] * out + u["reasoning"] * out + 0 + 0 + 0)
    <3>1. /\ DOMAIN lines = 1 .. 8
          /\ lines[1] = (u["input"] - u["cache_read"]) * in /\ lines[2] = u["cache_read"] * in
          /\ lines[3] = 0 /\ lines[4] = u["output"] * out
          /\ lines[5] = u["reasoning"] * out /\ lines[6] = 0 /\ lines[7] = 0 /\ lines[8] = 0
      BY <2>4
    <3>2. \A i \in 1 .. 8 : lines[i] \in Nat
      BY <3>1, <1>8, <2>6
    <3> QED BY <3>1, <3>2, <1>6, LinesAddUp
  <2>8. (u["input"] - u["cache_read"]) * in + u["cache_read"] * in + 0
          + u["output"] * out + u["reasoning"] * out + 0 + 0 + 0
        = in * total_billable_input_tokens(v, u) + out * total_output_tokens(u)
    BY <1>7, <1>8, <1>9, <2>1, <2>5, <2>6
  <2> QED BY <2>7, <2>8, Zenon
<1> QED BY <1>10, <1>11

-----------------------------------------------------------------------------
(* Prices are not negative *)

(* An optional number that is not negative, with such a default.           *)
LEMMA UnwrapNat ==
  ASSUME NEW o \in SUBSET Nat, NEW d \in Nat
  PROVE  Unwrap(o, d) \in Nat
BY DEF Unwrap

(* So is the first of two such numbers that is there.                      *)
LEMMA OrElseNat ==
  ASSUME NEW o \in SUBSET Nat, NEW q \in SUBSET Nat, NEW b
  PROVE  OrElse(o, q) \in SUBSET Nat /\ When(b, o) \in SUBSET Nat
BY DEF OrElse, When

(* Rounding keeps a price from falling below zero.                         *)
LEMMA RoundedNat ==
  ASSUME NEW n \in Nat
  PROVE  dollars_to_nanos(n) \in Nat
BY DEF dollars_to_nanos

(* A usable entry has one price for input, one for output, and no price    *)
(* below zero.                                                             *)
LEMMA RatesNat ==
  ASSUME NEW f \in DOMAIN Files, NEW k \in Usable(f)
  PROVE  /\ \A r \in Rates : PricingOf(f, k)[r] \in SUBSET Nat
         /\ \E in \in Nat : PricingOf(f, k)["input"] = {in}
         /\ \E out \in Nat : PricingOf(f, k)["output"] = {out}
<1>1. PICK raw \in Files[f][k] : PricingOf(f, k) = into_pricing(raw)
  BY DEF PricingOf, Usable
<1>2. \A r \in Rates \cap DOMAIN raw :
        IF r = "search" THEN \A s \in DOMAIN raw[r] : raw[r][s] \in Nat ELSE raw[r] \in Nat
  BY PriceAssumption DEF Usable
<1>3. ASSUME NEW r \in {"input", "output"}
      PROVE  \E n \in Nat : into_pricing(raw)[r] = {n}
  <2>1. Field(raw, r) \in SUBSET Nat
    BY <1>2, <1>3 DEF Field, Rates
  <2>2. dollars_to_nanos(Unwrap(Field(raw, r), 0)) \in Nat
    BY <2>1, UnwrapNat, RoundedNat
  <2>3. into_pricing(raw)[r] = {dollars_to_nanos(Unwrap(Field(raw, r), 0))}
    BY <1>3 DEF into_pricing, Rates
  <2> QED BY <2>2, <2>3
<1>4. into_pricing(raw)["search"] \in SUBSET Nat
  <2>1. into_pricing(raw)["search"] = {dollars_to_nanos(SearchCost(s)) : s \in Field(raw, "search")}
    BY DEF into_pricing, Rates
  <2>2. ASSUME NEW s \in Field(raw, "search") PROVE SearchCost(s) \in Nat
    <3>1. \A x : Field(s, x) \in SUBSET Nat
      BY <1>2 DEF Field, Rates
    <3>2. OrElse(Field(s, "high"), Field(s, "low")) \in SUBSET Nat
      BY <3>1, OrElseNat
    <3>3. OrElse(Field(s, "medium"), OrElse(Field(s, "high"), Field(s, "low"))) \in SUBSET Nat
      BY <3>1, <3>2, OrElseNat
    <3>4. OrElse(Field(s, "flat"), OrElse(Field(s, "medium"),
            OrElse(Field(s, "high"), Field(s, "low")))) \in SUBSET Nat
      BY <3>1, <3>3, OrElseNat
    <3> QED BY <3>4, UnwrapNat DEF SearchCost
  <2> QED BY <2>1, <2>2, RoundedNat
<1>5. ASSUME NEW r \in Rates \ {"input", "output", "search"}
      PROVE  into_pricing(raw)[r] \in SUBSET Nat
  <2>1. into_pricing(raw)[r] = {dollars_to_nanos(x) : x \in Field(raw, r)}
    BY <1>5 DEF into_pricing
  <2>2. Field(raw, r) \in SUBSET Nat
    BY <1>2, <1>5 DEF Field
  <2> QED BY <2>1, <2>2, RoundedNat
<1> QED BY <1>1, <1>3, <1>4, <1>5

(* What a lookup finds is a usable entry of the catalogue's file.          *)
LEMMA LookupUsable ==
  ASSUME CatalogInv, NEW n, NEW k \in lookup(catalog.index, n)
  PROVE  catalog.file \in DOMAIN Files /\ k \in Usable(catalog.file)
<1>1. GoodIndex(catalog.index, Usable(catalog.file)) /\ catalog.file \in DOMAIN Files
  BY CatalogGood DEF CatalogInv
<1>2. \E x \in DOMAIN catalog.index : k = catalog.index[x]
  BY LookupFinds
<1> QED BY <1>1, <1>2 DEF GoodIndex

(* What is left of a count is not negative.                                *)
LEMMA AboveZero ==
  ASSUME NEW n \in Int
  PROVE  Max({n, 0}) \in Nat
<1>1. CASE n >= 0
  BY <1>1, AtLeastZero
<1>2. CASE n < 0
  <2>1. \A x \in {n, 0} : (\A y \in {n, 0} : x >= y) <=> x = 0
    BY <1>2
  <2> QED BY <2>1 DEF Max
<1> QED BY <1>1, <1>2

(* A bill whose lines are not negative is not.                             *)
LEMMA BillNat ==
  ASSUME NEW lines, DOMAIN lines = 1 .. 8, \A i \in 1 .. 8 : lines[i] \in Nat
  PROVE  Bill(lines) \in Nat
<1>1. lines[1] + lines[2] + lines[3] + lines[4]
        + lines[5] + lines[6] + lines[7] + lines[8] \in Nat
  OBVIOUS
<1>2. \A n \in Nat : SaturatedNanos(n) \in Nat
  BY NanosCut, PricingAssumption
<1> QED BY <1>1, <1>2, LinesAddUp

(* No entry makes a cost negative.                                         *)
LEMMA CostNat ==
  ASSUME NEW v, NEW p, NEW u, NEW opts, \A r \in Rates : p[r] \in SUBSET Nat,
         \A f \in UsageFields : u[f] \in Nat
  PROVE  compute_cost(v, p, u, opts) \in Nat
<1>1. /\ u["input"] \in Nat /\ u["cache_creation"] \in Nat /\ u["cache_read"] \in Nat
      /\ u["output"] \in Nat /\ u["reasoning"] \in Nat /\ u["audio_in"] \in Nat
      /\ u["video_seconds"] \in Nat /\ u["search_queries"] \in Nat
  BY DEF UsageFields
<1>2. /\ p["input"] \in SUBSET Nat /\ p["output"] \in SUBSET Nat /\ p["input_batches"] \in SUBSET Nat
      /\ p["input_200k"] \in SUBSET Nat /\ p["output_batches"] \in SUBSET Nat
      /\ p["output_200k"] \in SUBSET Nat /\ p["cache_read"] \in SUBSET Nat
      /\ p["cache_read_200k"] \in SUBSET Nat /\ p["cache_creation"] \in SUBSET Nat
      /\ p["cache_creation_200k"] \in SUBSET Nat /\ p["cache_creation_1hr"] \in SUBSET Nat
      /\ p["reasoning"] \in SUBSET Nat /\ p["audio"] \in SUBSET Nat
      /\ p["video"] \in SUBSET Nat /\ p["search"] \in SUBSET Nat
  BY DEF Rates
<1>3. pick_input_rate(p, opts) \in Nat
  BY <1>2, OrElseNat, UnwrapNat DEF pick_input_rate
<1>4. pick_output_rate(p, opts) \in Nat
  BY <1>2, OrElseNat, UnwrapNat DEF pick_output_rate
<1>5. pick_cache_read_rate(p, opts) \in Nat
  BY <1>2, OrElseNat, UnwrapNat DEF pick_cache_read_rate
<1>6. pick_cache_create_rate(p, opts) \in Nat
  <2>1. OrElse(p["cache_creation"], p["input"]) \in SUBSET Nat
    BY <1>2, OrElseNat
  <2>2. OrElse(When(opts.hours1, p["cache_creation_1hr"]),
          OrElse(p["cache_creation"], p["input"])) \in SUBSET Nat
    BY <2>1, <1>2, OrElseNat
  <2> QED BY <2>2, <1>2, OrElseNat, UnwrapNat DEF pick_cache_create_rate
<1> DEFINE rate == pick_input_rate(p, opts)
           out == pick_output_rate(p, opts)
           three == InputLines(v, p, u, opts)
           five == << u["output"] * out,
                      u["reasoning"] * Unwrap(p["reasoning"], out),
                      u["audio_in"] * Unwrap(p["audio"], 0),
                      u["video_seconds"] * Unwrap(p["video"], 0),
                      u["search_queries"] * Unwrap(p["search"], 0) >>
<1>7. \E a, b, c \in Nat : three = <<a, b, c>>
  <2>1. /\ u["input"] * rate \in Nat
        /\ u["cache_read"] * pick_cache_read_rate(p, opts) \in Nat
        /\ u["cache_creation"] * pick_cache_create_rate(p, opts) \in Nat
    BY <1>1, <1>3, <1>5, <1>6, ProductNat
  <2>2. u["input"] - u["cache_read"] \in Int
    BY <1>1
  <2>3. Unwrap(p["cache_read"], rate) \in Nat /\ Unwrap(p["cache_creation"], 0) \in Nat
    BY <1>2, <1>3, UnwrapNat
  <2>4. /\ Max({u["input"] - u["cache_read"], 0}) * rate \in Nat
        /\ u["cache_read"] * Unwrap(p["cache_read"], rate) \in Nat
        /\ u["cache_creation"] * Unwrap(p["cache_creation"], 0) \in Nat
    BY <1>1, <1>3, <2>2, <2>3, AboveZero, ProductNat
  <2>5. CASE v \in CacheExclusive
    BY <2>1, <2>5, Zenon DEF InputLines
  <2>6. CASE v \notin CacheExclusive
    BY <2>4, <2>6, Zenon DEF InputLines
  <2> QED BY <2>5, <2>6
<1>8. \E a, b, c, d, e \in Nat : five = <<a, b, c, d, e>>
  <2>1. /\ Unwrap(p["reasoning"], out) \in Nat /\ Unwrap(p["audio"], 0) \in Nat
        /\ Unwrap(p["video"], 0) \in Nat /\ Unwrap(p["search"], 0) \in Nat
    BY <1>2, <1>4, UnwrapNat
  <2>2. /\ u["output"] * out \in Nat
        /\ u["reasoning"] * Unwrap(p["reasoning"], out) \in Nat
        /\ u["audio_in"] * Unwrap(p["audio"], 0) \in Nat
        /\ u["video_seconds"] * Unwrap(p["video"], 0) \in Nat
        /\ u["search_queries"] * Unwrap(p["search"], 0) \in Nat
    BY <2>1, <1>1, <1>4, ProductNat
  <2> QED BY <2>2, Zenon
<1>9. compute_cost(v, p, u, opts) = Bill(three \o five)
  BY Zenon DEF compute_cost, Bill
<1> HIDE DEF three, five
<1>10. PICK a, b, c \in Nat : three = <<a, b, c>>
  BY <1>7
<1>11. PICK d, e, f, g, h \in Nat : five = <<d, e, f, g, h>>
  BY <1>8
<1> DEFINE lines == three \o five
<1>12. /\ DOMAIN lines = 1 .. 8 /\ lines[1] = a /\ lines[2] = b /\ lines[3] = c /\ lines[4] = d
       /\ lines[5] = e /\ lines[6] = f /\ lines[7] = g /\ lines[8] = h
  BY <1>10, <1>11
<1> HIDE DEF lines
<1>13. \A i \in 1 .. 8 : lines[i] \in Nat
  BY <1>10, <1>11, <1>12
<1> QED BY <1>9, <1>12, <1>13, BillNat DEF lines
====
