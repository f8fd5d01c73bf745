-------------------------- MODULE Reflection_proofs --------------------------
(***************************************************************************)
(* Proofs about Reflection and the rollouts below it (Rollout), for any     *)
(* tasks, results, evaluations, manifests, recipes, generations, recoveries *)
(* and faults.                                                              *)
(*                                                                          *)
(* Shape holds the types, where the lines of the archive, the checkout and  *)
(* the operator stand at each stage, and what job directories and backups   *)
(* hold (JobInv); it gives TrialsAreKept.  Four invariants rest on it:      *)
(* AheInv (a replay shows the certified results, a manifest is of the edit  *)
(* that made its generation), MeasureInv (the cases of a Harbor job are     *)
(* what its own trials found), ImproveInv (what minibatch_improvement let   *)
(* through) and EvidenceInv (where evidence comes from).  They give         *)
(* ChangeIsJudged, AcceptedImproves and EvidenceIsMeasured.                 *)
(***************************************************************************)
EXTENDS Reflection, FiniteSetTheorems, WellFoundedInduction, TLAPS

------------------------------------------------------------------------------
(* What jobs, trials and recoveries are made of. *)

Codes == Nat \X Nat
Results == [task : Range(Train), kind : Kinds, code : Codes \cup {None}, run : Nat]
Attempts == [receipt : {"backing_up", "running", "resumed", "completed", "failed",
                        "timed_out", "interrupted"},
             backup : SUBSET Results]
Verbs == {"rollout", "validate"}
Owners == {None, "none", "running", "cancelling", "cancelled", "timed_out", "trial_limit",
           "failed", "completed"}
Jobs == [harbor : {"none", "running", "completed", "failed"},
         tasks : SUBSET Range(Train), trials : SUBSET Results,
         owner : Owners, cancel : BOOLEAN]

------------------------------------------------------------------------------
(* Numbers and finite sets. *)

LEMMA LeastNatural ==
  ASSUME NEW S \in SUBSET Nat, S # {}
  PROVE  \E x \in S : \A y \in S : x <= y
<1>1. PICK x \in S : \A y \in S : ~(<<y, x>> \in OpToRel(<, Nat))
  BY WFMin, NatLessThanWellFounded
<1>2. \A y \in S : ~(y < x)
  BY <1>1 DEF OpToRel
<1> QED BY <1>2

LEMMA GreatestIs ==
  ASSUME NEW n \in Nat, NEW S, S \subseteq 0..n, S # {}
  PROVE  Max(S) \in S /\ \A x \in S : x <= Max(S)
<1> DEFINE T == {n - x : x \in S}
<1>1. T \in SUBSET Nat /\ T # {}
  <2>1. \A x \in S : n - x \in Nat
    OBVIOUS
  <2> QED BY <2>1
<1>2. PICK t \in T : \A u \in T : t <= u
  BY <1>1, LeastNatural
<1>3. PICK x \in S : t = n - x
  BY <1>2
<1>4. \A y \in S : x >= y
  <2> TAKE y \in S
  <2>1. n - x <= n - y /\ x \in 0..n /\ y \in 0..n
    BY <1>2, <1>3
  <2> QED BY <2>1
<1>5. Max(S) \in S /\ \A y \in S : Max(S) >= y
  BY <1>4 DEF Max
<1>6. \A y \in S : y \in Nat
  OBVIOUS
<1> QED BY <1>5, <1>6

LEMMA LeastIs ==
  ASSUME NEW S, S \subseteq Nat, S # {}
  PROVE  Min(S) \in S /\ \A x \in S : Min(S) <= x
<1>1. \E x \in S : \A y \in S : x <= y
  BY LeastNatural
<1> QED BY <1>1 DEF Min

\* A finite set of numbers has a bound.
LEMMA Bounded ==
  ASSUME NEW S, IsFiniteSet(S), S \subseteq Nat
  PROVE  \E n \in Nat : S \subseteq 0..n
<1> DEFINE wrong == {n \in Nat : \E T \in SUBSET S : Cardinality(T) = n /\ ~\E m \in Nat : T \subseteq 0..m}
<1>1. \A T \in SUBSET S : IsFiniteSet(T) /\ Cardinality(T) \in Nat
  BY FS_Subset, FS_CardinalityType
<1>2. SUFFICES ASSUME wrong # {} PROVE FALSE
  <2>1. S \in SUBSET S
    OBVIOUS
  <2> QED BY <1>1, <2>1
<1>3. PICK n \in wrong : \A m \in wrong : n <= m
  <2>1. wrong \in SUBSET Nat
    OBVIOUS
  <2> HIDE DEF wrong
  <2> QED BY <1>2, <2>1, LeastNatural
<1>4. PICK T \in SUBSET S : Cardinality(T) = n /\ ~\E m \in Nat : T \subseteq 0..m
  BY <1>3
<1>5. T # {}
  <2>1. {} \subseteq 0..0 /\ 0 \in Nat
    OBVIOUS
  <2> QED BY <1>4, <2>1
<1>6. PICK x \in T : x \in Nat
  BY <1>5
<1> DEFINE rest == T \ {x}
<1>7. rest \in SUBSET S /\ Cardinality(rest) = n - 1 /\ n - 1 \in Nat
  <2>1. IsFiniteSet(T) /\ IsFiniteSet(rest) /\ Cardinality(rest) = Cardinality(T) - 1
    BY <1>1, <1>6, FS_RemoveElement
  <2>2. rest \in SUBSET S /\ Cardinality(rest) \in Nat
    BY <1>1
  <2> QED BY <1>4, <2>1, <2>2
<1>8. \E m \in Nat : rest \subseteq 0..m
  <2>1. n - 1 \notin wrong
    <3>1. n \in Nat
      OBVIOUS
    <3>2. ~(n <= n - 1)
      BY <3>1
    <3> QED BY <1>3, <3>2
  <2> QED BY <1>7, <2>1
<1>9. PICK m \in Nat : rest \subseteq 0..m
  BY <1>8
<1>10. m + x \in Nat /\ T \subseteq 0..m + x
  BY <1>6, <1>9
<1> QED BY <1>4, <1>10

LEMMA ImageFinite ==
  ASSUME NEW E, IsFiniteSet(E), NEW f
  PROVE  IsFiniteSet({f[x] : x \in E})
<1> DEFINE T == {f[x] : x \in E}
           h == [x \in E |-> f[x]]
<1>1. h \in Surjection(E, T)
  BY DEF Surjection
<1> HIDE DEF T, h
<1>2. IsFiniteSet(T)
  BY <1>1, FS_Surjection
<1> QED BY <1>2 DEF T

LEMMA GensFacts ==
  ASSUME Recipes # {}
  PROVE  \E N \in Nat : Gens = 0..N /\ \A r \in Recipes : MaxGen[r] \in 2..N
<1> DEFINE S == {MaxGen[r] : r \in Recipes}
<1>1. S \subseteq Nat /\ S # {} /\ \A x \in S : x >= 2
  <2>1. \A r \in Recipes : MaxGen[r] \in Nat /\ MaxGen[r] >= 2
    <3>1. \A r \in Recipes : MaxGen[r] \in Nat \ {0, 1}
      BY ReflectionAssumption
    <3> QED BY <3>1
  <2> QED BY <2>1
<1>2. IsFiniteSet(S)
  <2>1. IsFiniteSet({"gepa", "ahe", "aevolve"})
    <3>1. IsFiniteSet({"gepa"})
      BY FS_Singleton
    <3>2. IsFiniteSet({"gepa"} \cup {"ahe"})
      BY <3>1, FS_AddElement
    <3>3. IsFiniteSet({"gepa"} \cup {"ahe"} \cup {"aevolve"})
      BY <3>2, FS_AddElement
    <3>4. {"gepa"} \cup {"ahe"} \cup {"aevolve"} = {"gepa", "ahe", "aevolve"}
      OBVIOUS
    <3> QED BY <3>3, <3>4
  <2>2. IsFiniteSet(Recipes)
    BY <2>1, FS_Subset, ReflectionAssumption
  <2>3. IsFiniteSet({MaxGen[r] : r \in Recipes})
    BY <2>2, ImageFinite
  <2> QED BY <2>3
<1>3. \A r \in Recipes : MaxGen[r] \in S
  OBVIOUS
<1> DEFINE N == Max(S)
<1>4. Gens = 0..N
  BY DEF Gens
<1> HIDE DEF S
<1>5. PICK n \in Nat : S \subseteq 0..n
  BY <1>1, <1>2, Bounded
<1>6. N \in S /\ \A x \in S : x <= N
  BY <1>1, <1>5, GreatestIs
<1> HIDE DEF N
<1>7. N \in Nat /\ \A x \in S : x \in 2..N
  <2>1. N \in Nat
    BY <1>1, <1>6
  <2>2. \A x \in S : x \in Nat /\ x >= 2 /\ x <= N
    BY <1>1, <1>6
  <2> QED BY <2>1, <2>2
<1> QED BY <1>3, <1>4, <1>7

\* The sum of rewards that are 0 or 1 is the number of those that are 1.
LEMMA SumOfRewards ==
  ASSUME NEW f, IsFiniteSet(DOMAIN f), \A x \in DOMAIN f : f[x] \in {0, 1}
  PROVE  SumFunction(f) = Cardinality({x \in DOMAIN f : f[x] = 1})
<1> DEFINE S == DOMAIN f
           one(T) == CHOOSE x \in T : TRUE
           F(g) == [s \in SUBSET S |-> IF s = {} THEN 0 ELSE f[one(s)] + g[s \ {one(s)}]]
           it == CHOOSE g : g = F(g)
           ones(T) == {v \in T : f[v] = 1}
           count == [s \in SUBSET S |-> Cardinality(ones(s))]
<1>1. SumFunction(f) = it[S]
  BY DEF SumFunction, SumFunctionOnSet, FoldFunctionOnSet, MapThenFoldSet
<1>2. \A s \in SUBSET S : s # {} => one(s) \in s
  OBVIOUS
<1>3. \A s \in SUBSET S : IsFiniteSet(s) /\ IsFiniteSet(ones(s)) /\ Cardinality(ones(s)) \in Nat
  <2> TAKE s \in SUBSET S
  <2>1. IsFiniteSet(s)
    BY FS_Subset
  <2>2. ones(s) \in SUBSET s
    OBVIOUS
  <2> QED BY <2>1, <2>2, FS_Subset, FS_CardinalityType
<1>4. ASSUME NEW s \in SUBSET S, s # {}
      PROVE  Cardinality(ones(s)) = f[one(s)] + Cardinality(ones(s \ {one(s)}))
  <2> DEFINE x == one(s)
             rest == ones(s \ {x})
  <2>1. x \in s /\ f[x] \in {0, 1} /\ s \ {x} \in SUBSET S
    BY <1>2, <1>4
  <2>2. IsFiniteSet(rest) /\ Cardinality(rest) \in Nat
    BY <1>3, <2>1
  <2>3. ones(s) = IF f[x] = 1 THEN rest \cup {x} ELSE rest
    BY <2>1
  <2>4. x \notin rest
    OBVIOUS
  <2> HIDE DEF x, rest, ones
  <2>5. Cardinality(rest \cup {x}) = Cardinality(rest) + 1
    BY <2>2, <2>4, FS_AddElement
  <2>6. Cardinality(ones(s)) = f[x] + Cardinality(rest)
    BY <2>1, <2>2, <2>3, <2>5
  <2> QED BY <2>6 DEF x, rest
<1> HIDE DEF one
<1>5. ones({}) = {} /\ Cardinality(ones({})) = 0
  BY FS_EmptySet
<1>6. count = F(count)
  <2>1. \A s \in SUBSET S : s \ {one(s)} \in SUBSET S
    OBVIOUS
  <2>2. \A s \in SUBSET S : count[s] = F(count)[s]
    <3> TAKE s \in SUBSET S
    <3>1. CASE s = {}
      BY <1>5, <3>1
    <3>2. CASE s # {}
      BY <1>4, <2>1, <3>2
    <3> QED BY <3>1, <3>2
  <2> QED BY <2>2
<1>7. it = F(it)
  <2> HIDE DEF F, count
  <2> QED BY <1>6
<1>8. \A s \in SUBSET S : it[s] = IF s = {} THEN 0 ELSE f[one(s)] + it[s \ {one(s)}]
  <2> DEFINE g == it
  <2>1. g = F(g)
    BY <1>7
  <2> HIDE DEF g
  <2>2. \A s \in SUBSET S : F(g)[s] = IF s = {} THEN 0 ELSE f[one(s)] + g[s \ {one(s)}]
    OBVIOUS
  <2>3. \A s \in SUBSET S : g[s] = IF s = {} THEN 0 ELSE f[one(s)] + g[s \ {one(s)}]
    BY <2>1, <2>2
  <2> QED BY <2>3 DEF g
<1> HIDE DEF it, F, count
<1>9. \A s \in SUBSET S : it[s] = Cardinality(ones(s))
  <2> DEFINE wrong == {n \in Nat : \E s \in SUBSET S : Cardinality(s) = n /\ it[s] # Cardinality(ones(s))}
  <2>1. SUFFICES ASSUME wrong # {} PROVE FALSE
    <3>1. \A s \in SUBSET S : Cardinality(s) \in Nat
      BY <1>3, FS_CardinalityType
    <3> QED BY <3>1
  <2>2. wrong \in SUBSET Nat
    OBVIOUS
  <2>3. PICK n \in wrong : \A m \in wrong : n <= m
    <3> HIDE DEF wrong
    <3> QED BY <2>1, <2>2, LeastNatural
  <2>4. PICK s \in SUBSET S : Cardinality(s) = n /\ it[s] # Cardinality(ones(s))
    BY <2>3
  <2>5. s # {}
    BY <1>5, <1>8, <2>4
  <2> DEFINE rest == s \ {one(s)}
  <2>6. one(s) \in s
    BY <1>2, <2>5 DEF one
  <2>7. rest \in SUBSET S /\ Cardinality(rest) = n - 1 /\ n - 1 \in Nat
    <3>1. IsFiniteSet(s) /\ IsFiniteSet(rest) /\ Cardinality(s) \in Nat
      BY <1>3, <2>4, FS_CardinalityType
    <3>2. Cardinality(rest) = Cardinality(s) - 1
      BY <2>6, <3>1, FS_RemoveElement
    <3>3. Cardinality(rest) \in Nat
      BY <3>1, FS_CardinalityType
    <3> QED BY <2>4, <3>2, <3>3
  <2>8. it[rest] = Cardinality(ones(rest))
    <3>1. n - 1 \notin wrong
      BY <2>2, <2>3, <2>7
    <3> HIDE DEF ones, rest
    <3> QED BY <2>7, <3>1
  <2>9. it[s] = f[one(s)] + it[rest]
    BY <1>8, <2>5
  <2>10. Cardinality(ones(s)) = f[one(s)] + Cardinality(ones(rest))
    BY <1>4, <2>5
  <2> HIDE DEF ones, rest, wrong
  <2> QED BY <2>4, <2>8, <2>9, <2>10
<1> QED BY <1>1, <1>9

------------------------------------------------------------------------------
(* Selection. *)

Shrinks(next, all) == \A a \in SUBSET all : next[a] \subseteq a
Settles(g, next, dom) ==
  g = [a \in dom |-> IF next[a] = a THEN a ELSE g[next[a]]]

\* Sets that shrink come to rest, in a part of where they began.
LEMMA RestExists ==
  ASSUME NEW all, IsFiniteSet(all), NEW next, Shrinks(next, all)
  PROVE  \E g : Settles(g, next, SUBSET all)
<1> DEFINE upto(n) == {a \in SUBSET all : Cardinality(a) <= n}
           bad == {n \in Nat : ~\E g : Settles(g, next, upto(n))}
<1>1. \A a \in SUBSET all : IsFiniteSet(a) /\ Cardinality(a) \in Nat
  BY FS_Subset, FS_CardinalityType
<1>2. \A a \in SUBSET all : next[a] # a => next[a] \in SUBSET all /\ Cardinality(next[a]) < Cardinality(a)
  <2> TAKE a \in SUBSET all
  <2> HAVE next[a] # a
  <2>1. next[a] \subseteq a /\ IsFiniteSet(a)
    BY <1>1 DEF Shrinks
  <2>2. Cardinality(next[a]) <= Cardinality(a) /\ (Cardinality(a) = Cardinality(next[a]) => next[a] = a)
    BY <2>1, FS_Subset
  <2>3. Cardinality(next[a]) \in Nat /\ Cardinality(a) \in Nat
    BY <1>1, <2>1
  <2> QED BY <2>1, <2>2, <2>3
<1>3. bad = {}
  <2>1. SUFFICES ASSUME bad # {} PROVE FALSE
    OBVIOUS
  <2>2. bad \in SUBSET Nat
    OBVIOUS
  <2>3. PICK n \in bad : \A m \in bad : n <= m
    <3> HIDE DEF bad
    <3> QED BY <2>1, <2>2, LeastNatural
  <2>4. n \in Nat /\ ~\E g : Settles(g, next, upto(n))
    BY <2>3
  <2> DEFINE less == {a \in upto(n) : Cardinality(a) < n}
  <2>5. \E f : Settles(f, next, less)
    <3>1. CASE n = 0
      <4>1. less = {}
        BY <1>1, <3>1
      <4>2. Settles([a \in less |-> a], next, less)
        BY <4>1 DEF Settles
      <4> QED BY <4>2
    <3>2. CASE n # 0
      <4>1. n - 1 \in Nat /\ ~(n <= n - 1)
        BY <2>4, <3>2
      <4>2. n - 1 \notin bad
        BY <2>3, <4>1
      <4>3. less = upto(n - 1)
        <5>1. \A a \in SUBSET all : (Cardinality(a) <= n /\ Cardinality(a) < n) <=> Cardinality(a) <= n - 1
          BY <1>1, <2>4
        <5> QED BY <5>1
      <4> QED BY <4>1, <4>2, <4>3
    <3> QED BY <3>1, <3>2
  <2>6. PICK f : Settles(f, next, less)
    BY <2>5
  <2> DEFINE g == [a \in upto(n) |-> IF next[a] = a THEN a ELSE f[next[a]]]
  <2>7. \A a \in less : f[a] = IF next[a] = a THEN a ELSE f[next[a]]
    <3> HIDE DEF less
    <3> QED BY <2>6 DEF Settles
  <2>8. \A a \in upto(n) : next[a] # a => next[a] \in less
    <3> TAKE a \in upto(n)
    <3> HAVE next[a] # a
    <3>1. next[a] \in SUBSET all /\ Cardinality(next[a]) < Cardinality(a) /\ Cardinality(a) <= n
      BY <1>2
    <3>2. Cardinality(next[a]) \in Nat /\ Cardinality(a) \in Nat
      BY <1>1, <3>1
    <3> QED BY <2>4, <3>1, <3>2
  <2>9. \A a \in less : g[a] = f[a]
    BY <2>7
  <2>10. \A a \in upto(n) : g[a] = IF next[a] = a THEN a ELSE g[next[a]]
    BY <2>8, <2>9
  <2>11. Settles(g, next, upto(n))
    <3>1. g = [a \in upto(n) |-> g[a]]
      OBVIOUS
    <3> HIDE DEF upto, g
    <3> QED BY <2>10, <3>1 DEF Settles
  <2> QED BY <2>4, <2>11
<1>4. upto(Cardinality(all)) = SUBSET all /\ Cardinality(all) \in Nat
  BY FS_Subset, FS_CardinalityType
<1>5. Cardinality(all) \notin bad
  BY <1>3
<1> QED BY <1>4, <1>5

LEMMA RestIsPart ==
  ASSUME NEW all, IsFiniteSet(all), NEW next, Shrinks(next, all),
         NEW g, Settles(g, next, SUBSET all)
  PROVE  \A a \in SUBSET all : g[a] \subseteq a
<1> DEFINE bad == {n \in Nat : \E a \in SUBSET all : Cardinality(a) = n /\ ~(g[a] \subseteq a)}
<1>1. \A a \in SUBSET all : IsFiniteSet(a) /\ Cardinality(a) \in Nat
  BY FS_Subset, FS_CardinalityType
<1>2. SUFFICES ASSUME bad # {} PROVE FALSE
  BY <1>1
<1>3. PICK n \in bad : \A m \in bad : n <= m
  <2>1. bad \in SUBSET Nat
    OBVIOUS
  <2> HIDE DEF bad
  <2> QED BY <1>2, <2>1, LeastNatural
<1>4. PICK a \in SUBSET all : Cardinality(a) = n /\ ~(g[a] \subseteq a)
  BY <1>3
<1>5. g[a] = IF next[a] = a THEN a ELSE g[next[a]]
  BY DEF Settles
<1>6. next[a] # a /\ g[a] = g[next[a]] /\ next[a] \subseteq a
  BY <1>4, <1>5 DEF Shrinks
<1>7. Cardinality(next[a]) \in Nat /\ ~(n <= Cardinality(next[a]))
  <2>1. Cardinality(next[a]) <= Cardinality(a) /\ (Cardinality(a) = Cardinality(next[a]) => next[a] = a)
    BY <1>1, <1>6, FS_Subset
  <2> QED BY <1>1, <1>4, <1>6, <2>1
<1>8. g[next[a]] \subseteq next[a]
  BY <1>3, <1>6, <1>7
<1> QED BY <1>4, <1>6, <1>8

Ordered(S) == \A p \in S : p \in Nat /\ Score(p) \in Nat
Before(p, q) == Score(p) < Score(q) \/ (Score(p) = Score(q) /\ p < q)

LEMMA FirstExists ==
  ASSUME NEW S, S # {}, Ordered(S)
  PROVE  \E p \in S : \A q \in S \ {p} : Before(p, q)
<1> DEFINE scores == {Score(p) : p \in S}
<1>1. scores \in SUBSET Nat /\ scores # {}
  BY DEF Ordered
<1>2. PICK s \in scores : \A r \in scores : s <= r
  <2> HIDE DEF scores
  <2> QED BY <1>1, LeastNatural
<1> DEFINE T == {p \in S : Score(p) = s}
<1>3. T \in SUBSET Nat /\ T # {}
  BY <1>2 DEF Ordered
<1>4. PICK p \in T : \A q \in T : p <= q
  <2> HIDE DEF T
  <2> QED BY <1>3, LeastNatural
<1>5. p \in S /\ Score(p) = s /\ p \in Nat /\ s \in Nat
  BY <1>4 DEF Ordered
<1>6. ASSUME NEW q \in S \ {p} PROVE Before(p, q)
  <2>1. q \in Nat /\ Score(q) \in Nat /\ s <= Score(q)
    BY <1>2 DEF Ordered
  <2>2. Score(q) = s => p <= q
    BY <1>4
  <2> QED BY <1>5, <1>6, <2>1, <2>2 DEF Before
<1> QED BY <1>5, <1>6

LEMMA SurvivorsAre ==
  ASSUME NEW fronts, NEW all, all = UNION {fronts[t] : t \in DOMAIN fronts},
         IsFiniteSet(all), Ordered(all)
  PROVE  Survivors(fronts) \subseteq all
<1> DEFINE out(alive) == {p \in alive : Dominated(p, alive \ {p}, fronts)}
           first(S) == CHOOSE p \in S : \A q \in S \ {p} : Before(p, q)
           F(g) == [alive \in SUBSET all |->
                      IF out(alive) = {} THEN alive ELSE g[alive \ {first(out(alive))}]]
           prune == CHOOSE g : g = F(g)
           next == [a \in SUBSET all |-> IF out(a) = {} THEN a ELSE a \ {first(out(a))}]
<1>1. Survivors(fronts) = prune[all]
  BY DEF Survivors, Before
<1>2. \A a \in SUBSET all : out(a) # {} => first(out(a)) \in out(a)
  <2> TAKE a \in SUBSET all
  <2> DEFINE S == out(a)
  <2> HAVE S # {}
  <2>1. Ordered(S)
    BY DEF Ordered
  <2> HIDE DEF S
  <2>2. \E p \in S : \A q \in S \ {p} : Before(p, q)
    BY <2>1, FirstExists
  <2>3. first(S) \in S
    BY <2>2
  <2> QED BY <2>3 DEF S
<1>3. \A a \in SUBSET all : out(a) \subseteq a
  OBVIOUS
<1> HIDE DEF out, first
<1>4. \A a \in SUBSET all : /\ next[a] = (IF out(a) = {} THEN a ELSE a \ {first(out(a))})
                            /\ next[a] = a <=> out(a) = {}
                            /\ next[a] \subseteq a
  <2> TAKE a \in SUBSET all
  <2>1. CASE out(a) = {}
    BY <2>1
  <2>2. CASE out(a) # {}
    <3>1. first(out(a)) \in a
      BY <1>2, <1>3, <2>2
    <3>2. a \ {first(out(a))} # a
      BY <3>1
    <3> QED BY <2>2, <3>2
  <2> QED BY <2>1, <2>2
<1> HIDE DEF next
<1>5. \A g : g = F(g) <=> Settles(g, next, SUBSET all)
  <2> TAKE g
  <2>1. \A a \in SUBSET all : (IF next[a] = a THEN a ELSE g[next[a]])
                               = (IF out(a) = {} THEN a ELSE g[a \ {first(out(a))}])
    BY <1>4
  <2>2. F(g) = [a \in SUBSET all |-> IF next[a] = a THEN a ELSE g[next[a]]]
    BY <2>1
  <2> QED BY <2>2 DEF Settles
<1>6. Shrinks(next, all)
  BY <1>4 DEF Shrinks
<1>7. \E g : g = F(g)
  <2>1. PICK g : Settles(g, next, SUBSET all)
    BY <1>6, RestExists
  <2> HIDE DEF F
  <2> QED BY <1>5, <2>1
<1>8. prune = F(prune)
  <2> HIDE DEF F
  <2> QED BY <1>7
<1> HIDE DEF prune, F
<1>9. Settles(prune, next, SUBSET all)
  BY <1>5, <1>8
<1>10. prune[all] \subseteq all
  <2>1. \A a \in SUBSET all : prune[a] \subseteq a
    BY <1>6, <1>9, RestIsPart
  <2>2. all \in SUBSET all
    OBVIOUS
  <2> HIDE DEF prune
  <2> QED BY <2>1, <2>2
<1> QED BY <1>1, <1>10

\* What the archive holds of a committed generation, and its certificate.
Certificate(c) ==
  /\ DOMAIN c = {"base", "repaired", "repair"}
  /\ DOMAIN c.repair = c.repaired /\ c.repaired \subseteq DOMAIN c.base
  /\ IsFiniteSet(DOMAIN c.base)

Lines == [parent : Gens \cup {None}, code : Codes, valid : BOOLEAN]

ArchiveShape ==
  /\ DOMAIN archive = Gens /\ DOMAIN certified = Gens
  /\ \A g \in Gens : archive[g] # None => archive[g] \in Lines /\ Certificate(certified[g])

LEMMA RewardIs ==
  ASSUME NEW kind
  PROVE  Reward(kind) \in {0, 1, None}
  BY DEF Reward

LEMMA ScoreIsNumber ==
  ASSUME NEW p, Certificate(certified[p])
  PROVE  Score(p) \in Nat
<1> DEFINE f == [t \in Scored(p) |-> Reward(Final(p)[t])]
<1>1. IsFiniteSet(Scored(p))
  <2>1. DOMAIN Final(p) = DOMAIN certified[p].base
    BY DEF Final
  <2>2. Scored(p) \subseteq DOMAIN certified[p].base
    BY <2>1 DEF Scored
  <2> QED BY <2>2, FS_Subset DEF Certificate
<1>2. \A t \in DOMAIN f : f[t] \in {0, 1}
  BY RewardIs DEF Scored
<1>3. Score(p) = SumFunction(f)
  BY DEF Score
<1>4. DOMAIN f = Scored(p)
  OBVIOUS
<1> HIDE DEF f
<1>5. SumFunction(f) = Cardinality({x \in DOMAIN f : f[x] = 1})
  BY <1>1, <1>2, <1>4, SumOfRewards
<1>6. IsFiniteSet({x \in DOMAIN f : f[x] = 1})
  BY <1>1, <1>4, FS_Subset
<1> QED BY <1>3, <1>5, <1>6, FS_CardinalityType

\* What is selected is a committed generation whose gate let it through.
LEMMA PicksAreParents ==
  ASSUME ArchiveShape, recipe \in Recipes, ValidParents # {}
  PROVE  Picks \subseteq ValidParents
<1>1. PICK N \in Nat : Gens = 0..N
  BY GensFacts
<1>2. ValidParents \subseteq 0..N
  BY <1>1 DEF ValidParents, ArchiveShape
<1>9. IsFiniteSet(0..N)
  BY FS_Interval
<1>3. Ordered(ValidParents)
  <2> SUFFICES ASSUME NEW p \in ValidParents PROVE p \in Nat /\ Score(p) \in Nat
    BY DEF Ordered
  <2>1. p \in Gens /\ archive[p] # None
    BY DEF ValidParents, ArchiveShape
  <2> QED BY <1>1, <2>1, ScoreIsNumber DEF ArchiveShape
<1>4. Best \subseteq ValidParents /\ Best # {}
  <2> DEFINE scores == {Score(p) : p \in ValidParents}
  <2>1. scores \subseteq Nat /\ scores # {}
    BY <1>3 DEF Ordered
  <2>2. IsFiniteSet(scores)
    <3>1. IsFiniteSet(ValidParents)
      BY <1>2, <1>9, FS_Subset
    <3> DEFINE f == [p \in ValidParents |-> Score(p)]
    <3>2. scores = {f[p] : p \in ValidParents}
      OBVIOUS
    <3> HIDE DEF f
    <3>3. IsFiniteSet({f[p] : p \in ValidParents})
      BY <3>1, ImageFinite
    <3> QED BY <3>2, <3>3
  <2>3. PICK n \in Nat : scores \subseteq 0..n
    <3> HIDE DEF scores
    <3> QED BY <2>1, <2>2, Bounded
  <2>4. Max(scores) \in scores /\ \A x \in scores : x <= Max(scores)
    <3> HIDE DEF scores
    <3> QED BY <2>1, <2>3, GreatestIs
  <2>5. PICK p \in ValidParents : Score(p) = Max(scores)
    BY <2>4
  <2>6. \A q \in ValidParents : Score(q) <= Score(p)
    BY <2>4, <2>5
  <2>7. p \in Best
    BY <2>5, <2>6 DEF Best
  <2> QED BY <2>7 DEF Best
<1>5. LatestPicks \subseteq ValidParents
  BY <1>2, GreatestIs DEF LatestPicks
<1>6. GreedyPicks \subseteq ValidParents
  <2>1. Best \subseteq Nat
    BY <1>2, <1>4
  <2>2. Min(Best) \in Best
    BY <1>4, <2>1, LeastIs
  <2> QED BY <1>4, <2>2 DEF GreedyPicks
<1>7. ParetoPicks \subseteq ValidParents
  <2> DEFINE fronts == Fronts(ValidParents)
             all == UNION {fronts[t] : t \in DOMAIN fronts}
  <2>1. all \subseteq ValidParents
    BY DEF Fronts
  <2>2. IsFiniteSet(all)
    <3>1. all \subseteq 0..N
      BY <1>2, <2>1
    <3> HIDE DEF all
    <3> QED BY <1>9, <3>1, FS_Subset
  <2>3. Ordered(all)
    BY <1>3, <2>1 DEF Ordered
  <2> HIDE DEF fronts
  <2>4. Survivors(fronts) \subseteq all
    BY <2>2, <2>3, SurvivorsAre
  <2>5. Survivors(Fronts(ValidParents)) \subseteq ValidParents
    BY <2>1, <2>4 DEF fronts
  <2> QED BY <1>4, <2>5 DEF ParetoPicks
<1>8. Picks \in {ParetoPicks, LatestPicks, GreedyPicks}
  <2>1. recipe \in {"gepa", "ahe", "aevolve"}
    BY ReflectionAssumption
  <2> QED BY <2>1 DEF Picks
<1> QED BY <1>5, <1>6, <1>7, <1>8

------------------------------------------------------------------------------
(* Job directories and their recoveries. *)

JobShape ==
  /\ jobs \in [Keys -> Jobs]
  /\ recoveries \in [Keys -> Seq(Attempts)]
  /\ recovery \in Keys \cup {None}
  /\ finished \subseteq Keys \X Results

Open(attempt) == attempt.receipt \in {"running", "backing_up"}
Held(k) == recovery = k \/ \E i \in 1..Len(recoveries[k]) : Open(recoveries[k][i])

\* A directory that Harbor never used is empty; where the operator says that its job
\* is over, a Harbor that still runs is that of a recovery; each task has one trial.
KeyInv(k) ==
  /\ ~Begun(k) => jobs[k].trials = {} /\ recoveries[k] = <<>>
  /\ jobs[k].harbor = "running" /\ jobs[k].owner \in Terminal => Held(k)
  /\ \A x \in jobs[k].trials : x.task \in jobs[k].tasks /\ <<k, x>> \in finished
  /\ \A x, y \in jobs[k].trials : x.task = y.task => x = y

\* While a recovery copies and until it starts Harbor, no Harbor writes the directory.
RecoveryInv ==
  recovery # None =>
    /\ recoveries[recovery] # <<>>
    /\ LET a == recoveries[recovery][Attempt]
       IN  /\ a.receipt \in {"backing_up", "running", "resumed"}
           /\ Open(a) => jobs[recovery].harbor # "running"
           /\ a.receipt = "backing_up" => a.backup = {}
           /\ a.receipt = "running" => a.backup = jobs[recovery].trials

JobInv ==
  /\ JobShape /\ RecoveryInv /\ TrialsAreKept
  /\ \A k \in Keys : KeyInv(k)

jobVars == <<jobs, recoveries, recovery, finished>>

LEMMA JobFrame ==
  ASSUME JobInv, UNCHANGED jobVars
  PROVE  JobInv'
<1>1. JobShape' /\ RecoveryInv' /\ TrialsAreKept'
  BY DEF JobInv, jobVars, JobShape, RecoveryInv, TrialsAreKept, Attempt, Open
<1>2. \A k \in Keys : KeyInv(k)'
  BY DEF JobInv, jobVars, KeyInv, Begun, Held, Open
<1> QED BY <1>1, <1>2 DEF JobInv

LEMMA LastChanged ==
  ASSUME NEW S, NEW s \in Seq(S), s # <<>>, NEW e \in S
  PROVE  LET t == [s EXCEPT ![Len(s)] = e]
         IN  /\ t \in Seq(S) /\ Len(t) = Len(s) /\ t # <<>> /\ t[Len(s)] = e
             /\ \A i \in 1..Len(s) : i # Len(s) => t[i] = s[i]
<1> DEFINE n == Len(s)
           t == [s EXCEPT ![n] = e]
<1>1. n \in Nat /\ n # 0 /\ s \in [1..n -> S] /\ n \in 1..n
  OBVIOUS
<1> HIDE DEF n
<1>2. t \in [1..n -> S] /\ t[n] = e /\ \A i \in 1..n : i # n => t[i] = s[i]
  BY <1>1
<1> HIDE DEF t
<1>3. t \in Seq(S) /\ Len(t) = n /\ t # <<>>
  BY <1>1, <1>2
<1> QED BY <1>2, <1>3 DEF n, t

\* The last attempt of a job changes.
LEMMA AttemptChanged ==
  ASSUME JobShape, NEW k \in Keys, recoveries[k] # <<>>, NEW a \in Attempts,
         recoveries' = [recoveries EXCEPT ![k] = [@ EXCEPT ![Len(recoveries[k])] = a]]
  PROVE  /\ recoveries' \in [Keys -> Seq(Attempts)]
         /\ Len(recoveries'[k]) = Len(recoveries[k]) /\ Len(recoveries[k]) \in Nat \ {0}
         /\ recoveries'[k] # <<>> /\ recoveries'[k][Len(recoveries[k])] = a
         /\ \A i \in 1..Len(recoveries[k]) : i # Len(recoveries[k]) => recoveries'[k][i] = recoveries[k][i]
         /\ \A j \in Keys : j # k => recoveries'[j] = recoveries[j]
<1>1. recoveries \in [Keys -> Seq(Attempts)] /\ recoveries[k] \in Seq(Attempts)
  BY DEF JobShape
<1> DEFINE s == recoveries[k]
           t == [s EXCEPT ![Len(s)] = a]
<1>2. recoveries' = [recoveries EXCEPT ![k] = t]
  OBVIOUS
<1>3. /\ t \in Seq(Attempts) /\ Len(t) = Len(s) /\ t # <<>> /\ t[Len(s)] = a
      /\ \A i \in 1..Len(s) : i # Len(s) => t[i] = s[i]
  BY <1>1, LastChanged
<1>4. Len(s) \in Nat \ {0}
  BY <1>1
<1> HIDE DEF t
<1>5. recoveries' \in [Keys -> Seq(Attempts)] /\ recoveries'[k] = t
      /\ \A j \in Keys : j # k => recoveries'[j] = recoveries[j]
  BY <1>1, <1>2, <1>3
<1> QED BY <1>3, <1>4, <1>5


LEMMA JobChanged ==
  ASSUME JobInv, NEW k \in Keys, NEW j \in Jobs, jobs' = [jobs EXCEPT ![k] = j],
         UNCHANGED <<recoveries, recovery, finished>>,
         j.trials = jobs[k].trials,
         j.harbor = "none" => jobs[k].harbor = "none",
         j.harbor = "running" =>
           \/ jobs[k].harbor = "running" /\ (j.owner \in Terminal => jobs[k].owner \in Terminal)
           \/ jobs[k].harbor = "none" /\ j.owner \notin Terminal,
         j.tasks = jobs[k].tasks \/ jobs[k].trials = {}
  PROVE  JobInv'
<1>1. JobShape' /\ jobs'[k] = j /\ \A i \in Keys : i # k => jobs'[i] = jobs[i]
  BY DEF JobInv, JobShape
<1>2. RecoveryInv'
  <2>1. CASE recovery = k /\ recovery # None
    <3>1. jobs[k].harbor # "none"
      <4>1. KeyInv(k) /\ recoveries[k] # <<>>
        BY <2>1 DEF JobInv, RecoveryInv
      <4> QED BY <4>1 DEF KeyInv, Begun
    <3>2. j.harbor = "running" => jobs[k].harbor = "running"
      BY <3>1
    <3> QED BY <1>1, <2>1, <3>2 DEF JobInv, RecoveryInv, Attempt, Open
  <2>2. CASE recovery # k
    BY <1>1, <2>2 DEF JobInv, JobShape, RecoveryInv, Attempt, Open
  <2>3. CASE recovery = None
    BY <2>3 DEF RecoveryInv
  <2> QED BY <2>1, <2>2, <2>3
<1>3. TrialsAreKept'
  <2> SUFFICES ASSUME NEW done \in finished
               PROVE  \/ done[2] \in jobs'[done[1]].trials
                      \/ \E i \in DOMAIN recoveries[done[1]] : done[2] \in recoveries[done[1]][i].backup
    BY DEF TrialsAreKept
  <2>1. jobs'[done[1]].trials = jobs[done[1]].trials
    <3>1. done[1] \in Keys
      BY DEF JobInv, JobShape
    <3> QED BY <1>1, <3>1
  <2> QED BY <2>1 DEF JobInv, TrialsAreKept
<1>4. ASSUME NEW i \in Keys PROVE KeyInv(i)'
  <2>1. KeyInv(i)
    BY DEF JobInv
  <2>2. Held(i)' <=> Held(i)
    BY DEF Held, Open
  <2>3. CASE i # k
    BY <1>1, <2>1, <2>2, <2>3 DEF KeyInv, Begun
  <2>4. CASE i = k
    <3>1. ~Begun(i)' => jobs'[i].trials = {} /\ recoveries'[i] = <<>>
      BY <1>1, <2>1, <2>4 DEF KeyInv, Begun
    <3>2. jobs'[i].harbor = "running" /\ jobs'[i].owner \in Terminal => Held(i)'
      BY <1>1, <2>1, <2>2, <2>4 DEF KeyInv
    <3>3. \A x \in jobs'[i].trials : x.task \in jobs'[i].tasks /\ <<i, x>> \in finished'
      BY <1>1, <2>1, <2>4 DEF KeyInv
    <3>4. \A x, y \in jobs'[i].trials : x.task = y.task => x = y
      BY <1>1, <2>1, <2>4 DEF KeyInv
    <3> QED BY <3>1, <3>2, <3>3, <3>4 DEF KeyInv
  <2> QED BY <2>3, <2>4
<1> QED BY <1>1, <1>2, <1>3, <1>4 DEF JobInv

LEMMA TrialKeepsJobs ==
  ASSUME JobInv, NEW k \in Keys, HarborTrial(k), checkout.code \in Codes \cup {None}
  PROVE  JobInv'
<1>1. jobs[k] \in Jobs /\ jobs[k].harbor = "running"
  BY DEF JobInv, JobShape, HarborTrial
<1>2. PICK t \in jobs[k].tasks \ {x.task : x \in jobs[k].trials}, kind \in Kinds :
        LET trial == [task |-> t, kind |-> kind, code |-> Candidate(k[1]), run |-> Len(recoveries[k])]
        IN  /\ jobs' = [jobs EXCEPT ![k].trials = @ \cup {trial}]
            /\ finished' = finished \cup {<<k, trial>>}
  BY DEF HarborTrial
<1> DEFINE trial == [task |-> t, kind |-> kind, code |-> Candidate(k[1]), run |-> Len(recoveries[k])]
<1>3. trial \in Results /\ trial.task = t
  <2>1. Candidate(k[1]) \in Codes \cup {None}
    BY DEF Candidate
  <2>2. Len(recoveries[k]) \in Nat
    BY DEF JobInv, JobShape
  <2>3. t \in Range(Train)
    BY <1>1 DEF Jobs
  <2> QED BY <2>1, <2>2, <2>3 DEF Results
<1>4. /\ jobs' = [jobs EXCEPT ![k] = [jobs[k] EXCEPT !.trials = @ \cup {trial}]]
      /\ finished' = finished \cup {<<k, trial>>}
      /\ recoveries' = recoveries /\ recovery' = recovery
  BY <1>2 DEF HarborTrial
<1>5. \A x \in jobs[k].trials : x.task # trial.task
  BY <1>3
<1>6. trial.task \in jobs[k].tasks
  BY <1>3
<1> HIDE DEF trial
<1>7. /\ jobs' \in [Keys -> Jobs] /\ \A i \in Keys : i # k => jobs'[i] = jobs[i]
      /\ jobs'[k].trials = jobs[k].trials \cup {trial}
      /\ jobs'[k].harbor = jobs[k].harbor /\ jobs'[k].owner = jobs[k].owner
      /\ jobs'[k].tasks = jobs[k].tasks
  <2>1. [jobs[k] EXCEPT !.trials = @ \cup {trial}] \in Jobs
    BY <1>1, <1>3 DEF Jobs
  <2>2. jobs \in [Keys -> Jobs]
    BY DEF JobInv, JobShape
  <2> QED BY <1>1, <1>4, <2>1, <2>2 DEF Jobs
<1>8. JobShape'
  BY <1>3, <1>4, <1>7 DEF JobInv, JobShape
<1>9. RecoveryInv'
  <2>1. recovery = k /\ recovery # None => ~Open(recoveries[k][Attempt])
    BY <1>1 DEF JobInv, RecoveryInv
  <2>2. recovery # None => recovery \in Keys
    BY DEF JobInv, JobShape
  <2> QED BY <1>4, <1>7, <2>1, <2>2 DEF JobInv, RecoveryInv, Attempt, Open
<1>10. TrialsAreKept'
  <2> SUFFICES ASSUME NEW done \in finished'
               PROVE  \/ done[2] \in jobs'[done[1]].trials
                      \/ \E i \in DOMAIN recoveries[done[1]] : done[2] \in recoveries[done[1]][i].backup
    BY <1>4 DEF TrialsAreKept
  <2>1. CASE done = <<k, trial>>
    BY <1>7, <2>1
  <2>2. CASE done \in finished
    <3>1. done[1] \in Keys
      BY <2>2 DEF JobInv, JobShape
    <3>2. jobs[done[1]].trials \subseteq jobs'[done[1]].trials
      BY <1>7, <3>1
    <3> QED BY <2>2, <3>2 DEF JobInv, TrialsAreKept
  <2> QED BY <1>4, <2>1, <2>2
<1>11. ASSUME NEW i \in Keys PROVE KeyInv(i)'
  <2>1. KeyInv(i) /\ (Held(i)' <=> Held(i))
    BY <1>4 DEF JobInv, Held, Open
  <2>2. CASE i # k
    BY <1>4, <1>7, <2>1, <2>2 DEF KeyInv, Begun
  <2>3. CASE i = k
    <3>1. Begun(i)'
      BY <1>1, <1>7, <2>3 DEF Begun
    <3>2. jobs'[i].harbor = "running" /\ jobs'[i].owner \in Terminal => Held(i)'
      BY <1>7, <2>1, <2>3 DEF KeyInv
    <3>3. \A x \in jobs'[i].trials : x.task \in jobs'[i].tasks /\ <<i, x>> \in finished'
      BY <1>4, <1>6, <1>7, <2>1, <2>3 DEF KeyInv
    <3>4. \A x, y \in jobs'[i].trials : x.task = y.task => x = y
      BY <1>5, <1>7, <2>1, <2>3 DEF KeyInv
    <3> QED BY <3>1, <3>2, <3>3, <3>4 DEF KeyInv
  <2> QED BY <2>2, <2>3
<1> QED BY <1>8, <1>9, <1>10, <1>11 DEF JobInv

LEMMA KeysAre ==
  ASSUME Recipes # {}
  PROVE  None \notin Keys
<1>1. PICK N \in Nat : Gens = 0..N
  BY GensFacts
<1>2. Keys \subseteq Nat \X {"rollout", "validate"}
  <2>1. Gens \subseteq Nat
    BY <1>1
  <2> QED BY <2>1 DEF Keys
<1> QED BY <1>2, RolloutAssumption

LEMMA RecoveryStartKeepsJobs ==
  ASSUME JobInv, None \notin Keys, NEW k \in Keys, RecoveryStart(k)
  PROVE  JobInv'
<1> DEFINE a == [receipt |-> "backing_up", backup |-> {}]
<1>1. /\ recovery = None /\ recovery' = k /\ Begun(k) /\ jobs[k].owner \in Terminal
      /\ recoveries' = [recoveries EXCEPT ![k] = Append(@, a)]
      /\ jobs' = jobs /\ finished' = finished
      /\ \A i \in 1..Len(recoveries[k]) : ~Open(recoveries[k][i])
  BY DEF RecoveryStart, Open
<1>2. jobs[k].harbor # "running"
  <2>1. KeyInv(k) /\ ~Held(k)
    BY <1>1 DEF JobInv, Held
  <2> QED BY <1>1, <2>1 DEF KeyInv
<1>3. a \in Attempts
  BY DEF Attempts
<1>4. PICK n \in Nat : n = Len(recoveries[k]) /\ recoveries[k] \in Seq(Attempts)
  BY DEF JobInv, JobShape
<1>5. /\ recoveries' \in [Keys -> Seq(Attempts)]
      /\ recoveries'[k] = Append(recoveries[k], a)
      /\ \A j \in Keys : j # k => recoveries'[j] = recoveries[j]
  <2> HIDE DEF a
  <2>1. Append(recoveries[k], a) \in Seq(Attempts)
    BY <1>3, <1>4
  <2> QED BY <1>1, <2>1 DEF JobInv, JobShape
<1>6. /\ Len(recoveries'[k]) = n + 1 /\ recoveries'[k][n + 1] = a /\ recoveries'[k] # <<>>
      /\ \A i \in 1..n : recoveries'[k][i] = recoveries[k][i]
  <2> HIDE DEF a
  <2> QED BY <1>3, <1>4, <1>5
<1>7. JobShape'
  BY <1>1, <1>5 DEF JobInv, JobShape
<1>8. RecoveryInv'
  BY <1>1, <1>2, <1>6 DEF RecoveryInv, Attempt
<1>9. TrialsAreKept'
  <2> SUFFICES ASSUME NEW done \in finished
               PROVE  \/ done[2] \in jobs[done[1]].trials
                      \/ \E i \in DOMAIN recoveries'[done[1]] : done[2] \in recoveries'[done[1]][i].backup
    BY <1>1 DEF TrialsAreKept
  <2>1. done[1] \in Keys
    BY DEF JobInv, JobShape
  <2>2. \/ done[2] \in jobs[done[1]].trials
        \/ \E i \in DOMAIN recoveries[done[1]] : done[2] \in recoveries[done[1]][i].backup
    BY DEF JobInv, TrialsAreKept
  <2>3. CASE done[1] # k
    BY <1>5, <2>1, <2>2, <2>3
  <2>4. CASE done[1] = k
    <3>1. DOMAIN recoveries[k] = 1..n /\ DOMAIN recoveries'[k] = 1..n + 1
      BY <1>4, <1>5, <1>6
    <3> QED BY <1>6, <2>2, <2>4, <3>1
  <2> QED BY <2>3, <2>4
<1>10. ASSUME NEW i \in Keys PROVE KeyInv(i)'
  <2>1. KeyInv(i)
    BY DEF JobInv
  <2>2. CASE i # k
    <3>1. Held(i) => Held(i)'
      BY <1>1, <1>5, <2>2 DEF Held, Open
    <3> QED BY <1>1, <1>5, <2>1, <2>2, <3>1 DEF KeyInv, Begun
  <2>3. CASE i = k
    <3>1. ~Begun(i)' => jobs'[i].trials = {} /\ recoveries'[i] = <<>>
      BY <1>1, <2>3 DEF Begun
    <3> QED BY <1>1, <1>2, <2>1, <2>3, <3>1 DEF KeyInv
  <2> QED BY <2>2, <2>3
<1> QED BY <1>7, <1>8, <1>9, <1>10 DEF JobInv

\* A step of the recovery changes its attempt, whose copies stay or become all trials.
LEMMA RecoveryStepKeepsJobs ==
  ASSUME JobInv, recovery # None, NEW k \in Keys, k = recovery, NEW a \in Attempts, NEW j \in Jobs,
         recoveries' = [recoveries EXCEPT ![k] = [@ EXCEPT ![Len(recoveries[k])] = a]],
         jobs' = [jobs EXCEPT ![k] = j], finished' = finished, recovery' \in {k, None},
         j.trials \subseteq jobs[k].trials, j.tasks = jobs[k].tasks, j.harbor # "none",
         recoveries[k][Attempt].backup \subseteq a.backup \cup j.trials,
         jobs[k].trials \subseteq a.backup \cup j.trials,
         recovery' = k => /\ a.receipt \in {"running", "backing_up", "resumed"}
                          /\ Open(a) => j.harbor # "running"
                          /\ a.receipt = "backing_up" => a.backup = {}
                          /\ a.receipt = "running" => a.backup = j.trials,
         recovery' = None => (j.harbor = "running" => Open(a))
  PROVE  JobInv'
<1>1. KeyInv(k) /\ recoveries[k] # <<>>
  BY DEF JobInv, RecoveryInv
<1> DEFINE n == Len(recoveries[k])
<1>2. /\ recoveries' \in [Keys -> Seq(Attempts)]
      /\ Len(recoveries'[k]) = n /\ n \in Nat \ {0}
      /\ recoveries'[k] # <<>> /\ recoveries'[k][n] = a
      /\ \A i \in 1..n : i # n => recoveries'[k][i] = recoveries[k][i]
      /\ \A i \in Keys : i # k => recoveries'[i] = recoveries[i]
  BY <1>1, AttemptChanged DEF JobInv
<1>3. Attempt = n
  BY DEF Attempt
<1> HIDE DEF n
<1>4. jobs' \in [Keys -> Jobs] /\ jobs'[k] = j /\ \A i \in Keys : i # k => jobs'[i] = jobs[i]
  BY DEF JobInv, JobShape
<1>5. JobShape'
  BY <1>2, <1>4 DEF JobInv, JobShape
<1>6. RecoveryInv'
  BY <1>2, <1>4 DEF RecoveryInv, Attempt
<1>7. DOMAIN recoveries[k] = 1..n /\ DOMAIN recoveries'[k] = 1..n
  <2>1. recoveries[k] \in Seq(Attempts) /\ recoveries'[k] \in Seq(Attempts)
    BY <1>2 DEF JobInv, JobShape
  <2> QED BY <1>2, <2>1 DEF n
<1>8. TrialsAreKept'
  <2> SUFFICES ASSUME NEW done \in finished
               PROVE  \/ done[2] \in jobs'[done[1]].trials
                      \/ \E i \in DOMAIN recoveries'[done[1]] : done[2] \in recoveries'[done[1]][i].backup
    BY DEF TrialsAreKept
  <2>1. done[1] \in Keys
    BY DEF JobInv, JobShape
  <2>2. \/ done[2] \in jobs[done[1]].trials
        \/ \E i \in DOMAIN recoveries[done[1]] : done[2] \in recoveries[done[1]][i].backup
    BY DEF JobInv, TrialsAreKept
  <2>3. CASE done[1] # k
    BY <1>2, <1>4, <2>1, <2>2, <2>3
  <2>4. CASE done[1] = k
    <3>1. n \in 1..n
      BY <1>2
    <3>2. done[2] \in a.backup \cup j.trials => \/ done[2] \in jobs'[k].trials
                                                \/ \E i \in 1..n : done[2] \in recoveries'[k][i].backup
      BY <1>2, <1>4, <3>1
    <3>3. CASE done[2] \in jobs[k].trials
      BY <1>7, <2>4, <3>2, <3>3
    <3>4. ASSUME NEW i \in 1..n, done[2] \in recoveries[k][i].backup
          PROVE  \E h \in 1..n : done[2] \in recoveries'[k][h].backup \/ done[2] \in jobs'[k].trials
      <4>1. CASE i = n
        BY <1>3, <3>1, <3>2, <3>4, <4>1
      <4>2. CASE i # n
        BY <1>2, <3>4, <4>2
      <4> QED BY <4>1, <4>2
    <3> QED BY <1>7, <2>2, <2>4, <3>3, <3>4
  <2> QED BY <2>3, <2>4
<1>9. ASSUME NEW i \in Keys PROVE KeyInv(i)'
  <2>1. KeyInv(i)
    BY DEF JobInv
  <2>2. CASE i # k
    <3>1. Held(i) => Held(i)'
      BY <1>2, <2>2 DEF Held, Open
    <3> QED BY <1>2, <1>4, <2>1, <2>2, <3>1 DEF KeyInv, Begun
  <2>3. CASE i = k
    <3>1. Begun(i)'
      BY <1>4, <2>3 DEF Begun
    <3>2. jobs'[i].harbor = "running" => Held(i)'
      <4>1. n \in 1..n
        BY <1>2
      <4>2. CASE recovery' = k
        BY <2>3, <4>2 DEF Held
      <4>3. CASE recovery' = None
        BY <1>2, <1>4, <2>3, <4>1, <4>3 DEF Held
      <4> QED BY <4>2, <4>3
    <3>3. \A x \in jobs'[i].trials : x.task \in jobs'[i].tasks /\ <<i, x>> \in finished'
      BY <1>4, <2>1, <2>3 DEF KeyInv
    <3>4. \A x, y \in jobs'[i].trials : x.task = y.task => x = y
      BY <1>4, <2>1, <2>3 DEF KeyInv
    <3> QED BY <3>1, <3>2, <3>3, <3>4 DEF KeyInv
  <2> QED BY <2>2, <2>3
<1> QED BY <1>5, <1>6, <1>8, <1>9 DEF JobInv

LEMMA RecoveryKeepsJobs ==
  ASSUME JobInv, None \notin Keys, BackUp \/ ResumeHarbor \/ RecoveryEnds \/ KillRecovery
  PROVE  JobInv'
<1>1. recovery # None
  BY DEF BackUp, ResumeHarbor, RecoveryEnds, KillRecovery
<1> DEFINE k == recovery
           old == recoveries[k][Attempt]
<1>2. /\ k \in Keys /\ recoveries[k] # <<>> /\ recoveries[k] \in Seq(Attempts) /\ jobs[k] \in Jobs
      /\ jobs \in [Keys -> Jobs] /\ recoveries \in [Keys -> Seq(Attempts)]
  BY <1>1 DEF JobInv, JobShape, RecoveryInv
<1>3. /\ old \in Attempts
      /\ old.receipt \in {"backing_up", "running", "resumed"}
      /\ Open(old) => jobs[k].harbor # "running"
      /\ old.receipt = "backing_up" => old.backup = {}
      /\ old.receipt = "running" => old.backup = jobs[k].trials
  <2>1. Attempt \in 1..Len(recoveries[k])
    BY <1>2 DEF Attempt
  <2> QED BY <1>1, <1>2, <2>1 DEF JobInv, RecoveryInv
<1>4. jobs[k].harbor # "none"
  <2>1. KeyInv(k)
    BY <1>2 DEF JobInv
  <2> QED BY <1>2, <2>1 DEF KeyInv, Begun
<1>5. TrialsAreKept /\ KeyInv(k)
  BY <1>2 DEF JobInv
<1> HIDE DEF k, old
<1>6. CASE BackUp
  <2> DEFINE a == [receipt |-> "running", backup |-> jobs[k].trials]
  <2>1. a \in Attempts /\ a.receipt = "running" /\ a.backup = jobs[k].trials /\ Open(a)
    BY <1>2 DEF Attempts, Jobs, Open
  <2>2. old.receipt = "backing_up" /\ jobs' = jobs /\ finished' = finished /\ recovery' = recovery
        /\ recoveries' = [recoveries EXCEPT ![k] = [@ EXCEPT ![Len(recoveries[k])] = a]]
    BY <1>6 DEF BackUp, Attempt, k, old
  <2>3. jobs' = [jobs EXCEPT ![k] = jobs[k]]
    BY <1>2, <2>2
  <2>4. jobs[k].harbor # "running" /\ old.backup = {}
    BY <1>3, <2>2 DEF Open
  <2>5. k \in Keys /\ k = recovery /\ recovery' = k /\ k # None
    BY <1>1, <1>2, <2>2 DEF k
  <2> HIDE DEF a
  <2> QED
    BY <1>1, <1>2, <1>4, <2>1, <2>2, <2>3, <2>4, <2>5, RecoveryStepKeepsJobs DEF old
<1>7. CASE ResumeHarbor
  <2>1. PICK errors \in SUBSET {kind \in Kinds : Raises(kind)} \ {{}} :
          jobs' = [jobs EXCEPT ![recovery].harbor = "running",
                               ![recovery].trials = {x \in @ : x.kind \notin errors}]
    BY <1>7 DEF ResumeHarbor
  <2> DEFINE j == [jobs[k] EXCEPT !.harbor = "running", !.trials = {x \in @ : x.kind \notin errors}]
             a == [old EXCEPT !.receipt = "resumed"]
  <2>2. jobs' = [jobs EXCEPT ![k] = j]
    BY <1>2, <2>1 DEF k
  <2>3. j \in Jobs /\ j.harbor = "running" /\ j.trials \subseteq jobs[k].trials /\ j.tasks = jobs[k].tasks
    BY <1>2 DEF Jobs
  <2>4. a \in Attempts /\ a.receipt = "resumed" /\ a.backup = old.backup /\ ~Open(a)
    BY <1>3 DEF Attempts, Open
  <2>5. old.receipt = "running" /\ finished' = finished /\ recovery' = recovery
        /\ recoveries' = [recoveries EXCEPT ![k] = [@ EXCEPT ![Len(recoveries[k])] = a]]
    BY <1>7 DEF ResumeHarbor, Attempt, k, old
  <2>6. old.backup = jobs[k].trials
    BY <1>3, <2>5
  <2>7. k \in Keys /\ k = recovery /\ recovery' = k /\ k # None
    BY <1>1, <1>2, <2>5 DEF k
  <2> HIDE DEF a, j
  <2> QED
    BY <1>1, <1>2, <2>2, <2>3, <2>4, <2>5, <2>6, <2>7, RecoveryStepKeepsJobs DEF old
<1>8. CASE RecoveryEnds
  <2>1. PICK status \in {"completed", "failed", "timed_out", "interrupted"} : Receipt(recovery, status)
    BY <1>8 DEF RecoveryEnds
  <2> DEFINE j == [jobs[k] EXCEPT !.harbor = IF @ = "completed" THEN @ ELSE "failed"]
             a == [old EXCEPT !.receipt = status]
  <2>2. jobs' = [jobs EXCEPT ![k] = j]
    BY <1>2, <1>8 DEF RecoveryEnds, k
  <2>3. j \in Jobs /\ j.harbor \notin {"running", "none"} /\ j.trials = jobs[k].trials /\ j.tasks = jobs[k].tasks
    BY <1>2 DEF Jobs
  <2>4. a \in Attempts /\ a.backup = old.backup
    BY <1>3 DEF Attempts
  <2>5. finished' = finished /\ recovery' = None
        /\ recoveries' = [recoveries EXCEPT ![k] = [@ EXCEPT ![Len(recoveries[k])] = a]]
    BY <1>8, <2>1 DEF RecoveryEnds, Receipt, Attempt, k, old
  <2>6. k \in Keys /\ k = recovery /\ recovery' # k /\ k # None
    BY <1>1, <1>2, <2>5 DEF k
  <2> HIDE DEF a, j
  <2> QED
    BY <1>1, <1>2, <2>2, <2>3, <2>4, <2>5, <2>6, RecoveryStepKeepsJobs DEF old
<1>9. CASE KillRecovery
  <2> DEFINE a == [old EXCEPT !.receipt = IF @ = "resumed" THEN "running" ELSE @]
  <2>1. jobs' = [jobs EXCEPT ![k] = jobs[k]]
    BY <1>2, <1>9 DEF KillRecovery, k
  <2>2. a \in Attempts /\ a.backup = old.backup /\ Open(a)
    BY <1>3 DEF Attempts, Open
  <2>3. finished' = finished /\ recovery' = None
        /\ recoveries' = [recoveries EXCEPT ![k] = [@ EXCEPT ![Len(recoveries[k])] = a]]
    BY <1>9 DEF KillRecovery, Attempt, k, old
  <2>4. k \in Keys /\ k = recovery /\ recovery' # k /\ k # None
    BY <1>1, <1>2, <2>3 DEF k
  <2> HIDE DEF a
  <2> QED
    BY <1>1, <1>2, <1>4, <2>1, <2>2, <2>3, <2>4, RecoveryStepKeepsJobs DEF old
<1> QED BY <1>6, <1>7, <1>8, <1>9

------------------------------------------------------------------------------
(* The operator that runs. *)

HarborStages == {"start", "launch", "running", "stopping", "collect", "state", "require",
                 "done", "failed"}
ReplayStages == {"verify", "materialize", "done", "failed"}

HarborOp(k) ==
  /\ op = [pc |-> op.pc, key |-> k, wanted |-> op.wanted, why |-> op.why]
  /\ op.pc \in HarborStages
  /\ op.why \in {None, "trial_limit", "cancelled", "timed_out"}
  /\ op.pc = "launch" => ~Begun(k)

ReplayOp(k) ==
  /\ op = [pc |-> op.pc, key |-> k, parent |-> parent, read |-> op.read]
  /\ op.pc \in ReplayStages

OpShape ==
  /\ pc \notin {"rollout", "validate"} => op = NoOp
  /\ pc = "rollout" /\ recipe = "ahe" => ReplayOp(Here)
  /\ pc = "rollout" /\ recipe # "ahe" => HarborOp(Here)
  /\ pc = "validate" => HarborOp(<<gen, "validate">>) /\ recipe = "gepa"

HarborOps == RolloutStart \/ RunHarbor \/ StopHarbor \/ HarborGone \/ StreamHeld
             \/ CollectCases \/ WriteHarborState \/ RequireCases

LEMMA BatchesAre ==
  ASSUME NEW wanted
  PROVE  \A tasks \in Batches(wanted) : tasks \subseteq Range(Train)
<1>1. Range(SubSeq(Train, 1, Min({Budget, Len(Train)}))) \subseteq Range(Train)
  <2> DEFINE m == Min({Budget, Len(Train)})
  <2>1. Train \in Seq(Seq(STRING)) /\ Len(Train) \in Nat /\ Budget \in Nat
    BY RolloutAssumption
  <2>2. m \in {Budget, Len(Train)} /\ m <= Len(Train)
    BY <2>1, LeastIs
  <2> HIDE DEF m
  <2>3. m \in Nat
    BY <2>1, <2>2
  <2>4. SubSeq(Train, 1, m) = [i \in 1..m |-> Train[i]] /\ DOMAIN SubSeq(Train, 1, m) = 1..m
    BY <2>1, <2>2, <2>3
  <2>5. 1..m \subseteq DOMAIN Train
    BY <2>1, <2>2, <2>3
  <2>6. Range(SubSeq(Train, 1, m)) \subseteq Range(Train)
    BY <2>4, <2>5 DEF Range
  <2> QED BY <2>6 DEF m
<1> QED BY <1>1 DEF Batches, kSubset

LEMMA HarborOpKeeps ==
  ASSUME JobInv, NEW k \in Keys, HarborOp(k), HarborOps
  PROVE  JobInv' /\ HarborOp(k)' /\ UNCHANGED <<checkout, certified>>
<1>1. /\ op.key = k /\ jobs[k] \in Jobs /\ jobs \in [Keys -> Jobs] /\ KeyInv(k)
      /\ op = [pc |-> op.pc, key |-> k, wanted |-> op.wanted, why |-> op.why]
      /\ op.why \in {None, "trial_limit", "cancelled", "timed_out"}
      /\ op.pc = "launch" => ~Begun(k)
  BY DEF JobInv, JobShape, HarborOp
<1>2. None \notin {"cancelled", "timed_out", "trial_limit"}
  BY RolloutAssumption
<1>3. UNCHANGED <<checkout, certified, recoveries, recovery, finished>>
  BY DEF HarborOps, RolloutStart, RunHarbor, StopHarbor, HarborGone, StreamHeld, CollectCases,
         WriteHarborState, RequireCases
<1>4. \A stage : OpGoes(stage) => op' = [pc |-> stage, key |-> k, wanted |-> op.wanted, why |-> op.why]
  BY <1>1 DEF OpGoes
<1>5. jobs' = jobs => JobInv'
  BY <1>3, JobFrame DEF jobVars
<1>6. ASSUME NEW stage \in HarborStages \ {"launch"}, OpGoes(stage) PROVE HarborOp(k)'
  BY <1>1, <1>4, <1>6 DEF HarborOp, HarborStages
<1>7. CASE RolloutStart
  <2>1. CASE ~Begun(k) /\ OpGoes("launch") /\ jobs' # jobs
    <3>1. PICK tasks \in Batches(op.wanted) : jobs' = [jobs EXCEPT ![k].tasks = tasks]
      BY <1>1, <1>7, <2>1 DEF RolloutStart
    <3> DEFINE j == [jobs[k] EXCEPT !.tasks = tasks]
    <3>2. jobs' = [jobs EXCEPT ![k] = j]
      BY <1>1, <3>1
    <3>3. tasks \in SUBSET Range(Train)
      BY BatchesAre
    <3>4. j \in Jobs /\ j.trials = jobs[k].trials /\ j.harbor = "none" /\ jobs[k].harbor = "none"
      BY <1>1, <2>1, <3>3 DEF Jobs, Begun
    <3>5. jobs[k].trials = {}
      BY <1>1, <2>1 DEF KeyInv
    <3> HIDE DEF j
    <3>6. JobInv' /\ jobs'[k] = j
      BY <1>1, <1>3, <3>2, <3>4, <3>5, JobChanged
    <3>7. HarborOp(k)'
      BY <1>1, <1>4, <2>1, <3>4, <3>6 DEF HarborOp, HarborStages, Begun
    <3> QED BY <1>3, <3>6, <3>7
  <2>2. CASE jobs' = jobs /\ OpGoes("failed")
    BY <1>3, <1>5, <1>6, <2>2 DEF HarborStages
  <2>3. CASE jobs' = jobs /\ ~Begun(k) /\ OpGoes("launch")
    <3>1. HarborOp(k)'
      BY <1>1, <1>4, <2>3 DEF HarborOp, HarborStages, Begun
    <3> QED BY <1>3, <1>5, <2>3, <3>1
  <2> QED BY <1>1, <1>7, <2>1, <2>2, <2>3 DEF RolloutStart
<1>8. CASE RunHarbor
  <2> DEFINE j == [jobs[k] EXCEPT !.harbor = IF jobs[k].cancel THEN @ ELSE "running",
                                  !.owner = IF jobs[k].cancel THEN "cancelled" ELSE "running"]
  <2>1. jobs' = [jobs EXCEPT ![k] = j]
    BY <1>1, <1>8 DEF RunHarbor
  <2>2. jobs[k].harbor = "none" /\ op.pc = "launch"
    BY <1>1, <1>8 DEF RunHarbor, Begun
  <2>3. j \in Jobs /\ j.trials = jobs[k].trials /\ j.tasks = jobs[k].tasks
        /\ j.harbor \in {"none", "running"} /\ (j.harbor = "running" => j.owner \notin Terminal)
    BY <1>1, <2>2 DEF Jobs, Owners, Terminal
  <2> HIDE DEF j
  <2>4. JobInv'
    BY <1>1, <1>3, <2>1, <2>2, <2>3, JobChanged
  <2>5. op' = IF jobs[k].cancel THEN [op EXCEPT !.pc = "collect", !.why = "cancelled"]
              ELSE [op EXCEPT !.pc = "running"]
    BY <1>1, <1>8 DEF RunHarbor
  <2>6. HarborOp(k)'
    BY <1>1, <2>5 DEF HarborOp, HarborStages
  <2> QED BY <1>3, <2>4, <2>6
<1>9. CASE StopHarbor
  <2>1. PICK reason \in {"trial_limit", "cancelled", "timed_out"} :
          op' = [op EXCEPT !.pc = "stopping", !.why = reason]
    BY <1>9 DEF StopHarbor
  <2> DEFINE j == [jobs[k] EXCEPT !.owner = "cancelling"]
  <2>2. jobs' = [jobs EXCEPT ![k] = j]
    BY <1>1, <1>9 DEF StopHarbor
  <2>3. j \in Jobs /\ j.trials = jobs[k].trials /\ j.tasks = jobs[k].tasks
        /\ j.harbor = jobs[k].harbor /\ j.owner \notin Terminal
    BY <1>1 DEF Jobs, Owners, Terminal
  <2> HIDE DEF j
  <2>4. JobInv'
    BY <1>1, <1>3, <2>2, <2>3, JobChanged
  <2>5. HarborOp(k)'
    BY <1>1, <2>1 DEF HarborOp, HarborStages
  <2> QED BY <1>3, <2>4, <2>5
<1>10. CASE HarborGone
  <2> DEFINE j == [jobs[k] EXCEPT !.harbor = IF Exited(k) THEN @ ELSE "failed",
                                  !.owner = IF op.why # None THEN op.why ELSE jobs[k].harbor]
  <2>1. jobs' = [jobs EXCEPT ![k] = j] /\ OpGoes("collect")
    BY <1>1, <1>10 DEF HarborGone
  <2>2. j \in Jobs /\ j.trials = jobs[k].trials /\ j.tasks = jobs[k].tasks
        /\ j.harbor \in {"completed", "failed"}
    BY <1>1 DEF Jobs, Owners, Exited
  <2> HIDE DEF j
  <2>3. JobInv'
    BY <1>1, <1>3, <2>1, <2>2, JobChanged
  <2>4. HarborOp(k)'
    BY <1>6, <2>1 DEF HarborStages
  <2> QED BY <1>3, <2>3, <2>4
<1>11. CASE StreamHeld
  <2> DEFINE j == [jobs[k] EXCEPT !.harbor = IF Exited(k) THEN @ ELSE "failed"]
  <2>1. jobs' = [jobs EXCEPT ![k] = j] /\ OpGoes("failed")
    BY <1>1, <1>11 DEF StreamHeld
  <2>2. j \in Jobs /\ j.trials = jobs[k].trials /\ j.tasks = jobs[k].tasks
        /\ j.harbor \in {"completed", "failed"}
    BY <1>1 DEF Jobs, Exited
  <2> HIDE DEF j
  <2>3. JobInv'
    BY <1>1, <1>3, <2>1, <2>2, JobChanged
  <2>4. HarborOp(k)'
    BY <1>6, <2>1 DEF HarborStages
  <2> QED BY <1>3, <2>3, <2>4
<1>12. CASE CollectCases \/ WriteHarborState \/ RequireCases
  <2>1. jobs' = jobs /\ (OpGoes("state") \/ OpGoes("require") \/ OpGoes("failed") \/ OpGoes("done"))
    BY <1>12 DEF CollectCases, WriteHarborState, RequireCases
  <2> QED BY <1>3, <1>5, <1>6, <2>1 DEF HarborStages
<1> QED BY <1>7, <1>8, <1>9, <1>10, <1>11, <1>12 DEF HarborOps

------------------------------------------------------------------------------
(* Generations. *)

Stages == {"select", "rollout", "analyze", "debug", "change", "feedback", "mutate",
           "validate", "evaluate", "record", "stopped", "end"}
BeforeEdit == {"rollout", "analyze", "debug", "change", "feedback", "mutate"}
AfterEdit == {"validate", "evaluate"}

FileShape ==
  /\ DOMAIN files = Gens \X Verbs
  /\ \A k \in DOMAIN files :
       files[k] = [cases |-> files[k].cases, state |-> files[k].state, summary |-> files[k].summary]

RunRecord(r) ==
  /\ r = [evidence |-> r.evidence, details |-> r.details, change |-> r.change, tried |-> r.tried,
          feedback |-> r.feedback, manifest |-> r.manifest, edits |-> r.edits,
          comparison |-> r.comparison, experience |-> r.experience]
  /\ r.edits \in Nat

RunShape == DOMAIN runs = Gens /\ \A g \in Gens : RunRecord(runs[g])

GenShape ==
  /\ recipe \in Recipes /\ gen \in 2..MaxGen[recipe] /\ pc \in Stages
  /\ checkout \in [gen : Gens \cup {None}, code : Codes \cup {None}]
  /\ pc \in {"debug", "change"} => recipe = "ahe"

\* Parents come before their children; the generation under way is not committed yet.
LineageShape ==
  /\ \A g \in Gens \ {0} : archive[g] # None => archive[g].parent \in 0..g - 1
  /\ \A g \in Gens : g > gen => archive[g] = None
  /\ pc \notin {"record", "stopped", "end"} => archive[gen] = None
  /\ pc \in BeforeEdit \cup AfterEdit => parent \in 0..gen - 1 /\ archive[parent] # None

\* The checkout is the parent's code until the agent edits it.
CheckoutShape ==
  /\ pc \in BeforeEdit => checkout = [gen |-> gen, code |-> Code(parent)]
  /\ pc \in AfterEdit => checkout = [gen |-> gen, code |-> <<gen, runs[gen].edits>>]

Shape ==
  /\ GenShape /\ LineageShape /\ CheckoutShape /\ ArchiveShape /\ RunShape /\ FileShape
  /\ OpShape /\ JobInv

LEMMA Numbers ==
  ASSUME GenShape
  PROVE  /\ \E N \in Nat : Gens = 0..N /\ MaxGen[recipe] \in 2..N
         /\ gen \in Gens \ {0, 1} /\ gen \in Nat /\ 0..gen - 1 \subseteq Gens /\ gen >= 2
         /\ Here \in Keys /\ <<gen, "validate">> \in Keys
         /\ Keys \subseteq Gens \X Verbs /\ None \notin Keys
         /\ gen < MaxGen[recipe] => gen + 1 \in 2..MaxGen[recipe] /\ gen + 1 \in Gens
<1>1. Recipes # {}
  BY DEF GenShape
<1>2. PICK N \in Nat : Gens = 0..N /\ MaxGen[recipe] \in 2..N
  BY <1>1, GensFacts DEF GenShape
<1>3. gen \in 2..MaxGen[recipe]
  BY DEF GenShape
<1>4. gen \in 2..N
  BY <1>2, <1>3
<1>5. gen \in Gens \ {0, 1} /\ gen \in Nat /\ 0..gen - 1 \subseteq Gens /\ gen >= 2
  BY <1>2, <1>4
<1>6. gen < MaxGen[recipe] => gen + 1 \in 2..MaxGen[recipe] /\ gen + 1 \in Gens
  BY <1>2, <1>3
<1>7. Here \in Keys /\ <<gen, "validate">> \in Keys
  BY <1>5 DEF Here, Keys
<1>8. Keys \subseteq Gens \X Verbs
  BY DEF Keys, Verbs
<1> QED BY <1>1, <1>2, <1>5, <1>6, <1>7, <1>8, KeysAre

\* The steps of a generation leave the job directories to Harbor.
LEMMA GenerationKeepsJobs ==
  ASSUME JobInv, UNCHANGED <<jobs, recoveries, recovery, finished>>
  PROVE  JobInv'
  BY JobFrame DEF jobVars

LEMMA NextGenerationShape ==
  ASSUME GenShape, LineageShape, NextGeneration,
         UNCHANGED <<recipe, archive>>,
         checkout' \in [gen : Gens \cup {None}, code : Codes \cup {None}]
  PROVE  GenShape' /\ LineageShape' /\ CheckoutShape' /\ OpShape'
<1>1. PICK N \in Nat : Gens = 0..N
  BY Numbers
<1>2. gen \in Nat /\ gen \in Gens /\ (gen < MaxGen[recipe] => gen + 1 \in 2..MaxGen[recipe] /\ gen + 1 \in Gens)
  BY Numbers
<1>3. /\ pc' \in {"select", "end"} /\ parent' = None /\ op' = NoOp
      /\ pc' = "select" => gen' = gen + 1 /\ gen < MaxGen[recipe]
      /\ pc' = "end" => gen' = gen
  BY DEF NextGeneration
<1>4. GenShape'
  BY <1>2, <1>3 DEF GenShape, Stages
<1>5. LineageShape'
  <2>1. \A g \in Gens : g > gen' => archive[g] = None
    BY <1>1, <1>2, <1>3 DEF LineageShape
  <2>2. pc' = "select" => archive[gen'] = None
    BY <1>1, <1>2, <1>3 DEF LineageShape
  <2> QED BY <1>3, <2>1, <2>2 DEF LineageShape, BeforeEdit, AfterEdit
<1>6. CheckoutShape' /\ OpShape'
  BY <1>3 DEF CheckoutShape, OpShape, BeforeEdit, AfterEdit
<1> QED BY <1>4, <1>5, <1>6

LEMMA SelectKeepsShape ==
  ASSUME Shape, Select
  PROVE  Shape'
<1>1. PICK N \in Nat : Gens = 0..N
  BY Numbers DEF Shape
<1>2. GenShape /\ LineageShape /\ ArchiveShape /\ gen \in Nat /\ gen \in Gens /\ Here \in Keys
  BY Numbers DEF Shape
<1>3. PICK p \in Picks :
        /\ parent' = p /\ checkout' = [gen |-> gen, code |-> Code(p)]
        /\ op' = IF recipe = "ahe" THEN Replay(Here, p) ELSE Harbor(Here, None)
  BY DEF Select
<1>4. /\ pc = "select" /\ pc' = "rollout" /\ ValidParents # {}
      /\ UNCHANGED <<jobs, files, recoveries, recovery, certified, finished, recipe, archive, gen, runs>>
  BY DEF Select
<1>5. p \in ValidParents
  BY <1>2, <1>3, <1>4, PicksAreParents DEF GenShape
<1>6. p \in Gens /\ archive[p] # None /\ archive[p].code \in Codes
  BY <1>2, <1>5 DEF ValidParents, ArchiveShape, Lines
<1>7. p \in 0..gen - 1
  <2>1. archive[gen] = None /\ \A g \in Gens : g > gen => archive[g] = None
    BY <1>2, <1>4 DEF LineageShape
  <2> QED BY <1>1, <1>2, <1>6, <2>1
<1>8. GenShape'
  BY <1>2, <1>3, <1>4, <1>6 DEF GenShape, Stages, Code
<1>9. LineageShape' /\ CheckoutShape'
  BY <1>2, <1>3, <1>4, <1>6, <1>7 DEF LineageShape, CheckoutShape, BeforeEdit, AfterEdit, Code
<1>10. OpShape'
  <2>1. CASE recipe = "ahe"
    BY <1>3, <1>4, <2>1 DEF OpShape, ReplayOp, ReplayStages, Replay, Here
  <2>2. CASE recipe # "ahe"
    BY <1>3, <1>4, <2>2 DEF OpShape, HarborOp, HarborStages, Harbor, Here
  <2> QED BY <2>1, <2>2
<1>11. JobInv'
  BY <1>4, GenerationKeepsJobs DEF Shape
<1> QED BY <1>4, <1>8, <1>9, <1>10, <1>11 DEF Shape, ArchiveShape, RunShape, FileShape

\* The analysis and the feedback write to the run directory only.
Analysis == GepaAnalyze \/ TrajectoryOnly \/ AheStart \/ StartDebugger \/ DebuggerEnds
            \/ DebuggerFails \/ WriteReports \/ ChangeEvaluation \/ Feedback

LEMMA AnalysisIs ==
  ASSUME Analysis
  PROVE  /\ Quiet
         /\ pc \in {"analyze", "debug", "change", "feedback"}
         /\ pc' \in {"debug", "change", "feedback", "mutate"}
         /\ pc' \in {"debug", "change"} => recipe = "ahe" \/ pc \in {"debug", "change"}
  BY DEF Analysis, GepaAnalyze, TrajectoryOnly, AheStart, StartDebugger, DebuggerEnds,
         DebuggerFails, WriteReports, ChangeEvaluation, Feedback, Quiet

\* What the analysis leaves in the run directory of this generation, and of no other.
SameElsewhere == /\ DOMAIN runs' = DOMAIN runs
                 /\ \A g \in Gens : g # gen => runs'[g] = runs[g]
SameEdit == /\ runs'[gen].manifest = runs[gen].manifest /\ runs'[gen].edits = runs[gen].edits
            /\ runs'[gen].comparison = runs[gen].comparison

LEMMA AnalysisWrites ==
  ASSUME RunShape, gen \in Gens, Analysis
  PROVE  RunShape' /\ SameElsewhere /\ SameEdit
<1>1. RunRecord(runs[gen]) /\ DOMAIN runs = Gens /\ gen' = gen
  BY AnalysisIs DEF RunShape, Quiet
<1>2. ASSUME NEW r, RunRecord(r), runs' = [runs EXCEPT ![gen] = r],
             r.manifest = runs[gen].manifest, r.edits = runs[gen].edits,
             r.comparison = runs[gen].comparison
      PROVE  RunShape' /\ SameElsewhere /\ SameEdit
  BY <1>1, <1>2 DEF RunShape, SameElsewhere, SameEdit
<1>3. CASE GepaAnalyze \/ TrajectoryOnly
  <2>1. PICK e : runs' = [runs EXCEPT ![gen].evidence = e]
    BY <1>3 DEF GepaAnalyze, TrajectoryOnly, Bundle
  <2> DEFINE r == [runs[gen] EXCEPT !.evidence = e]
  <2>2. RunRecord(r) /\ r.manifest = runs[gen].manifest /\ r.edits = runs[gen].edits
        /\ r.comparison = runs[gen].comparison /\ runs' = [runs EXCEPT ![gen] = r]
    BY <1>1, <2>1 DEF RunRecord
  <2> HIDE DEF r
  <2> QED BY <1>2, <2>2
<1>4. CASE runs' = runs
  BY <1>1, <1>4 DEF RunShape, SameElsewhere, SameEdit
<1>5. CASE StartDebugger /\ runs' # runs
  <2>1. PICK e : runs' = [runs EXCEPT ![gen].tried = e]
    BY <1>5 DEF StartDebugger
  <2> DEFINE r == [runs[gen] EXCEPT !.tried = e]
  <2>2. RunRecord(r) /\ r.manifest = runs[gen].manifest /\ r.edits = runs[gen].edits
        /\ r.comparison = runs[gen].comparison /\ runs' = [runs EXCEPT ![gen] = r]
    BY <1>1, <2>1 DEF RunRecord
  <2> HIDE DEF r
  <2> QED BY <1>2, <2>2
<1>6. CASE WriteReports
  <2>1. PICK d, e : runs' = [runs EXCEPT ![gen].details = d, ![gen].evidence = e]
    BY <1>6 DEF WriteReports
  <2> DEFINE r == [runs[gen] EXCEPT !.details = d, !.evidence = e]
  <2>2. RunRecord(r) /\ r.manifest = runs[gen].manifest /\ r.edits = runs[gen].edits
        /\ r.comparison = runs[gen].comparison
    <3> DEFINE q == runs[gen]
    <3>1. q = [evidence |-> q.evidence, details |-> q.details, change |-> q.change, tried |-> q.tried,
               feedback |-> q.feedback, manifest |-> q.manifest, edits |-> q.edits,
               comparison |-> q.comparison, experience |-> q.experience] /\ q.edits \in Nat
      BY <1>1 DEF RunRecord
    <3> HIDE DEF q
    <3>2. [q EXCEPT !.details = d, !.evidence = e] =
            [evidence |-> e, details |-> d, change |-> q.change, tried |-> q.tried,
             feedback |-> q.feedback, manifest |-> q.manifest, edits |-> q.edits,
             comparison |-> q.comparison, experience |-> q.experience]
      <4> DEFINE p == [q EXCEPT !.details = d]
      <4>1. p = [evidence |-> q.evidence, details |-> d, change |-> q.change, tried |-> q.tried,
               feedback |-> q.feedback, manifest |-> q.manifest, edits |-> q.edits,
               comparison |-> q.comparison, experience |-> q.experience]
        BY <3>1
      <4>2. [q EXCEPT !.details = d, !.evidence = e] = [p EXCEPT !.evidence = e]
        BY <3>1
      <4> HIDE DEF p
      <4>3. [p EXCEPT !.evidence = e] =
            [evidence |-> e, details |-> d, change |-> q.change, tried |-> q.tried,
             feedback |-> q.feedback, manifest |-> q.manifest, edits |-> q.edits,
             comparison |-> q.comparison, experience |-> q.experience]
        BY <4>1
      <4> QED BY <4>2, <4>3
    <3>3. r = [evidence |-> e, details |-> d, change |-> q.change, tried |-> q.tried,
               feedback |-> q.feedback, manifest |-> q.manifest, edits |-> q.edits,
               comparison |-> q.comparison, experience |-> q.experience]
      BY <3>2 DEF q
    <3> HIDE DEF r
    <3> QED BY <3>1, <3>3 DEF RunRecord, q
  <2>3. runs' = [runs EXCEPT ![gen] = r]
    BY <1>1, <2>1 DEF RunRecord
  <2> HIDE DEF r
  <2> QED BY <1>2, <2>2, <2>3
<1>7. CASE ChangeEvaluation
  <2>1. PICK e : runs' = [runs EXCEPT ![gen].change = e]
    BY <1>7 DEF ChangeEvaluation
  <2> DEFINE r == [runs[gen] EXCEPT !.change = e]
  <2>2. RunRecord(r) /\ r.manifest = runs[gen].manifest /\ r.edits = runs[gen].edits
        /\ r.comparison = runs[gen].comparison /\ runs' = [runs EXCEPT ![gen] = r]
    BY <1>1, <2>1 DEF RunRecord
  <2> HIDE DEF r
  <2> QED BY <1>2, <2>2
<1>8. CASE Feedback
  <2> DEFINE r == [runs[gen] EXCEPT !.feedback = Copies]
  <2>1. RunRecord(r) /\ r.manifest = runs[gen].manifest /\ r.edits = runs[gen].edits
        /\ r.comparison = runs[gen].comparison /\ runs' = [runs EXCEPT ![gen] = r]
    BY <1>1, <1>8 DEF RunRecord, Feedback
  <2> HIDE DEF r
  <2> QED BY <1>2, <2>1
<1>9. CASE AheStart \/ DebuggerEnds \/ DebuggerFails
  <2>1. runs' = runs
    BY <1>9 DEF AheStart, DebuggerEnds, DebuggerFails
  <2> QED BY <1>4, <2>1
<1> QED BY <1>3, <1>4, <1>5, <1>6, <1>7, <1>8, <1>9 DEF Analysis

LEMMA AnalysisKeepsShape ==
  ASSUME Shape, Analysis
  PROVE  Shape'
<1>1. GenShape /\ LineageShape /\ CheckoutShape /\ OpShape /\ gen \in Gens
  BY Numbers DEF Shape
<1>2. /\ UNCHANGED <<checkout, jobs, files, op, recoveries, recovery, certified, finished,
                     recipe, archive, gen, parent>>
      /\ pc \in {"analyze", "debug", "change", "feedback"}
      /\ pc' \in {"debug", "change", "feedback", "mutate"}
      /\ pc' \in {"debug", "change"} => recipe = "ahe"
  BY <1>1, AnalysisIs DEF Quiet, GenShape
<1>3. RunShape'
  BY <1>1, AnalysisWrites DEF Shape
<1>4. GenShape'
  BY <1>1, <1>2 DEF GenShape, Stages
<1>5. LineageShape'
  BY <1>1, <1>2 DEF LineageShape, BeforeEdit, AfterEdit
<1>6. CheckoutShape'
  BY <1>1, <1>2 DEF CheckoutShape, BeforeEdit, AfterEdit, Code
<1>7. OpShape'
  BY <1>1, <1>2 DEF OpShape
<1>8. JobInv'
  BY <1>2, GenerationKeepsJobs DEF Shape
<1> QED BY <1>2, <1>3, <1>4, <1>5, <1>6, <1>7, <1>8 DEF Shape, ArchiveShape, FileShape

LEMMA RolloutEndsKeepsShape ==
  ASSUME Shape, RolloutDone \/ RolloutFailed
  PROVE  Shape'
<1>1. GenShape /\ LineageShape /\ CheckoutShape /\ OpShape
  BY DEF Shape
<1>2. JobInv'
  BY GenerationKeepsJobs DEF Shape, RolloutDone, RolloutFailed
<1>3. UNCHANGED <<checkout, files, certified, archive, recipe, runs>>
  BY DEF RolloutDone, RolloutFailed
<1>4. CASE RolloutDone
  <2>1. /\ pc = "rollout" /\ pc' = "analyze" /\ op' = NoOp
        /\ UNCHANGED <<checkout, recipe, archive, gen, parent, runs>>
    BY <1>4 DEF RolloutDone
  <2>2. GenShape' /\ LineageShape' /\ CheckoutShape' /\ OpShape'
    BY <1>1, <2>1 DEF GenShape, LineageShape, CheckoutShape, OpShape, Stages, BeforeEdit, AfterEdit, Code
  <2> QED BY <1>2, <1>3, <2>2 DEF Shape, ArchiveShape, RunShape, FileShape
<1>5. CASE RolloutFailed
  <2>1. GenShape' /\ LineageShape' /\ CheckoutShape' /\ OpShape'
    BY <1>1, <1>5, NextGenerationShape DEF RolloutFailed, GenShape
  <2> QED BY <1>2, <1>3, <2>1 DEF Shape, ArchiveShape, RunShape, FileShape
<1> QED BY <1>4, <1>5


LEMMA MutateWrites ==
  ASSUME RunShape, gen \in Gens, Mutate
  PROVE  /\ RunShape' /\ SameElsewhere
         /\ runs'[gen].edits = runs[gen].edits + 1 /\ runs[gen].edits \in Nat
         /\ runs'[gen].comparison = runs[gen].comparison
         /\ runs'[gen].evidence = runs[gen].evidence
         /\ AheMutate => \E change \in Manifests :
              runs'[gen].manifest = Manifest(change, Code(parent), Edit)
         /\ ~AheMutate => runs'[gen].manifest = runs[gen].manifest
<1>1. RunRecord(runs[gen]) /\ DOMAIN runs = Gens
  BY DEF RunShape
<1> DEFINE r == [runs[gen] EXCEPT !.edits = @ + 1]
<1>2. Edited = [runs EXCEPT ![gen] = r]
  BY <1>1 DEF Edited
<1>3. RunRecord(r) /\ r.edits = runs[gen].edits + 1 /\ r.comparison = runs[gen].comparison
      /\ r.manifest = runs[gen].manifest /\ r.evidence = runs[gen].evidence /\ runs[gen].edits \in Nat
  BY <1>1 DEF RunRecord
<1> HIDE DEF r
<1>4. CASE AheMutate
  <2>1. PICK change \in Manifests :
          runs' = [Edited EXCEPT ![gen].manifest = Manifest(change, Code(parent), Edit)]
    BY <1>4 DEF AheMutate
  <2> DEFINE q == [r EXCEPT !.manifest = Manifest(change, Code(parent), Edit)]
  <2>2. Edited[gen] = r /\ DOMAIN Edited = Gens /\ \A g \in Gens : g # gen => Edited[g] = runs[g]
    BY <1>1, <1>2
  <2>3. runs' = [Edited EXCEPT ![gen] = q]
    BY <2>1, <2>2
  <2>4. RunRecord(q) /\ q.edits = r.edits /\ q.comparison = r.comparison /\ q.evidence = r.evidence
        /\ q.manifest = Manifest(change, Code(parent), Edit)
    BY <1>3 DEF RunRecord
  <2> HIDE DEF q
  <2>5. DOMAIN runs' = Gens /\ runs'[gen] = q /\ \A g \in Gens : g # gen => runs'[g] = runs[g]
    BY <2>2, <2>3
  <2> QED BY <1>1, <1>3, <1>4, <2>4, <2>5 DEF RunShape, SameElsewhere
<1>5. CASE ~AheMutate
  <2>1. runs' = Edited
    BY <1>5 DEF Mutate, GepaMutate, AEvolveMutate, MutateFails
  <2> QED BY <1>1, <1>2, <1>3, <1>5, <2>1 DEF RunShape, SameElsewhere
<1> QED BY <1>4, <1>5

LEMMA MutateKeepsShape ==
  ASSUME Shape, Mutate
  PROVE  Shape'
<1>1. GenShape /\ LineageShape /\ CheckoutShape /\ OpShape /\ gen \in Gens /\ gen \in Nat
  BY Numbers DEF Shape
<1>2. /\ UNCHANGED <<jobs, files, recoveries, recovery, certified, finished, recipe, archive>>
      /\ pc = "mutate" /\ checkout' = [checkout EXCEPT !.code = Edit]
  BY DEF Mutate
<1>3. /\ RunShape' /\ runs'[gen].edits = runs[gen].edits + 1 /\ runs[gen].edits \in Nat
  BY <1>1, MutateWrites DEF Shape
<1>4. JobInv'
  BY <1>2, GenerationKeepsJobs DEF Shape
<1>5. checkout' = [gen |-> gen, code |-> <<gen, runs'[gen].edits>>] /\ Edit \in Codes
  BY <1>1, <1>2, <1>3 DEF CheckoutShape, BeforeEdit, Edit, Codes
<1>6. checkout' \in [gen : Gens \cup {None}, code : Codes \cup {None}]
  BY <1>1, <1>2, <1>5 DEF GenShape
<1>7. CASE pc' \in {"validate", "evaluate"} /\ gen' = gen /\ parent' = parent
  <2>1. GenShape' /\ LineageShape' /\ CheckoutShape'
    BY <1>1, <1>2, <1>5, <1>6, <1>7
       DEF GenShape, LineageShape, CheckoutShape, Stages, BeforeEdit, AfterEdit
  <2>2. op = NoOp
    BY <1>1, <1>2 DEF OpShape
  <2>3. CASE GepaMutate
    <3>1. recipe = "gepa" /\ pc' = "validate"
          /\ op' = [pc |-> "start", key |-> <<gen, "validate">>, wanted |-> {c.task : c \in Cases(gen)},
                    why |-> None]
      BY <2>3 DEF GepaMutate, Harbor
    <3>2. OpShape'
      BY <1>2, <1>7, <3>1 DEF OpShape, HarborOp, HarborStages
    <3> QED BY <1>2, <1>3, <1>4, <2>1, <3>2 DEF Shape, ArchiveShape, FileShape
  <2>4. CASE AheMutate \/ AEvolveMutate
    <3>1. op' = NoOp /\ pc' = "evaluate"
      BY <2>2, <2>4 DEF AheMutate, AEvolveMutate
    <3>2. OpShape'
      BY <3>1 DEF OpShape
    <3> QED BY <1>2, <1>3, <1>4, <2>1, <3>2 DEF Shape, ArchiveShape, FileShape
  <2>5. ~MutateFails
    BY <1>7 DEF MutateFails, NextGeneration
  <2> QED BY <2>3, <2>4, <2>5 DEF Mutate
<1>8. CASE NextGeneration
  <2>1. GenShape' /\ LineageShape' /\ CheckoutShape' /\ OpShape'
    BY <1>1, <1>2, <1>6, <1>8, NextGenerationShape
  <2> QED BY <1>2, <1>3, <1>4, <2>1 DEF Shape, ArchiveShape, FileShape
<1>9. NextGeneration \/ (pc' \in {"validate", "evaluate"} /\ gen' = gen /\ parent' = parent)
  BY DEF Mutate, MutateFails, GepaMutate, AheMutate, AEvolveMutate
<1> QED BY <1>7, <1>8, <1>9

LEMMA ValidateWrites ==
  ASSUME RunShape, gen \in Gens, Validate
  PROVE  /\ RunShape' /\ SameElsewhere
         /\ runs'[gen].manifest = runs[gen].manifest /\ runs'[gen].edits = runs[gen].edits
         /\ \/ runs'[gen].comparison = runs[gen].comparison
            \/ runs'[gen].comparison =
                 [before |-> Cases(gen), after |-> files[<<gen, "validate">>].cases,
                  accepted |-> Accepted(Cases(gen), files[<<gen, "validate">>].cases)]
<1>1. RunRecord(runs[gen]) /\ DOMAIN runs = Gens
  BY DEF RunShape
<1> DEFINE c == [before |-> Cases(gen), after |-> files[<<gen, "validate">>].cases,
                 accepted |-> Accepted(Cases(gen), files[<<gen, "validate">>].cases)]
           r == [runs[gen] EXCEPT !.comparison = c]
<1>2. runs' = runs \/ runs' = [runs EXCEPT ![gen].comparison = c]
  BY DEF Validate
<1> HIDE DEF c
<1>3. CASE runs' = runs
  BY <1>1, <1>3 DEF RunShape, SameElsewhere
<1>4. CASE runs' = [runs EXCEPT ![gen].comparison = c]
  <2>1. runs' = [runs EXCEPT ![gen] = r]
    BY <1>1, <1>4
  <2>2. RunRecord(r) /\ r.manifest = runs[gen].manifest /\ r.edits = runs[gen].edits /\ r.comparison = c
    BY <1>1 DEF RunRecord
  <2> HIDE DEF r
  <2> QED BY <1>1, <2>1, <2>2 DEF RunShape, SameElsewhere, c
<1> QED BY <1>2, <1>3, <1>4

LEMMA ValidateKeepsShape ==
  ASSUME Shape, Validate
  PROVE  Shape'
<1>1. GenShape /\ LineageShape /\ CheckoutShape /\ OpShape /\ gen \in Gens /\ gen \in Nat
  BY Numbers DEF Shape
<1>2. /\ UNCHANGED <<checkout, jobs, files, recoveries, recovery, certified, finished, recipe, archive>>
      /\ pc = "validate"
  BY DEF Validate
<1>3. RunShape' /\ runs'[gen].edits = runs[gen].edits
  BY <1>1, ValidateWrites DEF Shape
<1>4. JobInv'
  BY <1>2, GenerationKeepsJobs DEF Shape
<1>5. NextGeneration \/ (pc' = "evaluate" /\ op' = NoOp /\ UNCHANGED <<gen, parent, work>>)
  BY DEF Validate
<1>6. CASE NextGeneration
  <2>1. GenShape' /\ LineageShape' /\ CheckoutShape' /\ OpShape'
    BY <1>1, <1>2, <1>6, NextGenerationShape DEF GenShape
  <2> QED BY <1>2, <1>3, <1>4, <2>1 DEF Shape, ArchiveShape, FileShape
<1>7. CASE pc' = "evaluate" /\ op' = NoOp /\ UNCHANGED <<gen, parent, work>>
  <2>1. GenShape' /\ LineageShape' /\ CheckoutShape' /\ OpShape'
    BY <1>1, <1>2, <1>3, <1>7
       DEF GenShape, LineageShape, CheckoutShape, OpShape, Stages, BeforeEdit, AfterEdit
  <2> QED BY <1>2, <1>3, <1>4, <2>1 DEF Shape, ArchiveShape, FileShape
<1> QED BY <1>5, <1>6, <1>7

LEMMA CertificatesAre ==
  ASSUME NEW c \in Certificates(Vectors \cup FirstVectors)
  PROVE  Certificate(c)
<1>1. PICK v \in Vectors \cup FirstVectors : c = [base |-> v, repaired |-> {}, repair |-> <<>>]
  BY DEF Certificates
<1>2. IsFiniteSet(DOMAIN v)
  BY ReflectionAssumption
<1>3. DOMAIN c = {"base", "repaired", "repair"} /\ c.base = v /\ c.repaired = {} /\ c.repair = <<>>
  BY <1>1
<1>4. DOMAIN <<>> = {}
  OBVIOUS
<1> QED BY <1>2, <1>3, <1>4 DEF Certificate

LEMMA EvaluateKeepsShape ==
  ASSUME Shape, Evaluate
  PROVE  Shape'
<1>1. GenShape /\ LineageShape /\ CheckoutShape /\ OpShape /\ ArchiveShape /\ RunShape
      /\ gen \in Gens /\ gen \in Nat /\ 0..gen - 1 \subseteq Gens
  BY Numbers DEF Shape
<1>2. PICK valid \in BOOLEAN, found \in Certificates(Vectors) :
        /\ archive' = [archive EXCEPT ![gen] = [parent |-> parent, code |-> checkout.code, valid |-> valid]]
        /\ certified' = [certified EXCEPT ![gen] = found]
  BY DEF Evaluate
<1>3. /\ pc = "evaluate" /\ pc' = "record"
      /\ UNCHANGED <<checkout, jobs, files, op, recoveries, recovery, finished, recipe, gen, parent, runs>>
  BY DEF Evaluate
<1>4. checkout.code \in Codes /\ parent \in 0..gen - 1
  BY <1>1, <1>3 DEF CheckoutShape, LineageShape, AfterEdit, Codes, RunShape, RunRecord
<1>5. Certificate(found)
  <2>1. found \in Certificates(Vectors \cup FirstVectors)
    BY DEF Certificates
  <2> QED BY <2>1, CertificatesAre
<1>6. ArchiveShape'
  <2> DEFINE line == [parent |-> parent, code |-> checkout.code, valid |-> valid]
  <2>1. line \in Lines
    BY <1>1, <1>4 DEF Lines
  <2>2. archive' = [archive EXCEPT ![gen] = line]
    BY <1>2
  <2> HIDE DEF line
  <2> QED BY <1>1, <1>2, <1>5, <2>1, <2>2 DEF ArchiveShape
<1>7. GenShape' /\ CheckoutShape' /\ OpShape'
  BY <1>1, <1>3 DEF GenShape, CheckoutShape, OpShape, Stages, BeforeEdit, AfterEdit
<1>8. LineageShape'
  <2>1. \A g \in Gens : g # gen => archive'[g] = archive[g]
    BY <1>1, <1>2 DEF ArchiveShape
  <2>2. archive'[gen].parent = parent
    BY <1>1, <1>2 DEF ArchiveShape
  <2>3. \A g \in Gens : g > gen => g # gen
    BY <1>1
  <2> QED BY <1>1, <1>3, <1>4, <2>1, <2>2, <2>3 DEF LineageShape, BeforeEdit, AfterEdit
<1>9. JobInv'
  BY <1>3, GenerationKeepsJobs DEF Shape
<1> QED BY <1>3, <1>6, <1>7, <1>8, <1>9 DEF Shape, RunShape, FileShape

LEMMA RecordWrites ==
  ASSUME RunShape, gen \in Gens, Record
  PROVE  RunShape' /\ SameElsewhere /\ SameEdit
<1>1. RunRecord(runs[gen]) /\ DOMAIN runs = Gens
  BY DEF RunShape
<1>2. CASE runs' = runs
  BY <1>1, <1>2 DEF RunShape, SameElsewhere, SameEdit
<1>3. CASE runs' = [runs EXCEPT ![gen].experience = runs[gen].comparison]
  <2> DEFINE r == [runs[gen] EXCEPT !.experience = runs[gen].comparison]
  <2>1. runs' = [runs EXCEPT ![gen] = r]
    BY <1>1, <1>3
  <2>2. RunRecord(r) /\ r.manifest = runs[gen].manifest /\ r.edits = runs[gen].edits
        /\ r.comparison = runs[gen].comparison
    BY <1>1 DEF RunRecord
  <2> HIDE DEF r
  <2> QED BY <1>1, <2>1, <2>2 DEF RunShape, SameElsewhere, SameEdit
<1> QED BY <1>2, <1>3 DEF Record

LEMMA EndKeepsShape ==
  ASSUME Shape, Record \/ Kill \/ Resume
  PROVE  Shape'
<1>1. GenShape /\ LineageShape /\ CheckoutShape /\ OpShape /\ gen \in Gens /\ gen \in Nat
      /\ (gen < MaxGen[recipe] => gen + 1 \in 2..MaxGen[recipe] /\ gen + 1 \in Gens)
  BY Numbers DEF Shape
<1>2. UNCHANGED <<jobs, files, recoveries, recovery, certified, finished, recipe, archive>>
  BY DEF Record, Kill, Resume
<1>3. JobInv'
  BY <1>2, GenerationKeepsJobs DEF Shape
<1>4. RunShape'
  <2>1. CASE Record
    BY <1>1, <2>1, RecordWrites DEF Shape
  <2>2. CASE Kill \/ Resume
    <3>1. runs' = runs
      BY <2>2 DEF Kill, Resume
    <3> QED BY <3>1 DEF Shape, RunShape
  <2> QED BY <2>1, <2>2
<1>5. GenShape' /\ LineageShape' /\ CheckoutShape' /\ OpShape'
  <2>1. CASE Record
    BY <1>1, <2>1, NextGenerationShape DEF Record, GenShape
  <2>2. CASE Kill
    <3>1. pc' = "stopped" /\ op' = NoOp /\ UNCHANGED <<checkout, archive, gen, recipe>>
      BY <2>2 DEF Kill
    <3> QED BY <1>1, <3>1
            DEF GenShape, LineageShape, CheckoutShape, OpShape, Stages, BeforeEdit, AfterEdit
  <2>3. CASE Resume
    <3>1. /\ pc = "stopped" /\ checkout' = [gen |-> None, code |-> None] /\ op' = op
          /\ pc' \in {"select", "end"} /\ UNCHANGED <<archive, recipe>>
          /\ \/ pc' = "end" /\ gen' = gen
             \/ pc' = "select" /\ gen' = gen /\ archive[gen] = None
             \/ pc' = "select" /\ gen' = gen + 1 /\ gen < MaxGen[recipe]
      BY <2>3 DEF Resume
    <3>2. GenShape'
      BY <1>1, <3>1 DEF GenShape, Stages
    <3>3. OpShape' /\ CheckoutShape'
      BY <1>1, <3>1 DEF OpShape, CheckoutShape, BeforeEdit, AfterEdit
    <3>4. \A g \in Gens : g > gen' => archive[g] = None
      <4>1. PICK N \in Nat : Gens = 0..N
        BY <1>1, Numbers
      <4> QED BY <1>1, <3>1, <4>1 DEF LineageShape
    <3>5. pc' = "select" => archive[gen'] = None
      BY <1>1, <3>1 DEF LineageShape
    <3>6. LineageShape'
      BY <1>1, <3>1, <3>4, <3>5 DEF LineageShape, BeforeEdit, AfterEdit
    <3> QED BY <3>2, <3>3, <3>6
  <2> QED BY <2>1, <2>2, <2>3
<1> QED BY <1>2, <1>3, <1>4, <1>5 DEF Shape, ArchiveShape, FileShape

LEMMA NotLine ==
  ASSUME Shape
  PROVE  None \notin Lines
<1>1. Gens \cup {None} \subseteq Nat \cup {None}
  BY Numbers DEF Shape
<1> QED BY <1>1, ReflectionAssumption DEF Lines, Codes

LEMMA RecertifyKeepsShape ==
  ASSUME Shape, NEW p \in Gens, Recertify(p)
  PROVE  /\ Shape' /\ pc = "stopped" /\ ~archive[p].valid
         /\ \A g \in Gens : /\ archive'[g] = None <=> archive[g] = None
                            /\ archive[g] # None => /\ archive'[g].parent = archive[g].parent
                                                    /\ archive'[g].code = archive[g].code
<1>1. GenShape /\ LineageShape /\ CheckoutShape /\ OpShape /\ ArchiveShape
  BY DEF Shape
<1>2. PICK found \in Certificates(Vectors) : certified' = [certified EXCEPT ![p] = found]
  BY DEF Recertify
<1>3. /\ pc = "stopped" /\ archive[p] # None /\ ~archive[p].valid
      /\ archive' = [archive EXCEPT ![p].valid = TRUE]
      /\ UNCHANGED <<checkout, jobs, files, op, recoveries, recovery, finished,
                     recipe, gen, pc, parent, work, runs>>
  BY DEF Recertify
<1> DEFINE line == [archive[p] EXCEPT !.valid = TRUE]
<1>4. archive[p] \in Lines /\ archive' = [archive EXCEPT ![p] = line]
  BY <1>1, <1>3 DEF ArchiveShape
<1>5. line \in Lines /\ line.parent = archive[p].parent /\ line.code = archive[p].code
  BY <1>4 DEF Lines
<1>6. line # None
  BY <1>5, NotLine
<1> HIDE DEF line
<1>7. \A g \in Gens : /\ archive'[g] = None <=> archive[g] = None
                      /\ archive[g] # None => /\ archive'[g].parent = archive[g].parent
                                              /\ archive'[g].code = archive[g].code
  BY <1>1, <1>3, <1>4, <1>5, <1>6 DEF ArchiveShape
<1>8. ArchiveShape'
  <2>1. Certificate(found)
    <3>1. found \in Certificates(Vectors \cup FirstVectors)
      BY DEF Certificates
    <3> QED BY <3>1, CertificatesAre
  <2> QED BY <1>1, <1>2, <1>4, <1>5, <2>1 DEF ArchiveShape
<1>9. GenShape' /\ CheckoutShape' /\ OpShape'
  BY <1>1, <1>3 DEF GenShape, CheckoutShape, OpShape, BeforeEdit, AfterEdit
<1>10. LineageShape'
  BY <1>1, <1>3, <1>7 DEF LineageShape, BeforeEdit, AfterEdit
<1>11. JobInv'
  BY <1>3, GenerationKeepsJobs DEF Shape
<1> QED BY <1>3, <1>7, <1>8, <1>9, <1>10, <1>11 DEF Shape, RunShape, FileShape


\* Harbor, its operator and its recovery leave the generation as it is.
LEMMA BelowKeepsShape ==
  ASSUME Shape, Below, UNCHANGED <<checkout, certified>>, FileShape', OpShape', JobInv'
  PROVE  Shape'
<1>1. UNCHANGED <<recipe, archive, gen, pc, parent, work, runs>>
  BY DEF Below, reflectionVars
<1> QED BY <1>1 DEF Shape, GenShape, LineageShape, CheckoutShape, ArchiveShape, RunShape, Code

\* What Harbor and its recovery do to a job leaves its operator as it is.
LEMMA OperatorStays ==
  ASSUME Shape, Below, op' = op, \A k \in Keys : Begun(k)' => Begun(k)
  PROVE  OpShape'
<1>1. Here \in Keys /\ <<gen, "validate">> \in Keys /\ OpShape
  BY Numbers DEF Shape
<1>2. UNCHANGED <<recipe, archive, gen, pc, parent, work, runs>>
  BY DEF Below, reflectionVars
<1>3. ASSUME NEW k \in Keys, HarborOp(k) PROVE HarborOp(k)'
  BY <1>3 DEF HarborOp
<1>4. ReplayOp(Here) => ReplayOp(Here)'
  BY <1>2 DEF ReplayOp, Here
<1>5. Here' = Here
  BY <1>2 DEF Here
<1> QED BY <1>1, <1>2, <1>3, <1>4, <1>5 DEF OpShape

LEMMA HarborKeepsShape ==
  ASSUME Shape, HarborSteps, Below
  PROVE  Shape'
<1>1. jobs \in [Keys -> Jobs] /\ DOMAIN jobs = Keys /\ checkout.code \in Codes \cup {None} /\ JobInv
  BY DEF Shape, JobInv, JobShape, GenShape
<1>2. PICK k \in Keys : HarborTrial(k) \/ HarborExit(k) \/ Cancel(k)
  BY <1>1 DEF HarborSteps
<1>3. UNCHANGED <<checkout, certified, files, op, recoveries, recovery>>
  BY <1>2 DEF HarborTrial, HarborExit, Cancel
<1>4. CASE HarborTrial(k)
  <2>1. JobInv'
    BY <1>1, <1>4, TrialKeepsJobs
  <2>2. \A i \in Keys : Begun(i)' => Begun(i)
    BY <1>1, <1>4 DEF HarborTrial, Begun
  <2> QED BY <1>3, <2>1, <2>2, BelowKeepsShape, OperatorStays DEF Shape, FileShape
<1>5. CASE HarborExit(k)
  <2> DEFINE j == [jobs[k] EXCEPT !.harbor =
                     IF {x.task : x \in jobs[k].trials} = jobs[k].tasks THEN "completed" ELSE "failed"]
  <2>1. jobs' = [jobs EXCEPT ![k] = j] /\ finished' = finished /\ jobs[k].harbor = "running"
    BY <1>1, <1>5 DEF HarborExit
  <2>2. j \in Jobs /\ j.harbor \in {"completed", "failed"} /\ j.trials = jobs[k].trials
        /\ j.tasks = jobs[k].tasks
    BY <1>1 DEF Jobs
  <2> HIDE DEF j
  <2>3. JobInv'
    BY <1>1, <1>3, <2>1, <2>2, JobChanged
  <2>4. \A i \in Keys : Begun(i)' => Begun(i)
    BY <1>1, <2>1 DEF Begun
  <2> QED BY <1>3, <2>3, <2>4, BelowKeepsShape, OperatorStays DEF Shape, FileShape
<1>6. CASE Cancel(k)
  <2> DEFINE j == [jobs[k] EXCEPT !.cancel = TRUE]
  <2>1. jobs' = [jobs EXCEPT ![k] = j] /\ finished' = finished
    BY <1>1, <1>6 DEF Cancel
  <2>2. j \in Jobs /\ j.harbor = jobs[k].harbor /\ j.trials = jobs[k].trials
        /\ j.tasks = jobs[k].tasks /\ j.owner = jobs[k].owner
    BY <1>1 DEF Jobs
  <2> HIDE DEF j
  <2>3. j.harbor \in {"none", "running", "completed", "failed"}
    BY <2>2 DEF Jobs
  <2>4. JobInv'
    BY <1>1, <1>3, <2>1, <2>2, <2>3, JobChanged
  <2>5. \A i \in Keys : Begun(i)' => Begun(i)
    BY <1>1, <2>1, <2>2 DEF Begun
  <2> QED BY <1>3, <2>4, <2>5, BelowKeepsShape, OperatorStays DEF Shape, FileShape
<1> QED BY <1>2, <1>4, <1>5, <1>6

LEMMA RecoveryKeepsShape ==
  ASSUME Shape, RecoverySteps, Below
  PROVE  Shape'
<1>1. jobs \in [Keys -> Jobs] /\ DOMAIN jobs = Keys /\ JobInv /\ None \notin Keys
  BY Numbers DEF Shape, JobInv, JobShape
<1>2. UNCHANGED <<checkout, certified, files, op>>
  BY DEF RecoverySteps, RecoveryStart, BackUp, ResumeHarbor, RecoveryEnds, KillRecovery
<1>3. JobInv'
  BY <1>1, RecoveryStartKeepsJobs, RecoveryKeepsJobs DEF RecoverySteps
<1>4. \A i \in Keys : Begun(i)' => Begun(i)
  <2>1. CASE jobs' = jobs
    BY <2>1 DEF Begun
  <2>2. CASE ResumeHarbor \/ RecoveryEnds
    <3>1. recovery \in Keys /\ recovery # None
      BY <1>1, <2>2 DEF ResumeHarbor, RecoveryEnds, JobInv, JobShape
    <3>2. Begun(recovery)
      <4>1. KeyInv(recovery) /\ recoveries[recovery] # <<>>
        BY <1>1, <3>1 DEF JobInv, RecoveryInv
      <4> QED BY <4>1 DEF KeyInv
    <3>3. \A i \in Keys : i # recovery => jobs'[i] = jobs[i]
      BY <1>1, <2>2, <3>1 DEF ResumeHarbor, RecoveryEnds
    <3> QED BY <3>2, <3>3 DEF Begun
  <2> QED BY <2>1, <2>2 DEF RecoverySteps, RecoveryStart, BackUp, KillRecovery
<1> QED BY <1>2, <1>3, <1>4, BelowKeepsShape, OperatorStays DEF Shape, FileShape

\* Which operator takes a step of Harbor's, and which one of a replay.
LEMMA OperatorIs ==
  ASSUME Shape
  PROVE  /\ HarborOps => \/ pc = "rollout" /\ recipe # "ahe" /\ HarborOp(Here)
                         \/ pc = "validate" /\ recipe = "gepa" /\ HarborOp(<<gen, "validate">>)
         /\ op.pc \in {"verify", "materialize"} => pc = "rollout" /\ recipe = "ahe" /\ ReplayOp(Here)
<1>1. OpShape
  BY DEF Shape
<1>2. HarborOps => op.pc \in {"start", "launch", "running", "stopping", "collect", "state", "require"}
  BY DEF HarborOps, RolloutStart, RunHarbor, StopHarbor, HarborGone, StreamHeld, CollectCases,
         WriteHarborState, RequireCases
<1>3. NoOp.pc = "off"
  BY DEF NoOp
<1>4. ReplayOp(Here) => op.pc \in {"verify", "materialize", "done", "failed"}
  BY DEF ReplayOp, ReplayStages
<1>5. \A k : HarborOp(k) => op.pc \notin {"verify", "materialize"}
  BY DEF HarborOp, HarborStages
<1> QED BY <1>1, <1>2, <1>3, <1>4, <1>5 DEF OpShape

LEMMA FilesWritten ==
  ASSUME FileShape, NEW k \in DOMAIN files, NEW f,
         f = [cases |-> f.cases, state |-> f.state, summary |-> f.summary],
         files' = [files EXCEPT ![k] = f]
  PROVE  FileShape' /\ files'[k] = f /\ \A i \in DOMAIN files : i # k => files'[i] = files[i]
  BY DEF FileShape

\* Who writes files, whose, and what stays.
LEMMA OperatorWrites ==
  ASSUME Shape, NEW k \in Keys, op.key = k,
         CollectCases \/ WriteHarborState \/ RequireCases \/ (\E code : Materialize(code))
  PROVE  /\ FileShape' /\ \A i \in DOMAIN files : i # k => files'[i] = files[i]
         /\ CollectCases => files'[k].cases =
              Completed({Case(Reported[x.task], x.kind, x.code) : x \in jobs[k].trials}, jobs[k].tasks)
         /\ WriteHarborState \/ RequireCases => files'[k].cases = files[k].cases
<1>1. FileShape /\ k \in DOMAIN files
  BY Numbers DEF Shape, FileShape
<1>2. files[k] = [cases |-> files[k].cases, state |-> files[k].state, summary |-> files[k].summary]
  BY <1>1 DEF FileShape
<1>3. CASE CollectCases
  <2> DEFINE new == Completed({Case(Reported[x.task], x.kind, x.code) : x \in jobs[k].trials}, jobs[k].tasks)
             f == [files[k] EXCEPT !.cases = new]
  <2>1. files' = [files EXCEPT ![k] = f]
    BY <1>3 DEF CollectCases
  <2> HIDE DEF new
  <2>2. f = [cases |-> new, state |-> files[k].state, summary |-> files[k].summary]
    BY <1>2
  <2> HIDE DEF f
  <2>3. FileShape' /\ files'[k] = f /\ \A i \in DOMAIN files : i # k => files'[i] = files[i]
    BY <1>1, <2>1, <2>2, FilesWritten
  <2>4. ~WriteHarborState /\ ~RequireCases
    BY <1>3 DEF CollectCases, WriteHarborState, RequireCases
  <2> QED BY <2>2, <2>3, <2>4 DEF new
<1>4. CASE WriteHarborState
  <2> DEFINE f == [files[k] EXCEPT !.state = files[k].cases]
  <2>1. files' = [files EXCEPT ![k] = f]
    BY <1>4 DEF WriteHarborState
  <2>2. f = [cases |-> files[k].cases, state |-> files[k].cases, summary |-> files[k].summary]
    BY <1>2
  <2> HIDE DEF f
  <2>3. FileShape' /\ files'[k] = f /\ \A i \in DOMAIN files : i # k => files'[i] = files[i]
    BY <1>1, <2>1, <2>2, FilesWritten
  <2>4. ~CollectCases
    BY <1>4 DEF CollectCases, WriteHarborState
  <2> QED BY <2>2, <2>3, <2>4
<1>5. CASE RequireCases
  <2> DEFINE f == [files[k] EXCEPT !.summary = TRUE]
  <2>1. files' = files \/ files' = [files EXCEPT ![k] = f]
    BY <1>5 DEF RequireCases
  <2>2. f = [cases |-> f.cases, state |-> f.state, summary |-> f.summary] /\ f.cases = files[k].cases
    <3>1. \A b : LET h == [files[k] EXCEPT !.summary = b]
                 IN  h = [cases |-> h.cases, state |-> h.state, summary |-> h.summary]
                     /\ h.cases = files[k].cases
      BY <1>2
    <3> QED BY <3>1
  <2> HIDE DEF f
  <2>3. files' # files => FileShape' /\ files'[k] = f /\ \A i \in DOMAIN files : i # k => files'[i] = files[i]
    BY <1>1, <2>1, <2>2, FilesWritten
  <2>4. ~CollectCases
    BY <1>5 DEF CollectCases, RequireCases
  <2>5. files' = files => FileShape'
    BY <1>1 DEF FileShape
  <2> QED BY <2>2, <2>3, <2>4, <2>5
<1>6. CASE \E code : Materialize(code)
  <2>1. PICK code : Materialize(code)
    BY <1>6
  <2> DEFINE new == ReplayCases(op.parent, op.read, code)
             f == [files[k] EXCEPT !.cases = new, !.summary = TRUE]
  <2>2. files' = files \/ files' = [files EXCEPT ![k] = f]
    BY <2>1 DEF Materialize
  <2> HIDE DEF new
  <2>3. f = [cases |-> f.cases, state |-> f.state, summary |-> f.summary]
    <3>1. \A a, b : LET h == [files[k] EXCEPT !.cases = a, !.summary = b]
                    IN  h = [cases |-> h.cases, state |-> h.state, summary |-> h.summary]
      <4> TAKE a, b
      <4> DEFINE g == [files[k] EXCEPT !.cases = a]
      <4>1. g = [cases |-> a, state |-> files[k].state, summary |-> files[k].summary]
        BY <1>2
      <4>2. [files[k] EXCEPT !.cases = a, !.summary = b] = [g EXCEPT !.summary = b]
        BY <1>2
      <4> HIDE DEF g
      <4>3. [g EXCEPT !.summary = b] = [cases |-> a, state |-> files[k].state, summary |-> b]
        BY <4>1
      <4> QED BY <4>2, <4>3
    <3> QED BY <3>1
  <2> HIDE DEF f
  <2>4. files' # files => FileShape' /\ files'[k] = f /\ \A i \in DOMAIN files : i # k => files'[i] = files[i]
    BY <1>1, <2>2, <2>3, FilesWritten
  <2>5. ~CollectCases /\ ~WriteHarborState /\ ~RequireCases
    BY <2>1 DEF Materialize, CollectCases, WriteHarborState, RequireCases
  <2>6. files' = files => FileShape'
    BY <1>1 DEF FileShape
  <2> QED BY <2>4, <2>5, <2>6
<1> QED BY <1>3, <1>4, <1>5, <1>6

LEMMA OperatorKeepsShape ==
  ASSUME Shape, HarborOps, Below
  PROVE  Shape'
<1>1. PICK k \in Keys : /\ HarborOp(k) /\ pc \in {"rollout", "validate"}
                        /\ pc = "rollout" => k = Here /\ recipe # "ahe"
                        /\ pc = "validate" => k = <<gen, "validate">> /\ recipe = "gepa"
  BY OperatorIs, Numbers DEF Shape
<1>2. op.key = k
  BY <1>1 DEF HarborOp
<1>3. JobInv' /\ HarborOp(k)' /\ UNCHANGED <<checkout, certified>>
  BY <1>1, HarborOpKeeps DEF Shape
<1>4. FileShape'
  <2>1. CASE files' = files
    BY <2>1 DEF Shape, FileShape
  <2>2. CASE CollectCases \/ WriteHarborState \/ RequireCases
    BY <1>2, <2>2, OperatorWrites
  <2> QED BY <2>1, <2>2 DEF HarborOps, RolloutStart, RunHarbor, StopHarbor, HarborGone, StreamHeld
<1>5. OpShape'
  <2>1. UNCHANGED <<recipe, gen, pc>>
    BY DEF Below, reflectionVars
  <2>2. Here' = Here /\ (pc = "rollout" => pc # "validate")
    BY <2>1 DEF Here
  <2> QED BY <1>1, <1>3, <2>1, <2>2 DEF OpShape
<1> QED BY <1>3, <1>4, <1>5, BelowKeepsShape

LEMMA ReplayKeepsShape ==
  ASSUME Shape, VerifySource \/ SpoilEvidence \/ (\E code : Materialize(code)), Below
  PROVE  Shape'
<1>1. pc = "rollout" /\ recipe = "ahe" /\ ReplayOp(Here) /\ Here \in Keys
  BY OperatorIs, Numbers DEF Shape, VerifySource, SpoilEvidence, Materialize
<1>2. op.key = Here /\ op = [pc |-> op.pc, key |-> Here, parent |-> parent, read |-> op.read]
  BY <1>1 DEF ReplayOp
<1>3. UNCHANGED <<checkout, jobs, recoveries, recovery, finished, certified>>
  BY DEF VerifySource, SpoilEvidence, Materialize
<1>4. UNCHANGED <<recipe, archive, gen, pc, parent>>
  BY DEF Below, reflectionVars
<1>5. JobInv'
  BY <1>3, GenerationKeepsJobs DEF Shape
<1>6. FileShape'
  <2>1. CASE files' = files
    BY <2>1 DEF Shape, FileShape
  <2>2. CASE \E code : Materialize(code)
    BY <1>1, <1>2, <2>2, OperatorWrites
  <2> QED BY <2>1, <2>2 DEF VerifySource, SpoilEvidence
<1>7. ReplayOp(Here)'
  <2>1. Here' = Here
    BY <1>4 DEF Here
  <2>2. CASE VerifySource
    <3>1. \/ op' = [op EXCEPT !.pc = "failed"]
          \/ \E read : \E stage \in {"materialize", "verify"} :
               op' = [op EXCEPT !.read = read, !.pc = stage]
      BY <2>2 DEF VerifySource
    <3>2. CASE op' = [op EXCEPT !.pc = "failed"]
      BY <1>1, <1>2, <1>4, <2>1, <3>2 DEF ReplayOp, ReplayStages
    <3>3. ASSUME NEW read, NEW stage \in {"materialize", "verify"},
                 op' = [op EXCEPT !.read = read, !.pc = stage]
          PROVE  ReplayOp(Here)'
      <4>1. op' = [pc |-> stage, key |-> Here, parent |-> parent, read |-> read]
        <5> DEFINE g == [op EXCEPT !.read = read]
        <5>1. g = [pc |-> op.pc, key |-> Here, parent |-> parent, read |-> read]
          BY <1>2
        <5>2. op' = [g EXCEPT !.pc = stage]
          BY <1>2, <3>3
        <5> HIDE DEF g
        <5> QED BY <5>1, <5>2
      <4> QED BY <1>4, <2>1, <4>1 DEF ReplayOp, ReplayStages
    <3> QED BY <3>1, <3>2, <3>3
  <2>3. CASE SpoilEvidence
    <3>1. op' = op
      BY <2>3 DEF SpoilEvidence
    <3> QED BY <1>1, <1>4, <2>1, <3>1 DEF ReplayOp
  <2>4. CASE \E code : Materialize(code)
    <3>1. op' = [op EXCEPT !.pc = "failed"] \/ op' = [op EXCEPT !.pc = "done"]
      BY <2>4 DEF Materialize, OpGoes
    <3> QED BY <1>1, <1>2, <1>4, <2>1, <3>1 DEF ReplayOp, ReplayStages
  <2> QED BY <2>2, <2>3, <2>4
<1>8. OpShape'
  BY <1>1, <1>4, <1>7 DEF OpShape
<1> QED BY <1>3, <1>5, <1>6, <1>8, BelowKeepsShape

LEMMA NextIs ==
  ASSUME Next
  PROVE  \/ Select \/ RolloutDone \/ RolloutFailed \/ Analysis \/ Mutate \/ Validate \/ Evaluate
         \/ Record \/ Kill \/ Resume \/ (\E p \in Gens : Recertify(p))
         \/ (HarborSteps \/ RecoverySteps \/ HarborOps) /\ Below
         \/ (VerifySource \/ SpoilEvidence \/ Materialize(Code(parent))) /\ Below
  BY DEF Next, Analysis, OperatorSteps, HarborOps

LEMMA NextShape ==
  ASSUME Shape, [Next]_vars
  PROVE  Shape'
<1>1. CASE UNCHANGED vars
  <2>1. /\ UNCHANGED <<checkout, jobs, files, op, recoveries, recovery, certified, finished>>
        /\ UNCHANGED reflectionVars
    BY <1>1 DEF vars, rolloutVars
  <2>2. Below /\ JobInv' /\ FileShape'
    BY <2>1, GenerationKeepsJobs DEF Below, Shape, FileShape
  <2>3. OpShape'
    BY <2>1, <2>2, OperatorStays DEF Begun
  <2> QED BY <2>1, <2>2, <2>3, BelowKeepsShape
<1>2. CASE Next
  BY <1>2, NextIs, SelectKeepsShape, RolloutEndsKeepsShape, AnalysisKeepsShape, MutateKeepsShape,
     ValidateKeepsShape, EvaluateKeepsShape, EndKeepsShape, RecertifyKeepsShape, HarborKeepsShape,
     RecoveryKeepsShape, OperatorKeepsShape, ReplayKeepsShape
<1> QED BY <1>1, <1>2


LEMMA RepairedIs ==
  ASSUME NEW c \in Certificates(Vectors \cup FirstVectors)
  PROVE  Certificate(Repaired(c))
<1>1. PICK v \in Vectors \cup FirstVectors : c = [base |-> v, repaired |-> {}, repair |-> <<>>]
  BY DEF Certificates
<1>2. IsFiniteSet(DOMAIN v)
  BY ReflectionAssumption
<1> DEFINE spoilt == {t \in DOMAIN v : v[t] = "infra"}
           repair == [t \in spoilt |-> "pass"]
<1>3. Repaired(c) = [base |-> v, repaired |-> spoilt, repair |-> repair]
  <2> DEFINE b == [c EXCEPT !.repaired = spoilt]
  <2>1. Repaired(c) = [b EXCEPT !.repair = repair]
    BY <1>1 DEF Repaired
  <2>2. PICK e : c = [base |-> v, repaired |-> {}, repair |-> e]
    BY <1>1
  <2>3. \A s : [c EXCEPT !.repaired = s] = [base |-> v, repaired |-> s, repair |-> e]
    BY <2>2
  <2>4. b = [base |-> v, repaired |-> spoilt, repair |-> e]
    BY <2>3
  <2> HIDE DEF b, spoilt, repair
  <2> QED BY <2>1, <2>4
<1>4. DOMAIN repair = spoilt /\ spoilt \subseteq DOMAIN v
  OBVIOUS
<1> HIDE DEF repair, spoilt
<1> QED BY <1>2, <1>3, <1>4 DEF Certificate

LEMMA InitLines ==
  ASSUME Init
  PROVE  /\ Recipes # {} /\ recipe \in Recipes /\ gen = 2 /\ pc = "select" /\ parent = None /\ op = NoOp
         /\ DOMAIN archive = Gens /\ \A g \in Gens : g > 1 => archive[g] = None
         /\ archive[1].parent = 0 /\ archive[1].code = <<1, 1>>
         /\ archive[0].parent = None /\ archive[0].code = <<0, 0>>
         /\ archive[1] \in Lines /\ archive[0] \in Lines /\ {0, 1, 2} \subseteq Gens
<1>1. recipe \in Recipes /\ gen = 2 /\ pc = "select" /\ parent = None /\ op = NoOp
  BY DEF Init
<1>2. PICK N \in Nat : Gens = 0..N /\ MaxGen[recipe] \in 2..N
  BY <1>1, GensFacts
<1>3. PICK valid \in BOOLEAN : archive = [g \in Gens |->
         CASE g = 0 -> [parent |-> None, code |-> <<0, 0>>, valid |-> TRUE]
           [] g = 1 -> [parent |-> 0, code |-> <<1, 1>>, valid |-> valid]
           [] OTHER -> None]
  BY DEF Init
<1>4. {0, 1, 2} \subseteq Gens
  BY <1>2
<1>5. archive[0] = [parent |-> None, code |-> <<0, 0>>, valid |-> TRUE]
  BY <1>3, <1>4
<1>6. archive[1] = [parent |-> 0, code |-> <<1, 1>>, valid |-> valid]
  BY <1>3, <1>4
<1>7. \A g \in Gens : g > 1 => archive[g] = None
  BY <1>2, <1>3
<1>8. archive[0] \in Lines /\ archive[1] \in Lines
  BY <1>4, <1>5, <1>6 DEF Lines, Codes
<1> QED BY <1>1, <1>3, <1>4, <1>5, <1>6, <1>7, <1>8

LEMMA InitCertificates ==
  ASSUME Init
  PROVE  /\ DOMAIN certified = Gens
         /\ Certificate(certified[0]) /\ Certificate(certified[1])
<1>1. PICK c0 \in Certificates(FirstVectors), c1 \in Certificates(Vectors) :
        \E a \in IF recipe = "ahe" THEN {c0, Repaired(c0)} ELSE {c0} :
          certified = [g \in Gens |-> CASE g = 0 -> a [] g = 1 -> c1 [] OTHER -> None]
  BY DEF Init
<1>2. PICK a \in {c0, Repaired(c0)} :
        certified = [g \in Gens |-> CASE g = 0 -> a [] g = 1 -> c1 [] OTHER -> None]
  BY <1>1
<1>3. {0, 1} \subseteq Gens
  BY InitLines
<1>4. certified[0] = a /\ certified[1] = c1 /\ DOMAIN certified = Gens
  BY <1>2, <1>3
<1>5. c0 \in Certificates(Vectors \cup FirstVectors) /\ c1 \in Certificates(Vectors \cup FirstVectors)
  BY DEF Certificates
<1>6. Certificate(c0) /\ Certificate(c1) /\ Certificate(Repaired(c0))
  BY <1>5, CertificatesAre, RepairedIs
<1> QED BY <1>2, <1>4, <1>6

LEMMA InitRuns ==
  ASSUME Init
  PROVE  /\ RunShape
         /\ \A g \in Gens : runs[g].comparison = None
         /\ recipe = "ahe" => \E change \in Manifests :
              runs[1].manifest = Manifest(change, <<0, 0>>, <<1, 1>>)
<1>1. PICK change \in Manifests :
        runs = [g \in Gens |->
                 IF g = 1 /\ recipe = "ahe"
                 THEN [NoRun EXCEPT !.manifest = Manifest(change, <<0, 0>>, <<1, 1>>)]
                 ELSE NoRun]
  BY DEF Init
<1> DEFINE r == [NoRun EXCEPT !.manifest = Manifest(change, <<0, 0>>, <<1, 1>>)]
<1>2. RunRecord(NoRun) /\ NoRun.comparison = None
  BY DEF RunRecord, NoRun
<1>3. RunRecord(r) /\ r.comparison = None /\ r.manifest = Manifest(change, <<0, 0>>, <<1, 1>>)
  BY <1>2 DEF RunRecord
<1>4. runs = [g \in Gens |-> IF g = 1 /\ recipe = "ahe" THEN r ELSE NoRun]
  BY <1>1
<1>5. 1 \in Gens
  BY InitLines
<1> HIDE DEF r
<1> QED BY <1>2, <1>3, <1>4, <1>5 DEF RunShape

LEMMA InitFiles ==
  ASSUME Init
  PROVE  FileShape /\ \A g \in Gens : g # 1 => Cases(g) = None
<1>1. PICK first : files = [k \in Gens \X {"rollout", "validate"} |->
                    IF k = <<1, "rollout">> THEN [NoFiles EXCEPT !.cases = first] ELSE NoFiles]
  <2> DEFINE read == [i \in DOMAIN Sources(0) |-> Content(0, Sources(0)[i])]
             start == IF recipe = "ahe" THEN ReplayCases(0, read, <<0, 0>>)
                      ELSE {Case(t, "fail", <<0, 0>>) : t \in Range(Train)}
  <2>1. files = [k \in Gens \X {"rollout", "validate"} |->
                    IF k = <<1, "rollout">> THEN [NoFiles EXCEPT !.cases = start] ELSE NoFiles]
    BY DEF Init
  <2> HIDE DEF start
  <2> QED BY <2>1
<1>2. NoFiles = [cases |-> None, state |-> None, summary |-> FALSE]
  BY DEF NoFiles
<1> DEFINE f == [NoFiles EXCEPT !.cases = first]
<1>3. f = [cases |-> f.cases, state |-> f.state, summary |-> f.summary]
  <2>1. \A b, q : q = [cases |-> None, state |-> None, summary |-> b] =>
          LET h == [q EXCEPT !.cases = first]
          IN  h = [cases |-> h.cases, state |-> h.state, summary |-> h.summary]
    OBVIOUS
  <2> QED BY <1>2, <2>1
<1>4. NoFiles = [cases |-> NoFiles.cases, state |-> NoFiles.state, summary |-> NoFiles.summary]
      /\ NoFiles.cases = None
  BY <1>2
<1> HIDE DEF f
<1>5. \A k \in DOMAIN files : files[k] \in {f, NoFiles}
  BY <1>1 DEF f
<1>6. FileShape
  BY <1>1, <1>3, <1>4, <1>5 DEF FileShape, Verbs
<1>7. \A g \in Gens : g # 1 => files[<<g, "rollout">>] = NoFiles
  BY <1>1
<1> QED BY <1>4, <1>6, <1>7 DEF Cases

LEMMA InitShape ==
  ASSUME Init
  PROVE  Shape
<1>1. /\ Recipes # {} /\ recipe \in Recipes /\ gen = 2 /\ pc = "select" /\ parent = None /\ op = NoOp
      /\ checkout = [gen |-> None, code |-> None] /\ finished = {}
      /\ jobs = [k \in Keys |-> NoJob] /\ recoveries = [k \in Keys |-> <<>>] /\ recovery = None
  BY InitLines DEF Init
<1>2. PICK N \in Nat : Gens = 0..N /\ MaxGen[recipe] \in 2..N
  BY <1>1, GensFacts
<1>3. GenShape
  BY <1>1, <1>2 DEF GenShape, Stages
<1>4. /\ DOMAIN archive = Gens /\ \A g \in Gens : g > 1 => archive[g] = None
      /\ archive[1].parent = 0
      /\ archive[1] \in Lines /\ archive[0] \in Lines /\ {0, 1, 2} \subseteq Gens
  BY InitLines
<1>5. \A g \in Gens : g # 0 /\ g # 1 => archive[g] = None
  BY <1>2, <1>4
<1>6. ArchiveShape
  BY <1>4, <1>5, InitCertificates DEF ArchiveShape
<1>7. LineageShape
  <2>1. \A g \in Gens \ {0} : archive[g] # None => archive[g].parent \in 0..g - 1
    BY <1>4, <1>5
  <2>2. \A g \in Gens : g > gen => archive[g] = None
    BY <1>1, <1>2, <1>4
  <2>3. archive[gen] = None
    BY <1>1, <1>4
  <2> QED BY <1>1, <2>1, <2>2, <2>3 DEF LineageShape, BeforeEdit, AfterEdit
<1>8. CheckoutShape /\ OpShape
  BY <1>1 DEF CheckoutShape, OpShape, BeforeEdit, AfterEdit
<1>9. JobInv
  <2>1. NoJob \in Jobs /\ NoJob.harbor = "none" /\ NoJob.trials = {}
    BY DEF NoJob, Jobs, Owners
  <2>2. <<>> \in Seq(Attempts)
    OBVIOUS
  <2> HIDE DEF NoJob
  <2>3. JobShape
    BY <1>1, <2>1, <2>2 DEF JobShape
  <2>4. RecoveryInv /\ TrialsAreKept
    BY <1>1 DEF RecoveryInv, TrialsAreKept
  <2>5. \A k \in Keys : KeyInv(k)
    BY <1>1, <2>1 DEF KeyInv
  <2> QED BY <2>3, <2>4, <2>5 DEF JobInv
<1> QED BY <1>3, <1>6, <1>7, <1>8, <1>9, InitRuns, InitFiles DEF Shape

\* A recovery removes a trial only after it copied it, and nothing removes a copy.
THEOREM TrialsStay == Spec => []TrialsAreKept
<1>1. Shape => TrialsAreKept
  BY DEF Shape, JobInv
<1> QED BY <1>1, InitShape, NextShape, PTL DEF Spec

------------------------------------------------------------------------------
(* The judgement of a change. *)

Outcomes == {"passed", "failed", "infra_error", "agent_error", "incomplete"}

LEMMA OutcomeIs ==
  ASSUME NEW kind
  PROVE  Outcome(kind) \in Outcomes
  BY DEF Outcome, Outcomes

\* The cases of a replay: one for each task, of one code.
Replayed(cases, code) ==
  /\ \A c \in cases : c.code = code /\ c.outcome \in Outcomes
  /\ \A c, d \in cases : c.task = d.task => c = d

LEMMA TaskOutcomeIs ==
  ASSUME NEW cases, NEW code, Replayed(cases, code), NEW t
  PROVE  /\ TaskOutcome(cases, t) = "fail" =>
              \E c \in cases : c.task = t /\ c.outcome \in {"failed", "agent_error"}
         /\ TaskOutcome(cases, t) = "pass" =>
              /\ \E c \in cases : c.task = t
              /\ \A c \in cases : c.task = t => c.outcome = "passed"
         /\ \A c \in cases : c.task = t /\ c.outcome \in {"failed", "agent_error"}
              => TaskOutcome(cases, t) = "fail"
         /\ \A c \in cases : c.task = t /\ c.outcome = "passed" => TaskOutcome(cases, t) = "pass"
<1> DEFINE seen == {c \in cases : c.task = t /\ c.outcome \notin {"infra_error", "incomplete"}}
<1>1. /\ seen = {} => TaskOutcome(cases, t) = "unknown"
      /\ seen # {} /\ (\E c \in seen : c.outcome # "passed") => TaskOutcome(cases, t) = "fail"
      /\ seen # {} /\ ~(\E c \in seen : c.outcome # "passed") => TaskOutcome(cases, t) = "pass"
  BY DEF TaskOutcome
<1>2. \A c \in seen : c \in cases /\ c.task = t /\ c.outcome \in {"passed", "failed", "agent_error"}
  BY DEF Replayed, Outcomes
<1>3. \A c, d \in cases : c.task = t /\ d.task = t => c = d
  BY DEF Replayed
<1>4. TaskOutcome(cases, t) = "fail" => \E c \in seen : c.outcome # "passed"
  BY <1>1
<1>5. TaskOutcome(cases, t) = "pass" => seen # {} /\ ~(\E c \in seen : c.outcome # "passed")
  BY <1>1
<1>6. \A c \in cases : c.task = t /\ c.outcome \in {"passed", "failed", "agent_error"} => c \in seen
  OBVIOUS
<1>7. ASSUME TaskOutcome(cases, t) = "pass"
      PROVE  /\ \E c \in cases : c.task = t
             /\ \A c \in cases : c.task = t => c.outcome = "passed"
  <2>1. PICK c \in seen : c.outcome = "passed"
    BY <1>5, <1>7
  <2>2. c \in cases /\ c.task = t
    BY <1>2
  <2> QED BY <1>3, <2>1, <2>2
<1>8. ASSUME NEW c \in cases, c.task = t, c.outcome \in {"failed", "agent_error"}
      PROVE  TaskOutcome(cases, t) = "fail"
  BY <1>1, <1>6, <1>8
<1>9. ASSUME NEW c \in cases, c.task = t, c.outcome = "passed"
      PROVE  TaskOutcome(cases, t) = "pass"
  <2>1. c \in seen
    BY <1>6, <1>9
  <2>2. ~(\E d \in seen : d.outcome # "passed")
    BY <1>2, <1>3, <1>9
  <2> QED BY <1>1, <2>1, <2>2
<1> HIDE DEF seen
<1>10. TaskOutcome(cases, t) = "fail" =>
         \E c \in cases : c.task = t /\ c.outcome \in {"failed", "agent_error"}
  BY <1>2, <1>4
<1> QED BY <1>7, <1>8, <1>9, <1>10

\* What the judgement of a change is to say.
JudgedWell(change, from, to) ==
  LET outcome(cases, t) == {c.outcome : c \in {d \in cases : d.task = t}}
  IN  /\ change.manifest # None
      /\ change.manifest.to = to
      /\ change.manifest.from = from
      /\ \A c \in change.before : c.code = change.manifest.from
      /\ \A c \in change.after : c.code = change.manifest.to
      /\ \A t \in change.fixed : /\ outcome(change.before, t) \cap {"failed", "agent_error"} # {}
                                 /\ outcome(change.after, t) = {"passed"}
      /\ \A c \in change.before, d \in change.after :
           (c.task = d.task /\ c.outcome = "passed" /\ d.outcome \in {"failed", "agent_error"}) =>
             c.task \in change.unattributed \cup change.realized \cup change.still_failed
      /\ change.verdict = "EFFECTIVE" =>
           change.still_failed = {} /\ change.realized = {} /\ change.fixed # {}

LEMMA JudgedIs ==
  ASSUME NEW manifest, manifest # None, NEW before, NEW after,
         Replayed(before, manifest.from), Replayed(after, manifest.to)
  PROVE  JudgedWell(Judged(manifest, before, after), manifest.from, manifest.to)
<1> DEFINE observed == {c.task : c \in before \cup after}
           named(refs) == {CanonicalReference(r, observed) : r \in refs}
           predicted == named(manifest.predicted)
           risks == named(manifest.risks)
           fixed == predicted \cap Moved(before, after, "fail", "pass")
           worse == Moved(before, after, "pass", "fail")
           change == Judged(manifest, before, after)
<1>1. change = [manifest |-> manifest, before |-> before, after |-> after, predicted |-> predicted,
       fixed |-> fixed, still_failed |-> predicted \ fixed, realized |-> risks \cap worse,
       unattributed |-> worse \ (predicted \cup risks),
       verdict |-> Verdict(predicted, fixed, risks \cap worse)]
  BY DEF Judged
<1>2. /\ change.manifest = manifest /\ change.before = before /\ change.after = after
      /\ change.fixed = fixed /\ change.still_failed = predicted \ fixed
      /\ change.realized = risks \cap worse /\ change.unattributed = worse \ (predicted \cup risks)
      /\ change.verdict = Verdict(predicted, fixed, risks \cap worse)
  <2> HIDE DEF predicted, risks, fixed, worse, change
  <2> QED BY <1>1
<1>3. ASSUME NEW t \in fixed
      PROVE  /\ {c.outcome : c \in {d \in before : d.task = t}} \cap {"failed", "agent_error"} # {}
             /\ {c.outcome : c \in {d \in after : d.task = t}} = {"passed"}
  <2>1. TaskOutcome(before, t) = "fail" /\ TaskOutcome(after, t) = "pass"
    BY <1>3 DEF Moved
  <2>2. \E c \in before : c.task = t /\ c.outcome \in {"failed", "agent_error"}
    BY <2>1, TaskOutcomeIs
  <2>3. (\E c \in after : c.task = t) /\ \A c \in after : c.task = t => c.outcome = "passed"
    BY <2>1, TaskOutcomeIs
  <2> QED BY <2>2, <2>3
<1>4. ASSUME NEW c \in before, NEW d \in after, c.task = d.task, c.outcome = "passed",
             d.outcome \in {"failed", "agent_error"}
      PROVE  c.task \in worse
  <2>1. TaskOutcome(before, c.task) = "pass" /\ TaskOutcome(after, c.task) = "fail"
    BY <1>4, TaskOutcomeIs
  <2> QED BY <2>1 DEF Moved
<1>5. worse \cap fixed = {}
  <2>1. \A t \in fixed : TaskOutcome(before, t) = "fail"
    BY DEF Moved
  <2>2. \A t \in worse : TaskOutcome(before, t) = "pass"
    BY DEF Moved
  <2> QED BY <2>1, <2>2
<1>6. Verdict(predicted, fixed, risks \cap worse) = "EFFECTIVE" =>
        predicted \ fixed = {} /\ risks \cap worse = {} /\ fixed # {}
  <2> HIDE DEF predicted, risks, fixed, worse
  <2> QED BY DEF Verdict
<1>7. (\A c \in before : c.code = manifest.from) /\ (\A c \in after : c.code = manifest.to)
  BY DEF Replayed
<1> HIDE DEF predicted, risks, fixed, worse, change
<1>8. \A c \in before, d \in after :
        (c.task = d.task /\ c.outcome = "passed" /\ d.outcome \in {"failed", "agent_error"}) =>
          c.task \in (worse \ (predicted \cup risks)) \cup (risks \cap worse) \cup (predicted \ fixed)
  BY <1>4, <1>5
<1>9. JudgedWell(change, manifest.from, manifest.to)
  BY <1>2, <1>3, <1>6, <1>7, <1>8 DEF JudgedWell
<1> QED BY <1>9 DEF change

------------------------------------------------------------------------------
(* The recipe "ahe": replays, manifests and judgements. *)

FinalCases(p) == {Case(t, Final(p)[t], Code(p)) : t \in DOMAIN Final(p)}

\* What a replay of p has read when it verifies, and when it has verified all.
Reading(p, read) ==
  \/ read = <<>>
  \/ read = <<certified[p].base>> /\ certified[p].repaired # {}
HasRead(p, read) ==
  \/ read = <<certified[p].base>> /\ certified[p].repaired = {}
  \/ read = <<certified[p].base, certified[p].repair>> /\ certified[p].repaired # {}

LEMMA ReplayIs ==
  ASSUME NEW p, Certificate(certified[p]), NEW read, HasRead(p, read), NEW code
  PROVE  ReplayCases(p, read, code) = {Case(t, Final(p)[t], code) : t \in DOMAIN Final(p)}
<1> DEFINE base == certified[p].base
           repair == certified[p].repair
           repaired == certified[p].repaired
<1>1. DOMAIN repair = repaired /\ repaired \subseteq DOMAIN base
  BY DEF Certificate
<1>2. /\ DOMAIN Final(p) = DOMAIN base
      /\ \A t \in DOMAIN base : Final(p)[t] = IF t \in repaired THEN repair[t] ELSE base[t]
  BY DEF Final
<1>3. /\ read[1] = base
      /\ repaired = {} => Len(read) = 1
      /\ repaired # {} => Len(read) = 2 /\ read[2] = repair
  BY DEF HasRead
<1> HIDE DEF base, repair, repaired
<1> DEFINE kept == {t \in DOMAIN read[1] : t \notin certified[p].repaired}
           again == IF Len(read) = 1 THEN {} ELSE certified[p].repaired \cap DOMAIN read[2]
<1>4. ReplayCases(p, read, code) = {Case(t, read[1][t], code) : t \in kept}
                                    \cup {Case(t, read[2][t], code) : t \in again}
  BY DEF ReplayCases
<1>5. kept = DOMAIN base \ repaired
  BY <1>3 DEF repaired
<1>6. again = repaired
  BY <1>1, <1>3 DEF repaired
<1>7. \A t \in kept : t \in DOMAIN base /\ read[1][t] = Final(p)[t]
  BY <1>2, <1>3, <1>5
<1>8. \A t \in again : t \in DOMAIN base /\ read[2][t] = Final(p)[t]
  BY <1>1, <1>2, <1>3, <1>6
<1>9. kept \cup again = DOMAIN base
  BY <1>1, <1>5, <1>6
<1> HIDE DEF kept, again
<1>10. ReplayCases(p, read, code) = {Case(t, Final(p)[t], code) : t \in DOMAIN base}
  <2>1. \A c : c \in {Case(t, read[1][t], code) : t \in kept} => c \in {Case(t, Final(p)[t], code) : t \in DOMAIN base}
    BY <1>7
  <2>2. \A c : c \in {Case(t, read[2][t], code) : t \in again} => c \in {Case(t, Final(p)[t], code) : t \in DOMAIN base}
    BY <1>8
  <2>3. ASSUME NEW t \in DOMAIN base
        PROVE  Case(t, Final(p)[t], code) \in {Case(u, read[1][u], code) : u \in kept}
                                              \cup {Case(u, read[2][u], code) : u \in again}
    <3>1. CASE t \in kept
      BY <1>7, <3>1
    <3>2. CASE t \in again
      BY <1>8, <3>2
    <3> QED BY <1>9, <2>3, <3>1, <3>2
  <2> QED BY <1>4, <2>1, <2>2, <2>3
<1> QED BY <1>2, <1>10

LEMMA CaseIs ==
  ASSUME NEW t, NEW kind, NEW code
  PROVE  /\ Case(t, kind, code) = [task |-> t, outcome |-> Outcome(kind), reward |-> Reward(kind), code |-> code]
         /\ Case(t, kind, code).task = t /\ Case(t, kind, code).code = code
         /\ Case(t, kind, code).outcome = Outcome(kind) /\ Case(t, kind, code).reward = Reward(kind)
         /\ Case(t, kind, code).outcome \in Outcomes
  BY OutcomeIs DEF Case

LEMMA FinalIsReplayed ==
  ASSUME NEW p, NEW code
  PROVE  Replayed({Case(t, Final(p)[t], code) : t \in DOMAIN Final(p)}, code)
<1> DEFINE cases == {Case(t, Final(p)[t], code) : t \in DOMAIN Final(p)}
<1>1. \A c \in cases : \E t \in DOMAIN Final(p) : c = Case(t, Final(p)[t], code) /\ c.task = t
  BY CaseIs
<1>2. \A c \in cases : c.code = code /\ c.outcome \in Outcomes
  BY CaseIs
<1> HIDE DEF cases
<1>3. \A c, d \in cases : c.task = d.task => c = d
  BY <1>1
<1>4. Replayed(cases, code)
  BY <1>2, <1>3 DEF Replayed
<1> QED BY <1>4 DEF cases

ManifestOf(g, from, to) ==
  runs[g].manifest # None /\ runs[g].manifest.from = from /\ runs[g].manifest.to = to

LEMMA ManifestIs ==
  ASSUME NEW change \in Manifests, NEW from \in Codes, NEW to \in Codes
  PROVE  /\ Manifest(change, from, to) # None
         /\ Manifest(change, from, to).from = from /\ Manifest(change, from, to).to = to
<1>1. change \in [predicted : SUBSET Seq(STRING), risks : SUBSET Seq(STRING)]
  BY ReflectionAssumption
<1>2. Manifest(change, from, to) \in [predicted : SUBSET Seq(STRING), risks : SUBSET Seq(STRING),
                                      from : Nat \X Nat, to : Nat \X Nat]
  BY <1>1 DEF Manifest, Codes
<1> QED BY <1>2, ReflectionAssumption DEF Manifest

\* A committed generation: the manifest of its change, and the replay of its parent.
AheLine(g) ==
  /\ archive[archive[g].parent] # None
  /\ ManifestOf(g, Code(archive[g].parent), Code(g))
  /\ Cases(g) # None => Replayed(Cases(g), Code(archive[g].parent))

ReplayInv ==
  /\ pc = "rollout" /\ op.pc = "verify" => Reading(parent, op.read)
  /\ pc = "rollout" /\ op.pc = "materialize" => HasRead(parent, op.read)
  /\ pc \in {"analyze", "debug", "change", "feedback", "mutate", "evaluate"}
       \/ (pc = "rollout" /\ op.pc = "done") => Cases(gen) = FinalCases(parent)

ChangeInv ==
  /\ pc = "evaluate" => ManifestOf(gen, Code(parent), checkout.code)
  /\ pc \in {"feedback", "mutate"} /\ parent # 0 =>
       JudgedWell(runs[gen].change, Code(archive[parent].parent), Code(parent))

AheInv ==
  recipe = "ahe" =>
    /\ \A g \in Gens \ {0} : archive[g] # None => AheLine(g)
    /\ ReplayInv /\ ChangeInv

\* What a committed generation says of itself stays.
LEMMA AheLinesStay ==
  ASSUME Shape, AheInv, recipe = "ahe",
         \A g \in Gens : archive[g] # None =>
           /\ archive'[g] # None /\ archive'[g].code = archive[g].code
           /\ archive'[g].parent = archive[g].parent,
         \A g \in Gens \ {0} : archive'[g] # None =>
           \/ archive[g] # None /\ runs'[g].manifest = runs[g].manifest /\ Cases(g)' = Cases(g)
           \/ AheLine(g)'
  PROVE  \A g \in Gens \ {0} : archive'[g] # None => AheLine(g)'
<1> SUFFICES ASSUME NEW g \in Gens \ {0}, archive'[g] # None PROVE AheLine(g)'
  OBVIOUS
<1>1. CASE archive[g] # None /\ runs'[g].manifest = runs[g].manifest /\ Cases(g)' = Cases(g)
  <2> DEFINE p == archive[g].parent
  <2>1. AheLine(g)
    BY <1>1 DEF AheInv
  <2>2. p \in Gens
    <3>1. p \in 0..g - 1
      BY <1>1 DEF Shape, LineageShape
    <3>2. PICK N \in Nat : Gens = 0..N
      BY Numbers DEF Shape
    <3> QED BY <3>1, <3>2
  <2>3. archive[p] # None
    BY <2>1 DEF AheLine
  <2>4. archive'[p] # None /\ archive'[p].code = archive[p].code /\ archive'[g].code = archive[g].code
        /\ archive'[g].parent = p
    BY <1>1, <2>2, <2>3
  <2>5. Code(p)' = Code(p) /\ Code(g)' = Code(g)
    BY <2>4 DEF Code
  <2>6. ManifestOf(g, Code(p), Code(g)) /\ (Cases(g) # None => Replayed(Cases(g), Code(p)))
    BY <2>1 DEF AheLine
  <2>7. ManifestOf(g, Code(p), Code(g))'
    BY <1>1, <2>5, <2>6 DEF ManifestOf
  <2>8. (Cases(g) # None => Replayed(Cases(g), Code(p)))'
    BY <1>1, <2>5, <2>6
  <2>9. (archive[g].parent)' = p' /\ p' = p
    BY <2>4
  <2>10. ManifestOf(g, Code(archive[g].parent), Code(g))' /\ archive'[archive'[g].parent] # None
         /\ (Cases(g) # None => Replayed(Cases(g), Code(archive[g].parent)))'
    BY <2>4, <2>7, <2>8
  <2> QED BY <2>10 DEF AheLine
<1> QED BY <1>1

\* Where the archive and the files stay, and the manifests of other generations.
LEMMA AheLinesOfGeneration ==
  ASSUME Shape, AheInv, recipe = "ahe", UNCHANGED <<archive, files>>,
         \A g \in Gens : archive[g] # None => runs'[g].manifest = runs[g].manifest
  PROVE  \A g \in Gens \ {0} : archive'[g] # None => AheLine(g)'
<1>1. \A g \in Gens : Cases(g)' = Cases(g)
  BY DEF Cases
<1> QED BY <1>1, AheLinesStay

\* From the selection to the replay, and from the commit to the end.
LEMMA AheElsewhere ==
  ASSUME Shape, AheInv, recipe = "ahe",
         Select \/ RolloutDone \/ RolloutFailed \/ Record \/ Kill \/ Resume
  PROVE  AheInv'
<1>1. RunShape /\ gen \in Gens /\ UNCHANGED <<archive, files, recipe, certified>>
  BY Numbers DEF Shape, Select, RolloutDone, RolloutFailed, Record, Kill, Resume
<1>2. runs' = runs
  BY DEF Select, RolloutDone, RolloutFailed, Record, Kill, Resume
<1>3. \A g \in Gens \ {0} : archive'[g] # None => AheLine(g)'
  BY <1>1, <1>2, AheLinesOfGeneration
<1>4. CASE Select
  <2>1. pc' = "rollout" /\ \E p : op' = Replay(Here, p)
    BY <1>4 DEF Select
  <2>2. op'.pc = "verify" /\ op'.read = <<>>
    BY <2>1 DEF Replay
  <2> QED BY <1>1, <1>3, <2>1, <2>2 DEF AheInv, ReplayInv, ChangeInv, Reading
<1>5. CASE RolloutDone
  <2>1. pc = "rollout" /\ op.pc = "done" /\ pc' = "analyze" /\ UNCHANGED <<gen, parent, archive, certified, files>>
    BY <1>5 DEF RolloutDone
  <2>2. Cases(gen) = FinalCases(parent)
    BY <2>1 DEF AheInv, ReplayInv
  <2>3. Cases(gen)' = FinalCases(parent)'
    BY <2>1, <2>2 DEF Cases, FinalCases, Final, Code
  <2> QED BY <1>1, <1>3, <2>1, <2>3 DEF AheInv, ReplayInv, ChangeInv
<1>6. CASE RolloutFailed \/ Record \/ Kill \/ Resume
  <2>1. pc' \in {"select", "end", "stopped"}
    BY <1>6 DEF RolloutFailed, Record, Kill, Resume, NextGeneration
  <2> QED BY <1>1, <1>3, <2>1 DEF AheInv, ReplayInv, ChangeInv
<1> QED BY <1>4, <1>5, <1>6

LEMMA AnalysisKeepsAhe ==
  ASSUME Shape, AheInv, recipe = "ahe", Analysis
  PROVE  AheInv'
<1>1. /\ RunShape /\ gen \in Gens /\ archive[gen] = None /\ Quiet
      /\ pc \in {"analyze", "debug", "change", "feedback"}
      /\ UNCHANGED <<archive, files, recipe, certified, gen, parent, op, checkout>>
      /\ parent \in 0..gen - 1 /\ archive[parent] # None
  BY Numbers, AnalysisIs DEF Shape, LineageShape, Quiet, BeforeEdit
<1>2. SameElsewhere /\ SameEdit
  BY <1>1, AnalysisWrites
<1>3. \A g \in Gens \ {0} : archive'[g] # None => AheLine(g)'
  <2>1. \A g \in Gens : archive[g] # None => runs'[g].manifest = runs[g].manifest
    BY <1>1, <1>2 DEF SameElsewhere
  <2> QED BY <1>1, <2>1, AheLinesOfGeneration
<1>4. Cases(gen) = FinalCases(parent)
  BY <1>1 DEF AheInv, ReplayInv
<1>5. ReplayInv'
  <2>1. Cases(gen)' = FinalCases(parent)'
    BY <1>1, <1>4 DEF Cases, FinalCases, Final, Code
  <2>2. pc' \in {"debug", "change", "feedback", "mutate"}
    BY AnalysisIs
  <2> QED BY <2>1, <2>2 DEF ReplayInv
<1>6. ASSUME parent # 0, pc' \in {"feedback", "mutate"}
      PROVE  JudgedWell(runs'[gen].change, Code(archive[parent].parent), Code(parent))
  <2>1. CASE ChangeEvaluation
    <3>1. Cases(parent) # None
      BY <1>6, <2>1 DEF ChangeEvaluation
    <3>2. runs' = [runs EXCEPT ![gen].change = Judged(runs[parent].manifest, Cases(parent), Cases(gen))]
      BY <1>6, <2>1 DEF ChangeEvaluation
    <3> DEFINE judged == Judged(runs[parent].manifest, Cases(parent), Cases(gen))
    <3>3. runs'[gen].change = judged
      <4> HIDE DEF judged
      <4>1. runs' = [runs EXCEPT ![gen].change = judged]
        BY <3>2 DEF judged
      <4>2. runs'[gen] = [runs[gen] EXCEPT !.change = judged]
        BY <1>1, <4>1 DEF RunShape
      <4> QED BY <1>1, <4>2 DEF RunShape, RunRecord
    <3>4. parent \in Gens \ {0}
      BY <1>1, <1>6, Numbers DEF Shape
    <3>5. AheLine(parent)
      BY <1>1, <3>4 DEF AheInv
    <3>6. ManifestOf(parent, Code(archive[parent].parent), Code(parent))
          /\ Replayed(Cases(parent), Code(archive[parent].parent))
      BY <3>1, <3>5 DEF AheLine
    <3>7. Replayed(Cases(gen), Code(parent))
      BY <1>4, FinalIsReplayed DEF FinalCases
    <3>8. /\ runs[parent].manifest # None
          /\ runs[parent].manifest.from = Code(archive[parent].parent)
          /\ runs[parent].manifest.to = Code(parent)
      BY <3>6 DEF ManifestOf
    <3>9. JudgedWell(judged, Code(archive[parent].parent), Code(parent))
      BY <3>6, <3>7, <3>8, JudgedIs
    <3> HIDE DEF judged
    <3> QED BY <3>3, <3>9
  <2>2. CASE Feedback
    <3>1. runs' = [runs EXCEPT ![gen].feedback = Copies] /\ pc = "feedback"
      BY <2>2 DEF Feedback
    <3>2. runs'[gen].change = runs[gen].change
      BY <1>1, <3>1 DEF RunShape, RunRecord
    <3> QED BY <1>6, <3>1, <3>2 DEF AheInv, ChangeInv
  <2>3. pc' \in {"debug", "change"} \/ ChangeEvaluation \/ Feedback \/ recipe # "ahe"
    BY DEF Analysis, GepaAnalyze, TrajectoryOnly, AheStart, StartDebugger, DebuggerEnds,
           DebuggerFails, WriteReports
  <2> QED BY <1>6, <2>1, <2>2, <2>3
<1>7. ChangeInv'
  <2>1. pc' # "evaluate"
    BY AnalysisIs
  <2>2. (Code(archive[parent].parent))' = Code(archive[parent].parent) /\ Code(parent)' = Code(parent)
    BY <1>1 DEF Code
  <2> QED BY <1>1, <1>6, <2>1, <2>2 DEF ChangeInv
<1> QED BY <1>1, <1>3, <1>5, <1>7 DEF AheInv

LEMMA MutateKeepsAhe ==
  ASSUME Shape, AheInv, recipe = "ahe", Mutate
  PROVE  AheInv'
<1>1. /\ RunShape /\ CheckoutShape /\ gen \in Gens /\ gen \in Nat /\ archive[gen] = None /\ pc = "mutate"
      /\ UNCHANGED <<archive, files, recipe, certified>>
      /\ parent \in 0..gen - 1 /\ archive[parent] # None /\ parent \in Gens
  BY Numbers DEF Shape, LineageShape, Mutate, BeforeEdit
<1>2. SameElsewhere /\ runs[gen].edits \in Nat
  BY <1>1, MutateWrites
<1>3. \A g \in Gens \ {0} : archive'[g] # None => AheLine(g)'
  <2>1. \A g \in Gens : archive[g] # None => runs'[g].manifest = runs[g].manifest
    BY <1>1, <1>2 DEF SameElsewhere
  <2> QED BY <1>1, <2>1, AheLinesOfGeneration
<1>4. CASE AheMutate
  <2>1. pc' = "evaluate" /\ UNCHANGED <<gen, parent>>
    BY <1>4 DEF AheMutate
  <2>2. Cases(gen) = FinalCases(parent)
    BY <1>1 DEF AheInv, ReplayInv
  <2>3. Cases(gen)' = FinalCases(parent)'
    BY <1>1, <2>1, <2>2 DEF Cases, FinalCases, Final, Code
  <2>4. PICK change \in Manifests : runs'[gen].manifest = Manifest(change, Code(parent), Edit)
    BY <1>1, <1>4, MutateWrites
  <2>5. Code(parent) \in Codes /\ Edit \in Codes
    BY <1>1, <1>2 DEF Shape, ArchiveShape, Lines, Code, Edit, Codes
  <2>6. checkout'.code = Edit
    BY <1>1 DEF Mutate, CheckoutShape, BeforeEdit
  <2>7. /\ runs'[gen].manifest # None /\ runs'[gen].manifest.from = Code(parent)
        /\ runs'[gen].manifest.to = Edit
    BY <2>4, <2>5, ManifestIs
  <2>8. Code(parent)' = Code(parent) /\ gen' = gen
    BY <1>1, <2>1 DEF Code
  <2>9. ManifestOf(gen, Code(parent), checkout.code)'
    BY <2>6, <2>7, <2>8 DEF ManifestOf
  <2> QED BY <1>1, <1>3, <2>1, <2>3, <2>9 DEF AheInv, ReplayInv, ChangeInv
<1>5. CASE MutateFails
  <2>1. pc' \in {"select", "end"}
    BY <1>5 DEF MutateFails, NextGeneration
  <2> QED BY <1>1, <1>3, <2>1 DEF AheInv, ReplayInv, ChangeInv
<1> QED BY <1>4, <1>5 DEF Mutate, GepaMutate, AEvolveMutate

LEMMA EvaluateKeepsAhe ==
  ASSUME Shape, AheInv, recipe = "ahe", Evaluate
  PROVE  AheInv'
<1>1. /\ gen \in Gens \ {0} /\ gen \in Nat /\ archive[gen] = None /\ pc = "evaluate" /\ pc' = "record"
      /\ UNCHANGED <<files, recipe, runs, gen, parent, checkout>>
      /\ parent \in 0..gen - 1 /\ archive[parent] # None /\ parent \in Gens
      /\ DOMAIN archive = Gens
  BY Numbers DEF Shape, LineageShape, Evaluate, AfterEdit, ArchiveShape
<1>2. PICK valid \in BOOLEAN :
        archive' = [archive EXCEPT ![gen] = [parent |-> parent, code |-> checkout.code, valid |-> valid]]
  BY DEF Evaluate
<1>3. \A g \in Gens : g # gen => archive'[g] = archive[g]
  BY <1>1, <1>2
<1>4. archive'[gen].parent = parent /\ archive'[gen].code = checkout.code
  BY <1>1, <1>2
<1>5. \A g \in Gens : Cases(g)' = Cases(g)
  BY <1>1 DEF Cases
<1>6. Cases(gen) = FinalCases(parent) /\ ManifestOf(gen, Code(parent), checkout.code)
  BY <1>1 DEF AheInv, ReplayInv, ChangeInv
<1>7. AheLine(gen)'
  <2>1. Code(parent)' = Code(parent) /\ parent' = parent /\ parent # gen /\ archive'[parent] # None
    BY <1>1, <1>3 DEF Code
  <2>2. Code(gen)' = checkout.code /\ (archive[gen].parent)' = parent'
    BY <1>1, <1>4 DEF Code
  <2>3. Replayed(Cases(gen), Code(parent))
    BY <1>6, FinalIsReplayed DEF FinalCases
  <2>4. Replayed(Cases(gen), Code(parent))'
    BY <1>1, <1>5, <2>1, <2>3
  <2>5. ManifestOf(gen, Code(parent), Code(gen))'
    BY <1>1, <1>6, <2>1, <2>2 DEF ManifestOf
  <2>6. /\ archive'[archive'[gen'].parent] # None
        /\ ManifestOf(gen, Code(archive[gen].parent), Code(gen))'
        /\ Replayed(Cases(gen), Code(archive[gen].parent))'
    BY <1>1, <1>4, <2>1, <2>4, <2>5
  <2> QED BY <2>6 DEF AheLine
<1>8. \A g \in Gens \ {0} : archive'[g] # None => AheLine(g)'
  <2>1. \A g \in Gens : archive[g] # None => archive'[g] = archive[g]
    BY <1>1, <1>3
  <2>2. \A g \in Gens \ {0} : archive'[g] # None =>
          \/ archive[g] # None /\ runs'[g].manifest = runs[g].manifest /\ Cases(g)' = Cases(g)
          \/ AheLine(g)'
    <3> SUFFICES ASSUME NEW g \in Gens \ {0}, archive'[g] # None
                 PROVE  \/ archive[g] # None /\ runs'[g].manifest = runs[g].manifest /\ Cases(g)' = Cases(g)
                        \/ AheLine(g)'
      OBVIOUS
    <3>1. CASE g = gen
      <4>1. AheLine(g)'
        BY <1>1, <1>7, <3>1
      <4> QED BY <4>1
    <3>2. CASE g # gen
      BY <1>1, <1>3, <1>5, <3>2
    <3> QED BY <3>1, <3>2
  <2> QED BY <2>1, <2>2, AheLinesStay
<1> QED BY <1>1, <1>8 DEF AheInv, ReplayInv, ChangeInv

LEMMA RecertifyKeepsAhe ==
  ASSUME Shape, AheInv, recipe = "ahe", NEW p \in Gens, Recertify(p)
  PROVE  AheInv'
<1>1. pc' = "stopped" /\ UNCHANGED <<files, recipe, runs>>
  BY DEF Recertify
<1>2. \A g \in Gens : /\ archive'[g] = None <=> archive[g] = None
                      /\ archive[g] # None => /\ archive'[g].parent = archive[g].parent
                                              /\ archive'[g].code = archive[g].code
  BY RecertifyKeepsShape
<1>3. \A g \in Gens : Cases(g)' = Cases(g)
  BY <1>1 DEF Cases
<1>4. \A g \in Gens \ {0} : archive'[g] # None => AheLine(g)'
  BY <1>1, <1>2, <1>3, AheLinesStay
<1> QED BY <1>1, <1>4 DEF AheInv, ReplayInv, ChangeInv

LEMMA BelowKeepsAhe ==
  ASSUME AheInv, Below, UNCHANGED <<certified, checkout, files, op>>
  PROVE  AheInv'
<1>1. UNCHANGED <<recipe, archive, gen, pc, parent, runs>>
  BY DEF Below, reflectionVars
<1>2. \A g : Cases(g)' = Cases(g) /\ Code(g)' = Code(g)
  BY <1>1 DEF Cases, Code
<1>3. FinalCases(parent)' = FinalCases(parent)
  BY <1>1 DEF FinalCases, Final, Code
<1>4. \A g \in Gens : AheLine(g) => AheLine(g)'
  BY <1>1, <1>2 DEF AheLine, ManifestOf
<1>5. ReplayInv => ReplayInv'
  BY <1>1, <1>2, <1>3 DEF ReplayInv, Reading, HasRead
<1>6. ChangeInv => ChangeInv'
  BY <1>1, <1>2 DEF ChangeInv, ManifestOf
<1> QED BY <1>1, <1>4, <1>5, <1>6 DEF AheInv

LEMMA PairIs ==
  ASSUME NEW a, NEW b
  PROVE  Append(<<a>>, b) = <<a, b>>
<1>1. <<a>> \in Seq({a, b}) /\ b \in {a, b}
  OBVIOUS
<1>2. Append(<<a>>, b) \in Seq({a, b}) /\ Len(Append(<<a>>, b)) = 2
  BY <1>1
<1>3. Append(<<a>>, b)[1] = a /\ Append(<<a>>, b)[2] = b
  BY <1>1
<1> DEFINE s == Append(<<a>>, b)
<1> HIDE DEF s
<1>4. s \in Seq({a, b}) /\ Len(s) = 2 /\ s[1] = a /\ s[2] = b
  BY <1>2, <1>3 DEF s
<1>5. s = [i \in 1..2 |-> s[i]]
  BY <1>4
<1>6. s = <<a, b>>
  BY <1>4, <1>5
<1> QED BY <1>6 DEF s

\* What a source says, where its bytes are the certified ones, is what was certified.
LEMMA NextSource ==
  ASSUME NEW p, NEW read, Reading(p, read)
  PROVE  LET source == Sources(p)[Len(read) + 1]
             next == Append(read, Content(p, source))
         IN  IF Len(read) + 1 = Len(Sources(p)) THEN HasRead(p, next) ELSE Reading(p, next)
<1> DEFINE source == Sources(p)[Len(read) + 1]
           next == Append(read, Content(p, source))
           base == certified[p].base
           repair == certified[p].repair
<1>1. CASE read = <<>>
  <2>1. Len(read) + 1 = 1
    BY <1>1
  <2>2. source = "base"
    BY <2>1 DEF Sources
  <2>3. next = <<base>>
    BY <1>1, <2>2 DEF Content
  <2>4. (Len(read) + 1 = Len(Sources(p))) <=> certified[p].repaired = {}
    BY <2>1 DEF Sources
  <2> HIDE DEF source, next
  <2>5. IF Len(read) + 1 = Len(Sources(p)) THEN HasRead(p, next) ELSE Reading(p, next)
    BY <2>3, <2>4 DEF HasRead, Reading
  <2> QED BY <2>5 DEF source, next
<1>2. CASE read = <<base>> /\ certified[p].repaired # {}
  <2>1. Len(read) + 1 = 2
    BY <1>2
  <2>2. source = "repair" /\ Len(Sources(p)) = 2
    BY <1>2, <2>1 DEF Sources
  <2>3. next = <<base, repair>>
    <3>1. Content(p, source) = repair
      BY <2>2 DEF Content
    <3>3. next = Append(<<base>>, repair)
      BY <1>2, <3>1
    <3> HIDE DEF base, repair, next
    <3> QED BY <3>3, PairIs
  <2> HIDE DEF source, next
  <2>4. IF Len(read) + 1 = Len(Sources(p)) THEN HasRead(p, next) ELSE Reading(p, next)
    BY <1>2, <2>1, <2>2, <2>3 DEF HasRead
  <2> QED BY <2>4 DEF source, next
<1> QED BY <1>1, <1>2 DEF Reading

LEMMA ReplayKeepsAhe ==
  ASSUME Shape, AheInv, Below,
         VerifySource \/ SpoilEvidence \/ Materialize(Code(parent))
  PROVE  AheInv'
<1>1. /\ pc = "rollout" /\ recipe = "ahe" /\ ReplayOp(Here) /\ Here \in Keys
      /\ op = [pc |-> op.pc, key |-> Here, parent |-> parent, read |-> op.read] /\ op.parent = parent
  BY OperatorIs, Numbers DEF Shape, VerifySource, SpoilEvidence, Materialize, ReplayOp
<1>2. /\ UNCHANGED <<recipe, archive, gen, pc, parent, runs, certified, checkout>>
      /\ archive[gen] = None /\ parent \in Gens /\ archive[parent] # None /\ gen \in Gens
  BY <1>1, Numbers
     DEF Below, reflectionVars, VerifySource, SpoilEvidence, Materialize, Shape, LineageShape, BeforeEdit
<1>3. CASE SpoilEvidence
  BY <1>2, <1>3, BelowKeepsAhe DEF SpoilEvidence
<1>4. ASSUME \A g \in Gens : g # gen => Cases(g)' = Cases(g)
      PROVE  \A g \in Gens \ {0} : archive'[g] # None => AheLine(g)'
  <2>1. \A g \in Gens \ {0} : archive'[g] # None =>
          archive[g] # None /\ runs'[g].manifest = runs[g].manifest /\ Cases(g)' = Cases(g)
    BY <1>2, <1>4
  <2> QED BY <1>1, <1>2, <2>1, AheLinesStay
<1>5. CASE VerifySource
  <2>1. files' = files /\ op.pc = "verify" /\ Reading(parent, op.read)
    BY <1>1, <1>5 DEF VerifySource, AheInv, ReplayInv
  <2>2. \A g \in Gens \ {0} : archive'[g] # None => AheLine(g)'
    <3>1. \A g \in Gens : Cases(g)' = Cases(g)
      BY <2>1 DEF Cases
    <3> QED BY <1>4, <3>1
  <2> DEFINE source == Sources(parent)[Len(op.read) + 1]
             bytes == OnDisk(parent, source)
             next == Append(op.read, bytes)
  <2>3. op' = IF bytes # Content(parent, source) THEN [op EXCEPT !.pc = "failed"]
               ELSE [op EXCEPT !.read = next,
                               !.pc = IF Len(op.read) + 1 = Len(Sources(parent))
                                      THEN "materialize" ELSE "verify"]
    BY <1>1, <1>5 DEF VerifySource
  <2>4. CASE bytes # Content(parent, source)
    <3>1. op'.pc = "failed"
      BY <1>1, <2>3, <2>4
    <3> QED BY <1>1, <1>2, <2>2, <3>1 DEF AheInv, ReplayInv, ChangeInv
  <2>5. CASE bytes = Content(parent, source)
    <3>1. IF Len(op.read) + 1 = Len(Sources(parent)) THEN HasRead(parent, next) ELSE Reading(parent, next)
      BY <2>1, <2>5, NextSource
    <3>2. op' = [op EXCEPT !.read = next, !.pc = IF Len(op.read) + 1 = Len(Sources(parent))
                                      THEN "materialize" ELSE "verify"]
      BY <2>3, <2>5
    <3> HIDE DEF next, bytes
    <3>3. op'.read = next
      <4>1. \A stage : [op EXCEPT !.read = next, !.pc = stage].read = next
        BY <1>1
      <4> QED BY <3>2, <4>1
    <3>4. op'.pc = IF Len(op.read) + 1 = Len(Sources(parent)) THEN "materialize" ELSE "verify"
      <4>1. \A stage : [op EXCEPT !.read = next, !.pc = stage].pc = stage
        BY <1>1
      <4> QED BY <3>2, <4>1
    <3>5. op'.pc = "materialize" => HasRead(parent, op.read)'
      <4>1. op'.pc = "materialize" => HasRead(parent, next)
        BY <3>1, <3>4
      <4> QED BY <1>2, <3>3, <4>1 DEF HasRead
    <3>6. op'.pc = "verify" => Reading(parent, op.read)'
      <4>1. op'.pc = "verify" => Reading(parent, next)
        BY <3>1, <3>4
      <4> QED BY <1>2, <3>3, <4>1 DEF Reading
    <3>7. op'.pc \in {"materialize", "verify"}
      BY <3>4
    <3> QED BY <1>1, <1>2, <2>2, <3>5, <3>6, <3>7 DEF AheInv, ReplayInv, ChangeInv
  <2> QED BY <2>4, <2>5
<1>6. CASE Materialize(Code(parent))
  <2>1. op.pc = "materialize" /\ HasRead(parent, op.read)
    BY <1>1, <1>6 DEF Materialize, AheInv, ReplayInv
  <2>2. /\ op'.pc = "failed" /\ files' = files
        \/ /\ op'.pc = "done"
           /\ files' = [files EXCEPT ![Here].cases = ReplayCases(parent, op.read, Code(parent)),
                                     ![Here].summary = TRUE]
    BY <1>1, <1>6 DEF Materialize, OpGoes
  <2>3. \A i \in DOMAIN files : i # Here => files'[i] = files[i]
    <3>1. op.key = Here
      BY <1>1 DEF ReplayOp
    <3> QED BY <1>1, <1>6, <3>1, OperatorWrites
  <2>4. \A g \in Gens : g # gen => Cases(g)' = Cases(g)
    BY <2>3 DEF Cases, Here, Shape, FileShape, Verbs
  <2>5. \A g \in Gens \ {0} : archive'[g] # None => AheLine(g)'
    BY <1>4, <2>4
  <2>6. op'.pc = "done" => Cases(gen)' = FinalCases(parent)'
    <3> SUFFICES ASSUME op'.pc = "done" PROVE Cases(gen)' = FinalCases(parent)'
      OBVIOUS
    <3> DEFINE new == ReplayCases(parent, op.read, Code(parent))
    <3>1. files' = [files EXCEPT ![Here].cases = new, ![Here].summary = TRUE]
      BY <2>2
    <3> HIDE DEF new
    <3>2. Here \in DOMAIN files /\ files[Here] = [cases |-> files[Here].cases, state |-> files[Here].state, summary |-> files[Here].summary]
      BY <1>1, Numbers DEF Shape, FileShape
    <3>3. files'[Here] = [files[Here] EXCEPT !.cases = new, !.summary = TRUE]
      BY <3>1, <3>2
    <3>4. files'[Here].cases = new
      <4>1. \A b : [files[Here] EXCEPT !.cases = new, !.summary = b].cases = new
        BY <3>2
      <4> QED BY <3>3, <4>1
    <3>5. Certificate(certified[parent])
      BY <1>2 DEF Shape, ArchiveShape
    <3>6. new = FinalCases(parent)
      BY <2>1, <3>5, ReplayIs DEF new, FinalCases
    <3>7. FinalCases(parent)' = FinalCases(parent)
      BY <1>2 DEF FinalCases, Final, Code
    <3> QED BY <1>2, <3>4, <3>6, <3>7 DEF Cases, Here
  <2>7. op'.pc \in {"failed", "done"}
    BY <2>2
  <2> QED BY <1>1, <1>2, <2>5, <2>6, <2>7 DEF AheInv, ReplayInv, ChangeInv
<1> QED BY <1>3, <1>5, <1>6

LEMMA NextAhe ==
  ASSUME Shape, AheInv, [Next]_vars
  PROVE  AheInv'
<1>1. CASE recipe' # "ahe"
  BY <1>1 DEF AheInv
<1>2. CASE recipe' = "ahe"
  <2>1. recipe' = recipe
    BY DEF Next, vars, reflectionVars, Below, Select, RolloutDone, RolloutFailed, GepaAnalyze, TrajectoryOnly,
       AheStart, StartDebugger, DebuggerEnds, DebuggerFails, WriteReports, ChangeEvaluation, Feedback, Quiet,
       Mutate, Validate, Evaluate, Record, Kill, Resume, Recertify
  <2>2. recipe = "ahe"
    BY <1>2, <2>1
  <2>3. CASE UNCHANGED vars
    BY <2>3, BelowKeepsAhe DEF vars, rolloutVars, Below
  <2>4. CASE (HarborSteps \/ RecoverySteps) /\ Below
    <3>1. UNCHANGED <<certified, checkout, files, op>>
      BY <2>4 DEF HarborSteps, HarborTrial, HarborExit, Cancel, RecoverySteps, RecoveryStart, BackUp,
                  ResumeHarbor, RecoveryEnds, KillRecovery
    <3> QED BY <2>4, <3>1, BelowKeepsAhe
  <2>5. ~HarborOps /\ ~Validate
    <3>1. ~HarborOps
      BY <2>2, OperatorIs
    <3>2. ~Validate
      BY <2>2 DEF Validate, Shape, OpShape
    <3> QED BY <3>1, <3>2
  <2> QED BY <2>2, <2>3, <2>4, <2>5, NextIs, AheElsewhere, AnalysisKeepsAhe, MutateKeepsAhe, EvaluateKeepsAhe,
             RecertifyKeepsAhe, ReplayKeepsAhe
<1> QED BY <1>1, <1>2

LEMMA InitAhe ==
  ASSUME Init
  PROVE  AheInv
<1> SUFFICES ASSUME recipe = "ahe" PROVE AheInv
  BY DEF AheInv
<1>1. /\ pc = "select" /\ archive[1].parent = 0 /\ archive[1].code = <<1, 1>>
      /\ archive[0].code = <<0, 0>> /\ archive[0] \in Lines /\ {0, 1, 2} \subseteq Gens
      /\ \A g \in Gens : g > 1 => archive[g] = None
  BY InitLines
<1>2. ReplayInv /\ ChangeInv
  BY <1>1 DEF ReplayInv, ChangeInv
<1>3. \A g \in Gens \ {0} : archive[g] # None => g = 1
  <2>1. PICK N \in Nat : Gens = 0..N
    BY InitLines, GensFacts
  <2> QED BY <1>1, <2>1
<1>4. ManifestOf(1, Code(0), Code(1))
  <2>1. PICK change \in Manifests : runs[1].manifest = Manifest(change, <<0, 0>>, <<1, 1>>)
    BY InitRuns
  <2>2. <<0, 0>> \in Codes /\ <<1, 1>> \in Codes
    BY DEF Codes
  <2>3. /\ runs[1].manifest # None /\ runs[1].manifest.from = <<0, 0>>
        /\ runs[1].manifest.to = <<1, 1>>
    BY <2>1, <2>2, ManifestIs
  <2> QED BY <1>1, <2>3 DEF ManifestOf, Code
<1>5. Replayed(Cases(1), Code(0))
  <2> DEFINE read == [i \in DOMAIN Sources(0) |-> Content(0, Sources(0)[i])]
             first == ReplayCases(0, read, <<0, 0>>)
  <2>1. files = [k \in Gens \X {"rollout", "validate"} |->
                    IF k = <<1, "rollout">> THEN [NoFiles EXCEPT !.cases = first] ELSE NoFiles]
    BY DEF Init
  <2>2. HasRead(0, read)
    <3>1. CASE certified[0].repaired = {}
      <4>1. Sources(0) = <<"base">>
        BY <3>1 DEF Sources
      <4>2. read = <<certified[0].base>>
        BY <4>1 DEF Content
      <4> QED BY <3>1, <4>2 DEF HasRead
    <3>2. CASE certified[0].repaired # {}
      <4>1. Sources(0) = <<"base", "repair">>
        BY <3>2 DEF Sources
      <4>2. read = <<certified[0].base, certified[0].repair>>
        BY <4>1 DEF Content
      <4> QED BY <3>2, <4>2 DEF HasRead
    <3> QED BY <3>1, <3>2
  <2>3. first = {Case(t, Final(0)[t], <<0, 0>>) : t \in DOMAIN Final(0)}
    <3> HIDE DEF read
    <3> QED BY <2>2, InitCertificates, ReplayIs
  <2> HIDE DEF first, read
  <2>4. Cases(1) = first
    <3>1. <<1, "rollout">> \in Gens \X {"rollout", "validate"}
      BY <1>1
    <3>2. files[<<1, "rollout">>] = [NoFiles EXCEPT !.cases = first]
      BY <2>1, <3>1
    <3> QED BY <3>2 DEF Cases, NoFiles
  <2>5. Replayed(first, <<0, 0>>)
    BY <2>3, FinalIsReplayed
  <2> QED BY <1>1, <2>4, <2>5 DEF Code
<1>6. AheLine(1)
  BY <1>1, <1>4, <1>5, InitShape, NotLine DEF AheLine
<1> QED BY <1>2, <1>3, <1>6 DEF AheInv

\* The judgement of a change is that of the change that made the parent.
THEOREM ChangesJudged == Spec => []ChangeIsJudged
<1>1. AheInv => ChangeIsJudged
  BY DEF AheInv, ChangeInv, ChangeIsJudged, JudgedWell
<1>2. Shape /\ AheInv /\ [Next]_vars => Shape' /\ AheInv'
  BY NextShape, NextAhe
<1>3. Init => Shape /\ AheInv
  BY InitShape, InitAhe
<1> QED BY <1>1, <1>2, <1>3, PTL DEF Spec

------------------------------------------------------------------------------
(* Names and the collection of cases. *)

LEMMA SuffixIs ==
  ASSUME NEW X, NEW s \in Seq(X), NEW t \in Seq(X)
  PROVE  IsSuffix(s, t) <=> /\ Len(s) <= Len(t)
                            /\ \A i \in 1..Len(s) : s[Len(s) - i + 1] = t[Len(t) - i + 1]
<1> DEFINE r == Reverse(s)
           q == Reverse(t)
<1>1. r = [i \in 1..Len(s) |-> s[(Len(s) - i) + 1]] /\ q = [i \in 1..Len(t) |-> t[(Len(t) - i) + 1]]
  BY DEF Reverse
<1>2. Len(s) \in Nat /\ Len(t) \in Nat
  OBVIOUS
<1>3. r \in Seq(X) /\ Len(r) = Len(s)
  <2>1. \A i \in 1..Len(s) : (Len(s) - i) + 1 \in 1..Len(s)
    BY <1>2
  <2>2. r \in [1..Len(s) -> X]
    BY <1>1, <2>1
  <2> QED BY <1>2, <2>2
<1>4. q \in Seq(X) /\ Len(q) = Len(t)
  <2>1. \A i \in 1..Len(t) : (Len(t) - i) + 1 \in 1..Len(t)
    BY <1>2
  <2>2. q \in [1..Len(t) -> X]
    BY <1>1, <2>1
  <2> QED BY <1>2, <2>2
<1>5. \A i \in 1..Len(s) : r[i] = s[Len(s) - i + 1]
  BY <1>1
<1>6. \A i \in 1..Len(t) : q[i] = t[Len(t) - i + 1]
  BY <1>1
<1>7. IsSuffix(s, t) <=> Len(r) <= Len(q) /\ SubSeq(r, 1, Len(r)) = SubSeq(q, 1, Len(r))
  BY DEF IsSuffix, IsPrefix
<1> HIDE DEF r, q
<1>8. ASSUME Len(s) <= Len(t)
      PROVE  SubSeq(r, 1, Len(r)) = SubSeq(q, 1, Len(r)) <=> \A i \in 1..Len(s) : r[i] = q[i]
  <2>1. SubSeq(r, 1, Len(s)) = [i \in 1..Len(s) |-> r[i]]
    BY <1>2, <1>3
  <2>2. SubSeq(q, 1, Len(s)) = [i \in 1..Len(s) |-> q[i]]
    BY <1>2, <1>4, <1>8
  <2> QED BY <1>3, <2>1, <2>2
<1>9. Len(s) <= Len(t) => \A i \in 1..Len(s) : i \in 1..Len(t)
  BY <1>2
<1> QED BY <1>3, <1>4, <1>5, <1>6, <1>7, <1>8, <1>9

LEMMA SuffixesAgree ==
  ASSUME NEW X, NEW s \in Seq(X), NEW t \in Seq(X), NEW u \in Seq(X)
  PROVE  /\ IsSuffix(s, s)
         /\ IsSuffix(s, u) => Len(s) <= Len(u)
         /\ IsSuffix(s, u) /\ IsSuffix(t, u) /\ Len(s) = Len(t) => s = t
<1>1. IsSuffix(s, s)
  BY SuffixIs
<1>2. IsSuffix(s, u) => Len(s) <= Len(u)
  BY SuffixIs
<1>3. ASSUME IsSuffix(s, u), IsSuffix(t, u), Len(s) = Len(t)
      PROVE  s = t
  <2>1. \A i \in 1..Len(s) : s[Len(s) - i + 1] = t[Len(s) - i + 1]
    BY <1>3, SuffixIs
  <2>2. Len(s) \in Nat /\ \A j \in 1..Len(s) : Len(s) - j + 1 \in 1..Len(s) /\ j = Len(s) - (Len(s) - j + 1) + 1
    OBVIOUS
  <2>3. \A j \in 1..Len(s) : s[j] = t[j]
    BY <2>1, <2>2
  <2> QED BY <1>3, <2>3
<1> QED BY <1>1, <1>2, <1>3

\* The name that Harbor reports for a task means that task and no other of the batch.
LEMMA CanonicalIs ==
  ASSUME NEW tasks \in SUBSET Range(Train), NEW t \in tasks
  PROVE  Canonical(Reported[t], tasks) = t
<1> DEFINE X == STRING
<1>1. \A u \in tasks : u \in Seq(X)
  <2>1. Train \in Seq(Seq(X))
    BY RolloutAssumption
  <2>2. \A i \in DOMAIN Train : Train[i] \in Seq(X)
    BY <2>1
  <2> QED BY <2>2 DEF Range
<1>2. Reported[t] \in Seq(X) /\ IsSuffix(t, Reported[t]) /\ t \in Seq(X)
      /\ \A u \in tasks : IsSuffix(u, Reported[t]) => Len(u) <= Len(t)
  BY <1>1, ReportedAssumption
<1> HIDE DEF X
<1> DEFINE name == Reported[t]
           matches == {u \in tasks : IsSuffix(u, name)}
<1>3. CASE name \in tasks
  <2>1. IsSuffix(name, name) /\ Len(name) <= Len(t) /\ Len(t) <= Len(name)
    BY <1>2, <1>3, SuffixesAgree
  <2>2. Len(name) = Len(t)
    BY <1>2, <2>1
  <2>3. name = t
    BY <1>2, <2>1, <2>2, SuffixesAgree
  <2>4. Canonical(name, tasks) = name
    <3> HIDE DEF name
    <3>1. ~(matches = {})
      BY <1>2 DEF name
    <3> QED BY <1>3, <3>1 DEF Canonical
  <2> QED BY <2>3, <2>4
<1>4. CASE name \notin tasks
  <2>1. t \in matches
    BY <1>2
  <2>2. Canonical(name, tasks) = CHOOSE u \in matches : \A v \in matches : Len(v) <= Len(u)
    <3> HIDE DEF name
    <3>1. matches # {}
      BY <2>1
    <3>2. ~(name \in tasks) /\ ~(matches = {})
      BY <1>4, <3>1
    <3> QED BY <3>2 DEF Canonical
  <2>3. \A v \in matches : Len(v) <= Len(t)
    BY <1>2
  <2> DEFINE m == Canonical(name, tasks)
  <2>4. m \in matches /\ \A v \in matches : Len(v) <= Len(m)
    <3> HIDE DEF matches
    <3>1. \E u \in matches : \A v \in matches : Len(v) <= Len(u)
      BY <2>1, <2>3
    <3> QED BY <2>2, <3>1
  <2>5. m \in tasks /\ IsSuffix(m, name) /\ Len(t) <= Len(m) /\ Len(m) <= Len(t)
    BY <2>1, <2>3, <2>4
  <2>6. m \in Seq(X)
    BY <1>1, <2>5
  <2> HIDE DEF m
  <2>7. Len(m) = Len(t)
    BY <1>2, <2>5, <2>6
  <2>8. m = t
    BY <1>2, <2>5, <2>6, <2>7, SuffixesAgree
  <2> QED BY <2>8 DEF m
<1> QED BY <1>3, <1>4

\* What a collection of one code's trials gives: one case for each task, with a result of
\* a trial of this code or none.
Found(c, results, code) ==
  \/ c.outcome = "incomplete"
  \/ \E x \in results :
       /\ c = [task |-> x.task, outcome |-> Outcome(x.kind), reward |-> Reward(x.kind), code |-> code]
       /\ x.code = code
Gathering(cases, tasks, results, code) ==
  /\ IsFiniteSet(cases)
  /\ {c.task : c \in cases} = tasks
  /\ Cardinality(cases) = Cardinality(tasks)
  /\ \A c \in cases : /\ Found(c, results, code)
                      /\ c.code \in {None, code} /\ (c.reward # None => c.code = code)
                      /\ c.reward \in {0, 1, None}
                      /\ c.reward = 1 <=> c.outcome = "passed"

LEMMA TasksAreFinite ==
  ASSUME NEW tasks \in SUBSET Range(Train)
  PROVE  IsFiniteSet(tasks)
<1>1. Train \in Seq(Seq(STRING))
  BY RolloutAssumption
<1>2. DOMAIN Train = 1..Len(Train) /\ Len(Train) \in Nat
  BY <1>1
<1>3. IsFiniteSet(DOMAIN Train)
  BY <1>2, FS_Interval
<1>4. Range(Train) = {Train[i] : i \in DOMAIN Train}
  BY DEF Range
<1>5. IsFiniteSet(Range(Train))
  BY <1>3, <1>4, ImageFinite
<1> QED BY <1>5, FS_Subset

\* One case for each task is as many cases as tasks.
LEMMA OneEach ==
  ASSUME NEW tasks, IsFiniteSet(tasks), NEW f
  PROVE  LET cases == {f[t] : t \in tasks}
         IN  (\A t \in tasks : f[t].task = t) =>
               /\ IsFiniteSet(cases) /\ Cardinality(cases) = Cardinality(tasks)
               /\ {c.task : c \in cases} = tasks
<1> DEFINE cases == {f[t] : t \in tasks}
           h == [t \in tasks |-> f[t]]
<1> SUFFICES ASSUME \A t \in tasks : f[t].task = t
             PROVE  /\ IsFiniteSet(cases) /\ Cardinality(cases) = Cardinality(tasks)
                    /\ {c.task : c \in cases} = tasks
  OBVIOUS
<1>1. h \in Bijection(tasks, cases)
  <2>1. h \in Surjection(tasks, cases)
    BY DEF Surjection
  <2>2. \A a, b \in tasks : h[a] = h[b] => a = b
    OBVIOUS
  <2> HIDE DEF h, cases
  <2> QED BY <2>1, <2>2 DEF Bijection, Injection, Surjection, IsInjective
<1>2. IsFiniteSet(cases) /\ Cardinality(cases) = Cardinality(tasks)
  <2> HIDE DEF h, cases
  <2> QED BY <1>1, FS_Bijection DEF ExistsBijection
<1> QED BY <1>2

\* What collect_cases makes of the trials of a batch.
CaseOf(tasks, trials) ==
  [t \in tasks |-> IF \E x \in trials : x.task = t
                   THEN LET x == CHOOSE x \in trials : x.task = t IN Case(t, x.kind, x.code)
                   ELSE Case(t, "missing", None)]

LEMMA CompletedIs ==
  ASSUME NEW tasks \in SUBSET Range(Train), NEW trials, \A x \in trials : x.task \in tasks,
         \A x, y \in trials : x.task = y.task => x = y
  PROVE  Completed({Case(Reported[x.task], x.kind, x.code) : x \in trials}, tasks)
           = {CaseOf(tasks, trials)[t] : t \in tasks}
<1> DEFINE one(t) == CHOOSE x \in trials : x.task = t
           f == CaseOf(tasks, trials)
           seen == {Case(Reported[x.task], x.kind, x.code) : x \in trials}
           named == {IF Canonical(c.task, tasks) = None THEN c
                     ELSE [c EXCEPT !.task = Canonical(c.task, tasks)] : c \in seen}
           ran == {Case(x.task, x.kind, x.code) : x \in trials}
           absent == tasks \ {c.task : c \in named}
<1>1. \A t \in tasks : t # None
  <2>1. Train \in Seq(Seq(STRING)) /\ None \notin Seq(STRING)
    BY RolloutAssumption
  <2>2. \A i \in DOMAIN Train : Train[i] \in Seq(STRING)
    BY <2>1
  <2> QED BY <2>1, <2>2 DEF Range
<1>2. \A x \in trials : LET c == Case(Reported[x.task], x.kind, x.code)
                        IN  (IF Canonical(c.task, tasks) = None THEN c
                             ELSE [c EXCEPT !.task = Canonical(c.task, tasks)])
                             = Case(x.task, x.kind, x.code)
  <2> TAKE x \in trials
  <2> DEFINE c == Case(Reported[x.task], x.kind, x.code)
  <2>1. c = [task |-> Reported[x.task], outcome |-> Outcome(x.kind), reward |-> Reward(x.kind), code |-> x.code]
        /\ c.task = Reported[x.task]
    BY CaseIs
  <2>2. Canonical(c.task, tasks) = x.task /\ x.task # None
    BY <1>1, <2>1, CanonicalIs
  <2> HIDE DEF c
  <2>3. [c EXCEPT !.task = x.task] =
          [task |-> x.task, outcome |-> Outcome(x.kind), reward |-> Reward(x.kind), code |-> x.code]
    BY <2>1
  <2>4. (IF Canonical(c.task, tasks) = None THEN c ELSE [c EXCEPT !.task = Canonical(c.task, tasks)])
          = Case(x.task, x.kind, x.code)
    BY <2>2, <2>3, CaseIs
  <2> QED BY <2>4 DEF c
<1>3. named = ran
  <2>1. ASSUME NEW d \in named PROVE d \in ran
    <3>1. PICK c \in seen : d = IF Canonical(c.task, tasks) = None THEN c
                                ELSE [c EXCEPT !.task = Canonical(c.task, tasks)]
      OBVIOUS
    <3>2. PICK x \in trials : c = Case(Reported[x.task], x.kind, x.code)
      OBVIOUS
    <3> QED BY <1>2, <3>1, <3>2
  <2>2. \A x \in trials : Case(x.task, x.kind, x.code) \in named
    BY <1>2
  <2> QED BY <2>1, <2>2
<1>4. Completed(seen, tasks) = named \cup {Case(t, "missing", None) : t \in absent}
  BY DEF Completed
<1>5. {c.task : c \in ran} = {x.task : x \in trials}
  BY CaseIs
<1>6. absent = tasks \ {x.task : x \in trials}
  <2> HIDE DEF named, ran
  <2> QED BY <1>3, <1>5
<1> HIDE DEF named, absent, seen
<1>7. \A x \in trials : x.task \in tasks /\ f[x.task] = Case(x.task, x.kind, x.code)
  <2> TAKE x \in trials
  <2>1. one(x.task) = x
    OBVIOUS
  <2> QED BY <2>1 DEF CaseOf
<1>8. \A t \in absent : t \in tasks /\ f[t] = Case(t, "missing", None)
  BY <1>6 DEF CaseOf
<1>9. \A t \in tasks : t \in absent \/ \E x \in trials : x.task = t
  BY <1>6
<1> HIDE DEF f, one
<1>10. ran \cup {Case(t, "missing", None) : t \in absent} = {f[t] : t \in tasks}
  <2>1. \A c \in ran : c \in {f[t] : t \in tasks}
    BY <1>7
  <2>2. \A t \in absent : Case(t, "missing", None) \in {f[u] : u \in tasks}
    BY <1>8
  <2>3. \A t \in tasks : f[t] \in ran \cup {Case(u, "missing", None) : u \in absent}
    <3> TAKE t \in tasks
    <3>1. CASE t \in absent
      BY <1>8, <3>1
    <3>2. CASE \E x \in trials : x.task = t
      BY <1>7, <3>2
    <3> QED BY <1>9, <3>1, <3>2
  <2> HIDE DEF ran
  <2> QED BY <2>1, <2>2, <2>3
<1>11. Completed(seen, tasks) = {f[t] : t \in tasks}
  <2> HIDE DEF ran
  <2> QED BY <1>3, <1>4, <1>10
<1> QED BY <1>11 DEF f, seen

LEMMA KindIs ==
  ASSUME NEW kind
  PROVE  /\ Reward(kind) \in {0, 1, None}
         /\ Reward(kind) = 1 <=> Outcome(kind) = "passed"
         /\ Reward("missing") = None /\ Outcome("missing") = "incomplete"
  BY RolloutAssumption DEF Reward, Outcome

LEMMA CollectionIs ==
  ASSUME NEW tasks \in SUBSET Range(Train), NEW trials, NEW results, NEW code,
         \A x \in trials : x.task \in tasks /\ x.code = code /\ x \in results,
         \A x, y \in trials : x.task = y.task => x = y
  PROVE  Gathering(Completed({Case(Reported[x.task], x.kind, x.code) : x \in trials}, tasks),
                   tasks, results, code)
<1> DEFINE f == CaseOf(tasks, trials)
           cases == {f[t] : t \in tasks}
<1>1. Completed({Case(Reported[x.task], x.kind, x.code) : x \in trials}, tasks) = cases
  BY CompletedIs
<1>2. \A t \in tasks : \/ \E x \in trials : x.task = t /\ f[t] = Case(t, x.kind, code)
                       \/ f[t] = Case(t, "missing", None)
  BY DEF CaseOf
<1> HIDE DEF f
<1>3. \A t \in tasks : f[t].task = t
  BY <1>2, CaseIs
<1>4. IsFiniteSet(cases) /\ Cardinality(cases) = Cardinality(tasks) /\ {c.task : c \in cases} = tasks
  BY <1>3, OneEach, TasksAreFinite
<1>5. ASSUME NEW t \in tasks
      PROVE  /\ Found(f[t], results, code)
             /\ f[t].code \in {None, code} /\ (f[t].reward # None => f[t].code = code)
             /\ f[t].reward \in {0, 1, None}
             /\ f[t].reward = 1 <=> f[t].outcome = "passed"
  <2>1. CASE \E x \in trials : x.task = t /\ f[t] = Case(t, x.kind, code)
    <3>1. PICK x \in trials : x.task = t /\ f[t] = Case(t, x.kind, code)
      BY <2>1
    <3>2. f[t].code = code /\ f[t].reward = Reward(x.kind) /\ f[t].outcome = Outcome(x.kind)
      BY <3>1, CaseIs
    <3>3. Found(f[t], results, code)
      BY <3>1, CaseIs DEF Found
    <3> QED BY <3>2, <3>3, KindIs
  <2>2. CASE f[t] = Case(t, "missing", None)
    <3>1. f[t].code = None /\ f[t].reward = None /\ f[t].outcome = "incomplete"
      BY <2>2, CaseIs, KindIs
    <3>2. None # 1
      BY RolloutAssumption
    <3> QED BY <3>1, <3>2 DEF Found
  <2> QED BY <1>2, <2>1, <2>2
<1>6. Gathering(cases, tasks, results, code)
  BY <1>4, <1>5 DEF Gathering
<1> QED BY <1>1, <1>6

------------------------------------------------------------------------------
(* What a rollout measured. *)

\* The results that ever finished in the job of k.
ResultsOf(k) == {y[2] : y \in {z \in finished : z[1] = k}}
Gathered(k, code) == Gathering(files[k].cases, jobs[k].tasks, ResultsOf(k), code)

\* An operator that works owns its job directory: no recovery is at it, each trial in it is
\* of the code in the checkout; and one that was not interrupted saw the job end by itself.
Working == {"launch", "running", "stopping", "collect", "state", "require"}
Owned(k) ==
  /\ op.pc = "stopping" => op.why # None
  /\ op.pc \in {"collect", "state", "require"} /\ op.why = None => jobs[k].owner \in {"completed", "failed"}
  /\ op.pc = "done" => jobs[k].owner \in {"completed", "failed"}
  /\ op.pc \in Working => recovery # k /\ \A x \in jobs[k].trials : x.code = checkout.code

OperatorMeasures(k) ==
  Owned(k) /\ (op.pc \in {"state", "require", "done"} => Gathered(k, checkout.code))
ParentMeasured == Gathered(Here, Code(parent)) /\ jobs[Here].owner \in {"completed", "failed"}

MeasureInv ==
  recipe # "ahe" =>
    /\ pc = "rollout" => OperatorMeasures(Here)
    /\ pc = "validate" => OperatorMeasures(<<gen, "validate">>)
    /\ pc \in {"analyze", "feedback", "mutate", "validate", "evaluate"} => ParentMeasured

LEMMA GatheredStays ==
  ASSUME NEW k, NEW code, Gathered(k, code), files'[k].cases = files[k].cases,
         jobs'[k].tasks = jobs[k].tasks, finished \subseteq finished'
  PROVE  Gathered(k, code)'
<1>1. ResultsOf(k) \subseteq ResultsOf(k)'
  BY DEF ResultsOf
<1>2. ASSUME NEW c, NEW r, NEW q, r \subseteq q, Found(c, r, code) PROVE Found(c, q, code)
  BY <1>2 DEF Found
<1>3. \A c \in files[k].cases : Found(c, ResultsOf(k), code) => Found(c, ResultsOf(k)', code)
  BY <1>1, <1>2
<1>4. Gathering(files[k].cases, jobs[k].tasks, ResultsOf(k)', code)
  BY <1>3 DEF Gathered, Gathering
<1> QED BY <1>4 DEF Gathered

\* The parent's measurement stays while no operator writes to its files and its job.
LEMMA ParentStaysMeasured ==
  ASSUME ParentMeasured, UNCHANGED <<gen, parent>>, archive'[parent] = archive[parent],
         files'[Here].cases = files[Here].cases, jobs'[Here].tasks = jobs[Here].tasks,
         jobs'[Here].owner = jobs[Here].owner, finished \subseteq finished'
  PROVE  ParentMeasured'
<1>1. Here' = Here /\ Code(parent)' = Code(parent)
  BY DEF Here, Code
<1>2. PICK k, code : k = Here /\ code = Code(parent)
  OBVIOUS
<1>3. Gathered(k, code)'
  BY <1>2, GatheredStays DEF ParentMeasured
<1>4. Gathered(Here, Code(parent))'
  BY <1>1, <1>2, <1>3
<1> QED BY <1>1, <1>4 DEF ParentMeasured

LEMMA StagesKeepMeasure ==
  ASSUME Shape, MeasureInv,
         Select \/ RolloutDone \/ RolloutFailed \/ Analysis \/ Mutate \/ Validate \/ Evaluate
         \/ Record \/ Kill \/ Resume \/ (\E p \in Gens : Recertify(p))
  PROVE  MeasureInv'
<1>1. UNCHANGED <<jobs, files, finished, recovery, recipe>>
  BY DEF Select, RolloutDone, RolloutFailed, Analysis, GepaAnalyze, TrajectoryOnly,
         AheStart, StartDebugger, DebuggerEnds, DebuggerFails, WriteReports, ChangeEvaluation, Feedback,
         Quiet, Mutate, Validate, Evaluate, Record, Kill, Resume, Recertify
<1>2. SUFFICES ASSUME recipe # "ahe" PROVE MeasureInv'
  BY <1>1 DEF MeasureInv
<1>3. CASE pc' \in {"select", "record", "stopped", "end"}
  BY <1>3 DEF MeasureInv
<1>4. CASE Select
  <2>1. pc' = "rollout" /\ op'.pc = "start"
    BY <1>2, <1>4 DEF Select, Harbor
  <2> QED BY <1>1, <2>1 DEF MeasureInv, OperatorMeasures, Owned, Working
<1>5. CASE RolloutDone
  <2>1. pc = "rollout" /\ op.pc = "done" /\ pc' = "analyze" /\ UNCHANGED <<gen, parent, archive>>
    BY <1>5 DEF RolloutDone
  <2>2. checkout.code = Code(parent)
    BY <2>1 DEF Shape, CheckoutShape, BeforeEdit
  <2>3. ParentMeasured
    BY <1>2, <2>1, <2>2 DEF MeasureInv, OperatorMeasures, Owned, ParentMeasured
  <2>4. ParentMeasured'
    BY <1>1, <2>1, <2>3, ParentStaysMeasured
  <2> QED BY <2>1, <2>4 DEF MeasureInv
<1>6. CASE Analysis
  <2>1. /\ pc \in {"analyze", "debug", "change", "feedback"} /\ UNCHANGED <<gen, parent, archive>>
        /\ pc' \in {"debug", "change", "feedback", "mutate"}
    BY <1>6, AnalysisIs DEF Quiet
  <2>2. pc \in {"analyze", "feedback"}
    BY <1>2, <2>1 DEF Shape, GenShape
  <2>3. ParentMeasured'
    BY <1>1, <1>2, <2>1, <2>2, ParentStaysMeasured DEF MeasureInv
  <2> QED BY <2>1, <2>3 DEF MeasureInv
<1>7. CASE Mutate /\ pc' \in {"validate", "evaluate"}
  <2>1. pc = "mutate" /\ UNCHANGED <<gen, parent, archive>>
        /\ (pc' = "validate" => op' = Harbor(<<gen, "validate">>, {c.task : c \in Cases(gen)}))
    BY <1>7 DEF Mutate, GepaMutate, AheMutate, AEvolveMutate, MutateFails, NextGeneration
  <2>2. ParentMeasured'
    BY <1>1, <1>2, <2>1, ParentStaysMeasured DEF MeasureInv
  <2>3. pc' = "validate" => op'.pc = "start"
    BY <2>1 DEF Harbor
  <2> QED BY <1>7, <2>2, <2>3 DEF MeasureInv, OperatorMeasures, Owned, Working
<1>8. CASE Validate /\ pc' = "evaluate"
  <2>1. pc = "validate" /\ UNCHANGED <<gen, parent, archive>>
    BY <1>8 DEF Validate, NextGeneration
  <2>2. ParentMeasured'
    BY <1>1, <1>2, <2>1, ParentStaysMeasured DEF MeasureInv
  <2> QED BY <1>8, <2>2 DEF MeasureInv
<1>9. Mutate => pc' \in {"select", "end", "validate", "evaluate"}
  BY DEF Mutate, GepaMutate, AheMutate, AEvolveMutate, MutateFails, NextGeneration
<1>10. Validate => pc' \in {"select", "end", "evaluate"}
  BY DEF Validate, NextGeneration
<1>11. RolloutFailed \/ Evaluate \/ Record \/ Kill \/ Resume \/ (\E p \in Gens : Recertify(p)) =>
         pc' \in {"select", "record", "stopped", "end"}
  BY DEF RolloutFailed, NextGeneration, Evaluate, Record, Kill, Resume, Recertify
<1> QED BY <1>3, <1>4, <1>5, <1>6, <1>7, <1>8, <1>9, <1>10, <1>11

\* Where Harbor and recoveries leave what the operators wrote and said.
LEMMA BelowKeepsMeasure ==
  ASSUME Shape, MeasureInv, Below, UNCHANGED <<checkout, files, op>>, finished \subseteq finished',
         \A k \in Keys : jobs'[k].tasks = jobs[k].tasks /\ jobs'[k].owner = jobs[k].owner,
         \A k \in Keys : op.key = k /\ op.pc \in Working /\ recovery # k
           /\ (\A x \in jobs[k].trials : x.code = checkout.code) =>
              recovery' # k /\ \A x \in jobs'[k].trials : x.code = checkout.code
  PROVE  MeasureInv'
<1>1. /\ UNCHANGED <<recipe, archive, gen, pc, parent>> /\ Here \in Keys /\ <<gen, "validate">> \in Keys
      /\ Here' = Here
  BY Numbers DEF Below, reflectionVars, Shape, Here
<1>2. ASSUME NEW k \in Keys, op.key = k, OperatorMeasures(k)
      PROVE  OperatorMeasures(k)'
  <2>1. Owned(k)'
    BY <1>2 DEF OperatorMeasures, Owned
  <2>2. ASSUME op.pc \in {"state", "require", "done"} PROVE Gathered(k, checkout.code)'
    <3>1. PICK code : code = checkout.code
      OBVIOUS
    <3>2. Gathered(k, code)'
      BY <1>2, <2>2, <3>1, GatheredStays DEF OperatorMeasures
    <3> QED BY <3>1, <3>2
  <2> QED BY <2>1, <2>2 DEF OperatorMeasures
<1>3. ParentMeasured => ParentMeasured'
  BY <1>1, ParentStaysMeasured
<1>4. ASSUME recipe # "ahe", pc = "rollout" PROVE OperatorMeasures(Here)'
  <2>1. PICK k \in Keys : k = Here
    BY <1>1
  <2>2. op.key = k
    BY <1>4, <2>1 DEF Shape, OpShape, HarborOp
  <2> QED BY <1>1, <1>2, <1>4, <2>1, <2>2 DEF MeasureInv
<1>5. ASSUME recipe # "ahe", pc = "validate" PROVE OperatorMeasures(<<gen, "validate">>)'
  <2>1. PICK k \in Keys : k = <<gen, "validate">>
    BY <1>1
  <2>2. op.key = k
    BY <1>5, <2>1 DEF Shape, OpShape, HarborOp
  <2> QED BY <1>1, <1>2, <1>5, <2>1, <2>2 DEF MeasureInv
<1> QED BY <1>1, <1>3, <1>4, <1>5 DEF MeasureInv

LEMMA HarborKeepsMeasure ==
  ASSUME Shape, MeasureInv, Below, HarborSteps
  PROVE  MeasureInv'
<1>1. jobs \in [Keys -> Jobs] /\ DOMAIN jobs = Keys
  BY DEF Shape, JobInv, JobShape
<1>2. PICK k \in Keys : HarborTrial(k) \/ HarborExit(k) \/ Cancel(k)
  BY <1>1 DEF HarborSteps
<1>3. UNCHANGED <<checkout, files, op, recovery>> /\ finished \subseteq finished'
  BY <1>2 DEF HarborTrial, HarborExit, Cancel
<1>4. \A i \in Keys : i # k => jobs'[i] = jobs[i]
  BY <1>1, <1>2 DEF HarborTrial, HarborExit, Cancel
<1>5. jobs'[k].tasks = jobs[k].tasks /\ jobs'[k].owner = jobs[k].owner
  BY <1>1, <1>2 DEF HarborTrial, HarborExit, Cancel, Jobs
<1>6. ASSUME op.key = k, op.pc \in Working, \A x \in jobs[k].trials : x.code = checkout.code
      PROVE  \A x \in jobs'[k].trials : x.code = checkout.code
  <2>1. CASE HarborExit(k) \/ Cancel(k)
    <3>1. jobs'[k].trials = jobs[k].trials
      BY <1>1, <2>1 DEF HarborExit, Cancel, Jobs
    <3> QED BY <1>6, <3>1
  <2>2. CASE HarborTrial(k)
    <3>1. PICK trial : trial.code = Candidate(k[1]) /\ jobs' = [jobs EXCEPT ![k].trials = @ \cup {trial}]
      BY <2>2 DEF HarborTrial
    <3>2. jobs'[k].trials = jobs[k].trials \cup {trial}
      BY <1>1, <3>1 DEF Jobs
    <3>3. pc \in {"rollout", "validate"} /\ (k = Here \/ k = <<gen, "validate">>)
      <4>1. op.pc # "off"
        BY <1>6 DEF Working
      <4>2. recipe = "ahe" /\ pc = "rollout" => op.key = Here
        BY DEF Shape, OpShape, ReplayOp
      <4>3. recipe # "ahe" /\ pc = "rollout" => op.key = Here
        BY DEF Shape, OpShape, HarborOp
      <4>4. pc = "validate" => op.key = <<gen, "validate">>
        BY DEF Shape, OpShape, HarborOp
      <4>5. pc \notin {"rollout", "validate"} => op.pc = "off"
        BY DEF Shape, OpShape, NoOp
      <4> QED BY <1>6, <4>1, <4>2, <4>3, <4>4, <4>5
    <3>4. k[1] = gen
      BY <3>3 DEF Here
    <3>5. checkout.gen = gen
      BY <3>3 DEF Shape, CheckoutShape, BeforeEdit, AfterEdit
    <3>6. trial.code = checkout.code
      BY <3>1, <3>4, <3>5 DEF Candidate
    <3> QED BY <1>6, <3>2, <3>6
  <2> QED BY <1>2, <2>1, <2>2
<1> QED BY <1>3, <1>4, <1>5, <1>6, BelowKeepsMeasure

LEMMA RecoveryKeepsMeasure ==
  ASSUME Shape, MeasureInv, Below, RecoverySteps
  PROVE  MeasureInv'
<1>1. jobs \in [Keys -> Jobs] /\ DOMAIN jobs = Keys /\ None \notin Keys /\ recovery \in Keys \cup {None}
  BY Numbers DEF Shape, JobInv, JobShape
<1>2. UNCHANGED <<checkout, files, op, finished>>
  BY DEF RecoverySteps, RecoveryStart, BackUp, ResumeHarbor, RecoveryEnds, KillRecovery
<1>3. \A k \in Keys : k # recovery => jobs'[k] = jobs[k]
  BY <1>1 DEF RecoverySteps, RecoveryStart, BackUp, ResumeHarbor, RecoveryEnds, KillRecovery
<1>4. recovery # None => jobs'[recovery].tasks = jobs[recovery].tasks /\ jobs'[recovery].owner = jobs[recovery].owner
  <2>1. CASE jobs' = jobs
    BY <2>1
  <2>2. CASE ResumeHarbor
    <3>1. PICK errors : jobs' = [jobs EXCEPT ![recovery].harbor = "running",
                            ![recovery].trials = {x \in @ : x.kind \notin errors}]
      BY <2>2 DEF ResumeHarbor
    <3> QED BY <1>1, <3>1 DEF Jobs
  <2>3. CASE RecoveryEnds
    BY <1>1, <2>3 DEF RecoveryEnds, Jobs
  <2> QED BY <2>1, <2>2, <2>3 DEF RecoverySteps, RecoveryStart, BackUp, KillRecovery
<1>5. ASSUME NEW k \in Keys, op.key = k, op.pc \in Working, recovery # k PROVE recovery' # k
  BY <1>1, <1>5 DEF Working, RecoverySteps, RecoveryStart, BackUp, ResumeHarbor, RecoveryEnds, KillRecovery
<1>6. \A k \in Keys : jobs'[k].tasks = jobs[k].tasks /\ jobs'[k].owner = jobs[k].owner
  BY <1>1, <1>3, <1>4
<1> QED BY <1>2, <1>3, <1>5, <1>6, BelowKeepsMeasure

LEMMA OperatorKeepsOwn ==
  ASSUME Shape, NEW k \in Keys, HarborOp(k), OperatorMeasures(k), HarborOps
  PROVE  /\ OperatorMeasures(k)' /\ checkout' = checkout /\ finished' = finished
         /\ \A i \in Keys : i # k => jobs'[i] = jobs[i] /\ files'[i] = files[i]
<1>1. /\ op.key = k /\ jobs[k] \in Jobs /\ jobs \in [Keys -> Jobs] /\ DOMAIN jobs = Keys /\ KeyInv(k)
      /\ op = [pc |-> op.pc, key |-> k, wanted |-> op.wanted, why |-> op.why] /\ RecoveryInv
  BY DEF Shape, JobInv, JobShape, HarborOp
<1>2. None \notin {"cancelled", "timed_out", "trial_limit"}
  BY RolloutAssumption
<1>3. checkout' = checkout /\ finished' = finished /\ recovery' = recovery
  BY DEF HarborOps, RolloutStart, RunHarbor, StopHarbor, HarborGone, StreamHeld, CollectCases,
         WriteHarborState, RequireCases
<1>4. \A stage : OpGoes(stage) => op' = [pc |-> stage, key |-> k, wanted |-> op.wanted, why |-> op.why]
                                  /\ op'.pc = stage /\ op'.why = op.why
  BY <1>1 DEF OpGoes
<1>5. \A i \in Keys : i # k => jobs'[i] = jobs[i]
  BY <1>1 DEF HarborOps, RolloutStart, RunHarbor, StopHarbor, HarborGone, StreamHeld, CollectCases,
              WriteHarborState, RequireCases
<1>6. \A i \in Keys : i # k => files'[i] = files[i]
  <2>1. CASE CollectCases \/ WriteHarborState \/ RequireCases
    <3>1. Keys \subseteq DOMAIN files
      BY Numbers DEF Shape, FileShape
    <3> QED BY <1>1, <2>1, <3>1, OperatorWrites
  <2>2. CASE RolloutStart \/ RunHarbor \/ StopHarbor \/ HarborGone \/ StreamHeld
    BY <2>2 DEF RolloutStart, RunHarbor, StopHarbor, HarborGone, StreamHeld
  <2> QED BY <2>1, <2>2 DEF HarborOps
<1>7. jobs'[k].trials = jobs[k].trials
  <2>1. CASE RolloutStart
    BY <1>1, <2>1 DEF RolloutStart, Jobs
  <2>2. CASE RunHarbor
    <3>1. PICK a, b : jobs' = [jobs EXCEPT ![k].harbor = a, ![k].owner = b]
      BY <1>1, <2>2 DEF RunHarbor
    <3> QED BY <1>1, <3>1 DEF Jobs
  <2>3. CASE StopHarbor
    BY <1>1, <2>3 DEF StopHarbor, Jobs
  <2>4. CASE HarborGone
    <3>1. PICK a, b : jobs' = [jobs EXCEPT ![k].harbor = a, ![k].owner = b]
      BY <1>1, <2>4 DEF HarborGone
    <3> QED BY <1>1, <3>1 DEF Jobs
  <2>5. CASE StreamHeld
    BY <1>1, <2>5 DEF StreamHeld, Jobs
  <2>6. CASE CollectCases \/ WriteHarborState \/ RequireCases
    BY <2>6 DEF CollectCases, WriteHarborState, RequireCases
  <2> QED BY <2>1, <2>2, <2>3, <2>4, <2>5, <2>6 DEF HarborOps
<1>8. op.pc \in Working => recovery # k /\ \A x \in jobs[k].trials : x.code = checkout.code
  BY DEF OperatorMeasures, Owned
<1>9. OperatorMeasures(k)'
  <2>1. CASE RolloutStart
    <3>1. CASE op'.pc = "failed"
      BY <3>1 DEF OperatorMeasures, Owned, Working
    <3>2. CASE ~Begun(k) /\ op'.pc = "launch"
      <4>1. jobs[k].trials = {} /\ recoveries[k] = <<>>
        BY <1>1, <3>2 DEF KeyInv
      <4>2. recovery # k
        <5>1. k # None
          BY Numbers DEF Shape
        <5> QED BY <1>1, <4>1, <5>1 DEF RecoveryInv
      <4> QED BY <1>3, <1>7, <3>2, <4>1, <4>2 DEF OperatorMeasures, Owned, Working
    <3> QED BY <1>1, <1>4, <2>1, <3>1, <3>2 DEF RolloutStart
  <2>2. CASE RunHarbor
    <3>1. op.pc = "launch" /\ (op'.pc = "running" \/ (op'.pc = "collect" /\ op'.why = "cancelled"))
      BY <1>1, <2>2 DEF RunHarbor
    <3> QED BY <1>2, <1>3, <1>7, <1>8, <3>1 DEF OperatorMeasures, Owned, Working
  <2>3. CASE StopHarbor
    <3>1. PICK reason \in {"trial_limit", "cancelled", "timed_out"} :
            op' = [op EXCEPT !.pc = "stopping", !.why = reason]
      BY <2>3 DEF StopHarbor
    <3>2. op.pc = "running" /\ op'.pc = "stopping" /\ op'.why = reason
      BY <1>1, <2>3, <3>1 DEF StopHarbor
    <3> QED BY <1>2, <1>3, <1>7, <1>8, <3>2 DEF OperatorMeasures, Owned, Working
  <2>4. CASE HarborGone
    <3>1. /\ op.pc \in {"running", "stopping"} /\ op'.pc = "collect" /\ op'.why = op.why
          /\ op.pc = "running" => jobs[k].harbor \in {"completed", "failed"}
      BY <1>1, <1>4, <2>4 DEF HarborGone, Exited
    <3>2. op.why = None => jobs'[k].owner \in {"completed", "failed"}
      <4> SUFFICES ASSUME op.why = None PROVE jobs'[k].owner \in {"completed", "failed"}
        OBVIOUS
      <4>1. op.pc = "running"
        BY <3>1 DEF OperatorMeasures, Owned
      <4>2. PICK a : jobs' = [jobs EXCEPT ![k].harbor = a, ![k].owner = jobs[k].harbor]
        BY <1>1, <2>4 DEF HarborGone
      <4>3. jobs'[k].owner = jobs[k].harbor
        BY <1>1, <4>2 DEF Jobs
      <4> QED BY <3>1, <4>1, <4>3
    <3> QED BY <1>3, <1>7, <1>8, <3>1, <3>2 DEF OperatorMeasures, Owned, Working
  <2>5. CASE StreamHeld
    <3>1. op'.pc = "failed"
      BY <1>4, <2>5 DEF StreamHeld
    <3> QED BY <3>1 DEF OperatorMeasures, Owned, Working
  <2>6. CASE CollectCases
    <3>1. op.pc = "collect" /\ op'.pc = "state" /\ op'.why = op.why /\ jobs' = jobs
      BY <1>4, <2>6 DEF CollectCases
    <3> DEFINE new == Completed({Case(Reported[x.task], x.kind, x.code) : x \in jobs[k].trials}, jobs[k].tasks)
    <3>2. files'[k].cases = new
      BY <1>1, <2>6, OperatorWrites
    <3>3. Gathering(new, jobs[k].tasks, ResultsOf(k), checkout.code)
      <4>1. jobs[k].tasks \in SUBSET Range(Train)
        BY <1>1 DEF Jobs
      <4>2. \A x \in jobs[k].trials : x.task \in jobs[k].tasks /\ x.code = checkout.code /\ x \in ResultsOf(k)
        <5>1. \A x \in jobs[k].trials : x.task \in jobs[k].tasks /\ <<k, x>> \in finished
          BY <1>1 DEF KeyInv
        <5>2. \A x : <<k, x>> \in finished => x \in ResultsOf(k)
          <6> SUFFICES ASSUME NEW x, <<k, x>> \in finished PROVE x \in ResultsOf(k)
            OBVIOUS
          <6>1. <<k, x>>[1] = k /\ <<k, x>>[2] = x
            OBVIOUS
          <6> QED BY <6>1 DEF ResultsOf
        <5> QED BY <1>8, <3>1, <5>1, <5>2 DEF Working
      <4>3. \A x, y \in jobs[k].trials : x.task = y.task => x = y
        BY <1>1 DEF KeyInv
      <4> QED BY <4>1, <4>2, <4>3, CollectionIs
    <3> HIDE DEF new
    <3>4. ResultsOf(k)' = ResultsOf(k)
      BY <1>3 DEF ResultsOf
    <3>5. Gathered(k, checkout.code)'
      BY <1>3, <3>1, <3>2, <3>3, <3>4 DEF Gathered
    <3>6. Owned(k)'
      BY <1>3, <1>8, <3>1 DEF OperatorMeasures, Owned, Working
    <3> QED BY <3>5, <3>6 DEF OperatorMeasures
  <2>7. CASE WriteHarborState \/ RequireCases
    <3>1. files'[k].cases = files[k].cases /\ jobs' = jobs
      BY <1>1, <2>7, OperatorWrites DEF WriteHarborState, RequireCases
    <3>2. /\ op.pc \in {"state", "require"} /\ op'.why = op.why
          /\ op'.pc = "require" \/ op'.pc = "failed" \/ (op'.pc = "done" /\ op.why = None)
      BY <1>4, <2>7 DEF WriteHarborState, RequireCases
    <3>3. PICK code : code = checkout.code
      OBVIOUS
    <3>4. Gathered(k, code)'
      BY <1>3, <3>1, <3>2, <3>3, GatheredStays DEF OperatorMeasures
    <3>5. Gathered(k, checkout.code)'
      BY <1>3, <3>3, <3>4
    <3>6. Owned(k)'
      BY <1>3, <1>8, <3>1, <3>2 DEF OperatorMeasures, Owned, Working
    <3> QED BY <3>5, <3>6 DEF OperatorMeasures
  <2> QED BY <2>1, <2>2, <2>3, <2>4, <2>5, <2>6, <2>7 DEF HarborOps
<1> QED BY <1>3, <1>5, <1>6, <1>9

LEMMA OperatorKeepsMeasure ==
  ASSUME Shape, MeasureInv, Below, HarborOps
  PROVE  MeasureInv'
<1>1. /\ UNCHANGED <<recipe, archive, gen, pc, parent>> /\ Here \in Keys /\ <<gen, "validate">> \in Keys
      /\ Here' = Here /\ Here # <<gen, "validate">>
  BY Numbers DEF Below, reflectionVars, Shape, Here
<1>2. CASE pc = "rollout" /\ recipe # "ahe" /\ HarborOp(Here)
  <2>1. OperatorMeasures(Here)
    BY <1>2 DEF MeasureInv
  <2>2. PICK k \in Keys : k = Here
    BY <1>1
  <2>3. OperatorMeasures(k)'
    BY <1>2, <2>1, <2>2, OperatorKeepsOwn
  <2>4. OperatorMeasures(Here)'
    BY <1>1, <2>2, <2>3
  <2> QED BY <1>1, <1>2, <2>4 DEF MeasureInv
<1>3. CASE pc = "validate" /\ recipe = "gepa" /\ HarborOp(<<gen, "validate">>)
  <2>1. OperatorMeasures(<<gen, "validate">>) /\ ParentMeasured
    BY <1>3 DEF MeasureInv
  <2>2. PICK k \in Keys : k = <<gen, "validate">>
    BY <1>1
  <2>3. /\ OperatorMeasures(k)' /\ finished' = finished
        /\ \A i \in Keys : i # k => jobs'[i] = jobs[i] /\ files'[i] = files[i]
    BY <1>3, <2>1, <2>2, OperatorKeepsOwn
  <2>4. OperatorMeasures(<<gen, "validate">>)'
    BY <1>1, <2>2, <2>3
  <2>5. ParentMeasured'
    BY <1>1, <2>1, <2>2, <2>3, ParentStaysMeasured
  <2> QED BY <1>1, <1>3, <2>4, <2>5 DEF MeasureInv
<1> QED BY <1>2, <1>3, OperatorIs

LEMMA NextMeasure ==
  ASSUME Shape, MeasureInv, [Next]_vars
  PROVE  MeasureInv'
<1>1. CASE UNCHANGED vars
  BY <1>1, BelowKeepsMeasure DEF vars, rolloutVars, Below
<1>2. CASE (VerifySource \/ SpoilEvidence \/ Materialize(Code(parent))) /\ Below
  <2>1. recipe = "ahe"
    BY <1>2, OperatorIs DEF VerifySource, SpoilEvidence, Materialize
  <2>2. recipe' = "ahe"
    BY <1>2, <2>1 DEF Below, reflectionVars
  <2> QED BY <2>2 DEF MeasureInv
<1> QED BY <1>1, <1>2, NextIs, StagesKeepMeasure, HarborKeepsMeasure, RecoveryKeepsMeasure, OperatorKeepsMeasure

LEMMA InitMeasure ==
  ASSUME Init
  PROVE  MeasureInv
<1>1. pc = "select"
  BY InitLines
<1> QED BY <1>1 DEF MeasureInv

------------------------------------------------------------------------------
(* What minibatch_improvement accepts. *)

Passed(cases) == Cardinality({c \in cases : c.outcome = "passed"})
Improves(comparison, from, to) ==
  LET before == comparison.before  after == comparison.after
  IN  /\ {c.task : c \in before} = {c.task : c \in after}
      /\ \A c \in before \cup after : c.reward # None
      /\ \A c \in before : c.code = from
      /\ \A c \in after : c.code = to
      /\ Passed(after) > Passed(before) \/ (Criterion # "strict" /\ Passed(after) = Passed(before))

LEMMA TotalIs ==
  ASSUME NEW cases, NEW tasks, NEW results, NEW code, Gathering(cases, tasks, results, code),
         Unscorable(cases) = {}
  PROVE  /\ Total(cases) = Passed(cases) /\ Passed(cases) \in Nat
         /\ \A c \in cases : c.reward # None /\ c.code = code
<1> DEFINE f == [c \in cases |-> c.reward]
<1>1. \A c \in cases : c.reward # None
  BY DEF Unscorable
<1>2. \A c \in cases : c.reward \in {0, 1} /\ c.code = code /\ (c.reward = 1 <=> c.outcome = "passed")
  BY <1>1 DEF Gathering
<1>3. Total(cases) = SumFunction(f)
  <2>1. cases \ Unscorable(cases) = cases
    OBVIOUS
  <2> QED BY <2>1 DEF Total
<1>4. DOMAIN f = cases /\ \A c \in cases : f[c] = c.reward
  OBVIOUS
<1> HIDE DEF f
<1>5. IsFiniteSet(DOMAIN f) /\ \A c \in DOMAIN f : f[c] \in {0, 1}
  BY <1>2, <1>4 DEF Gathering
<1>6. SumFunction(f) = Cardinality({c \in DOMAIN f : f[c] = 1})
  BY <1>5, SumOfRewards
<1>7. {c \in DOMAIN f : f[c] = 1} = {c \in cases : c.outcome = "passed"}
  BY <1>2, <1>4
<1>8. IsFiniteSet({c \in cases : c.outcome = "passed"})
  BY <1>4, <1>5, FS_Subset
<1> QED BY <1>1, <1>2, <1>3, <1>6, <1>7, <1>8, FS_CardinalityType DEF Passed

LEMMA AcceptedIs ==
  ASSUME NEW before, NEW after, NEW s, NEW t, NEW p, NEW q, NEW from, NEW to,
         Gathering(before, s, p, from), Gathering(after, t, q, to),
         {c.task : c \in after} = {c.task : c \in before}, Accepted(before, after), NEW accepted
  PROVE  Improves([before |-> before, after |-> after, accepted |-> accepted], from, to)
<1>1. Unscorable(before) = {} /\ Unscorable(after) = {}
  BY DEF Accepted
<1>2. /\ Total(before) = Passed(before) /\ Passed(before) \in Nat
      /\ \A c \in before : c.reward # None /\ c.code = from
  BY <1>1, TotalIs
<1>3. /\ Total(after) = Passed(after) /\ Passed(after) \in Nat
      /\ \A c \in after : c.reward # None /\ c.code = to
  BY <1>1, TotalIs
<1>4. Passed(after) > Passed(before) \/ (Criterion # "strict" /\ Passed(after) = Passed(before))
  BY <1>2, <1>3 DEF Accepted
<1> QED BY <1>2, <1>3, <1>4 DEF Improves

\* The parent of a committed generation is committed.
Rooted == \A g \in Gens \ {0} : archive[g] # None => archive[archive[g].parent] # None

Improved(g) ==
  runs[g].comparison # None => Improves(runs[g].comparison, Code(archive[g].parent), Code(g))

ImproveInv ==
  /\ Rooted
  /\ recipe # "gepa" => \A g \in Gens : runs[g].comparison = None
  /\ runs[0].comparison = None
  /\ \A g \in Gens \ {0} : archive[g] # None => Improved(g)
  /\ pc = "evaluate" /\ recipe = "gepa" => Improves(runs[gen].comparison, Code(parent), checkout.code)

\* What was said of committed generations stays.
LEMMA ImprovedStays ==
  ASSUME Shape, ImproveInv,
         \A g \in Gens : archive[g] # None =>
           /\ archive'[g] # None /\ archive'[g].code = archive[g].code
           /\ archive'[g].parent = archive[g].parent /\ runs'[g].comparison = runs[g].comparison
  PROVE  \A g \in Gens \ {0} : archive[g] # None =>
           Improved(g)' /\ archive'[archive'[g].parent] # None
<1> SUFFICES ASSUME NEW g \in Gens \ {0}, archive[g] # None
             PROVE  Improved(g)' /\ archive'[archive'[g].parent] # None
  OBVIOUS
<1> DEFINE p == archive[g].parent
<1>1. p \in Gens /\ archive[p] # None
  <2>1. p \in 0..g - 1
    BY DEF Shape, LineageShape
  <2>2. PICK N \in Nat : Gens = 0..N
    BY Numbers DEF Shape
  <2> QED BY <2>1, <2>2 DEF ImproveInv, Rooted
<1>2. /\ archive'[g].parent = p /\ archive'[p] # None /\ archive'[p].code = archive[p].code
      /\ archive'[g].code = archive[g].code /\ runs'[g].comparison = runs[g].comparison
  BY <1>1
<1>3. Code(p)' = Code(p) /\ Code(g)' = Code(g)
  BY <1>2 DEF Code
<1>4. runs[g].comparison # None => Improves(runs[g].comparison, Code(p), Code(g))
  BY DEF ImproveInv, Improved
<1>5. (runs[g].comparison # None => Improves(runs[g].comparison, Code(archive[g].parent), Code(g)))'
  <2>1. (archive[g].parent)' = p /\ p' = p
    BY <1>2
  <2> QED BY <1>2, <1>3, <1>4, <2>1
<1> QED BY <1>2, <1>5 DEF Improved

\* A step that commits and compares nothing.
LEMMA ImproveFrame ==
  ASSUME Shape, ImproveInv, UNCHANGED <<recipe, archive>>, DOMAIN runs' = DOMAIN runs,
         \A g \in Gens : runs'[g].comparison = runs[g].comparison,
         (pc' = "evaluate" /\ recipe = "gepa") => pc = "evaluate" /\ UNCHANGED <<gen, parent, checkout>>
  PROVE  ImproveInv'
<1>1. \A g \in Gens \ {0} : archive'[g] # None => Improved(g)' /\ archive'[archive'[g].parent] # None
  BY ImprovedStays
<1>2. 0 \in Gens
  BY Numbers DEF Shape
<1>3. (pc' = "evaluate" /\ recipe = "gepa") =>
        Improves(runs'[gen'].comparison, Code(parent)', checkout'.code)
  <2> SUFFICES ASSUME pc' = "evaluate", recipe = "gepa"
               PROVE  Improves(runs'[gen'].comparison, Code(parent)', checkout'.code)
    OBVIOUS
  <2>1. gen' = gen /\ runs'[gen].comparison = runs[gen].comparison /\ Code(parent)' = Code(parent)
        /\ checkout' = checkout
    BY Numbers DEF Shape, Code
  <2>2. Improves(runs[gen].comparison, Code(parent), checkout.code)
    BY DEF ImproveInv
  <2> QED BY <2>1, <2>2
<1>4. Rooted'
  BY <1>1 DEF Rooted
<1>5. (recipe # "gepa" => \A g \in Gens : runs[g].comparison = None)'
  BY DEF ImproveInv
<1>6. runs'[0].comparison = None
  BY <1>2 DEF ImproveInv
<1> QED BY <1>1, <1>3, <1>4, <1>5, <1>6 DEF ImproveInv

LEMMA QuietStages ==
  ASSUME Shape, ImproveInv,
         Select \/ RolloutDone \/ RolloutFailed \/ Analysis \/ Mutate \/ Record \/ Kill \/ Resume
  PROVE  ImproveInv'
<1>1. UNCHANGED <<recipe, archive>> /\ gen \in Gens /\ RunShape
  BY Numbers, AnalysisIs
     DEF Select, RolloutDone, RolloutFailed, Quiet, Mutate, Record, Kill, Resume, Shape
<1>2. DOMAIN runs' = DOMAIN runs /\ \A g \in Gens : runs'[g].comparison = runs[g].comparison
  <2>1. CASE Select \/ RolloutDone \/ RolloutFailed \/ Kill \/ Resume
    BY <2>1 DEF Select, RolloutDone, RolloutFailed, Kill, Resume
  <2>2. CASE Analysis
    BY <1>1, <2>2, AnalysisWrites DEF SameElsewhere, SameEdit
  <2>3. CASE Mutate
    BY <1>1, <2>3, MutateWrites DEF SameElsewhere
  <2>4. CASE Record
    BY <1>1, <2>4, RecordWrites DEF SameElsewhere, SameEdit
  <2> QED BY <2>1, <2>2, <2>3, <2>4
<1>3. pc' # "evaluate" \/ recipe # "gepa"
  <2>1. Analysis => pc' # "evaluate"
    BY AnalysisIs
  <2>2. Mutate => pc' # "evaluate" \/ recipe # "gepa"
    BY DEF Mutate, GepaMutate, AheMutate, AEvolveMutate, MutateFails, NextGeneration
  <2>3. Select \/ RolloutDone \/ RolloutFailed \/ Record \/ Kill \/ Resume => pc' # "evaluate"
    BY DEF Select, RolloutDone, RolloutFailed, NextGeneration, Record, Kill, Resume
  <2> QED BY <2>1, <2>2, <2>3
<1> QED BY <1>1, <1>2, <1>3, ImproveFrame

LEMMA ValidateKeepsImprove ==
  ASSUME Shape, MeasureInv, ImproveInv, Validate
  PROVE  ImproveInv'
<1>1. /\ UNCHANGED <<recipe, archive, checkout>> /\ gen \in Gens \ {0} /\ RunShape /\ archive[gen] = None
      /\ pc = "validate" /\ recipe = "gepa" /\ op.pc = "done" /\ 0 \in Gens
  BY Numbers DEF Validate, Shape, LineageShape, OpShape
<1>2. SameElsewhere
  BY <1>1, ValidateWrites
<1>3. \A g \in Gens : g # gen => runs'[g] = runs[g]
  BY <1>2 DEF SameElsewhere
<1>4. \A g \in Gens \ {0} : archive'[g] # None => Improved(g)' /\ archive'[archive'[g].parent] # None
  BY <1>1, <1>3, ImprovedStays
<1>5. Rooted' /\ runs'[0].comparison = None
  BY <1>1, <1>3, <1>4 DEF Rooted, ImproveInv
<1>6. ASSUME pc' = "evaluate"
      PROVE  Improves(runs'[gen'].comparison, Code(parent)', checkout'.code)
  <2> DEFINE before == Cases(gen)
             after == files[<<gen, "validate">>].cases
             comparison == [before |-> before, after |-> after, accepted |-> Accepted(before, after)]
  <2>1. /\ {c.task : c \in after} = {c.task : c \in before} /\ Accepted(before, after)
        /\ UNCHANGED <<gen, parent>> /\ runs' = [runs EXCEPT ![gen].comparison = comparison]
    BY <1>6 DEF Validate, NextGeneration
  <2>2. runs'[gen].comparison = comparison
    <3> HIDE DEF comparison
    <3> QED BY <1>1, <2>1 DEF RunShape, RunRecord
  <2>3. Gathering(before, jobs[Here].tasks, ResultsOf(Here), Code(parent))
    BY <1>1 DEF MeasureInv, ParentMeasured, Gathered, Cases, Here
  <2>4. Gathering(after, jobs[<<gen, "validate">>].tasks, ResultsOf(<<gen, "validate">>), checkout.code)
    BY <1>1 DEF MeasureInv, OperatorMeasures, Gathered
  <2> HIDE DEF before, after
  <2>5. Improves(comparison, Code(parent), checkout.code)
    BY <2>1, <2>3, <2>4, AcceptedIs
  <2> HIDE DEF comparison
  <2>6. Code(parent)' = Code(parent)
    BY <1>1, <2>1 DEF Code
  <2> QED BY <1>1, <2>1, <2>2, <2>5, <2>6
<1> QED BY <1>1, <1>4, <1>5, <1>6 DEF ImproveInv

LEMMA EvaluateKeepsImprove ==
  ASSUME Shape, ImproveInv, Evaluate
  PROVE  ImproveInv'
<1>1. /\ UNCHANGED <<recipe, checkout, runs, gen, parent>> /\ gen \in Gens \ {0} /\ archive[gen] = None
      /\ pc = "evaluate" /\ pc' = "record" /\ DOMAIN archive = Gens
      /\ parent \in 0..gen - 1 /\ parent \in Gens /\ archive[parent] # None /\ gen \in Nat
  BY Numbers DEF Evaluate, Shape, LineageShape, ArchiveShape, AfterEdit
<1>2. PICK valid \in BOOLEAN :
        archive' = [archive EXCEPT ![gen] = [parent |-> parent, code |-> checkout.code, valid |-> valid]]
  BY DEF Evaluate
<1>3. \A g \in Gens : g # gen => archive'[g] = archive[g]
  BY <1>1, <1>2
<1>4. archive'[gen].parent = parent /\ archive'[gen].code = checkout.code
  BY <1>1, <1>2
<1>5. \A g \in Gens : archive[g] # None => g # gen
  BY <1>1
<1>6. \A g \in Gens \ {0} : archive[g] # None => Improved(g)' /\ archive'[archive'[g].parent] # None
  BY <1>1, <1>3, <1>5, ImprovedStays
<1>7. Improved(gen)' /\ archive'[archive'[gen].parent] # None
  <2>1. parent # gen /\ archive'[parent] = archive[parent]
    BY <1>1, <1>3
  <2>2. Code(parent)' = Code(parent) /\ Code(gen)' = checkout.code
    BY <1>1, <1>4, <2>1 DEF Code
  <2>3. runs[gen].comparison # None => Improves(runs[gen].comparison, Code(parent), checkout.code)
    BY <1>1 DEF ImproveInv
  <2>4. (runs[gen].comparison # None =>
           Improves(runs[gen].comparison, Code(archive[gen].parent), Code(gen)))'
    BY <1>1, <1>4, <2>2, <2>3
  <2> QED BY <1>1, <1>4, <2>1, <2>4 DEF Improved
<1>8. \A g \in Gens \ {0} : archive'[g] # None => Improved(g)' /\ archive'[archive'[g].parent] # None
  <2> SUFFICES ASSUME NEW g \in Gens \ {0}, archive'[g] # None
               PROVE  Improved(g)' /\ archive'[archive'[g].parent] # None
    OBVIOUS
  <2>1. CASE g = gen
    <3>1. Improved(g)'
      BY <1>1, <1>7, <2>1 DEF Improved
    <3> QED BY <1>1, <1>7, <2>1, <3>1
  <2>2. CASE g # gen
    BY <1>3, <1>6, <2>2
  <2> QED BY <2>1, <2>2
<1>9. Rooted'
  BY <1>8 DEF Rooted
<1>10. (recipe # "gepa" => \A g \in Gens : runs[g].comparison = None)' /\ runs'[0].comparison = None
  BY <1>1 DEF ImproveInv
<1> QED BY <1>1, <1>8, <1>9, <1>10 DEF ImproveInv

LEMMA NextImprove ==
  ASSUME Shape, MeasureInv, ImproveInv, [Next]_vars
  PROVE  ImproveInv'
<1>1. CASE UNCHANGED vars
  BY <1>1, ImproveFrame DEF vars, rolloutVars, reflectionVars
<1>2. CASE \E p \in Gens : Recertify(p)
  <2>1. PICK p \in Gens : Recertify(p)
    BY <1>2
  <2>2. UNCHANGED <<recipe, runs>> /\ pc' = "stopped"
    BY <2>1 DEF Recertify
  <2>4. \A g \in Gens : /\ archive'[g] = None <=> archive[g] = None
                        /\ archive[g] # None => /\ archive'[g].parent = archive[g].parent
                                                /\ archive'[g].code = archive[g].code
    BY <2>1, RecertifyKeepsShape
  <2>3. \A g \in Gens \ {0} : archive[g] # None => Improved(g)' /\ archive'[archive'[g].parent] # None
    BY <2>2, <2>4, ImprovedStays
  <2> QED BY <2>2, <2>3, <2>4 DEF ImproveInv, Rooted
<1>3. ASSUME Below, UNCHANGED checkout PROVE ImproveInv'
  BY <1>3, ImproveFrame DEF Below, reflectionVars
<1>4. HarborSteps \/ RecoverySteps \/ HarborOps \/ VerifySource \/ SpoilEvidence \/ Materialize(Code(parent))
        => UNCHANGED checkout
  BY DEF HarborSteps, HarborTrial, HarborExit, Cancel, RecoverySteps, RecoveryStart, BackUp, ResumeHarbor,
         RecoveryEnds, KillRecovery, HarborOps, RolloutStart, RunHarbor, StopHarbor, HarborGone, StreamHeld,
         CollectCases, WriteHarborState, RequireCases, VerifySource, SpoilEvidence, Materialize
<1> QED BY <1>1, <1>2, <1>3, <1>4, NextIs, QuietStages, ValidateKeepsImprove, EvaluateKeepsImprove

LEMMA InitImprove ==
  ASSUME Init
  PROVE  ImproveInv
<1>1. /\ pc = "select" /\ archive[1].parent = 0 /\ archive[0] \in Lines /\ {0, 1, 2} \subseteq Gens
      /\ \A g \in Gens : g > 1 => archive[g] = None
  BY InitLines
<1>2. \A g \in Gens : runs[g].comparison = None
  BY InitRuns
<1>3. \A g \in Gens \ {0} : archive[g] # None => g = 1
  <2>1. PICK N \in Nat : Gens = 0..N
    BY InitLines, GensFacts
  <2> QED BY <1>1, <2>1
<1>4. archive[0] # None
  BY <1>1, InitShape, NotLine
<1> QED BY <1>1, <1>2, <1>3, <1>4 DEF ImproveInv, Rooted, Improved

\* A change that was let through beat its parent on what was measured of both.
THEOREM AcceptedChangesImprove == Spec => []AcceptedImproves
<1>1. Shape /\ ImproveInv => AcceptedImproves
  BY DEF ImproveInv, Improved, Improves, Passed, AcceptedImproves
<1>2. Shape /\ MeasureInv /\ ImproveInv /\ [Next]_vars => Shape' /\ MeasureInv' /\ ImproveInv'
  BY NextShape, NextMeasure, NextImprove
<1>3. Init => Shape /\ MeasureInv /\ ImproveInv
  BY InitShape, InitMeasure, InitImprove
<1> QED BY <1>1, <1>2, <1>3, PTL DEF Spec

------------------------------------------------------------------------------
(* The walk back along the lines of the archive. *)

Committed == {g \in Gens : archive[g] # None}

\* What one row adds to the walk, given that of its parent.
Row(back, p) ==
  [n \in 0..HistoryCycles |->
     IF n = 0 \/ p = 0 THEN {}
     ELSE IF Cases(p) = None THEN back[archive[p].parent][n]
     ELSE Cases(p) \cup back[archive[p].parent][n - 1]]

Walks(back, dom) == back = [p \in dom |-> Row(back, p)]

LEMMA ParentIs ==
  ASSUME Shape, Rooted, NEW p \in Committed, p # 0
  PROVE  archive[p].parent \in Committed /\ archive[p].parent < p /\ p \in Nat /\ archive[p].parent \in Nat
<1>1. p \in Gens \ {0} /\ archive[p] # None
  BY DEF Committed
<1>2. PICK N \in Nat : Gens = 0..N
  BY Numbers DEF Shape
<1>3. archive[p].parent \in 0..p - 1
  BY <1>1 DEF Shape, LineageShape
<1>4. archive[archive[p].parent] # None
  BY <1>1 DEF Rooted
<1> QED BY <1>1, <1>2, <1>3, <1>4 DEF Committed

LEMMA WalkExists ==
  ASSUME Shape, Rooted
  PROVE  \E back : Walks(back, Committed)
<1> DEFINE Under(m) == {p \in Committed : p < m}
           Fails == {m \in Nat : ~\E back : Walks(back, Under(m))}
<1>1. Fails = {}
  <2> SUFFICES ASSUME Fails # {} PROVE FALSE
    OBVIOUS
  <2>1. PICK m \in Fails : \A k \in Fails : m <= k
    BY LeastNatural
  <2>2. m \in Nat
    OBVIOUS
  <2>3. m # 0
    <3>1. Committed \subseteq Nat
      <4>1. PICK N \in Nat : Gens = 0..N
        BY Numbers DEF Shape
      <4> QED BY <4>1 DEF Committed
    <3>2. \A p \in Nat : ~(p < 0)
      OBVIOUS
    <3>6. Under(0) = {}
      BY <3>1, <3>2
    <3>3. \A back : [p \in {} |-> Row(back, p)] = [p \in {} |-> 0]
      OBVIOUS
    <3>4. Walks([p \in {} |-> 0], {})
      BY <3>3 DEF Walks
    <3>5. \E back : Walks(back, Under(0))
      BY <3>4, <3>6
    <3> QED BY <3>5
  <2>4. m - 1 \in Nat /\ m - 1 < m /\ m - 1 \notin Fails
    <3> HIDE DEF Fails
    <3>1. m - 1 \in Nat /\ ~(m <= m - 1) /\ m - 1 < m
      BY <2>2, <2>3
    <3> QED BY <2>1, <3>1
  <2>5. PICK old : Walks(old, Under(m - 1))
    BY <2>4
  <2> DEFINE new == [p \in Under(m) |-> IF p < m - 1 THEN old[p] ELSE Row(old, p)]
  <2>6. \A p \in Under(m) : p < m - 1 => new[p] = old[p] /\ old[p] = Row(old, p)
    <3>1. \A p \in Under(m) : p < m - 1 => p \in Under(m - 1)
      OBVIOUS
    <3> QED BY <2>5, <3>1 DEF Walks
  <2>7. \A p \in Under(m) : new[p] = Row(old, p)
    BY <2>6
  <2>8. \A p \in Under(m) : Row(new, p) = Row(old, p)
    <3> SUFFICES ASSUME NEW p \in Under(m) PROVE Row(new, p) = Row(old, p)
      OBVIOUS
    <3>1. CASE p = 0
      BY <3>1 DEF Row
    <3>2. CASE p # 0
      <4> DEFINE a == archive[p].parent
      <4>1. a \in Committed /\ a < p /\ p \in Nat /\ a \in Nat
        BY <3>2, ParentIs
      <4>2. a \in Under(m) /\ a < m - 1
        BY <2>2, <4>1
      <4>3. new[a] = old[a]
        BY <2>6, <4>2
      <4> HIDE DEF new
      <4> QED BY <4>3 DEF Row
    <3> QED BY <3>1, <3>2
  <2>9. Walks(new, Under(m))
    <3>1. DOMAIN new = Under(m) /\ new = [p \in Under(m) |-> new[p]]
      OBVIOUS
    <3>2. \A p \in Under(m) : new[p] = Row(new, p)
      BY <2>7, <2>8
    <3> HIDE DEF new
    <3> QED BY <3>1, <3>2 DEF Walks
  <2> QED BY <2>9
<1>2. PICK N \in Nat : Gens = 0..N
  BY Numbers DEF Shape
<1>3. Under(N + 1) = Committed /\ N + 1 \in Nat
  BY <1>2 DEF Committed
<1>4. \E back : Walks(back, Under(N + 1))
  BY <1>1, <1>3
<1> QED BY <1>3, <1>4

\* Of what ancestors of p, p among them, a walk brings cases.
Older(p, c) == \E a \in Lineage(p) \ {0} : archive[a] # None /\ Cases(a) # None /\ c \in Cases(a)

LEMMA LineageIs ==
  ASSUME NEW p \in Gens
  PROVE  /\ p \in Lineage(p)
         /\ p # 0 /\ archive[p] # None => Lineage(archive[p].parent) \subseteq Lineage(p)
  BY DEF Lineage

LEMMA WalkIs ==
  ASSUME Shape, Rooted, NEW back, Walks(back, Committed)
  PROVE  \A p \in Committed : \A n \in 0..HistoryCycles : \A c \in back[p][n] : Older(p, c)
<1> DEFINE Good(p) == \A n \in 0..HistoryCycles : \A c \in back[p][n] : Older(p, c)
           Fails == {p \in Committed : ~Good(p)}
<1>0. Committed \subseteq Nat
  <2>1. PICK N \in Nat : Gens = 0..N
    BY Numbers DEF Shape
  <2> QED BY <2>1 DEF Committed
<1> SUFFICES ASSUME Fails # {} PROVE FALSE
  OBVIOUS
<1>1. PICK p \in Fails : \A q \in Fails : p <= q
  <2>1. Fails \in SUBSET Nat
    BY <1>0
  <2> QED BY <2>1, LeastNatural
<1>2. p \in Committed /\ p \in Gens /\ archive[p] # None /\ p \in Nat
  BY <1>0 DEF Committed
<1>3. PICK n \in 0..HistoryCycles : \E c \in back[p][n] : ~Older(p, c)
  OBVIOUS
<1>14. PICK c \in back[p][n] : ~Older(p, c)
  BY <1>3
<1>4. back[p] = Row(back, p)
  BY <1>2 DEF Walks
<1>5. back[p][n] = IF n = 0 \/ p = 0 THEN {}
                   ELSE IF Cases(p) = None THEN back[archive[p].parent][n]
                   ELSE Cases(p) \cup back[archive[p].parent][n - 1]
  BY <1>4 DEF Row
<1>6. n # 0 /\ p # 0
  BY <1>14, <1>5
<1> DEFINE a == archive[p].parent
<1>7. a \in Committed /\ a < p /\ a \in Nat
  BY <1>2, <1>6, ParentIs
<1>8. Good(a)
  <2>1. a \notin Fails
    BY <1>1, <1>2, <1>7
  <2> QED BY <1>7, <2>1
<1>9. n - 1 \in 0..HistoryCycles
  BY <1>6, ReflectionAssumption
<1>10. p \in Lineage(p) /\ Lineage(a) \subseteq Lineage(p)
  BY <1>2, <1>6, LineageIs
<1>11. \A d : Older(a, d) => Older(p, d)
  BY <1>10 DEF Older
<1>12. CASE Cases(p) = None
  <2>1. c \in back[a][n]
    BY <1>14, <1>5, <1>6, <1>12
  <2> QED BY <1>14, <1>8, <1>11, <2>1
<1>13. CASE Cases(p) # None
  <2>1. c \in Cases(p) \/ c \in back[a][n - 1]
    BY <1>14, <1>5, <1>6, <1>13
  <2>2. CASE c \in Cases(p)
    BY <1>2, <1>14, <1>6, <1>10, <1>13, <2>2 DEF Older
  <2>3. CASE c \in back[a][n - 1]
    BY <1>14, <1>8, <1>9, <1>11, <2>3
  <2> QED BY <2>1, <2>2, <2>3
<1> QED BY <1>12, <1>13

LEMMA WindowIs ==
  ASSUME Shape, Rooted, parent \in Committed
  PROVE  Cases(gen) \subseteq Window /\ \A c \in Window : c \in Cases(gen) \/ Older(parent, c)
<1> DEFINE walk == CHOOSE back : Walks(back, Committed)
<1>1. Walks(walk, Committed)
  BY WalkExists
<1>2. Window = Cases(gen) \cup walk[parent][HistoryCycles - 1]
  BY DEF Window, Walks, Row, Committed
<1> HIDE DEF walk
<1>3. HistoryCycles - 1 \in 0..HistoryCycles
  BY ReflectionAssumption
<1>4. \A c \in walk[parent][HistoryCycles - 1] : Older(parent, c)
  BY <1>1, <1>3, WalkIs
<1> QED BY <1>2, <1>4

------------------------------------------------------------------------------
(* What is evidence of what. *)

\* Rollouts of committed generations are of their parents.
Traced(g) == Cases(g) # None => \A c \in Cases(g) : c.code \in {None, Code(archive[g].parent)}

Sourced(c) ==
  \/ c \in Cases(gen)
  \/ /\ recipe = "aevolve"
     /\ \E a \in Lineage(parent) \ {0} : c \in Cases(a) /\ c.code \in {None, Code(archive[a].parent)}

Evidenced ==
  /\ \A c \in runs[gen].evidence.cases : Sourced(c)
  /\ recipe # "ahe" => Cases(gen) \subseteq runs[gen].evidence.cases

\* The history of tasks agrees with the evaluation of the parent.
Told ==
  \A t \in DOMAIN certified[parent].base :
    LET found == certified[parent].base[t]  told == work.stability[t]
    IN  /\ found = "pass" => told \in {"stable_pass", "unstable"}
        /\ found = "fail" => told \in {"stable_fail", "unstable"}

EvidenceInv ==
  /\ recipe = "aevolve" => \A g \in Gens \ {0} : archive[g] # None => Traced(g)
  /\ pc \in {"change", "feedback", "mutate"} => Evidenced /\ (recipe = "ahe" => Told)
  /\ pc = "mutate" => runs[gen].feedback.evidence = runs[gen].evidence

LEMMA EvidenceWrites ==
  ASSUME RunShape, gen \in Gens
  PROVE  /\ GepaAnalyze => runs'[gen].evidence.cases = Cases(gen)
         /\ TrajectoryOnly => runs'[gen].evidence.cases = Window
         /\ WriteReports => runs'[gen].evidence.cases \subseteq Cases(gen)
         /\ ChangeEvaluation \/ Feedback => runs'[gen].evidence = runs[gen].evidence
         /\ Feedback => runs'[gen].feedback.evidence = runs[gen].evidence
<1>1. RunRecord(runs[gen]) /\ DOMAIN runs = Gens
  BY DEF RunShape
<1>2. \A e : [runs EXCEPT ![gen].evidence = e][gen].evidence = e
  BY <1>1 DEF RunRecord
<1>3. GepaAnalyze => runs'[gen].evidence.cases = Cases(gen)
  <2> DEFINE e == [operator |-> "gepa", cases |-> Cases(gen)]
  <2>1. GepaAnalyze => runs' = [runs EXCEPT ![gen].evidence = e]
    BY DEF GepaAnalyze
  <2>2. e.cases = Cases(gen)
    OBVIOUS
  <2> HIDE DEF e
  <2> QED BY <1>2, <2>1, <2>2
<1>4. TrajectoryOnly => runs'[gen].evidence.cases = Window
  <2> SUFFICES ASSUME TrajectoryOnly PROVE runs'[gen].evidence.cases = Window
    OBVIOUS
  <2>1. PICK judged : Bundle(Window, judged)
    BY DEF TrajectoryOnly
  <2> DEFINE e == [operator |-> "trajectory_only", cases |-> Window, judged |-> judged]
  <2>2. runs' = [runs EXCEPT ![gen].evidence = e]
    BY <2>1 DEF Bundle
  <2>3. e.cases = Window
    OBVIOUS
  <2> HIDE DEF e
  <2> QED BY <1>2, <2>2, <2>3
<1>5. WriteReports => runs'[gen].evidence.cases \subseteq Cases(gen)
  <2> DEFINE e == [operator |-> "ahe", cases |-> {c \in Cases(gen) : c.task \in work.jobs}]
             d == [t \in work.jobs |-> Code(parent)] @@ runs[gen].details
  <2> SUFFICES ASSUME WriteReports PROVE runs'[gen].evidence.cases \subseteq Cases(gen)
    OBVIOUS
  <2>1. PICK f : runs' = [runs EXCEPT ![gen].details = f, ![gen].evidence = e]
    BY DEF WriteReports
  <2>2. e.cases \subseteq Cases(gen)
    OBVIOUS
  <2> HIDE DEF e
  <2> DEFINE r == [runs EXCEPT ![gen].details = f]
  <2>3. [runs EXCEPT ![gen].details = f, ![gen].evidence = e] = [r EXCEPT ![gen].evidence = e]
    BY <1>1
  <2>4. DOMAIN r = Gens /\ RunRecord(r[gen])
    BY <1>1 DEF RunRecord
  <2> HIDE DEF r
  <2>5. [r EXCEPT ![gen].evidence = e][gen].evidence = e
    BY <2>4 DEF RunRecord
  <2> QED BY <2>1, <2>2, <2>3, <2>5
<1>6. ChangeEvaluation => runs'[gen].evidence = runs[gen].evidence
  <2> SUFFICES ASSUME ChangeEvaluation PROVE runs'[gen].evidence = runs[gen].evidence
    OBVIOUS
  <2>1. PICK e : runs' = [runs EXCEPT ![gen].change = e]
    BY DEF ChangeEvaluation
  <2> QED BY <1>1, <2>1 DEF RunRecord
<1>7. Feedback => /\ runs'[gen].evidence = runs[gen].evidence
                  /\ runs'[gen].feedback.evidence = runs[gen].evidence
  <2> SUFFICES ASSUME Feedback
               PROVE  /\ runs'[gen].evidence = runs[gen].evidence
                      /\ runs'[gen].feedback = Copies /\ Copies.evidence = runs[gen].evidence
    BY DEF Copies
  <2>1. runs' = [runs EXCEPT ![gen].feedback = Copies]
    BY DEF Feedback
  <2>2. Copies.evidence = runs[gen].evidence
    BY DEF Copies
  <2> QED BY <1>1, <2>1, <2>2 DEF RunRecord
<1> QED BY <1>3, <1>4, <1>5, <1>6, <1>7

\* What the archive and the rollouts of committed generations keep.
LEMMA LinesStay ==
  ASSUME Shape, [Next]_vars
  PROVE  \A g \in Gens : archive[g] # None =>
           /\ archive'[g] # None /\ archive'[g].parent = archive[g].parent
           /\ archive'[g].code = archive[g].code /\ Cases(g)' = Cases(g)
<1>1. /\ gen \in Gens /\ Here \in Keys /\ <<gen, "validate">> \in Keys
      /\ DOMAIN files = Gens \X Verbs /\ DOMAIN archive = Gens
      /\ pc \in {"rollout", "validate", "evaluate"} => archive[gen] = None
  BY Numbers DEF Shape, LineageShape, FileShape, ArchiveShape
<1>2. files' = files => \A g : Cases(g)' = Cases(g)
  BY DEF Cases
<1>3. CASE UNCHANGED <<archive, files>>
  BY <1>2, <1>3
<1>4. CASE \E p \in Gens : Recertify(p)
  <2>1. PICK p \in Gens : Recertify(p)
    BY <1>4
  <2>2. files' = files
    BY <2>1 DEF Recertify
  <2>3. \A g \in Gens : /\ archive'[g] = None <=> archive[g] = None
                        /\ archive[g] # None => /\ archive'[g].parent = archive[g].parent
                                                /\ archive'[g].code = archive[g].code
    BY <2>1, RecertifyKeepsShape
  <2> QED BY <1>2, <2>2, <2>3
<1>5. CASE Evaluate
  <2>1. PICK e : archive' = [archive EXCEPT ![gen] = e]
    BY <1>5 DEF Evaluate
  <2>2. files' = files /\ archive[gen] = None
    BY <1>1, <1>5 DEF Evaluate
  <2>3. \A g \in Gens : archive[g] # None => archive'[g] = archive[g]
    BY <1>1, <2>1, <2>2
  <2> QED BY <1>2, <2>2, <2>3
<1>6. CASE Below /\ (HarborOps \/ Materialize(Code(parent))) /\ files' # files
  <2>1. /\ pc \in {"rollout", "validate"} /\ op.key \in {Here, <<gen, "validate">>}
        /\ CollectCases \/ WriteHarborState \/ RequireCases \/ \E code : Materialize(code)
    <3>1. CollectCases \/ WriteHarborState \/ RequireCases \/ \E code : Materialize(code)
      BY <1>6 DEF HarborOps, RolloutStart, RunHarbor, StopHarbor, HarborGone, StreamHeld
    <3>2. Materialize(Code(parent)) => op.pc = "materialize"
      BY DEF Materialize
    <3>3. ReplayOp(Here) => op.key = Here
      BY DEF ReplayOp
    <3>4. \A k : HarborOp(k) => op.key = k
      BY DEF HarborOp
    <3> QED BY <1>6, <3>1, <3>2, <3>3, <3>4, OperatorIs
  <2>2. archive[gen] = None /\ archive' = archive
    BY <1>1, <1>6, <2>1 DEF Below, reflectionVars
  <2>3. PICK k \in Keys : k = op.key
    BY <1>1, <2>1
  <2>4. \A i \in DOMAIN files : i # k => files'[i] = files[i]
    BY <2>1, <2>3, OperatorWrites
  <2>5. ASSUME NEW g \in Gens, archive[g] # None PROVE Cases(g)' = Cases(g)
    <3>1. g # gen
      BY <2>2, <2>5
    <3>2. <<g, "rollout">> # k
      BY <2>1, <2>3, <3>1 DEF Here
    <3>3. <<g, "rollout">> \in DOMAIN files
      BY <1>1 DEF Verbs
    <3>4. files'[<<g, "rollout">>] = files[<<g, "rollout">>]
      BY <2>4, <3>2, <3>3
    <3> QED BY <3>4 DEF Cases
  <2> QED BY <2>2, <2>5
<1>7. UNCHANGED vars => UNCHANGED <<archive, files>>
  BY DEF vars, rolloutVars, reflectionVars
<1>8. Select \/ RolloutDone \/ RolloutFailed \/ Analysis \/ Mutate \/ Validate \/ Record \/ Kill \/ Resume
        => UNCHANGED <<archive, files>>
  BY AnalysisIs DEF Select, RolloutDone, RolloutFailed, Quiet, Mutate, Validate, Record, Kill, Resume
<1>9. Below /\ (HarborSteps \/ RecoverySteps \/ VerifySource \/ SpoilEvidence) => UNCHANGED <<archive, files>>
  BY DEF Below, reflectionVars, HarborSteps, HarborTrial, HarborExit, Cancel, RecoverySteps,
         RecoveryStart, BackUp, ResumeHarbor, RecoveryEnds, KillRecovery, VerifySource, SpoilEvidence
<1>10. Below => archive' = archive
  BY DEF Below, reflectionVars
<1> QED BY <1>3, <1>4, <1>5, <1>6, <1>7, <1>8, <1>9, <1>10, NextIs

\* While the evidence is read, its sources stay.
LEMMA ReadingIsQuiet ==
  ASSUME Shape, [Next]_vars, pc \in {"change", "feedback", "mutate"}, pc' \in {"change", "feedback", "mutate"}
  PROVE  /\ UNCHANGED <<recipe, archive, gen, parent, work, certified, files>>
         /\ ChangeEvaluation \/ Feedback \/ UNCHANGED <<pc, runs>>
<1>1. op.pc = "off"
  BY DEF Shape, OpShape, NoOp
<1>2. CASE UNCHANGED vars
  BY <1>2 DEF vars, rolloutVars, reflectionVars
<1>3. CASE Below /\ (HarborSteps \/ RecoverySteps)
  BY <1>3 DEF Below, reflectionVars, HarborSteps, HarborTrial, HarborExit, Cancel, RecoverySteps,
         RecoveryStart, BackUp, ResumeHarbor, RecoveryEnds, KillRecovery
<1>4. ~HarborOps /\ ~VerifySource /\ ~SpoilEvidence /\ ~Materialize(Code(parent))
  BY <1>1 DEF HarborOps, RolloutStart, RunHarbor, StopHarbor, HarborGone, StreamHeld, CollectCases,
         WriteHarborState, RequireCases, VerifySource, SpoilEvidence, Materialize
<1>5. CASE Analysis
  <2>1. ChangeEvaluation \/ Feedback
    BY <1>5 DEF Analysis, GepaAnalyze, TrajectoryOnly, AheStart, StartDebugger, DebuggerEnds,
           DebuggerFails, WriteReports
  <2> QED BY <2>1 DEF ChangeEvaluation, Feedback, Quiet
<1>6. ~(Select \/ RolloutDone \/ RolloutFailed \/ Mutate \/ Validate \/ Evaluate \/ Record \/ Kill \/ Resume
        \/ \E p \in Gens : Recertify(p))
  BY DEF Select, RolloutDone, RolloutFailed, NextGeneration, Mutate, GepaMutate, AheMutate, AEvolveMutate,
         MutateFails, Validate, Evaluate, Record, Kill, Resume, Recertify
<1> QED BY <1>2, <1>3, <1>4, <1>5, <1>6, NextIs

\* What is written into the history of tasks.
LEMMA StabilityIs ==
  ASSUME Shape, parent \in Gens, archive[parent] # None, Cases(gen) = FinalCases(parent), WriteReports
  PROVE  Told'
<1>1. UNCHANGED <<parent, certified>> /\ work'.stability = [t \in {c.task : c \in Cases(gen)} |-> Stability(t)]
  <2> DEFINE told == [t \in {c.task : c \in Cases(gen)} |-> Stability(t)]
  <2>1. work' = [NoWork EXCEPT !.stability = told] /\ UNCHANGED <<parent, certified>>
    BY DEF WriteReports, Quiet
  <2> HIDE DEF told
  <2>2. work'.stability = told
    BY <2>1 DEF NoWork
  <2> QED BY <2>1, <2>2 DEF told
<1>2. ASSUME NEW t \in DOMAIN certified[parent].base
      PROVE  LET found == certified[parent].base[t]  told == work'.stability[t]
             IN  /\ found = "pass" => told \in {"stable_pass", "unstable"}
                 /\ found = "fail" => told \in {"stable_fail", "unstable"}
  <2>1. t \in DOMAIN Final(parent)
    BY DEF Final
  <2>2. t \in {c.task : c \in Cases(gen)}
    <3>1. Case(t, Final(parent)[t], Code(parent)) \in Cases(gen)
      BY <2>1 DEF FinalCases
    <3>2. Case(t, Final(parent)[t], Code(parent)).task = t
      BY CaseIs
    <3> QED BY <3>1, <3>2
  <2>3. work'.stability[t] = Stability(t)
    BY <1>1, <2>2
  <2>4. certified[parent].base[t] \in History(t)
    <3>1. parent \in {h \in DOMAIN archive : archive[h] # None /\ t \in DOMAIN certified[h].base}
      BY DEF Shape, ArchiveShape
    <3> QED BY <3>1 DEF History
  <2>5. certified[parent].base[t] = "pass" => Stability(t) \in {"stable_pass", "unstable"}
    BY <2>4 DEF Stability
  <2>6. certified[parent].base[t] = "fail" => Stability(t) \in {"stable_fail", "unstable"}
    BY <2>4 DEF Stability
  <2> QED BY <2>3, <2>5, <2>6
<1> QED BY <1>1, <1>2 DEF Told

LEMMA NextEvidence ==
  ASSUME Shape, AheInv, MeasureInv, Rooted, EvidenceInv, [Next]_vars
  PROVE  EvidenceInv'
<1>1. /\ gen \in Gens /\ 0 \in Gens /\ gen \in Nat /\ RunShape /\ DOMAIN archive = Gens
  BY Numbers DEF Shape, ArchiveShape
<1>2. ASSUME recipe' = "aevolve", NEW g \in Gens \ {0}, archive'[g] # None
      PROVE  Traced(g)'
  <2>1. recipe = "aevolve"
    <3>1. UNCHANGED vars => recipe' = recipe
      BY DEF vars, reflectionVars
    <3>2. Next => recipe' = recipe
      BY NextIs, AnalysisIs DEF Select, RolloutDone, RolloutFailed, Quiet, Mutate, Validate, Evaluate,
         Record, Kill, Resume, Recertify, Below, reflectionVars
    <3> QED BY <1>2, <3>1, <3>2
  <2>2. CASE archive[g] # None
    <3> DEFINE p == archive[g].parent
    <3>1. p \in Gens /\ archive[p] # None
      <4>1. p \in 0..g - 1
        BY <2>2 DEF Shape, LineageShape
      <4>2. PICK N \in Nat : Gens = 0..N
        BY Numbers DEF Shape
      <4> QED BY <2>2, <4>1, <4>2 DEF Rooted
    <3>2. Cases(g)' = Cases(g) /\ archive'[g].parent = p /\ archive'[p].code = archive[p].code
      BY <2>2, <3>1, LinesStay
    <3>3. Traced(g)
      BY <2>1, <2>2 DEF EvidenceInv
    <3>4. (Code(archive[g].parent))' = Code(archive[g].parent)
      BY <3>2 DEF Code
    <3> QED BY <3>2, <3>3, <3>4 DEF Traced
  <2>3. CASE archive[g] = None
    <3>1. Evaluate /\ g = gen
      <4>1. archive' # archive
        BY <1>2, <2>3
      <4>2. (\E p \in Gens : Recertify(p)) => archive'[g] = None
        BY <2>3, RecertifyKeepsShape
      <4>3. UNCHANGED vars => archive' = archive
        BY DEF vars, reflectionVars
      <4>4. Evaluate
        BY <1>2, <4>1, <4>2, <4>3, NextIs, AnalysisIs
           DEF Select, RolloutDone, RolloutFailed, Quiet, Mutate, Validate, Record, Kill, Resume,
               Below, reflectionVars
      <4>5. PICK e : archive' = [archive EXCEPT ![gen] = e]
        BY <4>4 DEF Evaluate
      <4> QED BY <1>1, <1>2, <2>3, <4>4, <4>5
    <3>2. /\ pc = "evaluate" /\ files' = files /\ archive'[gen].parent = parent /\ parent # gen
          /\ parent \in Gens /\ archive'[parent] = archive[parent]
      <4>1. PICK valid : archive' = [archive EXCEPT ![gen] = [parent |-> parent, code |-> checkout.code, valid |-> valid]]
        BY <3>1 DEF Evaluate
      <4>2. pc = "evaluate" /\ files' = files
        BY <3>1 DEF Evaluate
      <4>3. parent \in 0..gen - 1 /\ 0..gen - 1 \subseteq Gens
        BY <4>2, Numbers DEF Shape, LineageShape, AfterEdit
      <4> QED BY <1>1, <4>1, <4>2, <4>3
    <3>3. ParentMeasured
      BY <2>1, <3>2 DEF MeasureInv
    <3>4. \A c \in Cases(gen) : c.code \in {None, Code(parent)}
      BY <3>3 DEF ParentMeasured, Gathered, Gathering, Cases, Here
    <3>5. Cases(gen)' = Cases(gen) /\ (Code(archive[gen].parent))' = Code(parent) /\ gen' = gen
      BY <3>1, <3>2 DEF Cases, Code, Evaluate
    <3>6. (Cases(gen) # None => \A c \in Cases(gen) : c.code \in {None, Code(archive[gen].parent)})'
      BY <3>4, <3>5
    <3> QED BY <3>1, <3>5, <3>6 DEF Traced
  <2> QED BY <2>2, <2>3
<1>3. ASSUME pc' \in {"change", "feedback", "mutate"}
      PROVE  /\ Evidenced' /\ (recipe = "ahe" => Told)'
             /\ pc' = "mutate" => (runs[gen].feedback.evidence = runs[gen].evidence)'
  <2>1. CASE pc \in {"change", "feedback", "mutate"}
    <3>1. /\ UNCHANGED <<recipe, archive, gen, parent, work, certified, files>>
          /\ ChangeEvaluation \/ Feedback \/ UNCHANGED <<pc, runs>>
      BY <1>3, <2>1, ReadingIsQuiet
    <3>2. runs'[gen].evidence = runs[gen].evidence
      BY <1>1, <3>1, EvidenceWrites
    <3>3. Lineage(parent)' = Lineage(parent)
      BY <3>1 DEF Lineage
    <3>4. \A a : Cases(a)' = Cases(a) /\ Code(a)' = Code(a) /\ (Code(archive[a].parent))' = Code(archive[a].parent)
      BY <3>1 DEF Cases, Code
    <3>5. Cases(gen)' = Cases(gen)
      BY <3>1 DEF Cases
    <3>6. \A c : Sourced(c) => Sourced(c)'
      BY <3>1, <3>3, <3>4, <3>5 DEF Sourced
    <3>7. Evidenced'
      BY <2>1, <3>1, <3>2, <3>5, <3>6 DEF EvidenceInv, Evidenced
    <3>8. (recipe = "ahe" => Told)'
      BY <2>1, <3>1 DEF EvidenceInv, Told
    <3>9. pc' = "mutate" => (runs[gen].feedback.evidence = runs[gen].evidence)'
      <4>1. ChangeEvaluation => pc' # "mutate"
        BY DEF ChangeEvaluation
      <4>2. Feedback => runs'[gen].feedback.evidence = runs[gen].evidence
        BY <1>1, EvidenceWrites
      <4> QED BY <3>1, <3>2, <4>1, <4>2 DEF EvidenceInv
    <3> QED BY <3>7, <3>8, <3>9
  <2>2. CASE pc \notin {"change", "feedback", "mutate"}
    <3>1. GepaAnalyze \/ TrajectoryOnly \/ WriteReports
      <4>1. UNCHANGED vars \/ Below => pc' = pc
        BY DEF vars, Below, reflectionVars
      <4>2. Analysis => GepaAnalyze \/ TrajectoryOnly \/ WriteReports
        BY <1>3, <2>2 DEF Analysis, AheStart, StartDebugger, DebuggerEnds, DebuggerFails,
           ChangeEvaluation, Feedback
      <4>3. ~(Select \/ RolloutDone \/ RolloutFailed \/ Mutate \/ Validate \/ Evaluate \/ Record \/ Kill \/ Resume
            \/ \E p \in Gens : Recertify(p))
        BY <1>3, <2>2 DEF Select, RolloutDone, RolloutFailed, NextGeneration, Mutate, Validate, Evaluate,
           Record, Kill, Resume, Recertify
      <4> QED BY <1>3, <2>2, <4>1, <4>2, <4>3, NextIs
    <3>2. UNCHANGED <<recipe, archive, gen, parent, certified, files>> /\ pc' # "mutate" /\ pc \in {"analyze", "debug"}
      BY <3>1 DEF GepaAnalyze, TrajectoryOnly, WriteReports, Quiet
    <3>3. parent \in 0..gen - 1 /\ parent \in Gens /\ archive[parent] # None
      BY <3>2, Numbers DEF Shape, LineageShape, BeforeEdit
    <3>4. Cases(gen)' = Cases(gen)
      BY <3>2 DEF Cases
    <3>5. CASE GepaAnalyze
      <4>1. runs'[gen].evidence.cases = Cases(gen) /\ recipe = "gepa"
        BY <1>1, <3>5, EvidenceWrites DEF GepaAnalyze
      <4> QED BY <3>2, <3>4, <4>1 DEF Evidenced, Sourced
    <3>6. CASE WriteReports
      <4>1. runs'[gen].evidence.cases \subseteq Cases(gen) /\ recipe = "ahe"
        <5>1. pc = "debug"
          BY <3>6 DEF WriteReports
        <5> QED BY <1>1, <3>6, <5>1, EvidenceWrites DEF Shape, GenShape
      <4>2. Cases(gen) = FinalCases(parent)
        BY <3>2, <4>1 DEF AheInv, ReplayInv
      <4>3. Told'
        BY <3>3, <3>6, <4>2, StabilityIs
      <4> QED BY <3>2, <3>4, <4>1, <4>3 DEF Evidenced, Sourced
    <3>7. CASE TrajectoryOnly
      <4>1. runs'[gen].evidence.cases = Window /\ recipe = "aevolve"
        BY <1>1, <3>7, EvidenceWrites DEF TrajectoryOnly
      <4>2. parent \in Committed
        BY <3>3 DEF Committed
      <4>3. Cases(gen) \subseteq Window /\ \A c \in Window : c \in Cases(gen) \/ Older(parent, c)
        BY <4>2, WindowIs
      <4>4. \A c : Older(parent, c) => Sourced(c)
        <5> SUFFICES ASSUME NEW c, NEW a \in Lineage(parent) \ {0}, archive[a] # None, Cases(a) # None,
                            c \in Cases(a)
                     PROVE  c.code \in {None, Code(archive[a].parent)}
          BY <4>1 DEF Older, Sourced
        <5>1. a \in Gens \ {0}
          BY DEF Lineage
        <5>2. Traced(a)
          BY <4>1, <5>1 DEF EvidenceInv
        <5> QED BY <5>2 DEF Traced
      <4>5. \A c : c \in Cases(gen) => Sourced(c)
        BY DEF Sourced
      <4>6. Lineage(parent)' = Lineage(parent)
        BY <3>2 DEF Lineage
      <4>7. \A a : Cases(a)' = Cases(a) /\ (Code(archive[a].parent))' = Code(archive[a].parent)
        BY <3>2 DEF Cases, Code
      <4>8. \A c : Sourced(c) => Sourced(c)'
        BY <3>2, <3>4, <4>6, <4>7 DEF Sourced
      <4>9. \A c \in runs'[gen].evidence.cases : Sourced(c)'
        BY <4>1, <4>3, <4>4, <4>5, <4>8
      <4> QED BY <3>2, <3>4, <4>1, <4>3, <4>9 DEF Evidenced
    <3> QED BY <3>1, <3>2, <3>5, <3>6, <3>7
  <2> QED BY <2>1, <2>2
<1> QED BY <1>2, <1>3 DEF EvidenceInv

LEMMA InitEvidence ==
  ASSUME Init
  PROVE  EvidenceInv
<1>1. /\ pc = "select" /\ archive[1].parent = 0 /\ archive[0].code = <<0, 0>> /\ {0, 1, 2} \subseteq Gens
      /\ \A g \in Gens : g > 1 => archive[g] = None
  BY InitLines
<1>2. \A g \in Gens \ {0} : archive[g] # None => g = 1
  <2>1. PICK N \in Nat : Gens = 0..N
    BY InitLines, GensFacts
  <2> QED BY <1>1, <2>1
<1>3. ASSUME recipe = "aevolve" PROVE Traced(1)
  <2> DEFINE first == {Case(t, "fail", <<0, 0>>) : t \in Range(Train)}
  <2>1. files = [k \in Gens \X {"rollout", "validate"} |->
                    IF k = <<1, "rollout">> THEN [NoFiles EXCEPT !.cases = first] ELSE NoFiles]
    BY <1>3 DEF Init
  <2>2. \A c \in first : c.code = <<0, 0>>
    BY CaseIs
  <2> HIDE DEF first
  <2>3. Cases(1) = first
    <3>1. <<1, "rollout">> \in Gens \X {"rollout", "validate"}
      BY <1>1
    <3>2. files[<<1, "rollout">>] = [NoFiles EXCEPT !.cases = first]
      BY <2>1, <3>1
    <3> QED BY <3>2 DEF Cases, NoFiles
  <2> QED BY <1>1, <2>2, <2>3 DEF Traced, Code
<1> QED BY <1>1, <1>2, <1>3 DEF EvidenceInv

\* What an agent is shown when it starts to edit is of the parent it edits.
THEOREM EvidenceMeasured == Spec => []EvidenceIsMeasured
<1>1. Shape /\ AheInv /\ MeasureInv /\ EvidenceInv => EvidenceIsMeasured
  <2> SUFFICES ASSUME Shape, AheInv, MeasureInv, EvidenceInv, pc = "mutate" PROVE EvidenceIsMeasured
    BY DEF EvidenceIsMeasured
  <2>1. checkout = [gen |-> gen, code |-> Code(parent)]
    BY DEF Shape, CheckoutShape, BeforeEdit
  <2>2. recipe = "ahe" => Cases(gen) = FinalCases(parent) /\ Told
    BY DEF AheInv, ReplayInv, EvidenceInv
  <2>3. recipe # "ahe" => ParentMeasured
    BY DEF MeasureInv
  <2>4. ASSUME recipe # "ahe"
        PROVE  /\ jobs[Here].owner \in {"completed", "failed"}
               /\ {c.task : c \in Cases(gen)} = jobs[Here].tasks
               /\ Cardinality(Cases(gen)) = Cardinality(jobs[Here].tasks)
               /\ \A c \in Cases(gen) : Measured(c, Here, Code(parent))
    <3>1. Gathering(Cases(gen), jobs[Here].tasks, ResultsOf(Here), Code(parent))
          /\ jobs[Here].owner \in {"completed", "failed"}
      BY <2>3, <2>4 DEF ParentMeasured, Gathered, Cases, Here
    <3>2. \A c : Found(c, ResultsOf(Here), Code(parent)) => Measured(c, Here, Code(parent))
      BY DEF Found, Measured, ResultsOf
    <3> QED BY <3>1, <3>2 DEF Gathering
  <2>5. Evidenced /\ runs[gen].feedback.evidence = runs[gen].evidence
    BY DEF EvidenceInv
  <2> QED BY <2>1, <2>2, <2>4, <2>5 DEF EvidenceIsMeasured, FinalCases, Told, Evidenced, Sourced
<1>2. Shape /\ AheInv /\ MeasureInv /\ ImproveInv /\ EvidenceInv /\ [Next]_vars
        => Shape' /\ AheInv' /\ MeasureInv' /\ ImproveInv' /\ EvidenceInv'
  BY NextShape, NextAhe, NextMeasure, NextImprove, NextEvidence DEF ImproveInv
<1>3. Init => Shape /\ AheInv /\ MeasureInv /\ ImproveInv /\ EvidenceInv
  BY InitShape, InitAhe, InitMeasure, InitImprove, InitEvidence
<1> QED BY <1>1, <1>2, <1>3, PTL DEF Spec
==============================================================================
