---------------------------- MODULE DaemonProofs ----------------------------
(***************************************************************************)
(* Proofs about the daemon's process: the request ledger of the core, the  *)
(* journal of the daemon and the input of an execution.  All keep a byte   *)
(* account, so that the module begins with what is needed to reason about  *)
(* sums.                                                                   *)
(***************************************************************************)
EXTENDS RequestLedger, DaemonJournal, ExecutionInput,
        FiniteSetTheorems, SequenceTheorems, NaturalsInduction, WellFoundedInduction, TLAPS

-----------------------------------------------------------------------------
(* Sums                                                                    *)
(*                                                                         *)
(* SumFunctionOnSet folds with a recursive function on the subsets of the  *)
(* index set.  That the function exists, for a finite set, and that any    *)
(* summand can be taken out first are shown by induction over subsets.     *)

Some(s) == CHOOSE x \in s : TRUE

SumEquation(f, S, g) ==
  g = [s \in SUBSET S |-> IF s = {} THEN 0 ELSE f[Some(s)] + g[s \ {Some(s)}]]

\* The fold of the library is the value of a function that meets the equation.
LEMMA SumIsChoice ==
  ASSUME NEW f, NEW S
  PROVE  SumFunctionOnSet(f, S) = (CHOOSE g : SumEquation(f, S, g))[S]
BY DEF SumFunctionOnSet, FoldFunctionOnSet, MapThenFoldSet, SumEquation, Some

\* Induction over the subsets of a finite set: a set of them that holds each one whose
\* immediate subsets it holds is all of them.
LEMMA FiniteInduction ==
  ASSUME NEW S, IsFiniteSet(S), NEW G,
         \A s \in SUBSET S : (\A x \in s : s \ {x} \in G) => s \in G
  PROVE  \A s \in SUBSET S : s \in G
<1> SUFFICES ASSUME NEW s \in SUBSET S, s \notin G PROVE FALSE
  OBVIOUS
<1> DEFINE T == {t \in SUBSET S : t \notin G}
<1>1. T \subseteq FiniteSubsetsOf(S) /\ T # {}
  BY FS_FiniteSubsetsOfFinite
<1>2. IsWellFoundedOn(StrictSubsetOrdering(S), FiniteSubsetsOf(S))
  BY FS_StrictSubsetOrderingWellFounded
<1>3. \E t \in T : \A u \in T : <<u, t>> \notin StrictSubsetOrdering(S)
  <2> HIDE DEF T
  <2> QED BY <1>1, <1>2, WFMin
<1>4. PICK t \in T : \A u \in T : <<u, t>> \notin StrictSubsetOrdering(S)
  BY <1>3
<1>5. \A x \in t : t \ {x} \in G
  <2> SUFFICES ASSUME NEW x \in t, t \ {x} \notin G PROVE FALSE
    OBVIOUS
  <2>1. t \ {x} \in T /\ t \in SUBSET S
    OBVIOUS
  <2>2. t \ {x} \subseteq t /\ t \ {x} # t
    OBVIOUS
  <2>3. <<t \ {x}, t>> \in StrictSubsetOrdering(S)
    <3> HIDE DEF T
    <3> DEFINE u == t \ {x}
    <3>1. u \in SUBSET S /\ u \subseteq t /\ u # t
      BY <2>1, <2>2
    <3> HIDE DEF u
    <3>2. <<u, t>> \in StrictSubsetOrdering(S)
      BY <2>1, <3>1 DEF StrictSubsetOrdering
    <3> QED BY <3>2 DEF u
  <2> QED BY <1>4, <2>1, <2>3
<1> QED
  BY <1>4, <1>5

\* The summand that is taken out first is one.
LEMMA SomeIsElement == \A s : s # {} => Some(s) \in s
BY DEF Some

\* The equation at one subset.
LEMMA SumEquationApplied ==
  ASSUME NEW f, NEW S, NEW g, SumEquation(f, S, g), NEW s \in SUBSET S
  PROVE  /\ s \ {Some(s)} \in SUBSET S
         /\ g[s] = IF s = {} THEN 0 ELSE f[Some(s)] + g[s \ {Some(s)}]
<1> DEFINE h == [t \in SUBSET S |-> IF t = {} THEN 0 ELSE f[Some(t)] + g[t \ {Some(t)}]]
<1>1. g = h
  BY DEF SumEquation
<1>2. h[s] = IF s = {} THEN 0 ELSE f[Some(s)] + g[s \ {Some(s)}]
  OBVIOUS
<1> QED
  BY <1>1, <1>2

\* Functions that meet the equation agree where both are defined.
LEMMA SumUnique ==
  ASSUME NEW f, NEW S, IsFiniteSet(S), NEW g, NEW h, NEW T,
         SumEquation(f, S, g), SumEquation(f, T, h), S \subseteq T
  PROVE  \A s \in SUBSET S : g[s] = h[s]
<1> DEFINE G == {s \in SUBSET S : g[s] = h[s]}
<1>1. ASSUME NEW s \in SUBSET S, \A x \in s : s \ {x} \in G
      PROVE  s \in G
  <2>1. g[s] = IF s = {} THEN 0 ELSE f[Some(s)] + g[s \ {Some(s)}]
    BY SumEquationApplied
  <2>2. h[s] = IF s = {} THEN 0 ELSE f[Some(s)] + h[s \ {Some(s)}]
    BY SumEquationApplied
  <2>3. s # {} => g[s \ {Some(s)}] = h[s \ {Some(s)}]
    BY <1>1, SomeIsElement
  <2> QED
    BY <2>1, <2>2, <2>3
<1> HIDE DEF G
<1>2. \A s \in SUBSET S : s \in G
  BY <1>1, FiniteInduction
<1> QED
  BY <1>2 DEF G

Summable(f, S) == \E g : SumEquation(f, S, g)

\* If some function meets the equation, the sum is the value of one that does.
LEMMA SumOfSummable ==
  ASSUME NEW f, NEW S, Summable(f, S)
  PROVE  \E g : SumEquation(f, S, g) /\ SumFunctionOnSet(f, S) = g[S]
BY SumIsChoice DEF Summable

\* A part of a set with a sum has one.
LEMMA SummableSubset ==
  ASSUME NEW f, NEW S, NEW T, T \subseteq S, Summable(f, S)
  PROVE  Summable(f, T)
<1> PICK g : SumEquation(f, S, g)
  BY DEF Summable
<1> DEFINE h == [s \in SUBSET T |-> g[s]]
<1>1. ASSUME NEW s \in SUBSET T
      PROVE  h[s] = IF s = {} THEN 0 ELSE f[Some(s)] + h[s \ {Some(s)}]
  <2>1. g[s] = IF s = {} THEN 0 ELSE f[Some(s)] + g[s \ {Some(s)}]
    BY SumEquationApplied
  <2>2. h[s] = g[s] /\ h[s \ {Some(s)}] = g[s \ {Some(s)}]
    OBVIOUS
  <2> QED BY <2>1, <2>2
<1>2. h = [s \in SUBSET T |-> IF s = {} THEN 0 ELSE f[Some(s)] + h[s \ {Some(s)}]]
  BY <1>1
<1> HIDE DEF h
<1> QED
  BY <1>2 DEF Summable, SumEquation

\* A function that meets the equation on a set gives the sums of its parts.
LEMMA SumOfSubset ==
  ASSUME NEW f, NEW S, IsFiniteSet(S), NEW g, SumEquation(f, S, g), NEW T, T \subseteq S
  PROVE  SumFunctionOnSet(f, T) = g[T]
<1>1. Summable(f, T)
  BY SummableSubset DEF Summable
<1>2. PICK h : SumEquation(f, T, h) /\ SumFunctionOnSet(f, T) = h[T]
  BY <1>1, SumOfSummable
<1>3. IsFiniteSet(T)
  BY FS_Subset
<1> QED
  BY <1>2, <1>3, SumUnique

\* A sum is the first summand and the sum of the rest.
LEMMA SummableStep ==
  ASSUME NEW f, NEW S, IsFiniteSet(S), Summable(f, S)
  PROVE  SumFunctionOnSet(f, S) =
           IF S = {} THEN 0 ELSE f[Some(S)] + SumFunctionOnSet(f, S \ {Some(S)})
<1> PICK g : SumEquation(f, S, g)
  BY DEF Summable
<1>1. SumFunctionOnSet(f, S) = g[S]
  BY SumOfSubset
<1>2. SumFunctionOnSet(f, S \ {Some(S)}) = g[S \ {Some(S)}]
  <2> DEFINE T == S \ {Some(S)}
  <2>1. T \subseteq S
    OBVIOUS
  <2> HIDE DEF T
  <2>2. SumFunctionOnSet(f, T) = g[T]
    BY <2>1, SumOfSubset
  <2> QED BY <2>2 DEF T
<1>3. S \in SUBSET S
  OBVIOUS
<1>4. g[S] = IF S = {} THEN 0 ELSE f[Some(S)] + g[S \ {Some(S)}]
  BY <1>3, SumEquationApplied
<1> QED
  BY <1>1, <1>2, <1>4

\* A finite set has a sum.
LEMMA FiniteIsSummable ==
  ASSUME NEW f, NEW S, IsFiniteSet(S)
  PROVE  Summable(f, S)
<1> DEFINE G == {s \in SUBSET S : Summable(f, s)}
<1>1. ASSUME NEW s \in SUBSET S, \A x \in s : s \ {x} \in G
      PROVE  s \in G
  <2> DEFINE g == [t \in SUBSET s |->
                     IF t = {} THEN 0 ELSE f[Some(t)] + SumFunctionOnSet(f, t \ {Some(t)})]
  <2>1. ASSUME NEW t \in SUBSET s, t # {}
        PROVE  g[t \ {Some(t)}] = SumFunctionOnSet(f, t \ {Some(t)})
    <3> DEFINE u == t \ {Some(t)}
    <3>1. u \subseteq s \ {Some(t)} /\ Some(t) \in s
      BY <2>1, SomeIsElement
    <3>2. Summable(f, s \ {Some(t)})
      BY <1>1, <3>1
    <3>3. Summable(f, u) /\ IsFiniteSet(u) /\ u \in SUBSET s
      <4>1. IsFiniteSet(s)
        BY FS_Subset
      <4> HIDE DEF u
      <4> QED BY <3>1, <3>2, <4>1, SummableSubset, FS_Subset
    <3>4. g[u] = IF u = {} THEN 0 ELSE f[Some(u)] + SumFunctionOnSet(f, u \ {Some(u)})
      <4> HIDE DEF u
      <4> QED BY <3>3
    <3> HIDE DEF u, g
    <3>5. g[u] = SumFunctionOnSet(f, u)
      BY <3>3, <3>4, SummableStep
    <3> QED BY <3>5 DEF u
  <2>2. ASSUME NEW t \in SUBSET s
        PROVE  g[t] = IF t = {} THEN 0 ELSE f[Some(t)] + g[t \ {Some(t)}]
    <3>1. g[t] = IF t = {} THEN 0 ELSE f[Some(t)] + SumFunctionOnSet(f, t \ {Some(t)})
      OBVIOUS
    <3> HIDE DEF g
    <3> QED BY <2>1, <3>1
  <2>3. g = [t \in SUBSET s |-> IF t = {} THEN 0 ELSE f[Some(t)] + g[t \ {Some(t)}]]
    BY <2>2
  <2> HIDE DEF g
  <2>4. Summable(f, s)
    BY <2>3 DEF Summable, SumEquation
  <2> QED BY <2>4
<1> HIDE DEF G
<1>2. \A s \in SUBSET S : s \in G
  BY <1>1, FiniteInduction
<1> QED
  BY <1>2 DEF G

\* The sum of no summands.
LEMMA SumOfNone == \A f : SumFunctionOnSet(f, {}) = 0
BY FiniteIsSummable, SummableStep, FS_EmptySet

\* Naturals add up to a natural.
LEMMA SumType ==
  ASSUME NEW S, IsFiniteSet(S), NEW f, \A x \in S : f[x] \in Nat
  PROVE  SumFunctionOnSet(f, S) \in Nat
<1> DEFINE G == {s \in SUBSET S : SumFunctionOnSet(f, s) \in Nat}
<1>1. ASSUME NEW s \in SUBSET S, \A x \in s : s \ {x} \in G
      PROVE  s \in G
  <2>1. SumFunctionOnSet(f, s) =
           IF s = {} THEN 0 ELSE f[Some(s)] + SumFunctionOnSet(f, s \ {Some(s)})
    BY FiniteIsSummable, SummableStep, FS_Subset
  <2>2. s # {} => SumFunctionOnSet(f, s \ {Some(s)}) \in Nat /\ f[Some(s)] \in Nat
    BY <1>1, SomeIsElement
  <2> QED BY <2>1, <2>2
<1> HIDE DEF G
<1>2. \A s \in SUBSET S : s \in G
  BY <1>1, FiniteInduction
<1> QED
  BY <1>2 DEF G

\* Any summand can be taken out.
LEMMA SumTakesOut ==
  ASSUME NEW S, IsFiniteSet(S), NEW f, \A x \in S : f[x] \in Nat
  PROVE  \A x \in S : SumFunctionOnSet(f, S) = f[x] + SumFunctionOnSet(f, S \ {x})
<1> DEFINE G == {s \in SUBSET S : 
                   \A x \in s : SumFunctionOnSet(f, s) = f[x] + SumFunctionOnSet(f, s \ {x})}
<1>0. \A s \in SUBSET S : SumFunctionOnSet(f, s) \in Nat
  BY SumType, FS_Subset
<1>1. ASSUME NEW s \in SUBSET S, \A y \in s : s \ {y} \in G
      PROVE  s \in G
  <2> SUFFICES ASSUME NEW x \in s
               PROVE  SumFunctionOnSet(f, s) = f[x] + SumFunctionOnSet(f, s \ {x})
    OBVIOUS
  <2> DEFINE c == Some(s)
  <2>1. SumFunctionOnSet(f, s) = f[c] + SumFunctionOnSet(f, s \ {c}) /\ c \in s
    BY FiniteIsSummable, SummableStep, FS_Subset, SomeIsElement
  <2> HIDE DEF c
  <2>2. CASE x = c
    BY <2>1, <2>2
  <2>3. CASE x # c
    <3>1. SumFunctionOnSet(f, s \ {c}) = f[x] + SumFunctionOnSet(f, (s \ {c}) \ {x})
      BY <1>1, <2>1, <2>3
    <3>2. SumFunctionOnSet(f, s \ {x}) = f[c] + SumFunctionOnSet(f, (s \ {x}) \ {c})
      BY <1>1, <2>1, <2>3
    <3>3. (s \ {x}) \ {c} = (s \ {c}) \ {x}
      OBVIOUS
    <3>4. f[x] \in Nat /\ f[c] \in Nat /\ SumFunctionOnSet(f, (s \ {c}) \ {x}) \in Nat
      BY <1>0, <2>1
    <3> QED BY <2>1, <3>1, <3>2, <3>3, <3>4
  <2> QED BY <2>2, <2>3
<1> HIDE DEF G
<1>2. \A s \in SUBSET S : s \in G
  BY <1>1, FiniteInduction
<1>3. S \in G
  BY <1>2
<1> QED
  BY <1>3 DEF G

\* Summands that grow make the sum grow; equal summands have one sum.
LEMMA SumGrows ==
  ASSUME NEW S, IsFiniteSet(S), NEW f, NEW g,
         \A x \in S : f[x] \in Nat /\ g[x] \in Nat /\ f[x] <= g[x]
  PROVE  SumFunctionOnSet(f, S) <= SumFunctionOnSet(g, S)
<1> DEFINE G == {s \in SUBSET S : SumFunctionOnSet(f, s) <= SumFunctionOnSet(g, s)}
<1>1. ASSUME NEW s \in SUBSET S, \A x \in s : s \ {x} \in G
      PROVE  s \in G
  <2>1. CASE s = {}
    BY <2>1, SumOfNone
  <2>2. CASE s # {}
    <3>1. PICK x \in s : TRUE
      BY <2>2
    <3>2. /\ IsFiniteSet(s) /\ IsFiniteSet(s \ {x})
          /\ SumFunctionOnSet(f, s \ {x}) <= SumFunctionOnSet(g, s \ {x})
      BY <1>1, <3>1, FS_Subset
    <3>3. /\ SumFunctionOnSet(f, s) = f[x] + SumFunctionOnSet(f, s \ {x})
          /\ SumFunctionOnSet(g, s) = g[x] + SumFunctionOnSet(g, s \ {x})
      BY <3>1, <3>2, SumTakesOut
    <3>4. SumFunctionOnSet(f, s \ {x}) \in Nat /\ SumFunctionOnSet(g, s \ {x}) \in Nat
      BY <3>2, SumType
    <3>5. f[x] \in Nat /\ g[x] \in Nat /\ f[x] <= g[x]
      BY <3>1
    <3> QED BY <3>2, <3>3, <3>4, <3>5
  <2> QED BY <2>1, <2>2
<1> HIDE DEF G
<1>2. \A s \in SUBSET S : s \in G
  BY <1>1, FiniteInduction
<1>3. S \in G
  BY <1>2
<1> QED
  BY <1>3 DEF G

\* Equal summands have equal sums.
LEMMA SumSame ==
  ASSUME NEW S, IsFiniteSet(S), NEW f, NEW g, \A x \in S : f[x] \in Nat /\ g[x] = f[x]
  PROVE  SumFunctionOnSet(g, S) = SumFunctionOnSet(f, S)
<1>1. \A x \in S : f[x] \in Nat /\ g[x] \in Nat /\ f[x] <= g[x] /\ g[x] <= f[x]
  OBVIOUS
<1>2. SumFunctionOnSet(f, S) \in Nat /\ SumFunctionOnSet(g, S) \in Nat
  BY <1>1, SumType
<1>3. SumFunctionOnSet(f, S) <= SumFunctionOnSet(g, S)
  BY <1>1, SumGrows
<1>4. SumFunctionOnSet(g, S) <= SumFunctionOnSet(f, S)
  BY <1>1, SumGrows
<1> QED BY <1>2, <1>3, <1>4

\* One summand that changes changes the sum by the difference.
LEMMA SumChange ==
  ASSUME NEW S, IsFiniteSet(S), NEW f, NEW g, NEW x \in S, g[x] \in Nat,
         \A y \in S : f[y] \in Nat /\ (y # x => g[y] = f[y])
  PROVE  /\ SumFunctionOnSet(g, S) = SumFunctionOnSet(f, S) - f[x] + g[x]
         /\ SumFunctionOnSet(f, S) \in Nat
<1>1. IsFiniteSet(S \ {x})
  BY FS_Subset
<1>2. SumFunctionOnSet(g, S \ {x}) = SumFunctionOnSet(f, S \ {x})
  BY <1>1, SumSame
<1>3. \A y \in S : g[y] \in Nat
  OBVIOUS
<1>4. /\ SumFunctionOnSet(f, S) = f[x] + SumFunctionOnSet(f, S \ {x})
      /\ SumFunctionOnSet(g, S) = g[x] + SumFunctionOnSet(g, S \ {x})
  BY <1>3, SumTakesOut
<1>5. SumFunctionOnSet(f, S \ {x}) \in Nat /\ SumFunctionOnSet(f, S) \in Nat
  BY <1>1, SumType
<1> QED BY <1>2, <1>4, <1>5

\* A sum is the sum over a part and the sum over the rest.
LEMMA SumSplits ==
  ASSUME NEW S, IsFiniteSet(S), NEW f, \A x \in S : f[x] \in Nat, NEW D, D \subseteq S
  PROVE  SumFunctionOnSet(f, S) = SumFunctionOnSet(f, D) + SumFunctionOnSet(f, S \ D)
<1> DEFINE G == {d \in SUBSET S :
                   SumFunctionOnSet(f, S) = SumFunctionOnSet(f, d) + SumFunctionOnSet(f, S \ d)}
<1>0. \A d \in SUBSET S : IsFiniteSet(d) /\ SumFunctionOnSet(f, d) \in Nat
  BY SumType, FS_Subset
<1>1. ASSUME NEW d \in SUBSET S, \A x \in d : d \ {x} \in G
      PROVE  d \in G
  <2>1. CASE d = {}
    <3>1. S \ d = S /\ SumFunctionOnSet(f, d) = 0
      BY <2>1, SumOfNone
    <3>2. S \in SUBSET S
      OBVIOUS
    <3> QED BY <1>0, <3>1, <3>2
  <2>2. CASE d # {}
    <3>1. PICK x \in d : TRUE
      BY <2>2
    <3> DEFINE e == d \ {x}
               r == S \ e
    <3>2. /\ e \in SUBSET S /\ r \in SUBSET S /\ x \in r /\ r \ {x} = S \ d
          /\ SumFunctionOnSet(f, S) = SumFunctionOnSet(f, e) + SumFunctionOnSet(f, r)
      BY <1>1, <3>1
    <3>3. SumFunctionOnSet(f, d) = f[x] + SumFunctionOnSet(f, e)
      BY <1>0, <3>1, SumTakesOut
    <3> HIDE DEF r, e
    <3>4. SumFunctionOnSet(f, r) = f[x] + SumFunctionOnSet(f, r \ {x})
      BY <1>0, <3>2, SumTakesOut
    <3>5. /\ SumFunctionOnSet(f, e) \in Nat /\ SumFunctionOnSet(f, r \ {x}) \in Nat
          /\ f[x] \in Nat
      BY <1>0, <3>1, <3>2
    <3>6. SumFunctionOnSet(f, S) = SumFunctionOnSet(f, d) + SumFunctionOnSet(f, r \ {x})
      BY <3>2, <3>3, <3>4, <3>5
    <3> QED BY <3>2, <3>6
  <2> QED BY <2>1, <2>2
<1> HIDE DEF G
<1>2. \A d \in SUBSET S : d \in G
  BY <1>1, FiniteInduction
<1>3. D \in G
  BY <1>2
<1> QED
  BY <1>3 DEF G

\* Equal summands count.
LEMMA SumOfEquals ==
  ASSUME NEW S, IsFiniteSet(S), NEW f, NEW c \in Nat, \A x \in S : f[x] = c
  PROVE  SumFunctionOnSet(f, S) = Cardinality(S) * c
<1> DEFINE G == {s \in SUBSET S : SumFunctionOnSet(f, s) = Cardinality(s) * c}
<1>1. ASSUME NEW s \in SUBSET S, \A x \in s : s \ {x} \in G
      PROVE  s \in G
  <2>1. CASE s = {}
    <3>1. SumFunctionOnSet(f, s) = 0 /\ Cardinality(s) = 0
      BY <2>1, SumOfNone, FS_EmptySet
    <3> QED BY <3>1
  <2>2. CASE s # {}
    <3>1. PICK x \in s : TRUE
      BY <2>2
    <3>2. /\ IsFiniteSet(s) /\ Cardinality(s) \in Nat
          /\ Cardinality(s \ {x}) = Cardinality(s) - 1
          /\ SumFunctionOnSet(f, s \ {x}) = Cardinality(s \ {x}) * c
      BY <1>1, <3>1, FS_Subset, FS_CardinalityType, FS_RemoveElement
    <3>3. SumFunctionOnSet(f, s) = f[x] + SumFunctionOnSet(f, s \ {x}) /\ f[x] = c
      BY <3>1, <3>2, SumTakesOut
    <3>4. \A n, m \in Nat : c + (n - 1) * c = n * c
      OBVIOUS
    <3>5. SumFunctionOnSet(f, s) = Cardinality(s) * c
      BY <3>2, <3>3, <3>4
    <3> QED BY <3>5
  <2> QED BY <2>1, <2>2
<1> HIDE DEF G
<1>2. \A s \in SUBSET S : s \in G
  BY <1>1, FiniteInduction
<1>3. S \in G
  BY <1>2
<1> QED
  BY <1>3 DEF G

-----------------------------------------------------------------------------
(* The request ledger: for every finite set of requests and every value of *)
(* the limits, operations begin once, what is replayed is stable, the      *)
(* accounts balance, and shutdown leaves no request behind.                *)

Unsettled == {id \in Ids : Known(id) /\ ~Settled(id)}

\* The variables but the byte account, which none of the theorems is about.
LedgerTypes ==
  /\ receipts \in [Ids -> Receipts \cup {NoReceipt}]
  /\ pending \in Int
  /\ cancelled \in BOOLEAN
  /\ shutdown \in {"no", "begun", "returned"}
  /\ effects \in [Ids -> Nat]

\* What a receipt's phase and result say about the operation behind it.
EffectsKnown ==
  \A id \in Ids :
    /\ receipts[id].phase \in {"none", "accepted"} => effects[id] = 0
    /\ effects[id] <= 1
    /\ Known(id) /\ receipts[id].result = "cancelled" => effects[id] = 0

PendingCounts == pending = Cardinality(Unsettled)

\* Nothing is accepted once the token is cancelled, so that what shutdown has seen
\* settled is all there is.
ShutdownHolds ==
  /\ shutdown # "no" => cancelled
  /\ shutdown = "returned" => Unsettled = {}

LedgerInv == LedgerTypes /\ EffectsKnown /\ PendingCounts /\ ShutdownHolds

-----------------------------------------------------------------------------
(* Receipts *)

\* A receipt is not the absence of one.
LEMMA ReceiptIsKnown ==
  \A r \in Receipts : r # NoReceipt /\ r.phase # "none"
BY DEF Receipts, NoReceipt, Phases

\* The receipt of Accept.
LEMMA NewReceipt ==
  ASSUME NEW input \in Inputs
  PROVE  [phase |-> "accepted", input |-> input, cancel |-> FALSE, result |-> "none",
          size |-> 0, delivered |-> "no"] \in Receipts
BY DEF Receipts, Phases, Results

\* The receipt of Dispatch.
LEMMA WorkingReceipt ==
  ASSUME NEW old \in Receipts, old.phase = "accepted", NEW r,
         r = [old EXCEPT !.phase = "working"]
  PROVE  r \in Receipts /\ r.phase = "working" /\ r.result = "none" /\ r.input = old.input
<1>1. r \in Receipts
  BY DEF Receipts, Phases, Results
<1>2. r.phase = "working" /\ r.result = "none" /\ r.input = old.input
  BY DEF Receipts
<1> QED
  BY <1>1, <1>2

\* The receipts of MarkDelivered, Elapse and Cancel.
LEMMA MarkedReceipt ==
  ASSUME NEW old \in Receipts, NEW r,
         \/ old.phase = "finished" /\ r = [old EXCEPT !.delivered = "yes"]
         \/ old.delivered = "yes" /\ r = [old EXCEPT !.delivered = "due"]
         \/ r = [old EXCEPT !.cancel = TRUE]
  PROVE  /\ r \in Receipts
         /\ r.phase = old.phase /\ r.result = old.result /\ r.input = old.input
         /\ r.size = old.size
<1>1. CASE old.phase = "finished" /\ r = [old EXCEPT !.delivered = "yes"]
  BY <1>1 DEF Receipts
<1>2. CASE old.delivered = "yes" /\ r = [old EXCEPT !.delivered = "due"]
  BY <1>2 DEF Receipts
<1>3. CASE r = [old EXCEPT !.cancel = TRUE]
  BY <1>3 DEF Receipts
<1> QED
  BY <1>1, <1>2, <1>3

\* The receipt of Sweep.
LEMMA TombstoneReceipt ==
  ASSUME NEW old \in Receipts, old.delivered = "due", NEW r, r = Tombstone(old)
  PROVE  /\ r \in Receipts
         /\ r.phase = "finished" /\ r.result = "expired" /\ r.input = old.input
         /\ old.phase = "finished"
<1>1. old.phase = "finished"
  BY DEF Receipts
<1>2. r \in Receipts
  BY <1>1, LedgerAssumption DEF Receipts, Results, Tombstone
<1>3. r.phase = "finished" /\ r.result = "expired" /\ r.input = old.input
  BY <1>1 DEF Receipts, Tombstone
<1> QED
  BY <1>1, <1>2, <1>3

-----------------------------------------------------------------------------
(* Counting *)

\* The unsettled requests are finitely many, and one more or one fewer counts so.
LEMMA UnsettledCounts ==
  /\ IsFiniteSet(Unsettled)
  /\ Cardinality(Unsettled) \in Nat
  /\ \A id \in Ids \ Unsettled :
       Cardinality(Unsettled \cup {id}) = Cardinality(Unsettled) + 1
  /\ \A id \in Unsettled :
       Cardinality(Unsettled \ {id}) = Cardinality(Unsettled) - 1
<1>1. IsFiniteSet(Unsettled)
  BY LedgerAssumption, FS_Subset DEF Unsettled
<1> QED
  BY <1>1, FS_CardinalityType, FS_AddElement, FS_RemoveElement

\* Shutdown may return when the count says so: nothing is unsettled then.
LEMMA NothingPending ==
  ASSUME PendingCounts, pending = 0
  PROVE  Unsettled = {}
BY UnsettledCounts, FS_EmptySet DEF PendingCounts

-----------------------------------------------------------------------------
(* The invariant *)

\* Changes of one receipt: the type of the table, and which requests are unsettled.
LEMMA OneReceipt ==
  ASSUME LedgerTypes, NEW id \in Ids, NEW r \in Receipts,
         receipts' = [receipts EXCEPT ![id] = r]
  PROVE  /\ receipts' \in [Ids -> Receipts \cup {NoReceipt}]
         /\ receipts'[id] = r
         /\ \A other \in Ids \ {id} : receipts'[other] = receipts[other]
         /\ Unsettled' = IF r.phase = "finished" THEN Unsettled \ {id}
                         ELSE Unsettled \cup {id}
<1>1. /\ receipts' \in [Ids -> Receipts \cup {NoReceipt}]
      /\ receipts'[id] = r
      /\ \A other \in Ids \ {id} : receipts'[other] = receipts[other]
  BY DEF LedgerTypes
<1>2. r # NoReceipt
  BY ReceiptIsKnown
<1> QED
  BY <1>1, <1>2 DEF Unsettled, Known, Settled

\* A request takes its first receipt, before anything is done for it.
LEMMA AcceptKeeps ==
  ASSUME LedgerInv, NEW id \in Ids, NEW input \in Inputs, Accept(id, input)
  PROVE  LedgerInv'
<1> DEFINE r == [phase |-> "accepted", input |-> input, cancel |-> FALSE,
                 result |-> "none", size |-> 0, delivered |-> "no"]
<1>1. r \in Receipts /\ r.phase = "accepted" /\ r.result = "none"
  BY NewReceipt
<1>2. receipts' = [receipts EXCEPT ![id] = r]
  BY DEF Accept
<1> HIDE DEF r
<1>3. /\ receipts' \in [Ids -> Receipts \cup {NoReceipt}]
      /\ receipts'[id] = r
      /\ \A other \in Ids \ {id} : receipts'[other] = receipts[other]
      /\ Unsettled' = Unsettled \cup {id}
  BY <1>1, <1>2, OneReceipt DEF LedgerInv
<1>4. receipts[id] = NoReceipt /\ id \notin Unsettled
  BY DEF Accept, Known, Unsettled
<1>5. LedgerTypes'
  BY <1>3 DEF LedgerInv, LedgerTypes, Accept
<1>6. EffectsKnown'
  BY <1>1, <1>3, <1>4 DEF LedgerInv, EffectsKnown, Accept, Known, NoReceipt
<1>7. PendingCounts'
  BY <1>3, <1>4, UnsettledCounts DEF LedgerInv, PendingCounts, Accept
<1>8. ShutdownHolds'
  BY DEF LedgerInv, ShutdownHolds, Accept
<1> QED
  BY <1>5, <1>6, <1>7, <1>8 DEF LedgerInv

\* The only step that begins an operation takes its receipt from accepted.
LEMMA DispatchKeeps ==
  ASSUME LedgerInv, NEW id \in Ids, Dispatch(id)
  PROVE  LedgerInv'
<1> DEFINE r == [receipts[id] EXCEPT !.phase = "working"]
<1>1. receipts[id] \in Receipts /\ receipts[id].phase = "accepted"
  BY DEF LedgerInv, LedgerTypes, Dispatch, Known
<1>2. r \in Receipts /\ r.phase = "working" /\ r.result = "none"
  BY <1>1, WorkingReceipt
<1>3. receipts' = [receipts EXCEPT ![id] = r]
  BY DEF Dispatch
<1> HIDE DEF r
<1>4. /\ receipts' \in [Ids -> Receipts \cup {NoReceipt}]
      /\ receipts'[id] = r
      /\ \A other \in Ids \ {id} : receipts'[other] = receipts[other]
      /\ Unsettled' = Unsettled \cup {id}
  BY <1>2, <1>3, OneReceipt DEF LedgerInv
<1>5. id \in Unsettled
  BY <1>1, ReceiptIsKnown DEF Unsettled, Known, Settled
<1>6. LedgerTypes'
  BY <1>4 DEF LedgerInv, LedgerTypes, Dispatch
<1>7. EffectsKnown'
  <2>1. effects[id] = 0
    BY <1>1 DEF LedgerInv, EffectsKnown
  <2>2. effects'[id] = 1 /\ \A other \in Ids \ {id} : effects'[other] = effects[other]
    BY <2>1 DEF LedgerInv, LedgerTypes, Dispatch
  <2> QED
    BY <1>2, <1>4, <2>2 DEF LedgerInv, EffectsKnown, Known
<1>8. PendingCounts'
  BY <1>4, <1>5 DEF LedgerInv, PendingCounts, Dispatch
<1>9. ShutdownHolds'
  BY <1>4, <1>5 DEF LedgerInv, ShutdownHolds, Dispatch
<1> QED
  BY <1>6, <1>7, <1>8, <1>9 DEF LedgerInv

\* A task ends: as cancelled only if its operation was never begun.
LEMMA SettleKeeps ==
  ASSUME LedgerInv, NEW id \in Ids, id \in Unsettled,
         NEW result \in Results \ {"none"}, NEW size \in Nat,
         result = "cancelled" => receipts[id].phase = "accepted",
         Settle(id, result, size)
  PROVE  LedgerInv'
<1>0. PICK r : r = [receipts[id] EXCEPT !.phase = "finished", !.result = result, !.size = size]
  OBVIOUS
<1>1. receipts[id] \in Receipts
  BY DEF LedgerInv, LedgerTypes, Unsettled, Known
<1>2. r \in Receipts /\ r.phase = "finished" /\ r.result = result
  <2>1. r \in Receipts
    BY <1>0, <1>1 DEF Receipts, Phases, Results
  <2> QED
    BY <1>0, <1>1, <2>1 DEF Receipts
<1>3. receipts' = [receipts EXCEPT ![id] = r]
  BY <1>0 DEF Settle
<1>4. /\ receipts' \in [Ids -> Receipts \cup {NoReceipt}]
      /\ receipts'[id] = r
      /\ \A other \in Ids \ {id} : receipts'[other] = receipts[other]
      /\ Unsettled' = Unsettled \ {id}
  BY <1>2, <1>3, OneReceipt DEF LedgerInv
<1>5. LedgerTypes'
  BY <1>4 DEF LedgerInv, LedgerTypes, Settle
<1>6. EffectsKnown'
  BY <1>2, <1>4 DEF LedgerInv, EffectsKnown, Settle, Known
<1>7. PendingCounts'
  BY <1>4, UnsettledCounts DEF LedgerInv, PendingCounts, Settle
<1>8. ShutdownHolds'
  BY <1>4 DEF LedgerInv, ShutdownHolds, Settle
<1> QED
  BY <1>5, <1>6, <1>7, <1>8 DEF LedgerInv

\* MarkDelivered, Elapse and Cancel write one receipt, whose phase, result and input stay.
LEMMA MarksWrite ==
  ASSUME LedgerTypes, NEW id \in Ids, MarkDelivered(id) \/ Elapse(id) \/ Cancel(id)
  PROVE  \E r \in Receipts : /\ receipts' = [receipts EXCEPT ![id] = r]
                             /\ receipts[id] \in Receipts
                             /\ r.phase = receipts[id].phase
                             /\ r.result = receipts[id].result
                             /\ r.input = receipts[id].input
                             /\ r.size = receipts[id].size
<1>1. receipts[id] \in Receipts
  BY ReceiptIsKnown DEF LedgerTypes, MarkDelivered, Elapse, Cancel, Settled, Known
<1>2. CASE MarkDelivered(id)
  <2> DEFINE stamped == [receipts[id] EXCEPT !.delivered = "yes"]
  <2>1. receipts' = [receipts EXCEPT ![id] = stamped] /\ receipts[id].phase = "finished"
    BY <1>2 DEF MarkDelivered, Settled
  <2> QED
    BY <1>1, <2>1, MarkedReceipt
<1>3. CASE Elapse(id)
  <2> DEFINE stamped == [receipts[id] EXCEPT !.delivered = "due"]
  <2>1. receipts' = [receipts EXCEPT ![id] = stamped] /\ receipts[id].delivered = "yes"
    BY <1>3 DEF Elapse
  <2> QED
    BY <1>1, <2>1, MarkedReceipt
<1>4. CASE Cancel(id)
  <2> DEFINE stamped == [receipts[id] EXCEPT !.cancel = TRUE]
  <2>1. receipts' = [receipts EXCEPT ![id] = stamped]
    BY <1>4 DEF Cancel
  <2> QED
    BY <1>1, <2>1, MarkedReceipt
<1> QED
  BY <1>2, <1>3, <1>4

\* Steps that leave phase and result of every receipt alone keep the invariant.
LEMMA MarksKeep ==
  ASSUME LedgerInv, NEW id \in Ids, MarkDelivered(id) \/ Elapse(id) \/ Cancel(id)
  PROVE  LedgerInv'
<1>1. PICK r \in Receipts : /\ receipts' = [receipts EXCEPT ![id] = r]
                            /\ receipts[id] \in Receipts
                            /\ r.phase = receipts[id].phase
                            /\ r.result = receipts[id].result
                            /\ r.input = receipts[id].input
  BY MarksWrite DEF LedgerInv
<1>2. UNCHANGED <<pending, cancelled, shutdown, effects>>
  BY DEF MarkDelivered, Elapse, Cancel
<1>3. /\ receipts' \in [Ids -> Receipts \cup {NoReceipt}]
      /\ receipts'[id] = r
      /\ \A other \in Ids \ {id} : receipts'[other] = receipts[other]
      /\ Unsettled' = IF r.phase = "finished" THEN Unsettled \ {id} ELSE Unsettled \cup {id}
  BY <1>1, OneReceipt DEF LedgerInv
<1>4. Unsettled' = Unsettled
  BY <1>1, <1>3, ReceiptIsKnown DEF Unsettled, Known, Settled
<1>5. LedgerTypes'
  BY <1>2, <1>3 DEF LedgerInv, LedgerTypes
<1>6. EffectsKnown'
  BY <1>1, <1>2, <1>3, ReceiptIsKnown DEF LedgerInv, EffectsKnown, Known
<1>7. PendingCounts' /\ ShutdownHolds'
  BY <1>2, <1>4 DEF LedgerInv, PendingCounts, ShutdownHolds
<1> QED
  BY <1>5, <1>6, <1>7 DEF LedgerInv

\* A tombstone keeps the phase, so that the identity stays settled and used.
LEMMA SweepKeeps ==
  ASSUME LedgerInv, Sweep
  PROVE  LedgerInv'
<1>1. ASSUME NEW id \in Due
      PROVE  /\ receipts[id] \in Receipts
             /\ Tombstone(receipts[id]) \in Receipts
             /\ Tombstone(receipts[id]).phase = "finished"
             /\ Tombstone(receipts[id]).result = "expired"
             /\ receipts[id].phase = "finished"
  <2>1. receipts[id] \in Receipts /\ receipts[id].delivered = "due"
    BY <1>1 DEF LedgerInv, LedgerTypes, Due, Known
  <2> QED
    BY <2>1, TombstoneReceipt
<1>2. receipts' \in [Ids -> Receipts \cup {NoReceipt}]
  BY <1>1 DEF Sweep, LedgerInv, LedgerTypes
<1>3. \A id \in Ids : receipts'[id] = IF id \in Due THEN Tombstone(receipts[id])
                                      ELSE receipts[id]
  BY DEF Sweep
<1>4. UNCHANGED <<pending, cancelled, shutdown, effects>>
  BY DEF Sweep
<1>5. Unsettled' = Unsettled
  BY <1>1, <1>3, ReceiptIsKnown DEF Unsettled, Known, Settled
<1>6. LedgerTypes'
  BY <1>2, <1>4 DEF LedgerInv, LedgerTypes
<1>7. EffectsKnown'
  BY <1>1, <1>3, <1>4 DEF LedgerInv, EffectsKnown, Known
<1>8. PendingCounts' /\ ShutdownHolds'
  BY <1>4, <1>5 DEF LedgerInv, PendingCounts, ShutdownHolds
<1> QED
  BY <1>6, <1>7, <1>8 DEF LedgerInv

\* Shutdown changes no receipt; it returns when the count is zero.
LEMMA ShutdownKeeps ==
  ASSUME LedgerInv, ShutdownBegin \/ ShutdownReturn
  PROVE  LedgerInv'
<1>1. UNCHANGED <<receipts, pending, effects>>
  BY DEF ShutdownBegin, ShutdownReturn
<1>2. Unsettled' = Unsettled
  BY <1>1 DEF Unsettled, Known, Settled
<1>3. LedgerTypes'
  BY <1>1 DEF LedgerInv, LedgerTypes, ShutdownBegin, ShutdownReturn
<1>4. EffectsKnown' /\ PendingCounts'
  BY <1>1, <1>2 DEF LedgerInv, EffectsKnown, PendingCounts, Known
<1>5. ShutdownHolds'
  BY <1>2, NothingPending DEF LedgerInv, ShutdownHolds, ShutdownBegin, ShutdownReturn
<1> QED
  BY <1>3, <1>4, <1>5 DEF LedgerInv

\* The invariant holds at the start.
LEMMA InitEstablishes == Init => LedgerInv
<1> SUFFICES ASSUME Init PROVE LedgerInv
  OBVIOUS
<1>1. LedgerTypes
  <2>1. receipts \in [Ids -> Receipts \cup {NoReceipt}]
    BY DEF Init
  <2>2. pending \in Int /\ effects \in [Ids -> Nat]
    BY DEF Init
  <2>3. cancelled \in BOOLEAN /\ shutdown \in {"no", "begun", "returned"}
    BY DEF Init
  <2> QED
    BY <2>1, <2>2, <2>3 DEF LedgerTypes
<1>2. EffectsKnown
  BY DEF Init, EffectsKnown, Known
<1>3. Unsettled = {}
  BY DEF Init, Unsettled, Known
<1>4. PendingCounts /\ ShutdownHolds
  BY <1>3, FS_EmptySet DEF Init, PendingCounts, ShutdownHolds
<1> QED
  BY <1>1, <1>2, <1>4 DEF LedgerInv

\* Every step of the ledger keeps the invariant.
LEMMA NextKeeps == LedgerInv /\ [Next]_vars => LedgerInv'
<1> SUFFICES ASSUME LedgerInv, [Next]_vars PROVE LedgerInv'
  OBVIOUS
<1>1. ASSUME NEW id \in Ids, NEW input \in Inputs, Accept(id, input) PROVE LedgerInv'
  BY <1>1, AcceptKeeps
<1>2. ASSUME NEW id \in Ids, Dispatch(id) PROVE LedgerInv'
  BY <1>2, DispatchKeeps
<1>3. ASSUME NEW id \in Ids, Refuse(id) PROVE LedgerInv'
  <2>1. id \in Unsettled /\ "cancelled" \in Results \ {"none"} /\ ErrorSize \in Nat
    BY <1>3, LedgerAssumption DEF Refuse, Unsettled, Settled, Results
  <2> QED
    BY <1>3, <2>1, SettleKeeps DEF Refuse
<1>4. ASSUME NEW id \in Ids, NEW size \in Sizes, Finish(id, size) PROVE LedgerInv'
  <2>1. /\ id \in Unsettled /\ {"oversize", "value"} \subseteq Results \ {"none"}
        /\ ErrorSize \in Nat /\ size \in Nat
    BY <1>4, LedgerAssumption DEF Finish, Unsettled, Settled, Results
  <2> QED
    BY <1>4, <2>1, SettleKeeps DEF Finish
<1>5. ASSUME NEW id \in Ids, MarkDelivered(id) \/ Elapse(id) \/ Cancel(id) PROVE LedgerInv'
  BY <1>5, MarksKeep
<1>6. CASE Sweep
  BY <1>6, SweepKeeps
<1>7. CASE ShutdownBegin \/ ShutdownReturn
  BY <1>7, ShutdownKeeps
<1>8. CASE UNCHANGED vars
  BY <1>8 DEF vars, LedgerInv, LedgerTypes, EffectsKnown, PendingCounts, ShutdownHolds, Unsettled,
              Known, Settled
<1> QED
  BY <1>1, <1>2, <1>3, <1>4, <1>5, <1>6, <1>7, <1>8 DEF Next, Task

\* The invariant holds throughout.
LEMMA Invariance == Spec => []LedgerInv
BY InitEstablishes, NextKeeps, PTL DEF Spec

-----------------------------------------------------------------------------
(* Theorems *)

\* An operation is begun at most once under one identity, and never if its request
\* was reported as cancelled (dispatch, sweep).
THEOREM EffectsAreHonest == Spec => []EffectsHonest
<1>1. LedgerInv => EffectsHonest
  BY DEF LedgerInv, EffectsKnown, EffectsHonest
<1> QED
  BY <1>1, Invariance, PTL

\* When shutdown returns, every request that was ever accepted is settled: none slips
\* in between its wait and its return (shutdown, execute_inner).
THEOREM ShutdownSettles == Spec => []SettledAtShutdown
<1>1. LedgerInv => SettledAtShutdown
  BY DEF LedgerInv, ShutdownHolds, SettledAtShutdown, Unsettled
<1> QED
  BY <1>1, Invariance, PTL

\* What one receipt may become: it keeps its input, and its result once it has one.
Follows(r, old) ==
  /\ r # NoReceipt
  /\ r.input = old.input
  /\ old.phase = "finished" /\ old.delivered # "due" =>
       r.phase = "finished" /\ r.result = old.result

\* A step that writes one receipt so leaves every other one as it is.
LEMMA OneFollows ==
  ASSUME LedgerTypes, NEW id \in Ids, NEW r, receipts' = [receipts EXCEPT ![id] = r],
         Known(id) => Follows(r, receipts[id])
  PROVE  \A other \in Ids : Known(other) => Follows(receipts'[other], receipts[other])
<1> SUFFICES ASSUME NEW other \in Ids, Known(other)
             PROVE  Follows(receipts'[other], receipts[other])
  OBVIOUS
<1>1. CASE other = id
  BY <1>1 DEF LedgerTypes
<1>2. CASE other # id
  BY <1>2 DEF LedgerTypes, Follows, Known
<1> QED
  BY <1>1, <1>2

\* What a step does to a receipt that exists: it stays, with its input, and a result
\* changes only where its retention is over.
LEMMA StepFollows ==
  ASSUME LedgerInv, [Next]_vars
  PROVE  \A id \in Ids : Known(id) => Follows(receipts'[id], receipts[id])
<1> DEFINE Goal == \A id \in Ids : Known(id) => Follows(receipts'[id], receipts[id])
<1>0. LedgerTypes
  BY DEF LedgerInv
<1>1. ASSUME NEW id \in Ids, Known(id) PROVE receipts[id] \in Receipts
  BY <1>1, <1>0 DEF LedgerTypes, Known
<1>2. ASSUME NEW id \in Ids, NEW input \in Inputs, Accept(id, input) PROVE Goal
  BY <1>0, <1>2, OneFollows DEF Accept
<1>3. ASSUME NEW id \in Ids, Dispatch(id) PROVE Goal
  <2> DEFINE r == [receipts[id] EXCEPT !.phase = "working"]
  <2>1. receipts[id] \in Receipts /\ receipts[id].phase = "accepted"
    BY <1>1, <1>3 DEF Dispatch
  <2>2. r \in Receipts /\ r.input = receipts[id].input
    BY <2>1, WorkingReceipt
  <2>3. receipts' = [receipts EXCEPT ![id] = r]
    BY <1>3 DEF Dispatch
  <2> HIDE DEF r
  <2> QED
    BY <1>0, <2>1, <2>2, <2>3, OneFollows, ReceiptIsKnown DEF Follows
<1>4. ASSUME NEW id \in Ids, NEW result \in Results \ {"none"}, NEW size \in Nat,
             Known(id), receipts[id].phase # "finished", Settle(id, result, size)
      PROVE  Goal
  <2>0. PICK r : r = [receipts[id] EXCEPT !.phase = "finished", !.result = result,
                                          !.size = size]
    OBVIOUS
  <2>1. receipts[id] \in Receipts
    BY <1>1, <1>4
  <2>2. r \in Receipts /\ r.input = receipts[id].input
    <3>1. r \in Receipts
      BY <1>4, <2>0, <2>1 DEF Receipts, Phases, Results
    <3> QED
      BY <2>0, <2>1, <3>1 DEF Receipts
  <2>3. receipts' = [receipts EXCEPT ![id] = r]
    BY <1>4, <2>0 DEF Settle
  <2> QED
    BY <1>0, <1>4, <2>2, <2>3, OneFollows, ReceiptIsKnown DEF Follows
<1>5. ASSUME NEW id \in Ids, Refuse(id) PROVE Goal
  <2>1. "cancelled" \in Results \ {"none"} /\ ErrorSize \in Nat
    BY LedgerAssumption DEF Results
  <2> QED
    BY <1>4, <1>5, <2>1 DEF Refuse
<1>6. ASSUME NEW id \in Ids, NEW size \in Sizes, Finish(id, size) PROVE Goal
  <2>1. {"oversize", "value"} \subseteq Results \ {"none"} /\ ErrorSize \in Nat /\ size \in Nat
    BY <1>6, LedgerAssumption DEF Results
  <2> QED
    BY <1>4, <1>6, <2>1 DEF Finish
<1>7. ASSUME NEW id \in Ids, MarkDelivered(id) \/ Elapse(id) \/ Cancel(id) PROVE Goal
  <2>1. PICK r \in Receipts : /\ receipts' = [receipts EXCEPT ![id] = r]
                              /\ receipts[id] \in Receipts
                              /\ r.phase = receipts[id].phase
                              /\ r.result = receipts[id].result
                              /\ r.input = receipts[id].input
    BY <1>0, <1>7, MarksWrite
  <2> QED
    BY <1>0, <2>1, OneFollows, ReceiptIsKnown DEF Follows
<1>8. CASE Sweep
  <2> SUFFICES ASSUME NEW id \in Ids, Known(id)
               PROVE  Follows(receipts'[id], receipts[id])
    OBVIOUS
  <2>1. CASE id \in Due
    <3>1. receipts[id] \in Receipts /\ receipts[id].delivered = "due"
      BY <1>1, <2>1 DEF Due
    <3>2. receipts'[id] = Tombstone(receipts[id])
      BY <1>8, <2>1 DEF Sweep
    <3> QED
      BY <3>1, <3>2, TombstoneReceipt, ReceiptIsKnown DEF Follows
  <2>2. CASE id \notin Due
    BY <1>8, <2>2 DEF Sweep, Follows, Known
  <2> QED
    BY <2>1, <2>2
<1>9. CASE ShutdownBegin \/ ShutdownReturn \/ UNCHANGED vars
  BY <1>9 DEF ShutdownBegin, ShutdownReturn, vars, Follows, Known
<1> QED
  BY <1>2, <1>3, <1>5, <1>6, <1>7, <1>8, <1>9 DEF Next, Task

\* A recorded result is replayed unchanged until it was delivered and its retention is
\* over; an identity is never given up and never changes its input (sweep).
THEOREM ReplaysAreStable == Spec => ReplayIsStable
<1>1. LedgerInv /\ [Next]_vars =>
        [\A id \in Ids : Known(id) =>
           /\ receipts'[id] # NoReceipt
           /\ receipts'[id].input = receipts[id].input
           /\ receipts[id].phase = "finished" /\ receipts[id].delivered # "due" =>
                /\ receipts'[id].phase = "finished"
                /\ receipts'[id].result = receipts[id].result]_vars
  BY StepFollows DEF Follows
<1> QED
  BY <1>1, Invariance, PTL DEF Spec, ReplayIsStable

-----------------------------------------------------------------------------
(* The byte account *)

Charges == [id \in Ids |-> Charge(id)]

\* Tombstones aside.
LiveCharge(id) == IF Settled(id) /\ receipts[id].result = "expired" THEN 0 ELSE Charge(id)

LiveCharges == [id \in Ids |-> LiveCharge(id)]

Balanced ==
  /\ bytes = SumFunctionOnSet(Charges, Ids)
  /\ SumFunctionOnSet(LiveCharges, Ids) <= MaxBytes

ChargesFit ==
  /\ \A id \in Ids : /\ Charge(id) \in Nat /\ LiveCharge(id) \in Nat
                     /\ LiveCharge(id) <= Charge(id)
                     /\ Charges[id] = Charge(id) /\ LiveCharges[id] = LiveCharge(id)
  /\ SumFunctionOnSet(Charges, Ids) \in Nat
  /\ SumFunctionOnSet(LiveCharges, Ids) \in Nat
  /\ SumFunctionOnSet(LiveCharges, Ids) <= SumFunctionOnSet(Charges, Ids)

\* The charges are numbers, and tombstones only add to the account.
LEMMA ChargeTypes == LedgerTypes => ChargesFit
<1> SUFFICES ASSUME LedgerTypes PROVE ChargesFit
  OBVIOUS
<1>1. ASSUME NEW id \in Ids
      PROVE  Charge(id) \in Nat /\ LiveCharge(id) \in Nat /\ LiveCharge(id) <= Charge(id)
  <2>1. Known(id) => receipts[id].size \in Nat
    BY DEF LedgerTypes, Known, Receipts
  <2>2. Reserve \in Nat
    BY LedgerAssumption
  <2>3. Charge(id) \in Nat
    BY <2>1, <2>2 DEF Charge, Settled
  <2> QED BY <2>3 DEF LiveCharge
<1>2. \A id \in Ids : Charges[id] = Charge(id) /\ LiveCharges[id] = LiveCharge(id)
  BY DEF Charges, LiveCharges
<1>3. IsFiniteSet(Ids)
  BY LedgerAssumption
<1>4. SumFunctionOnSet(Charges, Ids) \in Nat /\ SumFunctionOnSet(LiveCharges, Ids) \in Nat
  BY <1>1, <1>2, <1>3, SumType
<1>5. SumFunctionOnSet(LiveCharges, Ids) <= SumFunctionOnSet(Charges, Ids)
  BY <1>1, <1>2, <1>3, SumGrows
<1> QED BY <1>1, <1>2, <1>4, <1>5 DEF ChargesFit

\* The account after a step that writes one receipt.
LEMMA OneCharge ==
  ASSUME LedgerTypes, LedgerTypes', NEW id \in Ids,
         \A other \in Ids \ {id} : receipts'[other] = receipts[other]
  PROVE  /\ SumFunctionOnSet(Charges', Ids) =
              SumFunctionOnSet(Charges, Ids) - Charge(id) + Charge(id)'
         /\ SumFunctionOnSet(LiveCharges', Ids) =
              SumFunctionOnSet(LiveCharges, Ids) - LiveCharge(id) + LiveCharge(id)'
<1>1. IsFiniteSet(Ids)
  BY LedgerAssumption
<1>2. \A i \in Ids : /\ Charge(i) \in Nat /\ LiveCharge(i) \in Nat
                     /\ Charges[i] = Charge(i) /\ LiveCharges[i] = LiveCharge(i)
  BY ChargeTypes DEF ChargesFit
<1>3. \A i \in Ids : /\ Charge(i)' \in Nat /\ LiveCharge(i)' \in Nat
                     /\ Charges'[i] = Charge(i)' /\ LiveCharges'[i] = LiveCharge(i)'
  <2>1. ChargesFit'
    BY ChargeTypes, PTL
  <2> QED BY <2>1 DEF ChargesFit
<1>4. \A i \in Ids \ {id} : Charge(i)' = Charge(i) /\ LiveCharge(i)' = LiveCharge(i)
  BY DEF Charge, LiveCharge, Known, Settled
<1>5. SumFunctionOnSet(Charges', Ids) = SumFunctionOnSet(Charges, Ids) - Charges[id] + Charges'[id]
  BY <1>1, <1>2, <1>3, <1>4, SumChange
<1>6. SumFunctionOnSet(LiveCharges', Ids) =
        SumFunctionOnSet(LiveCharges, Ids) - LiveCharges[id] + LiveCharges'[id]
  <2>1. /\ LiveCharges'[id] \in Nat
        /\ \A i \in Ids : LiveCharges[i] \in Nat /\ (i # id => LiveCharges'[i] = LiveCharges[i])
    BY <1>2, <1>3, <1>4
  <2> QED BY <1>1, <2>1, SumChange
<1> QED BY <1>2, <1>3, <1>5, <1>6

\* What a step that writes one receipt has to show of the account.
LEMMA AccountStep ==
  ASSUME LedgerTypes, LedgerTypes', Balanced, NEW id \in Ids,
         \A other \in Ids \ {id} : receipts'[other] = receipts[other],
         bytes' = bytes - Charge(id) + Charge(id)',
         \/ LiveCharge(id)' <= LiveCharge(id)
         \/ bytes - LiveCharge(id) + LiveCharge(id)' <= MaxBytes
  PROVE  Balanced'
<1>1. /\ SumFunctionOnSet(Charges', Ids) =
           SumFunctionOnSet(Charges, Ids) - Charge(id) + Charge(id)'
      /\ SumFunctionOnSet(LiveCharges', Ids) =
           SumFunctionOnSet(LiveCharges, Ids) - LiveCharge(id) + LiveCharge(id)'
  BY OneCharge
<1>2. /\ Charge(id) \in Nat /\ LiveCharge(id) \in Nat
      /\ SumFunctionOnSet(Charges, Ids) \in Nat
      /\ SumFunctionOnSet(LiveCharges, Ids) \in Nat
      /\ SumFunctionOnSet(LiveCharges, Ids) <= SumFunctionOnSet(Charges, Ids)
  BY ChargeTypes DEF ChargesFit
<1>3. Charge(id)' \in Nat /\ LiveCharge(id)' \in Nat
  <2>1. ChargesFit'
    BY ChargeTypes, PTL
  <2> QED BY <2>1 DEF ChargesFit
<1>4. MaxBytes \in Nat
  BY LedgerAssumption
<1>5. bytes' = SumFunctionOnSet(Charges', Ids)
  BY <1>1 DEF Balanced
<1>6. SumFunctionOnSet(LiveCharges', Ids) <= MaxBytes
  BY <1>1, <1>2, <1>3, <1>4 DEF Balanced
<1> QED BY <1>5, <1>6 DEF Balanced

\* A request is admitted when its reservation fits next to everything in the account.
LEMMA AcceptBalances ==
  ASSUME LedgerInv, LedgerInv', Balanced, NEW id \in Ids, NEW input \in Inputs, Accept(id, input)
  PROVE  Balanced'
<1> DEFINE r == [phase |-> "accepted", input |-> input, cancel |-> FALSE, result |-> "none",
                 size |-> 0, delivered |-> "no"]
<1>1. receipts' = [receipts EXCEPT ![id] = r] /\ receipts \in [Ids -> Receipts \cup {NoReceipt}]
  BY DEF Accept, LedgerInv, LedgerTypes
<1>2. r \in Receipts /\ r # NoReceipt /\ r.phase = "accepted"
  BY NewReceipt, ReceiptIsKnown
<1> HIDE DEF r
<1>3. receipts'[id] = r /\ \A other \in Ids \ {id} : receipts'[other] = receipts[other]
  BY <1>1
<1>4. Charge(id) = 0 /\ LiveCharge(id) = 0
  BY DEF Accept, Charge, LiveCharge, Settled
<1>5. Charge(id)' = Reserve /\ LiveCharge(id)' = Reserve
  BY <1>2, <1>3 DEF Charge, LiveCharge, Settled, Known
<1>6. bytes' = bytes + Reserve /\ bytes + Reserve <= MaxBytes
  BY DEF Accept, Room
<1>7. bytes \in Nat /\ Reserve \in Nat /\ MaxBytes \in Nat
  BY ChargeTypes, LedgerAssumption DEF ChargesFit, LedgerInv, Balanced
<1> QED BY <1>3, <1>4, <1>5, <1>6, <1>7, AccountStep DEF LedgerInv

\* The result takes the place of its reservation and is no larger.
LEMMA SettleBalances ==
  ASSUME LedgerInv, LedgerInv', Balanced, NEW id \in Ids, id \in Unsettled,
         NEW result, result # "expired", NEW size \in Nat, size <= Reserve,
         Settle(id, result, size)
  PROVE  Balanced'
<1>0. PICK r : r = [receipts[id] EXCEPT !.phase = "finished", !.result = result, !.size = size]
  OBVIOUS
<1>1. receipts[id] \in Receipts /\ receipts \in [Ids -> Receipts \cup {NoReceipt}]
  BY DEF LedgerInv, LedgerTypes, Unsettled, Known
<1>2. r.phase = "finished" /\ r.result = result /\ r.size = size
  BY <1>0, <1>1 DEF Receipts
<1>3. receipts' = [receipts EXCEPT ![id] = r]
  BY <1>0 DEF Settle
<1>4. receipts'[id] = r /\ \A other \in Ids \ {id} : receipts'[other] = receipts[other]
  BY <1>1, <1>3
<1>5. receipts'[id] # NoReceipt
  BY <1>2, <1>4 DEF NoReceipt
<1>6. Charge(id) = Reserve /\ LiveCharge(id) = Reserve
  BY DEF Unsettled, Charge, LiveCharge
<1>7. Charge(id)' = size /\ LiveCharge(id)' = size
  BY <1>2, <1>4, <1>5 DEF Charge, LiveCharge, Settled, Known
<1>8. bytes' = bytes - Charge(id) + Charge(id)'
  BY <1>6, <1>7 DEF Settle
<1> QED BY <1>4, <1>6, <1>7, <1>8, AccountStep DEF LedgerInv

\* Dispatch, delivery, the end of a retention period and cancellation move no bytes.
LEMMA MarksBalance ==
  ASSUME LedgerInv, LedgerInv', Balanced, NEW id \in Ids,
         Dispatch(id) \/ MarkDelivered(id) \/ Elapse(id) \/ Cancel(id)
  PROVE  Balanced'
<1>1. \E r : /\ receipts' = [receipts EXCEPT ![id] = r]
             /\ r # NoReceipt
             /\ r.phase = "finished" <=> receipts[id].phase = "finished"
             /\ r.result = receipts[id].result /\ r.size = receipts[id].size
  <2>1. CASE Dispatch(id)
    <3> DEFINE r == [receipts[id] EXCEPT !.phase = "working"]
    <3>1. receipts[id] \in Receipts /\ receipts[id].phase = "accepted"
      BY <2>1 DEF Dispatch, LedgerInv, LedgerTypes, Known
    <3>2. r.phase = "working" /\ r.result = receipts[id].result /\ r.size = receipts[id].size
      BY <3>1 DEF Receipts
    <3>3. r # NoReceipt
      BY <3>2 DEF NoReceipt
    <3>4. receipts' = [receipts EXCEPT ![id] = r]
      BY <2>1 DEF Dispatch
    <3> QED BY <3>1, <3>2, <3>3, <3>4
  <2>2. CASE MarkDelivered(id) \/ Elapse(id) \/ Cancel(id)
    BY <2>2, MarksWrite, ReceiptIsKnown DEF LedgerInv
  <2> QED BY <2>1, <2>2
<1>2. PICK r : /\ receipts' = [receipts EXCEPT ![id] = r]
               /\ r # NoReceipt
               /\ r.phase = "finished" <=> receipts[id].phase = "finished"
               /\ r.result = receipts[id].result /\ r.size = receipts[id].size
  BY <1>1
<1>3. receipts'[id] = r /\ \A other \in Ids \ {id} : receipts'[other] = receipts[other]
  BY <1>2 DEF LedgerInv, LedgerTypes
<1>4. Known(id)
  BY DEF Dispatch, MarkDelivered, Elapse, Cancel, Settled
<1>5. Charge(id)' = Charge(id) /\ LiveCharge(id)' = LiveCharge(id)
  BY <1>2, <1>3, <1>4 DEF Charge, LiveCharge, Settled, Known
<1>6. bytes' = bytes /\ bytes \in Nat
  BY ChargeTypes DEF ChargesFit, Dispatch, MarkDelivered, Elapse, Cancel, LedgerInv, Balanced
<1>7. Charge(id) \in Nat /\ LiveCharge(id) \in Nat
  BY ChargeTypes DEF ChargesFit, LedgerInv
<1> QED BY <1>3, <1>5, <1>6, <1>7, AccountStep DEF LedgerInv

\* The tombstones take the place of the results that have expired.
LEMMA SweepBalances ==
  ASSUME LedgerInv, LedgerInv', Balanced, Sweep
  PROVE  Balanced'
<1> DEFINE sizes == [id \in Due |-> receipts[id].size]
           kept  == Ids \ Due
<1>1. Due \subseteq Ids /\ IsFiniteSet(Ids) /\ IsFiniteSet(Due) /\ IsFiniteSet(kept)
  BY LedgerAssumption, FS_Subset DEF Due
<1>2. /\ receipts' = [id \in Ids |-> IF id \in Due THEN Tombstone(receipts[id]) ELSE receipts[id]]
      /\ bytes' = bytes + Cardinality(Due) * TombstoneSize - SumFunctionOnSet(sizes, Due)
  BY DEF Sweep
<1> HIDE DEF sizes
<1>3. ASSUME NEW id \in Due
      PROVE  /\ Charge(id) = receipts[id].size /\ sizes[id] = receipts[id].size
             /\ Charge(id)' = TombstoneSize /\ LiveCharge(id)' = 0
  <2>1. id \in Ids /\ receipts[id] \in Receipts /\ receipts[id].delivered = "due"
    BY DEF Due, Known, LedgerInv, LedgerTypes
  <2>2. receipts[id].phase = "finished" /\ receipts[id] # NoReceipt
    BY <2>1, ReceiptIsKnown DEF Receipts
  <2>3. receipts'[id] = Tombstone(receipts[id])
    BY <1>2, <2>1
  <2>4. /\ Tombstone(receipts[id]).phase = "finished" /\ Tombstone(receipts[id]).result = "expired"
        /\ Tombstone(receipts[id]).size = TombstoneSize
    BY <2>1, <2>2 DEF Tombstone, Receipts
  <2>5. Tombstone(receipts[id]) # NoReceipt
    BY <2>4 DEF NoReceipt
  <2>6. Charge(id) = receipts[id].size
    BY <2>2 DEF Charge, Settled, Known
  <2>7. Charge(id)' = TombstoneSize /\ LiveCharge(id)' = 0
    BY <2>3, <2>4, <2>5 DEF Charge, LiveCharge, Settled, Known
  <2>8. sizes[id] = receipts[id].size
    BY DEF sizes
  <2> QED BY <2>6, <2>7, <2>8
<1>4. \A id \in kept : Charge(id)' = Charge(id) /\ LiveCharge(id)' = LiveCharge(id)
  BY <1>2 DEF Charge, LiveCharge, Settled, Known
<1>5. /\ \A id \in Ids : /\ Charge(id) \in Nat /\ LiveCharge(id) \in Nat
                         /\ Charges[id] = Charge(id) /\ LiveCharges[id] = LiveCharge(id)
      /\ SumFunctionOnSet(LiveCharges, Ids) \in Nat
  BY ChargeTypes DEF ChargesFit, LedgerInv
<1>6. /\ \A id \in Ids : /\ Charge(id)' \in Nat /\ LiveCharge(id)' \in Nat
                         /\ Charges'[id] = Charge(id)' /\ LiveCharges'[id] = LiveCharge(id)'
      /\ SumFunctionOnSet(LiveCharges', Ids) \in Nat
  <2>1. LedgerTypes'
    BY DEF LedgerInv
  <2>2. ChargesFit'
    BY <2>1, ChargeTypes, PTL
  <2> QED BY <2>2 DEF ChargesFit
<1>7. /\ SumFunctionOnSet(Charges, Ids) =
           SumFunctionOnSet(Charges, Due) + SumFunctionOnSet(Charges, kept)
      /\ SumFunctionOnSet(Charges', Ids) =
           SumFunctionOnSet(Charges', Due) + SumFunctionOnSet(Charges', kept)
  <2>1. \A id \in Ids : Charges[id] \in Nat /\ Charges'[id] \in Nat
    BY <1>5, <1>6
  <2>2. SumFunctionOnSet(Charges, Ids) =
          SumFunctionOnSet(Charges, Due) + SumFunctionOnSet(Charges, kept)
    BY <1>1, <2>1, SumSplits
  <2>3. SumFunctionOnSet(Charges', Ids) =
          SumFunctionOnSet(Charges', Due) + SumFunctionOnSet(Charges', kept)
    BY <1>1, <2>1, SumSplits
  <2> QED BY <2>2, <2>3
<1>8. SumFunctionOnSet(sizes, Due) = SumFunctionOnSet(Charges, Due)
  BY <1>1, <1>3, <1>5, SumSame
<1>9. SumFunctionOnSet(Charges', kept) = SumFunctionOnSet(Charges, kept)
  BY <1>1, <1>4, <1>5, <1>6, SumSame
<1>10. TombstoneSize \in Nat /\ MaxBytes \in Nat
  BY LedgerAssumption
<1>11. SumFunctionOnSet(Charges', Due) = Cardinality(Due) * TombstoneSize
  BY <1>1, <1>3, <1>6, <1>10, SumOfEquals
<1>12. /\ SumFunctionOnSet(Charges, Due) \in Nat /\ SumFunctionOnSet(Charges, kept) \in Nat
       /\ Cardinality(Due) * TombstoneSize \in Nat
  BY <1>1, <1>5, <1>10, SumType, FS_CardinalityType
<1>13. bytes' = SumFunctionOnSet(Charges', Ids)
  BY <1>2, <1>7, <1>8, <1>9, <1>11, <1>12 DEF Balanced
<1>14. SumFunctionOnSet(LiveCharges', Ids) <= SumFunctionOnSet(LiveCharges, Ids)
  <2>1. \A id \in Ids : LiveCharges'[id] <= LiveCharges[id]
    BY <1>3, <1>4, <1>5, <1>6
  <2> QED BY <1>1, <1>5, <1>6, <2>1, SumGrows
<1> QED BY <1>5, <1>6, <1>10, <1>13, <1>14 DEF Balanced

\* Every step keeps the account.
LEMMA BalanceKept == LedgerInv /\ LedgerInv' /\ Balanced /\ [Next]_vars => Balanced'
<1> SUFFICES ASSUME LedgerInv, LedgerInv', Balanced, [Next]_vars PROVE Balanced'
  OBVIOUS
<1>1. ASSUME NEW id \in Ids, NEW input \in Inputs, Accept(id, input) PROVE Balanced'
  BY <1>1, AcceptBalances
<1>2. ASSUME NEW id \in Ids, Refuse(id) PROVE Balanced'
  <2>1. id \in Unsettled /\ ErrorSize \in Nat /\ ErrorSize <= Reserve
    BY <1>2, LedgerAssumption DEF Refuse, Unsettled, Settled
  <2> QED BY <1>2, <2>1, SettleBalances DEF Refuse
<1>3. ASSUME NEW id \in Ids, NEW size \in Sizes, Finish(id, size) PROVE Balanced'
  <2>1. /\ id \in Unsettled /\ ErrorSize \in Nat /\ ErrorSize <= Reserve
        /\ size \in Nat /\ Reserve \in Nat
    BY <1>3, LedgerAssumption DEF Finish, Unsettled, Settled
  <2> QED BY <1>3, <2>1, SettleBalances DEF Finish
<1>4. ASSUME NEW id \in Ids, Dispatch(id) \/ MarkDelivered(id) \/ Elapse(id) \/ Cancel(id)
      PROVE  Balanced'
  BY <1>4, MarksBalance
<1>5. CASE Sweep
  BY <1>5, SweepBalances
<1>6. CASE ShutdownBegin \/ ShutdownReturn \/ UNCHANGED vars
  <2>1. UNCHANGED <<receipts, bytes>>
    BY <1>6 DEF ShutdownBegin, ShutdownReturn, vars
  <2>2. Charges' = Charges /\ LiveCharges' = LiveCharges
    BY <2>1 DEF Charges, LiveCharges, Charge, LiveCharge, Settled, Known
  <2> QED BY <2>1, <2>2 DEF Balanced
<1> QED BY <1>1, <1>2, <1>3, <1>4, <1>5, <1>6 DEF Next, Task

\* The account starts empty.
LEMMA BalanceStarts == Init => Balanced
<1> SUFFICES ASSUME Init PROVE Balanced
  OBVIOUS
<1>1. \A id \in Ids : Charges[id] = 0 /\ LiveCharges[id] = 0
  BY DEF Init, Charges, LiveCharges, Charge, LiveCharge, Settled, Known
<1>2. IsFiniteSet(Ids) /\ MaxBytes \in Nat /\ Cardinality(Ids) \in Nat
  BY LedgerAssumption, FS_CardinalityType
<1>3. SumFunctionOnSet(Charges, Ids) = Cardinality(Ids) * 0
  BY <1>1, <1>2, SumOfEquals
<1>4. SumFunctionOnSet(LiveCharges, Ids) = Cardinality(Ids) * 0
  BY <1>1, <1>2, SumOfEquals
<1> QED BY <1>2, <1>3, <1>4 DEF Balanced, Init

\* The account of the ledger is exactly what its receipts hold, through settling,
\* replacement of oversize results and expiry, and what can be replayed always fits the
\* budget next to the reservations for what is to come (execute_inner, sweep).
THEOREM AccountsAlwaysBalance == Spec => []AccountsBalance
<1>1. LedgerInv /\ Balanced => AccountsBalance
  <2> SUFFICES ASSUME LedgerInv, Balanced PROVE AccountsBalance
    OBVIOUS
  <2>1. pending = Cardinality({id \in Ids : Known(id) /\ ~Settled(id)})
    BY DEF LedgerInv, PendingCounts, Unsettled
  <2>2. DOMAIN Charges = Ids /\ DOMAIN LiveCharges = Ids
    BY DEF Charges, LiveCharges
  <2>3. bytes = SumFunction(Charges) /\ SumFunction(LiveCharges) <= MaxBytes
    BY <2>2 DEF Balanced, SumFunction
  <2> QED BY <2>1, <2>3 DEF AccountsBalance, Charges, LiveCharges, LiveCharge
<1> QED
  BY <1>1, BalanceStarts, BalanceKept, InitEstablishes, NextKeeps, PTL DEF Spec

-----------------------------------------------------------------------------
(* The journal.                                                            *)
(* A request of the daemon runs once and has one outcome, its result is    *)
(* kept until somebody has it, and the journal stays within its row and    *)
(* concurrency budgets, for every number of requests, generations, lost    *)
(* connections and crashes.                                                *)
(*                                                                         *)
(* The argument.  A request is run only when it has no row and is of the   *)
(* present generation; rows of the present generation are never removed,   *)
(* and generations only grow, so that a key that was run has a row as long *)
(* as its generation lasts and is fenced off afterwards.  The outcome of a *)
(* row is written once, before it is sent, and what was sent remembers it. *)
(* A row is let go of only after an acknowledgement, which follows the     *)
(* receiver's admission, or by an operator.                                *)

-----------------------------------------------------------------------------
(* The inductive invariant *)

RowRecords ==
  [hash : Hashes, state : {"active", "pending", "delivered", "quarantined", "expired"},
   outcome : Outcomes \cup {NoOutcome}, delivery : Outcomes \cup {NoOutcome}, bytes : Nat,
   due : BOOLEAN, aged : BOOLEAN, acked : {"never", "recently", "long_ago"}]

JournalTypes ==
  /\ rows \in [DOMAIN rows -> RowRecords]
  /\ phase \in {"down", "recovering", "running", "stopping"}
  /\ generation \in Nat
  /\ IsFiniteSet(DOMAIN rows)

\* A row has its outcome unless it is running or expired; while it is running the room
\* for any outcome is reserved.
RowFits(row) ==
  /\ IF row.state \in {"active", "expired"} THEN row.outcome = NoOutcome ELSE row.outcome \in Outcomes
  /\ row.state = "active" => row.bytes = MaxResult

RowsFit == \A key \in DOMAIN rows : RowFits(rows[key])

\* Every row is of a request that was run, once, in a generation that has been; while
\* the generation lasts the row is there.
RunOnce ==
  /\ DOMAIN rows \subseteq DOMAIN executions
  /\ \A key \in DOMAIN executions :
       /\ executions[key] = 1
       /\ key[1] \in Nat /\ key[1] <= generation
       /\ key[1] = generation => key \in DOMAIN rows

\* What was sent has an outcome, one for a key, and it is that of the row.
ReportsTell ==
  \A r \in reported :
    /\ r = <<r[1], r[2]>> /\ r[1] \in DOMAIN executions /\ r[2] \in Outcomes
    /\ r[1] \in DOMAIN rows /\ rows[r[1]].state # "expired" => rows[r[1]].outcome = r[2]
    /\ \A s \in reported : r[1] = s[1] => r = s

\* Results under way were sent, acknowledgements follow an admission.
FramesTell ==
  /\ \A frame \in inbound :
       /\ frame.type = "request" => frame.hash \in Hashes
       /\ frame.type = "result_ack" => frame.key \in DOMAIN received
  /\ \A frame \in outbound :
       frame.type = "result" => <<frame.key, frame.outcome>> \in reported

ReceivedTell == \A key \in DOMAIN received : <<key, received[key]>> \in reported

\* A result is let go of only when it was received or discarded.
LetGo ==
  /\ \A key \in DOMAIN executions :
       \/ key \in DOMAIN received
       \/ key \in discarded
       \/ key \in DOMAIN rows /\ rows[key].state \in {"active", "pending", "quarantined"}
  /\ \A key \in DOMAIN rows : rows[key].state = "delivered" => key \in DOMAIN received
  /\ marked \subseteq DOMAIN received

\* The tasks of a process are the rows that run, until it stops.
TasksOwn ==
  /\ phase = "running" => Active = tasks
  /\ phase = "stopping" => tasks \subseteq Active
  /\ phase \in {"down", "recovering"} => tasks = {}

JournalInv ==
  /\ JournalTypes /\ RowsFit /\ RunOnce /\ ReportsTell /\ FramesTell /\ ReceivedTell
  /\ LetGo /\ TasksOwn /\ WithinBudget

-----------------------------------------------------------------------------
(* What a step has to show, by the state it touches *)

\* How a row may change: an outcome is written once, an expired row stays expired, and
\* no row takes more room than it had.
RowMoves(old, new) ==
  /\ new \in RowRecords /\ RowFits(new)
  /\ new.state = "active" => old.state = "active"
  /\ old.state = "expired" => new.state = "expired"
  /\ old.state \notin {"active", "expired"} /\ new.state # "expired" => new.outcome = old.outcome
  /\ new.bytes <= old.bytes

\* What a step that leaves the journal alone keeps of the invariant.
JournalKept ==
  JournalTypes /\ RowsFit /\ RunOnce /\ ReportsTell /\ ReceivedTell /\ LetGo /\ WithinBudget

\* result_bytes of every row.
Held == [key \in DOMAIN rows |-> rows[key].bytes]

\* The rows hold numbers of bytes, and used_bytes adds them up.
HeldFits ==
  /\ \A key \in DOMAIN rows : Held[key] = rows[key].bytes /\ Held[key] \in Nat
  /\ UsedBytes = SumFunctionOnSet(Held, DOMAIN rows)
  /\ UsedBytes \in Nat

\* Finitely many rows, each of them a record.
RowsTyped ==
  IsFiniteSet(DOMAIN rows) /\ \A key \in DOMAIN rows : rows[key] \in RowRecords

\* Rows that have their types hold bytes that can be added up.
LEMMA HeldTypes ==
  RowsTyped => HeldFits
<1> SUFFICES ASSUME RowsTyped PROVE HeldFits
  OBVIOUS
<1>0. IsFiniteSet(DOMAIN rows) /\ \A key \in DOMAIN rows : rows[key] \in RowRecords
  BY DEF RowsTyped
<1>1. \A key \in DOMAIN rows : Held[key] = rows[key].bytes /\ Held[key] \in Nat
  BY <1>0 DEF Held, RowRecords
<1>2. DOMAIN Held = DOMAIN rows
  BY DEF Held
<1>3. UsedBytes = SumFunctionOnSet(Held, DOMAIN rows)
  BY <1>2 DEF UsedBytes, SumFunction, Held
<1>4. SumFunctionOnSet(Held, DOMAIN rows) \in Nat
  BY <1>0, <1>1, SumType
<1> QED BY <1>1, <1>3, <1>4 DEF HeldFits

\* Fewer and smaller rows are within the budgets too.
LEMMA FewerRows ==
  ASSUME JournalTypes, WithinBudget, DOMAIN rows' \subseteq DOMAIN rows, Active' \subseteq Active,
         \A key \in DOMAIN rows' : rows'[key] \in RowRecords /\ rows'[key].bytes <= rows[key].bytes
  PROVE  WithinBudget' /\ IsFiniteSet(DOMAIN rows')
<1>1. IsFiniteSet(DOMAIN rows) /\ Active \subseteq DOMAIN rows
  BY DEF JournalTypes, Active
<1>2. IsFiniteSet(Active) /\ Cardinality(Active) \in Nat /\ Cardinality(DOMAIN rows) \in Nat
  BY <1>1, FS_Subset, FS_CardinalityType
<1>3. /\ IsFiniteSet(DOMAIN rows') /\ Cardinality(DOMAIN rows') <= Cardinality(DOMAIN rows)
      /\ IsFiniteSet(Active') /\ Cardinality(Active') <= Cardinality(Active)
  BY <1>1, <1>2, FS_Subset
<1>4. Cardinality(DOMAIN rows') \in Nat /\ Cardinality(Active') \in Nat
  BY <1>3, FS_CardinalityType
<1>5. WithinCounts'
  BY <1>2, <1>3, <1>4, JournalAssumption DEF WithinBudget, WithinCounts
<1>6. HeldFits
  BY <1>1, HeldTypes DEF JournalTypes, RowsTyped
<1>7. HeldFits'
  <2>1. RowsTyped'
    BY <1>3 DEF RowsTyped
  <2> QED BY <2>1, HeldTypes, PTL
<1>8. SumFunctionOnSet(Held', DOMAIN rows') <= SumFunctionOnSet(Held, DOMAIN rows')
  <2>1. \A key \in DOMAIN rows' : /\ Held'[key] \in Nat /\ Held[key] \in Nat
                                  /\ Held'[key] <= Held[key]
    BY <1>6, <1>7 DEF HeldFits
  <2> QED BY <1>3, <2>1, SumGrows
<1>9. SumFunctionOnSet(Held, DOMAIN rows) =
        SumFunctionOnSet(Held, DOMAIN rows') + SumFunctionOnSet(Held, DOMAIN rows \ DOMAIN rows')
  BY <1>1, <1>6, SumSplits DEF HeldFits
<1>10. /\ SumFunctionOnSet(Held, DOMAIN rows') \in Nat
       /\ SumFunctionOnSet(Held, DOMAIN rows \ DOMAIN rows') \in Nat
  BY <1>1, <1>3, <1>6, SumType, FS_Subset DEF HeldFits
<1>11. UsedBytes' <= MaxOutboxBytes
  BY <1>6, <1>7, <1>8, <1>9, <1>10, JournalAssumption DEF HeldFits, WithinBudget
<1> QED BY <1>3, <1>5, <1>11 DEF WithinBudget

\* A statement that updates one row.
LEMMA RowUpdate ==
  ASSUME JournalKept, NEW key \in DOMAIN rows, NEW row, rows' = [rows EXCEPT ![key] = row],
         RowMoves(rows[key], row),
         \/ row.state \in {"active", "pending", "quarantined"}
         \/ key \in DOMAIN received
         \/ row.state = "expired" /\ key \in discarded',
         row.state = "expired" => rows[key].state # "active",
         UNCHANGED <<executions, received>>, generation' = generation,
         discarded \subseteq discarded', marked' \subseteq DOMAIN received,
         \/ reported' = reported
         \/ /\ reported' = reported \cup {<<key, row.outcome>>}
            /\ row.state = "pending" /\ rows[key].state = "pending",
         phase' \in {"down", "recovering", "running", "stopping"}
  PROVE  /\ JournalKept'
         /\ Active' = IF row.state = "active" THEN Active ELSE Active \ {key}
<1>0. JournalTypes /\ RowsFit /\ RunOnce /\ ReportsTell /\ ReceivedTell /\ LetGo /\ WithinBudget
  BY DEF JournalKept
<1>1. /\ DOMAIN rows' = DOMAIN rows /\ rows'[key] = row
      /\ \A k \in DOMAIN rows : k # key => rows'[k] = rows[k]
      /\ rows' \in [DOMAIN rows -> RowRecords] /\ rows[key] \in RowRecords
  BY <1>0 DEF JournalTypes, RowMoves
<1>2. Active' = IF row.state = "active" THEN Active ELSE Active \ {key}
  BY <1>1 DEF Active, RowMoves
<1>3. WithinBudget' /\ IsFiniteSet(DOMAIN rows')
  <2>1. \A k \in DOMAIN rows' : rows'[k] \in RowRecords /\ rows'[k].bytes <= rows[k].bytes
    BY <1>0, <1>1 DEF JournalTypes, RowMoves, RowRecords
  <2> QED BY <1>0, <1>1, <1>2, <2>1, FewerRows
<1>4. JournalTypes'
  BY <1>0, <1>1, <1>3 DEF JournalTypes
<1>5. RowsFit'
  BY <1>0, <1>1 DEF RowsFit, RowMoves
<1>6. RunOnce'
  BY <1>0, <1>1 DEF RunOnce
<1>7. ReceivedTell'
  BY <1>0 DEF ReceivedTell
<1>8. LetGo'
  <2>1. row.state = "delivered" => key \in DOMAIN received
    OBVIOUS
  <2> QED BY <1>0, <1>1, <2>1 DEF LetGo
<1>9. ASSUME NEW r \in reported
      PROVE  /\ r = <<r[1], r[2]>> /\ r[1] \in DOMAIN executions /\ r[2] \in Outcomes
             /\ r[1] \in DOMAIN rows' /\ rows'[r[1]].state # "expired" => rows'[r[1]].outcome = r[2]
             /\ \A s \in reported : r[1] = s[1] => r = s
  <2>1. /\ r = <<r[1], r[2]>> /\ r[1] \in DOMAIN executions /\ r[2] \in Outcomes
        /\ r[1] \in DOMAIN rows /\ rows[r[1]].state # "expired" => rows[r[1]].outcome = r[2]
        /\ \A s \in reported : r[1] = s[1] => r = s
    BY <1>0 DEF ReportsTell
  <2>2. CASE r[1] # key
    BY <1>1, <2>1, <2>2
  <2>3. CASE r[1] = key /\ row.state # "expired"
    <3>1. rows[key].state # "expired" /\ rows[key].outcome = r[2]
      BY <2>1, <2>3 DEF RowMoves
    <3>2. rows[key].state # "active"
      BY <1>0, <2>1, <3>1, JournalAssumption DEF RowsFit, RowFits
    <3>3. row.outcome = r[2]
      BY <2>3, <3>1, <3>2 DEF RowMoves
    <3> QED BY <1>1, <2>1, <2>3, <3>3
  <2>4. CASE r[1] = key /\ row.state = "expired"
    BY <1>1, <2>1, <2>4
  <2> QED BY <2>2, <2>3, <2>4
<1>10. ReportsTell'
  <2>1. CASE reported' = reported
    BY <1>9, <2>1 DEF ReportsTell
  <2>2. CASE /\ reported' = reported \cup {<<key, row.outcome>>}
             /\ row.state = "pending" /\ rows[key].state = "pending"
    <3> DEFINE n == <<key, row.outcome>>
    <3>1. /\ key \in DOMAIN executions /\ row.outcome \in Outcomes
          /\ row.outcome = rows[key].outcome
      BY <1>0, <2>2 DEF RunOnce, RowMoves, RowFits
    <3>2. n = <<n[1], n[2]>> /\ n[1] = key /\ n[2] = row.outcome
      OBVIOUS
    <3>3. ASSUME NEW r \in reported, r[1] = key PROVE r = n
      BY <1>9, <1>1, <2>2, <3>3
    <3> HIDE DEF n
    <3> QED BY <1>1, <1>9, <2>2, <3>1, <3>2, <3>3 DEF ReportsTell, n
  <2> QED BY <2>1, <2>2
<1> QED BY <1>2, <1>3, <1>4, <1>5, <1>6, <1>7, <1>8, <1>10 DEF JournalKept

\* A step that leaves the table and its history alone.
LEMMA TableSame ==
  ASSUME JournalKept, UNCHANGED <<rows, executions, reported, received, discarded>>,
         generation' = generation \/ generation' = generation + 1,
         marked' \subseteq DOMAIN received,
         phase' \in {"down", "recovering", "running", "stopping"}
  PROVE  JournalKept' /\ Active' = Active
<1>0. JournalTypes /\ RowsFit /\ RunOnce /\ ReportsTell /\ ReceivedTell /\ LetGo /\ WithinBudget
  BY DEF JournalKept
<1>1. Active' = Active
  BY DEF Active
<1>2. JournalTypes' /\ RowsFit' /\ ReportsTell' /\ ReceivedTell' /\ LetGo' /\ WithinBudget'
  BY <1>0, <1>1 DEF JournalTypes, RowsFit, ReportsTell, ReceivedTell, LetGo, WithinBudget, WithinCounts, UsedBytes
<1>3. RunOnce'
  <2>1. CASE generation' = generation
    BY <1>0, <2>1 DEF RunOnce
  <2>2. CASE generation' = generation + 1
    BY <1>0, <2>2 DEF RunOnce, JournalTypes
  <2> QED BY <2>1, <2>2
<1> QED BY <1>1, <1>2, <1>3 DEF JournalKept

\* Frames that are added to the connection say what is so; the others said it before.
LEMMA FramesStep ==
  ASSUME FramesTell, reported \subseteq reported', DOMAIN received \subseteq DOMAIN received',
         \A frame \in inbound' :
           \/ frame \in inbound
           \/ frame.type = "request" /\ frame.hash \in Hashes
           \/ frame.type = "result_ack" /\ frame.key \in DOMAIN received'
           \/ frame.type = "result_nack",
         \A frame \in outbound' :
           \/ frame \in outbound
           \/ frame.type \in {"accepted", "rejected"}
           \/ frame.type = "result" /\ <<frame.key, frame.outcome>> \in reported'
  PROVE  FramesTell'
<1>1. ASSUME NEW frame \in inbound'
      PROVE  /\ frame.type = "request" => frame.hash \in Hashes
             /\ frame.type = "result_ack" => frame.key \in DOMAIN received'
  BY DEF FramesTell
<1>2. ASSUME NEW frame \in outbound'
      PROVE  frame.type = "result" => <<frame.key, frame.outcome>> \in reported'
  BY DEF FramesTell
<1> QED BY <1>1, <1>2 DEF FramesTell

\* The steps of the process and the connection that leave the journal alone.
LEMMA QuietStep ==
  ASSUME JournalInv,
         \/ Start \/ RecoverDone \/ Stop \/ Exit \/ Kill \/ Connect \/ Disconnect
         \/ \E key \in tasks : TaskUnsaved(key)
         \/ UNCHANGED journalVars
  PROVE  JournalInv'
<1>0. JournalKept /\ FramesTell /\ TasksOwn /\ LetGo /\ JournalTypes
  BY DEF JournalInv, JournalKept
<1>1. /\ UNCHANGED <<rows, executions, reported, received, discarded>>
      /\ generation' = generation \/ generation' = generation + 1
      /\ marked' = marked \/ marked' = {}
      /\ phase' \in {"down", "recovering", "running", "stopping"}
      /\ inbound' \subseteq inbound /\ outbound' \subseteq outbound
  BY <1>0 DEF Start, RecoverDone, Stop, Exit, Kill, Connect, Disconnect, TaskUnsaved, Gone, NoLink,
       journalVars, process, link, history, JournalTypes
<1>2. marked' \subseteq DOMAIN received
  BY <1>0, <1>1 DEF LetGo
<1>3. JournalKept' /\ Active' = Active
  BY <1>0, <1>1, <1>2, TableSame
<1>4. FramesTell'
  BY <1>0, <1>1, FramesStep
<1>5. TasksOwn'
  <2>1. CASE Start
    BY <1>0, <1>3, <2>1 DEF Start, TasksOwn
  <2>2. CASE RecoverDone
    BY <1>0, <1>3, <2>2 DEF RecoverDone, TasksOwn
  <2>3. CASE Stop
    BY <1>0, <1>3, <2>3 DEF Stop, TasksOwn
  <2>4. CASE Exit \/ Kill
    BY <1>0, <1>3, <2>4 DEF Exit, Kill, Gone, TasksOwn
  <2>5. CASE Connect \/ Disconnect \/ UNCHANGED journalVars
    BY <1>0, <1>3, <2>5 DEF Connect, Disconnect, journalVars, process, TasksOwn
  <2>6. CASE \E key \in tasks : TaskUnsaved(key)
    BY <1>0, <1>3, <2>6 DEF TaskUnsaved, TasksOwn
  <2> QED BY <2>1, <2>2, <2>3, <2>4, <2>5, <2>6
<1> QED BY <1>3, <1>4, <1>5 DEF JournalInv, JournalKept

\* The frames that change no row: a refused request, an acknowledgement of nothing, a
\* caller's request, a reply read and a result the gateway refuses.
LEMMA QuietFrame ==
  ASSUME JournalInv,
         \/ \E frame \in inbound : RequestRefused(frame) \/ AckIgnored(frame)
         \/ \E key \in (1 .. generation) \X RequestIds, hash \in Hashes : GatewayRequests(key, hash)
         \/ \E frame \in outbound :
              \/ GatewayReads(frame)
              \/ \E retryable \in BOOLEAN : GatewayRefuses(frame, retryable)
  PROVE  JournalInv'
<1>0. JournalKept /\ FramesTell /\ TasksOwn /\ LetGo /\ JournalTypes
  BY DEF JournalInv, JournalKept
<1>1. UNCHANGED <<rows, executions, reported, received, discarded, generation, marked, phase, tasks>>
  BY DEF RequestRefused, AckIgnored, GatewayRequests, GatewayReads, GatewayRefuses, process, history
<1>2. JournalKept' /\ Active' = Active
  BY <1>0, <1>1, TableSame DEF LetGo, JournalTypes
<1>3. TasksOwn'
  BY <1>0, <1>1, <1>2 DEF TasksOwn
<1>4. FramesTell'
  <2>1. ASSUME NEW frame \in inbound, RequestRefused(frame) \/ AckIgnored(frame)
        PROVE  FramesTell'
    <3>1. inbound' \subseteq inbound
      BY <2>1 DEF RequestRefused, AckIgnored, Receive
    <3>2. outbound' = outbound \/ outbound' = outbound \cup {Reply(frame, Verdict(frame))}
      BY <2>1 DEF RequestRefused, AckIgnored
    <3>3. Reply(frame, Verdict(frame)).type \in {"accepted", "rejected"}
      BY DEF Reply
    <3> QED BY <1>0, <1>1, <3>1, <3>2, <3>3, FramesStep
  <2>2. ASSUME NEW key, NEW hash \in Hashes, GatewayRequests(key, hash)
        PROVE  FramesTell'
    <3>1. Request(key, hash).type = "request" /\ Request(key, hash).hash = hash
      BY DEF Request
    <3> QED BY <1>0, <1>1, <2>2, <3>1, FramesStep DEF GatewayRequests
  <2>3. ASSUME NEW frame \in outbound, GatewayReads(frame)
        PROVE  FramesTell'
    BY <1>0, <1>1, <2>3, FramesStep DEF GatewayReads
  <2>4. ASSUME NEW frame \in outbound, NEW retryable \in BOOLEAN, GatewayRefuses(frame, retryable)
        PROVE  FramesTell'
    <3>1. Nack(frame.key, frame.outcome, retryable).type = "result_nack"
      BY DEF Nack
    <3> QED BY <1>0, <1>1, <2>4, <3>1, FramesStep DEF GatewayRefuses
  <2> QED BY <2>1, <2>2, <2>3, <2>4
<1> QED BY <1>2, <1>3, <1>4 DEF JournalInv, JournalKept

\* deliver at the gateway: a result that is admitted was sent.
LEMMA AdmitStep ==
  ASSUME JournalInv, NEW frame \in outbound, NEW confirmed \in BOOLEAN,
         GatewayAdmits(frame, confirmed)
  PROVE  JournalInv'
<1>0. /\ JournalTypes /\ RowsFit /\ RunOnce /\ ReportsTell /\ FramesTell /\ ReceivedTell
      /\ LetGo /\ TasksOwn /\ WithinBudget
  BY DEF JournalInv
<1>1. UNCHANGED <<rows, executions, reported, discarded, generation, marked, phase, tasks>>
  BY DEF GatewayAdmits, process, history
<1>2. Active' = Active
  BY <1>1 DEF Active
<1>3. <<frame.key, frame.outcome>> \in reported
  BY <1>0 DEF GatewayAdmits, FramesTell
<1>4. /\ DOMAIN received' = DOMAIN received \cup {frame.key}
      /\ \A k \in DOMAIN received : received'[k] = received[k]
      /\ received'[frame.key] = frame.outcome \/ frame.key \in DOMAIN received
  BY DEF GatewayAdmits, Put
<1>5. ReceivedTell'
  BY <1>0, <1>1, <1>3, <1>4 DEF ReceivedTell
<1>6. JournalTypes' /\ RowsFit' /\ RunOnce' /\ ReportsTell' /\ WithinBudget' /\ TasksOwn'
  BY <1>0, <1>1, <1>2
     DEF JournalTypes, RowsFit, RunOnce, ReportsTell, WithinBudget, WithinCounts, UsedBytes, TasksOwn
<1>7. LetGo'
  BY <1>0, <1>1, <1>4 DEF LetGo
<1>8. FramesTell'
  <2>1. /\ Ack(frame.key, frame.outcome).type = "result_ack"
        /\ Ack(frame.key, frame.outcome).key = frame.key
        /\ Nack(frame.key, frame.outcome, TRUE).type = "result_nack"
    BY DEF Ack, Nack
  <2>2. outbound' \subseteq outbound
    BY DEF GatewayAdmits
  <2>3. \A f \in inbound' : \/ f \in inbound
                            \/ f = Ack(frame.key, frame.outcome)
                            \/ f = Nack(frame.key, frame.outcome, TRUE)
    BY DEF GatewayAdmits
  <2> QED BY <1>0, <1>1, <1>4, <2>1, <2>2, <2>3, FramesStep
<1> QED BY <1>5, <1>6, <1>7, <1>8 DEF JournalInv

\* The statements on one row that start no task and end none, whatever frames they
\* take and send.
LEMMA RowStep ==
  ASSUME JournalInv, NEW key \in DOMAIN rows, NEW row, rows' = [rows EXCEPT ![key] = row],
         RowMoves(rows[key], row),
         row.state = "active" <=> rows[key].state = "active",
         \/ row.state \in {"active", "pending", "quarantined"}
         \/ key \in DOMAIN received
         \/ row.state = "expired" /\ key \in discarded',
         UNCHANGED <<executions, received, generation, phase, tasks>>,
         discarded \subseteq discarded', marked' \subseteq DOMAIN received,
         \/ reported' = reported
         \/ /\ reported' = reported \cup {<<key, row.outcome>>}
            /\ row.state = "pending" /\ rows[key].state = "pending",
         FramesTell'
  PROVE  JournalInv'
<1>0. JournalKept /\ TasksOwn /\ JournalTypes
  BY DEF JournalInv, JournalKept
<1>1. JournalKept' /\ Active' = IF row.state = "active" THEN Active ELSE Active \ {key}
  BY <1>0, RowUpdate DEF JournalTypes
<1>2. Active' = Active
  BY <1>1 DEF Active
<1>3. TasksOwn'
  BY <1>0, <1>2 DEF TasksOwn
<1> QED BY <1>1, <1>3 DEF JournalInv, JournalKept

\* A row of the table is a record, in step with its state.
LEMMA RowFields ==
  ASSUME JournalInv, NEW key \in DOMAIN rows
  PROVE  rows[key] \in RowRecords /\ RowFits(rows[key])
BY DEF JournalInv, JournalTypes, RowsFit

\* An identical request makes its result due again: it is not run again.
LEMMA DuplicateStep ==
  ASSUME JournalInv, NEW frame \in inbound, RequestDuplicate(frame)
  PROVE  JournalInv'
<1> DEFINE key == frame.key
           row == Readmitted(rows[key])
<1>1. key \in DOMAIN rows /\ rows[key].state # "expired"
  BY DEF RequestDuplicate, Verdict, Admit
<1>2. rows[key] \in RowRecords /\ RowFits(rows[key])
  BY <1>1, RowFields
<1>3. RowMoves(rows[key], row)
  <2>1. /\ row \in RowRecords /\ row.bytes = rows[key].bytes /\ row.outcome = rows[key].outcome
        /\ row.state = IF rows[key].state \in {"delivered", "quarantined"} THEN "pending"
                                                                         ELSE rows[key].state
    BY <1>2 DEF Readmitted, RowRecords
  <2>2. rows[key].bytes \in Nat
    BY <1>2 DEF RowRecords
  <2> HIDE DEF row
  <2> QED BY <1>1, <1>2, <2>1, <2>2 DEF RowMoves, RowFits
<1>4. /\ row.state \in {"active", "pending", "quarantined"}
      /\ row.state = "active" <=> rows[key].state = "active"
  BY <1>1, <1>2 DEF Readmitted, RowRecords
<1>5. /\ rows' = [rows EXCEPT ![key] = row]
      /\ UNCHANGED <<executions, received, generation, phase, tasks, discarded, marked, reported>>
      /\ inbound' \subseteq inbound /\ outbound' = outbound \cup {Reply(frame, "Duplicate")}
  BY DEF RequestDuplicate, Receive, Update, process, history
<1>6. Reply(frame, "Duplicate").type \in {"accepted", "rejected"}
  BY DEF Reply
<1>7. FramesTell'
  BY <1>5, <1>6, FramesStep DEF JournalInv
<1>8. marked' \subseteq DOMAIN received
  BY <1>5 DEF JournalInv, LetGo
<1> HIDE DEF row, key
<1> QED BY <1>1, <1>3, <1>4, <1>5, <1>7, <1>8, RowStep

\* next, attempted, send: what is sent is what the row has.
LEMMA SendStep ==
  ASSUME JournalInv, NEW key \in DOMAIN rows, Send(key) \/ SendFails(key)
  PROVE  JournalInv'
<1> DEFINE row == [rows[key] EXCEPT !.due = FALSE]
<1>1. rows[key].state = "pending" /\ rows[key] \in RowRecords /\ RowFits(rows[key])
  BY RowFields DEF Send, SendFails, Sendable
<1>2. /\ RowMoves(rows[key], row) /\ row.state = "pending" /\ row.outcome = rows[key].outcome
  <2>1. /\ row \in RowRecords /\ row.bytes = rows[key].bytes /\ row.outcome = rows[key].outcome
        /\ row.state = rows[key].state
    BY <1>1 DEF RowRecords
  <2>2. rows[key].bytes \in Nat
    BY <1>1 DEF RowRecords
  <2> HIDE DEF row
  <2> QED BY <1>1, <2>1, <2>2 DEF RowMoves, RowFits
<1>3. /\ rows' = [rows EXCEPT ![key] = row]
      /\ UNCHANGED <<executions, received, generation, phase, tasks, discarded, marked>>
      /\ inbound' \subseteq inbound
  BY DEF Send, SendFails, Update, NoLink, process, history
<1>4. marked' \subseteq DOMAIN received
  BY <1>3 DEF JournalInv, LetGo
<1>5. reported' = reported \/ reported' = reported \cup {<<key, row.outcome>>}
  BY <1>2 DEF Send, SendFails
<1>6. FramesTell'
  <2>1. CASE Send(key)
    <3>1. /\ Result(key, rows[key].outcome).type = "result"
          /\ Result(key, rows[key].outcome).key = key
          /\ Result(key, rows[key].outcome).outcome = rows[key].outcome
      BY DEF Result
    <3>2. /\ outbound' = outbound \cup {Result(key, rows[key].outcome)}
          /\ reported' = reported \cup {<<key, rows[key].outcome>>}
      BY <2>1 DEF Send
    <3> QED BY <1>3, <3>1, <3>2, FramesStep DEF JournalInv
  <2>2. CASE SendFails(key)
    <3>1. outbound' = {} /\ reported' = reported
      BY <2>2 DEF SendFails, NoLink
    <3> QED BY <1>3, <3>1, FramesStep DEF JournalInv
  <2> QED BY <2>1, <2>2
<1> HIDE DEF row
<1> QED BY <1>1, <1>2, <1>3, <1>4, <1>5, <1>6, RowStep

\* ack: the row it finds has been received.
LEMMA AckStep ==
  ASSUME JournalInv, NEW frame \in inbound, AckReceived(frame)
  PROVE  JournalInv'
<1> DEFINE key == frame.key
           row == Acknowledged(rows[key])
<1>1. key \in DOMAIN rows /\ rows[key].outcome # NoOutcome /\ rows[key].state # "expired"
  BY DEF AckReceived, AckMatches
<1>2. rows[key] \in RowRecords /\ RowFits(rows[key])
  BY <1>1, RowFields
<1>3. rows[key].state # "active"
  BY <1>1, <1>2 DEF RowFits
<1>4. RowMoves(rows[key], row) /\ row.state = "delivered"
  <2>1. /\ row \in RowRecords /\ row.bytes = rows[key].bytes /\ row.outcome = rows[key].outcome
        /\ row.state = "delivered"
    BY <1>2 DEF Acknowledged, RowRecords
  <2>2. rows[key].bytes \in Nat
    BY <1>2 DEF RowRecords
  <2> HIDE DEF row
  <2> QED BY <1>1, <1>2, <1>3, <2>1, <2>2 DEF RowMoves, RowFits
<1>5. /\ rows' = [rows EXCEPT ![key] = row]
      /\ UNCHANGED <<executions, received, generation, phase, tasks, discarded, reported>>
      /\ inbound' \subseteq inbound /\ outbound' = outbound
      /\ marked' \subseteq marked \cup {key}
  BY DEF AckReceived, Receive, Update, process, history
<1>6. key \in DOMAIN received
  BY DEF JournalInv, FramesTell, AckReceived, Receive
<1>7. marked' \subseteq DOMAIN received
  BY <1>5, <1>6 DEF JournalInv, LetGo
<1>8. FramesTell'
  BY <1>5, FramesStep DEF JournalInv
<1> HIDE DEF row, key
<1> QED BY <1>1, <1>3, <1>4, <1>5, <1>6, <1>7, <1>8, RowStep

\* nack: a pending result is put aside, or nothing happens.
LEMMA NackStep ==
  ASSUME JournalInv, NEW frame \in inbound, NackReceived(frame)
  PROVE  JournalInv'
<1>1. /\ UNCHANGED <<executions, received, generation, phase, tasks, discarded, reported, marked>>
      /\ inbound' \subseteq inbound /\ outbound' = outbound
  BY DEF NackReceived, Receive, process, history
<1>2. FramesTell'
  BY <1>1, FramesStep DEF JournalInv
<1>3. marked' \subseteq DOMAIN received
  BY <1>1 DEF JournalInv, LetGo
<1>4. CASE rows' = rows
  <2>1. JournalKept /\ TasksOwn /\ JournalTypes
    BY DEF JournalInv, JournalKept
  <2>2. JournalKept' /\ Active' = Active
    BY <1>1, <1>3, <1>4, <2>1, TableSame DEF JournalTypes
  <2>3. TasksOwn'
    BY <1>1, <2>1, <2>2 DEF TasksOwn
  <2> QED BY <1>2, <2>2, <2>3 DEF JournalInv, JournalKept
<1>5. CASE /\ frame.key \in DOMAIN rows /\ rows[frame.key].state = "pending"
           /\ rows' = [rows EXCEPT ![frame.key].state = "quarantined"]
  <2> DEFINE key == frame.key
             row == [rows[key] EXCEPT !.state = "quarantined"]
  <2>1. rows[key] \in RowRecords /\ RowFits(rows[key])
    BY <1>5, RowFields
  <2>2. RowMoves(rows[key], row) /\ row.state = "quarantined"
    BY <1>5, <2>1 DEF RowMoves, RowRecords, RowFits
  <2>3. rows' = [rows EXCEPT ![key] = row] /\ key \in DOMAIN rows /\ rows[key].state = "pending"
    BY <1>5
  <2> HIDE DEF row, key
  <2> QED BY <1>1, <1>2, <1>3, <2>2, <2>3, RowStep
<1> QED BY <1>4, <1>5 DEF NackReceived

\* The operator's commands: a quarantined result is discarded, and said to be, or sent again.
LEMMA OutboxStep ==
  ASSUME JournalInv, NEW key \in DOMAIN rows, Discard(key) \/ Retry(key)
  PROVE  JournalInv'
<1>1. rows[key].state = "quarantined" /\ rows[key] \in RowRecords /\ RowFits(rows[key])
  BY RowFields DEF Discard, Retry
<1>2. /\ UNCHANGED <<executions, received, generation, phase, tasks, reported, marked>>
      /\ inbound' = inbound /\ outbound' = outbound /\ discarded \subseteq discarded'
  BY DEF Discard, Retry, process, link, history
<1>3. FramesTell'
  BY <1>2, FramesStep DEF JournalInv
<1>4. marked' \subseteq DOMAIN received
  BY <1>2 DEF JournalInv, LetGo
<1>5. CASE Discard(key)
  <2> DEFINE row == Expired(rows[key])
  <2>1. RowMoves(rows[key], row) /\ row.state = "expired"
    <3>1. row \in RowRecords /\ row.bytes = 0 /\ row.outcome = NoOutcome /\ row.state = "expired"
      BY <1>1 DEF Expired, RowRecords
    <3>2. rows[key].bytes \in Nat
      BY <1>1 DEF RowRecords
    <3> HIDE DEF row
    <3> QED BY <1>1, <3>1, <3>2 DEF RowMoves, RowFits
  <2>2. rows' = [rows EXCEPT ![key] = row] /\ key \in discarded'
    BY <1>5 DEF Discard, Update
  <2> HIDE DEF row
  <2> QED BY <1>1, <1>2, <1>3, <1>4, <2>1, <2>2, RowStep
<1>6. CASE Retry(key)
  <2> DEFINE row == [rows[key] EXCEPT !.state = "pending", !.due = TRUE, !.aged = FALSE]
  <2>1. RowMoves(rows[key], row) /\ row.state = "pending"
    <3>1. /\ row \in RowRecords /\ row.bytes = rows[key].bytes /\ row.outcome = rows[key].outcome
          /\ row.state = "pending"
      BY <1>1 DEF RowRecords
    <3>2. rows[key].bytes \in Nat
      BY <1>1 DEF RowRecords
    <3> HIDE DEF row
    <3> QED BY <1>1, <3>1, <3>2 DEF RowMoves, RowFits
  <2>2. rows' = [rows EXCEPT ![key] = row]
    BY <1>6 DEF Retry, Update
  <2> HIDE DEF row
  <2> QED BY <1>1, <1>2, <1>3, <1>4, <2>1, <2>2, RowStep
<1> QED BY <1>5, <1>6

\* The clock: an attempt falls due, a horizon or a retention period passes.
LEMMA TimeStep ==
  ASSUME JournalInv, NEW key \in DOMAIN rows,
         FallDue(key) \/ PassHorizon(key) \/ PassRetention(key)
  PROVE  JournalInv'
<1>1. rows[key] \in RowRecords /\ RowFits(rows[key])
  BY RowFields
<1>2. /\ UNCHANGED <<executions, received, generation, phase, tasks, reported, marked, discarded>>
      /\ inbound' = inbound /\ outbound' = outbound
  BY DEF FallDue, PassHorizon, PassRetention, process, link, history
<1>3. FramesTell'
  BY <1>2, FramesStep DEF JournalInv
<1>4. marked' \subseteq DOMAIN received
  BY <1>2 DEF JournalInv, LetGo
<1>5. \/ rows[key].state \in {"active", "pending", "quarantined"}
      \/ key \in DOMAIN received
      \/ rows[key].state = "expired" /\ key \in discarded
  BY <1>1 DEF JournalInv, RunOnce, LetGo, RowRecords
<1>6. ASSUME NEW row, rows' = [rows EXCEPT ![key] = row], row \in RowRecords,
             row.state = rows[key].state, row.outcome = rows[key].outcome,
             row.bytes = rows[key].bytes
      PROVE  JournalInv'
  <2>1. RowMoves(rows[key], row)
    BY <1>1, <1>6 DEF RowMoves, RowFits, RowRecords
  <2> QED BY <1>1, <1>2, <1>3, <1>4, <1>5, <1>6, <2>1, RowStep
<1>7. CASE FallDue(key)
  <2> DEFINE row == [rows[key] EXCEPT !.due = TRUE]
  <2>1. /\ row \in RowRecords /\ row.state = rows[key].state /\ row.outcome = rows[key].outcome
        /\ row.bytes = rows[key].bytes
    BY <1>1 DEF RowRecords
  <2>2. rows' = [rows EXCEPT ![key] = row]
    BY <1>7 DEF FallDue, Update
  <2> HIDE DEF row
  <2> QED BY <1>6, <2>1, <2>2
<1>8. CASE PassHorizon(key)
  <2> DEFINE row == [rows[key] EXCEPT !.aged = TRUE]
  <2>1. /\ row \in RowRecords /\ row.state = rows[key].state /\ row.outcome = rows[key].outcome
        /\ row.bytes = rows[key].bytes
    BY <1>1 DEF RowRecords
  <2>2. rows' = [rows EXCEPT ![key] = row]
    BY <1>8 DEF PassHorizon, Update
  <2> HIDE DEF row
  <2> QED BY <1>6, <2>1, <2>2
<1>9. CASE PassRetention(key)
  <2> DEFINE row == [rows[key] EXCEPT !.acked = "long_ago"]
  <2>1. /\ row \in RowRecords /\ row.state = rows[key].state /\ row.outcome = rows[key].outcome
        /\ row.bytes = rows[key].bytes
    BY <1>1 DEF RowRecords
  <2>2. rows' = [rows EXCEPT ![key] = row]
    BY <1>9 DEF PassRetention, Update
  <2> HIDE DEF row
  <2> QED BY <1>6, <2>1, <2>2
<1> QED BY <1>7, <1>8, <1>9

\* recover and complete: an active row takes its outcome, once.
LEMMA CompletionUpdate ==
  ASSUME JournalInv, NEW key \in Active, NEW outcome \in Outcomes,
         Update(key, Completed(rows[key], outcome)),
         UNCHANGED <<generation, phase, marked, link, received, history>>
  PROVE  JournalKept' /\ FramesTell' /\ Active' = Active \ {key}
<1> DEFINE row == Completed(rows[key], outcome)
<1>1. /\ key \in DOMAIN rows /\ rows[key].state = "active" /\ rows[key] \in RowRecords
      /\ rows[key].bytes = MaxResult
  BY RowFields DEF Active, RowFits
<1>2. OutcomeBytes(outcome) \in Nat /\ OutcomeBytes(outcome) <= MaxResult /\ MaxResult \in Nat
  BY JournalAssumption
<1>3. RowMoves(rows[key], row) /\ row.state = "pending"
  BY <1>1, <1>2 DEF Completed, RowMoves, RowRecords, RowFits
<1>4. rows' = [rows EXCEPT ![key] = row]
  BY DEF Update
<1>5. /\ UNCHANGED <<executions, received, discarded, reported, inbound, outbound>>
      /\ JournalKept /\ FramesTell /\ marked' \subseteq DOMAIN received
      /\ phase' \in {"down", "recovering", "running", "stopping"}
  BY DEF link, history, JournalInv, JournalKept, LetGo, JournalTypes
<1>6. FramesTell'
  BY <1>5, FramesStep
<1> HIDE DEF row
<1> QED BY <1>1, <1>3, <1>4, <1>5, <1>6, RowUpdate

\* complete and recover, with the task that ends or was lost.
LEMMA CompletionStep ==
  ASSUME JournalInv,
         \/ \E key \in Active : RecoverRow(key)
         \/ \E key \in tasks, outcome \in TaskResults : TaskCompletes(key, outcome)
  PROVE  JournalInv'
<1>1. ASSUME NEW key \in Active, RecoverRow(key) PROVE JournalInv'
  <2>1. Restarted \in Outcomes /\ phase = "recovering"
    BY <1>1 DEF Outcomes, RecoverRow
  <2>2. JournalKept' /\ FramesTell' /\ Active' = Active \ {key}
    BY <1>1, <2>1, CompletionUpdate DEF RecoverRow, process
  <2>3. TasksOwn'
    BY <1>1, <2>1 DEF JournalInv, TasksOwn, RecoverRow, process
  <2> QED BY <2>2, <2>3 DEF JournalInv, JournalKept
<1>2. ASSUME NEW key \in tasks, NEW outcome \in TaskResults, TaskCompletes(key, outcome)
      PROVE  JournalInv'
  <2>1. outcome \in Outcomes /\ phase \in {"running", "stopping"} /\ key \in Active
    BY <1>2 DEF Outcomes, JournalInv, TasksOwn, JournalTypes
  <2>2. JournalKept' /\ FramesTell' /\ Active' = Active \ {key}
    BY <1>2, <2>1, CompletionUpdate DEF TaskCompletes
  <2>3. TasksOwn'
    BY <1>2, <2>1, <2>2 DEF JournalInv, TasksOwn, TaskCompletes
  <2> QED BY <2>2, <2>3 DEF JournalInv, JournalKept
<1> QED BY <1>1, <1>2

\* admit: a new row is of this generation and of a key that was never run.
LEMMA NewStep ==
  ASSUME JournalInv, NEW frame \in inbound, RequestNew(frame)
  PROVE  JournalInv'
<1> DEFINE key == frame.key
           row == NewRow(frame.hash)
<1>0. /\ JournalTypes /\ RowsFit /\ RunOnce /\ ReportsTell /\ FramesTell /\ ReceivedTell
      /\ LetGo /\ TasksOwn /\ WithinBudget
  BY DEF JournalInv
<1>1. key \notin DOMAIN rows /\ ~Full /\ key[1] = generation
  BY DEF RequestNew, Verdict, Admit
<1>2. key \notin DOMAIN executions
  BY <1>0, <1>1 DEF RunOnce
<1>3. frame.hash \in Hashes
  BY <1>0 DEF FramesTell, RequestNew, Receive
<1>4. row \in RowRecords /\ RowFits(row) /\ row.state = "active"
  BY <1>3, JournalAssumption DEF NewRow, RowRecords, RowFits
<1>5. /\ rows' = Put(rows, key, row) /\ executions' = Put(executions, key, 1)
      /\ tasks' = tasks \cup {key} /\ inbound' \subseteq inbound
      /\ outbound' = outbound \cup {Reply(frame, "New")}
      /\ UNCHANGED <<phase, generation, marked, received, reported, discarded>>
      /\ phase = "running"
  BY <1>2 DEF RequestNew, Receive
<1> HIDE DEF row, key
<1>6. /\ DOMAIN rows' = DOMAIN rows \cup {key} /\ rows'[key] = row
      /\ \A k \in DOMAIN rows : rows'[k] = rows[k]
  BY <1>1, <1>5 DEF Put
<1>7. /\ DOMAIN executions' = DOMAIN executions \cup {key} /\ executions'[key] = 1
      /\ \A k \in DOMAIN executions : executions'[k] = executions[k]
  BY <1>2, <1>5 DEF Put
<1>8. Active' = Active \cup {key} /\ key \notin Active
  BY <1>1, <1>4, <1>6 DEF Active
<1>9. IsFiniteSet(DOMAIN rows') /\ WithinBudget'
  <2>1. IsFiniteSet(DOMAIN rows) /\ Active \subseteq DOMAIN rows
    BY <1>0 DEF JournalTypes, Active
  <2>2. IsFiniteSet(Active) /\ Cardinality(Active) \in Nat /\ Cardinality(DOMAIN rows) \in Nat
    BY <2>1, FS_Subset, FS_CardinalityType
  <2>3. /\ IsFiniteSet(DOMAIN rows') /\ Cardinality(DOMAIN rows') = Cardinality(DOMAIN rows) + 1
    BY <1>1, <1>6, <2>1, FS_AddElement
  <2>4. Cardinality(Active') = Cardinality(Active) + 1
    BY <1>8, <2>2, FS_AddElement
  <2>5. /\ ~(Cardinality(DOMAIN rows) >= MaxRows) /\ ~(Cardinality(Active) >= MaxActive)
        /\ ~(UsedBytes + MaxResult > MaxOutboxBytes)
    BY <1>1 DEF Full
  <2>6. WithinCounts'
    BY <2>2, <2>3, <2>4, <2>5, JournalAssumption DEF WithinCounts
  <2>7. HeldFits
    BY <1>0, <2>1, HeldTypes DEF JournalTypes, RowsTyped
  <2>8. HeldFits'
    <3>1. RowsTyped'
      BY <1>0, <1>4, <1>6, <2>3 DEF JournalTypes, RowsTyped
    <3> QED BY <3>1, HeldTypes, PTL
  <2>9. SumFunctionOnSet(Held', DOMAIN rows') = Held'[key] + SumFunctionOnSet(Held', DOMAIN rows)
    <3>1. (DOMAIN rows') \ {key} = DOMAIN rows /\ key \in DOMAIN rows'
      BY <1>1, <1>6
    <3>2. \A k \in DOMAIN rows' : Held'[k] \in Nat
      BY <2>8 DEF HeldFits
    <3> QED BY <2>3, <3>1, <3>2, SumTakesOut
  <2>10. SumFunctionOnSet(Held', DOMAIN rows) = SumFunctionOnSet(Held, DOMAIN rows)
    <3>1. \A k \in DOMAIN rows : Held[k] \in Nat /\ Held'[k] = Held[k]
      BY <1>6, <2>7, <2>8 DEF HeldFits
    <3> QED BY <2>1, <3>1, SumSame
  <2>11. Held'[key] = MaxResult
    BY <1>4, <1>6, <2>8 DEF HeldFits, RowFits
  <2>12. UsedBytes' <= MaxOutboxBytes
    BY <2>5, <2>7, <2>8, <2>9, <2>10, <2>11, JournalAssumption DEF HeldFits
  <2> QED BY <2>3, <2>6, <2>12 DEF WithinBudget
<1>10. JournalTypes'
  <2>1. \A k \in DOMAIN rows' : rows'[k] \in RowRecords
    BY <1>0, <1>4, <1>6 DEF JournalTypes
  <2>2. rows' = [k \in DOMAIN rows' |-> rows'[k]]
    BY <1>5 DEF Put
  <2>3. rows' \in [DOMAIN rows' -> RowRecords]
    BY <2>1, <2>2
  <2> QED BY <1>0, <1>5, <1>9, <2>3 DEF JournalTypes
<1>11. RowsFit'
  BY <1>0, <1>4, <1>6 DEF RowsFit
<1>12. RunOnce'
  BY <1>0, <1>1, <1>5, <1>6, <1>7 DEF RunOnce, JournalTypes
<1>13. ReportsTell' /\ ReceivedTell'
  BY <1>0, <1>2, <1>5, <1>6, <1>7 DEF ReportsTell, ReceivedTell
<1>14. LetGo'
  BY <1>0, <1>4, <1>5, <1>6, <1>7 DEF LetGo
<1>15. TasksOwn'
  BY <1>0, <1>5, <1>8 DEF TasksOwn
<1>16. FramesTell'
  <2>1. Reply(frame, "New").type \in {"accepted", "rejected"}
    BY DEF Reply
  <2> QED BY <1>0, <1>5, <2>1, FramesStep
<1> QED BY <1>9, <1>10, <1>11, <1>12, <1>13, <1>14, <1>15, <1>16 DEF JournalInv

\* What sweep makes of a row: it keeps what may still have to be sent.
LEMMA SweptRow ==
  ASSUME NEW row \in RowRecords, RowFits(row)
  PROVE  /\ RowMoves(row, Swept(row))
         /\ Swept(row).state = "active" <=> row.state = "active"
         /\ Swept(row).state = "delivered" => row.state = "delivered"
         /\ Swept(row).state = "expired" => row.state \in {"delivered", "expired"}
<1>0. row.bytes \in Nat
  BY DEF RowRecords
<1>1. CASE row.state = "pending" /\ row.aged
  <2> DEFINE new == [row EXCEPT !.state = "quarantined"]
  <2>1. Swept(row) = new
    BY <1>1 DEF Swept
  <2>2. /\ new \in RowRecords /\ new.bytes = row.bytes /\ new.outcome = row.outcome
        /\ new.state = "quarantined"
    BY DEF RowRecords
  <2> HIDE DEF new
  <2> QED BY <1>0, <1>1, <2>1, <2>2 DEF RowMoves, RowFits
<1>2. CASE row.state = "delivered" /\ row.acked = "long_ago"
  <2>1. Swept(row) = Expired(row)
    BY <1>2 DEF Swept
  <2>2. Expired(row) \in RowRecords
    BY DEF Expired, RowRecords
  <2>3. Expired(row).state = "expired" /\ Expired(row).outcome = NoOutcome /\ Expired(row).bytes = 0
    BY DEF Expired, RowRecords
  <2> QED BY <1>0, <1>2, <2>1, <2>2, <2>3 DEF RowMoves, RowFits
<1>3. CASE ~(row.state = "pending" /\ row.aged) /\ ~(row.state = "delivered" /\ row.acked = "long_ago")
  <2>1. Swept(row) = row
    BY <1>3 DEF Swept
  <2> QED BY <1>0, <2>1 DEF RowMoves
<1> QED BY <1>1, <1>2, <1>3

\* sweep: old tombstones go, and nothing that is still wanted.
LEMMA SweepStep ==
  ASSUME JournalInv, SweepJournal
  PROVE  JournalInv'
<1> DEFINE table == [key \in DOMAIN rows |-> Swept(rows[key])]
<1>0. /\ JournalTypes /\ RowsFit /\ RunOnce /\ ReportsTell /\ FramesTell /\ ReceivedTell
      /\ LetGo /\ TasksOwn /\ WithinBudget
  BY DEF JournalInv
<1>1. /\ rows' = [key \in Kept(table) |-> table[key]]
      /\ UNCHANGED <<executions, received, generation, phase, tasks, reported, marked, discarded>>
      /\ inbound' = inbound /\ outbound' = outbound
  BY DEF SweepJournal, Restrict, process, link, history
<1>2. /\ DOMAIN rows' \subseteq DOMAIN rows
      /\ \A k \in DOMAIN rows' : rows'[k] = Swept(rows[k])
      /\ \A k \in DOMAIN rows : Swept(rows[k]).state # "expired" \/ k[1] = generation
                                => k \in DOMAIN rows'
      /\ rows' = [k \in DOMAIN rows' |-> rows'[k]]
  BY <1>1 DEF Kept
<1>3. ASSUME NEW k \in DOMAIN rows
      PROVE  /\ RowMoves(rows[k], Swept(rows[k]))
             /\ Swept(rows[k]).state = "active" <=> rows[k].state = "active"
             /\ Swept(rows[k]).state = "delivered" => rows[k].state = "delivered"
             /\ Swept(rows[k]).state = "expired" => rows[k].state \in {"delivered", "expired"}
             /\ Swept(rows[k]) \in RowRecords /\ RowFits(Swept(rows[k]))
  BY RowFields, SweptRow DEF RowMoves
<1> HIDE DEF table
<1>4. Active' = Active
  BY <1>2, <1>3 DEF Active
<1>5. IsFiniteSet(DOMAIN rows') /\ WithinBudget'
  <2>1. \A k \in DOMAIN rows' : rows'[k] \in RowRecords /\ rows'[k].bytes <= rows[k].bytes
    BY <1>2, <1>3 DEF RowMoves
  <2> QED BY <1>0, <1>2, <1>4, <2>1, FewerRows
<1>6. JournalTypes' /\ RowsFit'
  <2>1. rows' \in [DOMAIN rows' -> RowRecords]
    BY <1>2, <1>3
  <2> QED BY <1>0, <1>1, <1>2, <1>3, <1>5, <2>1 DEF JournalTypes, RowsFit
<1>7. RunOnce'
  BY <1>0, <1>1, <1>2 DEF RunOnce
<1>8. ReportsTell'
  <2>1. ASSUME NEW r \in reported, r[1] \in DOMAIN rows', rows'[r[1]].state # "expired"
        PROVE  rows'[r[1]].outcome = r[2]
    <3> DEFINE k == r[1]
    <3>1. k \in DOMAIN rows /\ rows'[k] = Swept(rows[k]) /\ RowMoves(rows[k], Swept(rows[k]))
      BY <1>2, <1>3, <2>1
    <3>2. rows[k].state # "expired"
      BY <2>1, <3>1 DEF RowMoves
    <3>3. rows[k].outcome = r[2] /\ r[2] \in Outcomes
      BY <1>0, <3>1, <3>2 DEF ReportsTell
    <3>4. rows[k].state # "active"
      BY <1>0, <3>1, <3>3, JournalAssumption DEF RowsFit, RowFits
    <3> QED BY <2>1, <3>1, <3>2, <3>3, <3>4 DEF RowMoves
  <2> QED BY <1>0, <1>1, <2>1 DEF ReportsTell
<1>9. ReceivedTell'
  BY <1>0, <1>1 DEF ReceivedTell
<1>10. LetGo'
  <2>1. ASSUME NEW k \in DOMAIN executions
        PROVE  \/ k \in DOMAIN received
               \/ k \in discarded
               \/ k \in DOMAIN rows' /\ rows'[k].state \in {"active", "pending", "quarantined"}
    <3>1. CASE k \in DOMAIN received \/ k \in discarded
      BY <3>1
    <3>2. CASE k \in DOMAIN rows /\ rows[k].state \in {"active", "pending", "quarantined"}
      <4>1. /\ Swept(rows[k]).state \in {"active", "pending", "delivered", "quarantined", "expired"}
            /\ Swept(rows[k]).state # "expired" /\ Swept(rows[k]).state # "delivered"
        BY <1>3, <3>2 DEF RowRecords
      <4> QED BY <1>2, <3>2, <4>1
    <3> QED BY <1>0, <3>1, <3>2 DEF LetGo
  <2> QED BY <1>0, <1>1, <1>2, <1>3, <2>1 DEF LetGo
<1>11. TasksOwn'
  BY <1>0, <1>1, <1>4 DEF TasksOwn
<1>12. FramesTell'
  BY <1>0, <1>1, FramesStep
<1> QED BY <1>5, <1>6, <1>7, <1>8, <1>9, <1>10, <1>11, <1>12 DEF JournalInv

-----------------------------------------------------------------------------
(* The theorems *)

\* The journal is empty when the daemon is installed.
LEMMA JournalStarts == JournalInit => JournalInv
<1> SUFFICES ASSUME JournalInit PROVE JournalInv
  OBVIOUS
<1>1. DOMAIN rows = {} /\ DOMAIN executions = {} /\ DOMAIN received = {} /\ Active = {}
  BY DEF JournalInit, Active
<1>2. IsFiniteSet({}) /\ Cardinality({}) = 0
  BY FS_EmptySet
<1>3. JournalTypes
  <2>1. rows = [k \in {} |-> rows[k]]
    BY <1>1 DEF JournalInit
  <2> QED BY <1>1, <1>2, <2>1 DEF JournalInit, JournalTypes
<1>4. WithinBudget
  <2>1. UsedBytes = 0
    BY <1>1, SumOfNone DEF UsedBytes, SumFunction
  <2> QED BY <1>1, <1>2, <2>1, JournalAssumption DEF WithinBudget, WithinCounts
<1> QED BY <1>1, <1>3, <1>4
        DEF JournalInit, JournalInv, RowsFit, RunOnce, ReportsTell, FramesTell, ReceivedTell, LetGo, TasksOwn

\* Every step of the daemon, its operator, its clock and its gateway keeps the invariant.
LEMMA JournalStep == JournalInv /\ [JournalNext]_journalVars => JournalInv'
<1> SUFFICES ASSUME JournalInv, [JournalNext]_journalVars PROVE JournalInv'
  OBVIOUS
<1>1. CASE Lifecycle
  BY <1>1, QuietStep, CompletionStep DEF Lifecycle
<1>2. CASE Engine
  BY <1>2, NewStep, DuplicateStep, QuietFrame, CompletionStep, QuietStep DEF Engine
<1>3. CASE Delivery
  BY <1>3, SendStep, AckStep, QuietFrame, NackStep, SweepStep, OutboxStep DEF Delivery
<1>4. CASE Time
  BY <1>4, TimeStep DEF Time
<1>5. CASE Gateway
  BY <1>5, QuietFrame, AdmitStep DEF Gateway
<1>6. CASE UNCHANGED journalVars
  BY <1>6, QuietStep
<1> QED BY <1>1, <1>2, <1>3, <1>4, <1>5, <1>6 DEF JournalNext

\* The invariant holds in every reachable state.
LEMMA JournalAlways == JournalSpec => []JournalInv
BY JournalStarts, JournalStep, PTL DEF JournalSpec

\* "The operation was not rerun", and its outcome never changes once it can have been
\* seen: the idempotence of Engine::request and Journal::admit through every retry,
\* restart, lost connection and removal of tombstones.
THEOREM RequestsRunOnce == JournalSpec => []OneExecution
<1>1. JournalInv => OneExecution
  <2> SUFFICES ASSUME JournalInv PROVE OneExecution
    OBVIOUS
  <2>1. AtMostOnce
    BY DEF JournalInv, RunOnce, AtMostOnce
  <2>2. OneOutcome
    BY DEF JournalInv, ReportsTell, ReceivedTell, OneOutcome
  <2> QED BY <2>1, <2>2 DEF OneExecution
<1> QED BY <1>1, JournalAlways, PTL

\* admit keeps the table within max_journal_requests, max_active_requests and
\* max_outbox_bytes, whatever the results turn out to be, and no result that nobody has
\* is given up for it.
THEOREM ResultsKeptWithinBudget == JournalSpec => []KeptWithinBudget
<1>1. JournalInv => KeptWithinBudget
  BY DEF JournalInv, LetGo, TasksOwn, NothingLost, ActiveIsOwned, KeptWithinBudget
<1> QED BY <1>1, JournalAlways, PTL

-----------------------------------------------------------------------------
(* The input of an execution.                                              *)
(*                                                                         *)
(* What is on its way to the process is what the writer holds and then the *)
(* queue.  A step takes from its front or adds at its end, so that what    *)
(* was delivered, followed by what is on its way, is what was accepted.    *)

InputItems == [id : InputIds, data : {data \in Data : SizeOf(data) > 0}]

Items == InputItems \cup {Close}

InputTypes ==
  /\ writer \in {"running", "closed", "failed", "ended"}
  /\ stdin \in {"open", "closing", "closed"}
  /\ queue \in Seq(Items)
  /\ writing = Nothing \/ \E item \in Items : writing = <<item>>
  /\ accepted \in Seq(InputItems) /\ delivered \in Seq(InputItems)
  /\ inputReceipts \in [InputIds -> Data \cup {NoInputReceipt}]
  /\ interrupted \in [InputIds -> BOOLEAN]
  /\ signals \in [InputIds -> Nat]

\* The items of done are the first ones of all.
Leads(done, all) ==
  Len(done) <= Len(all) /\ \A i \in 1 .. Len(done) : done[i] = all[i]

\* Nothing is missing and nothing out of order: the end of input is the last item, and
\* nothing is accepted once it is on its way.
InputFlows ==
  /\ Leads(delivered, accepted)
  /\ writer = "running" =>
       /\ delivered \o OnTheWay \in {accepted, Append(accepted, Close)}
       /\ stdin = "open" => delivered \o OnTheWay = accepted
  /\ eof => delivered = accepted /\ stdin # "open"

\* A writer that has ended holds nothing and has a reason.
WriterTells ==
  /\ writer # "running" => writing = Nothing
  /\ writer = "closed" => eof
  /\ writer = "ended" => rootExited \/ inputError \/ eof

PermitsHeld == held = Total(OnTheWay)

SignalsTell ==
  \A id \in InputIds : signals[id] <= 1 /\ (~interrupted[id] => signals[id] = 0)

InputInv ==
  InputTypes /\ InputFlows /\ WriterTells /\ PermitsHeld /\ ReceiptMeansAccepted /\ SignalsTell

\* The end of input is not an input, and has no bytes.
LEMMA ItemBytes ==
  ASSUME InputAssumption
  PROVE  /\ \A item \in Items : Bytes(item) \in Nat
         /\ Close \in Items /\ Close \notin InputItems /\ Bytes(Close) = 0
         /\ \A item \in InputItems : ~IsClose(item) /\ Bytes(item) = SizeOf(item.data)
<1>1. Close \notin InputItems
  <2> SUFFICES ASSUME Close \in InputItems PROVE FALSE
    OBVIOUS
  <2>1. DOMAIN Close = {"id", "data"}
    BY DEF InputItems
  <2>2. DOMAIN Close = {"id"}
    BY DEF Close
  <2> QED BY <2>1, <2>2
<1>2. ASSUME NEW item \in InputItems
      PROVE  ~IsClose(item) /\ Bytes(item) = SizeOf(item.data) /\ SizeOf(item.data) \in Nat
  <2>1. ~IsClose(item)
    BY <1>1 DEF IsClose
  <2>2. item.data \in Data
    BY DEF InputItems
  <2> QED BY <2>1, <2>2 DEF Bytes, InputAssumption
<1>3. Bytes(Close) = 0
  BY DEF Bytes, IsClose
<1> QED
  BY <1>1, <1>2, <1>3 DEF Items

\* A set of naturals has a least element.
LEMMA LeastNatural ==
  ASSUME NEW T, T \subseteq Nat, T # {}
  PROVE  \E x \in T : \A y \in T : x <= y
<1> DEFINE R == OpToRel(<, Nat)
<1>1. IsWellFoundedOn(R, Nat)
  BY NatLessThanWellFounded
<1> HIDE DEF R
<1>2. PICK x \in T : \A y \in T : <<y, x>> \notin R
  BY <1>1, WFMin
<1>3. ASSUME NEW y \in T PROVE x <= y
  <2>1. x \in Nat /\ y \in Nat /\ <<y, x>> \notin R
    BY <1>2
  <2>2. ~(y < x)
    BY <2>1 DEF R, OpToRel
  <2> QED BY <2>1, <2>2
<1> QED
  BY <1>3

\* The bytes of a sequence of items as a sum over its indices.
LEMMA TotalIsSum ==
  ASSUME InputAssumption, NEW q \in Seq(Items)
  PROVE  \E f : /\ Total(q) = SumFunctionOnSet(f, 1 .. Len(q))
                /\ \A i \in 1 .. Len(q) : f[i] = Bytes(q[i]) /\ f[i] \in Nat
<1> DEFINE f == [i \in DOMAIN q |-> Bytes(q[i])]
<1>1. DOMAIN q = 1 .. Len(q) /\ \A i \in 1 .. Len(q) : q[i] \in Items
  BY LenProperties
<1>2. Total(q) = SumFunctionOnSet(f, 1 .. Len(q))
  BY <1>1 DEF Total, SumFunction
<1>3. \A i \in 1 .. Len(q) : f[i] = Bytes(q[i]) /\ f[i] \in Nat
  BY <1>1, ItemBytes
<1> HIDE DEF f
<1> QED
  BY <1>2, <1>3

\* An item at the end adds its bytes.
LEMMA TotalOfAppend ==
  ASSUME InputAssumption, NEW q \in Seq(Items), NEW item \in Items
  PROVE  Total(q) \in Nat /\ Total(Append(q, item)) = Total(q) + Bytes(item)
<1> DEFINE r == Append(q, item)
           n == Len(q) + 1
<1>1. /\ r \in Seq(Items) /\ Len(r) = n /\ Len(q) \in Nat /\ r[n] = item
      /\ \A i \in 1 .. Len(q) : r[i] = q[i]
  BY AppendProperties, LenProperties
<1>2. PICK f : /\ Total(q) = SumFunctionOnSet(f, 1 .. Len(q))
               /\ \A i \in 1 .. Len(q) : f[i] = Bytes(q[i]) /\ f[i] \in Nat
  BY TotalIsSum
<1> HIDE DEF r
<1>3. PICK g : /\ Total(r) = SumFunctionOnSet(g, 1 .. n)
               /\ \A i \in 1 .. n : g[i] = Bytes(r[i]) /\ g[i] \in Nat
  BY <1>1, TotalIsSum
<1>4. IsFiniteSet(1 .. n) /\ IsFiniteSet(1 .. Len(q))
  <2>1. 1 \in Int /\ n \in Int /\ Len(q) \in Int
    BY <1>1
  <2> HIDE DEF n
  <2> QED BY <2>1, FS_Interval
<1>5. SumFunctionOnSet(g, 1 .. n) = g[n] + SumFunctionOnSet(g, (1 .. n) \ {n})
  <2> DEFINE S == 1 .. n
  <2>1. IsFiniteSet(S) /\ n \in S /\ \A i \in S : g[i] \in Nat
    <3>1. n \in 1 .. n
      BY <1>1
    <3> QED BY <1>3, <1>4, <3>1
  <2> HIDE DEF S, n
  <2>2. \A i \in S : SumFunctionOnSet(g, S) = g[i] + SumFunctionOnSet(g, S \ {i})
    BY <2>1, SumTakesOut
  <2> QED BY <2>1, <2>2 DEF S
<1>6. (1 .. n) \ {n} = 1 .. Len(q)
  BY <1>1
<1>7. SumFunctionOnSet(g, 1 .. Len(q)) = SumFunctionOnSet(f, 1 .. Len(q))
  <2>1. \A i \in 1 .. Len(q) : f[i] \in Nat /\ g[i] = f[i]
    BY <1>1, <1>2, <1>3
  <2> DEFINE S == 1 .. Len(q)
  <2>2. IsFiniteSet(S) /\ \A i \in S : f[i] \in Nat /\ g[i] = f[i]
    BY <1>4, <2>1
  <2> HIDE DEF S
  <2>3. SumFunctionOnSet(g, S) = SumFunctionOnSet(f, S)
    BY <2>2, SumSame
  <2> QED BY <2>3 DEF S
<1>8. SumFunctionOnSet(f, 1 .. Len(q)) \in Nat
  BY <1>2, <1>4, SumType
<1>9. g[n] = Bytes(item) /\ Bytes(item) \in Nat
  BY <1>1, <1>3, ItemBytes
<1>10. Total(r) = Bytes(item) + Total(q)
  BY <1>2, <1>3, <1>5, <1>6, <1>7, <1>9
<1> QED
  BY <1>2, <1>8, <1>9, <1>10 DEF r

LEMMA TotalOfNothing == InputAssumption => Total(<<>>) = 0
<1>1. DOMAIN <<>> = {}
  OBVIOUS
<1> QED
  BY <1>1, SumOfNone DEF Total, SumFunction

\* An item at the front does, too.
LEMMA TotalOfFront ==
  ASSUME InputAssumption
  PROVE  \A q \in Seq(Items), item \in Items : Total(<<item>> \o q) = Bytes(item) + Total(q)
<1> SUFFICES ASSUME NEW p \in Seq(Items), NEW item \in Items,
                    Total(<<item>> \o p) # Bytes(item) + Total(p)
             PROVE  FALSE
  OBVIOUS
<1> DEFINE Bad(q) == q \in Seq(Items) /\ Total(<<item>> \o q) # Bytes(item) + Total(q)
           T == {n \in Nat : \E q \in Seq(Items) : Bad(q) /\ Len(q) = n}
<1>1. T \subseteq Nat /\ T # {}
  <2>1. Bad(p) /\ Len(p) \in Nat
    BY LenProperties
  <2> HIDE DEF Bad
  <2> QED BY <2>1
<1>2. PICK n \in T : \A m \in T : n <= m
  <2> HIDE DEF T
  <2> QED BY <1>1, LeastNatural
<1>3. PICK q \in Seq(Items) : Bad(q) /\ Len(q) = n
  BY <1>2
<1>4. CASE q = <<>>
  <2>1. <<item>> \in Seq(Items) /\ <<item>> \o <<>> = <<item>> /\ Append(<<>>, item) = <<item>>
    OBVIOUS
  <2>2. <<>> \in Seq(Items)
    OBVIOUS
  <2>3. Total(<<item>>) = Total(<<>>) + Bytes(item) /\ Total(<<>>) = 0 /\ Bytes(item) \in Nat
    BY <2>1, <2>2, TotalOfAppend, TotalOfNothing, ItemBytes
  <2>4. Total(<<item>> \o <<>>) = Bytes(item) + Total(<<>>)
    BY <2>1, <2>3
  <2> QED BY <1>3, <1>4, <2>4
<1>5. CASE q # <<>>
  <2>1. PICK r \in Seq(Items), x \in Items : q = Append(r, x)
    BY <1>5, SequenceEmptyOrAppend
  <2>2. Len(q) = Len(r) + 1 /\ Len(r) \in Nat
    BY <2>1, AppendProperties, LenProperties
  <2>3. ~Bad(r)
    <3>1. Len(r) \notin T
      <4> HIDE DEF T
      <4> QED BY <1>2, <1>3, <2>2
    <3> HIDE DEF Bad
    <3> QED BY <2>2, <3>1
  <2>4. Total(<<item>> \o r) = Bytes(item) + Total(r)
    BY <2>3
  <2>5. <<item>> \in Seq(Items) /\ <<x>> \in Seq(Items)
    OBVIOUS
  <2>6. <<item>> \o r \in Seq(Items)
    BY <2>5, ConcatProperties
  <2>7. <<item>> \o q = Append(<<item>> \o r, x)
    <3>1. q = r \o <<x>> /\ Append(<<item>> \o r, x) = (<<item>> \o r) \o <<x>>
      BY <2>1, <2>6, AppendIsConcat
    <3>2. (<<item>> \o r) \o <<x>> = <<item>> \o (r \o <<x>>)
      BY <2>5, ConcatAssociative
    <3> QED BY <3>1, <3>2
  <2>8. /\ Total(Append(<<item>> \o r, x)) = Total(<<item>> \o r) + Bytes(x)
        /\ Total(Append(r, x)) = Total(r) + Bytes(x) /\ Total(r) \in Nat
    BY <2>6, TotalOfAppend
  <2>9. Bytes(item) \in Nat /\ Bytes(x) \in Nat
    BY ItemBytes
  <2>10. Total(<<item>> \o q) = Bytes(item) + Total(q)
    <3>1. Total(<<item>> \o q) = Total(<<item>> \o r) + Bytes(x)
      BY <2>7, <2>8
    <3>2. Total(q) = Total(r) + Bytes(x)
      BY <2>1, <2>8
    <3> DEFINE a == Total(<<item>> \o q)
               b == Total(<<item>> \o r)
    <3>3. a = b + Bytes(x) /\ b = Bytes(item) + Total(r)
      BY <2>4, <3>1
    <3> HIDE DEF a, b
    <3>4. a = Bytes(item) + Total(q)
      BY <2>8, <2>9, <3>2, <3>3
    <3> QED BY <3>4 DEF a
  <2> QED BY <1>3, <2>10
<1> QED BY <1>4, <1>5

-----------------------------------------------------------------------------
(* Steps of the input                                                      *)

\* What is on its way is a sequence of items, as is what was delivered before it.
LEMMA WayTypes ==
  ASSUME InputTypes
  PROVE  /\ queue \in Seq(Items) /\ writing \in Seq(Items) /\ OnTheWay \in Seq(Items)
         /\ delivered \in Seq(Items) /\ accepted \in Seq(Items)
         /\ delivered \o OnTheWay \in Seq(Items)
<1>1. queue \in Seq(Items) /\ writing \in Seq(Items)
  <2>1. <<>> \in Seq(Items) /\ \A item \in Items : <<item>> \in Seq(Items)
    OBVIOUS
  <2> QED BY <2>1 DEF InputTypes, Nothing
<1>2. delivered \in Seq(Items) /\ accepted \in Seq(Items)
  BY SeqMonotonic DEF InputTypes, Items
<1>3. OnTheWay \in Seq(Items)
  BY <1>1, ConcatProperties DEF OnTheWay
<1> QED
  BY <1>1, <1>2, <1>3, ConcatProperties

\* An item put into the queue is the last on its way.
LEMMA WayGrows ==
  ASSUME InputAssumption, InputTypes, NEW item \in Items, queue' = Append(queue, item),
         UNCHANGED <<writing, delivered>>
  PROVE  /\ queue' \in Seq(Items)
         /\ (delivered \o OnTheWay)' = Append(delivered \o OnTheWay, item)
         /\ Total(OnTheWay') = Total(OnTheWay) + Bytes(item)
<1>0. /\ queue \in Seq(Items) /\ writing \in Seq(Items) /\ OnTheWay \in Seq(Items)
      /\ delivered \in Seq(Items) /\ delivered \o OnTheWay \in Seq(Items)
      /\ <<item>> \in Seq(Items)
  BY WayTypes
<1>1. queue' \in Seq(Items) /\ queue' = queue \o <<item>>
  BY <1>0, AppendProperties, AppendIsConcat
<1>2. OnTheWay' = Append(OnTheWay, item)
  <2>1. OnTheWay' = writing \o (queue \o <<item>>)
    BY <1>1 DEF OnTheWay
  <2>2. writing \o (queue \o <<item>>) = (writing \o queue) \o <<item>>
    BY <1>0, ConcatAssociative
  <2>3. Append(OnTheWay, item) = OnTheWay \o <<item>>
    BY <1>0, AppendIsConcat
  <2> QED BY <2>1, <2>2, <2>3 DEF OnTheWay
<1>3. (delivered \o OnTheWay)' = Append(delivered \o OnTheWay, item)
  <2>1. (delivered \o OnTheWay)' = delivered \o (OnTheWay \o <<item>>)
    BY <1>0, <1>2, AppendIsConcat
  <2>2. delivered \o (OnTheWay \o <<item>>) = (delivered \o OnTheWay) \o <<item>>
    BY <1>0, ConcatAssociative
  <2>3. Append(delivered \o OnTheWay, item) = (delivered \o OnTheWay) \o <<item>>
    BY <1>0, AppendIsConcat
  <2> QED BY <2>1, <2>2, <2>3
<1>4. Total(OnTheWay') = Total(OnTheWay) + Bytes(item)
  BY <1>0, <1>2, TotalOfAppend
<1> QED
  BY <1>1, <1>3, <1>4

\* The item that the writer holds is the first on its way.
LEMMA WayServed ==
  ASSUME InputAssumption, InputTypes, NEW item \in Items, writing = <<item>>
  PROVE  /\ delivered \o OnTheWay = Append(delivered, item) \o queue
         /\ Total(<<>> \o queue) = Total(OnTheWay) - Bytes(item)
         /\ <<>> \o queue = queue /\ queue \in Seq(Items)
<1>0. /\ queue \in Seq(Items) /\ writing \in Seq(Items) /\ OnTheWay \in Seq(Items)
      /\ delivered \in Seq(Items) /\ <<item>> \in Seq(Items)
  BY WayTypes
<1>1. OnTheWay = <<item>> \o queue /\ <<>> \o queue = queue
  BY <1>0, ConcatEmptySeq DEF OnTheWay
<1>2. Total(OnTheWay) = Bytes(item) + Total(queue)
  BY <1>0, <1>1, TotalOfFront
<1>3. Bytes(item) \in Nat /\ Total(queue) \in Nat
  BY <1>0, ItemBytes, TotalOfAppend
<1>4. Append(delivered, item) \o queue = delivered \o (<<item>> \o queue)
  <2>1. Append(delivered, item) = delivered \o <<item>>
    BY <1>0, AppendIsConcat
  <2>2. (delivered \o <<item>>) \o queue = delivered \o (<<item>> \o queue)
    BY <1>0, ConcatAssociative
  <2> QED BY <2>1, <2>2
<1>5. Total(<<>> \o queue) = Total(OnTheWay) - Bytes(item)
  <2>1. Total(<<>> \o queue) = Total(queue)
    BY <1>1
  <2> DEFINE a == Total(OnTheWay)
  <2>2. a = Bytes(item) + Total(queue)
    BY <1>2
  <2> HIDE DEF a
  <2>3. Total(queue) = a - Bytes(item)
    BY <1>3, <2>2
  <2> QED BY <2>1, <2>3 DEF a
<1> QED
  BY <1>0, <1>1, <1>4, <1>5

\* An input that comes next was accepted next, and the end of input comes last.
LEMMA NextIsNext ==
  ASSUME InputAssumption, InputTypes, Leads(delivered, accepted), NEW item \in Items,
         Append(delivered, item) \o queue \in {accepted, Append(accepted, Close)}
  PROVE  /\ item # Close => /\ item \in InputItems /\ Append(delivered, item) \in Seq(InputItems)
                            /\ Leads(Append(delivered, item), accepted)
         /\ item = Close => /\ delivered = accepted
                            /\ Append(delivered, item) \o queue # accepted
<1> DEFINE d == Append(delivered, item)
           n == Len(delivered)
           a == Len(accepted)
<1>0. /\ queue \in Seq(Items) /\ delivered \in Seq(Items) /\ accepted \in Seq(Items)
      /\ delivered \in Seq(InputItems) /\ accepted \in Seq(InputItems)
      /\ n \in Nat /\ a \in Nat /\ Len(queue) \in Nat /\ n <= a
      /\ \A i \in 1 .. n : delivered[i] = accepted[i]
      /\ \A i \in 1 .. a : accepted[i] \in InputItems
  <2>1. delivered \in Seq(InputItems) /\ accepted \in Seq(InputItems)
    BY DEF InputTypes
  <2> QED BY <2>1, WayTypes, LenProperties, ElementOfSeq DEF Leads
<1>1. /\ d \in Seq(Items) /\ Len(d) = n + 1 /\ d[n + 1] = item
      /\ \A i \in 1 .. n : d[i] = delivered[i]
  BY <1>0, AppendProperties
<1> HIDE DEF d
<1>2. /\ Len(d \o queue) = n + 1 + Len(queue) /\ (d \o queue)[n + 1] = item
  <2>1. /\ Len(d \o queue) = Len(d) + Len(queue)
        /\ \A i \in 1 .. Len(d) + Len(queue) :
             (d \o queue)[i] = IF i <= Len(d) THEN d[i] ELSE queue[i - Len(d)]
    BY <1>0, <1>1, ConcatProperties
  <2> QED BY <1>0, <1>1, <2>1
<1>3. /\ Len(Append(accepted, Close)) = a + 1 /\ Append(accepted, Close)[a + 1] = Close
      /\ \A i \in 1 .. a : Append(accepted, Close)[i] = accepted[i]
  BY <1>0, ItemBytes, AppendProperties
<1>4. d \o queue = accepted \/ d \o queue = Append(accepted, Close)
  BY DEF d
<1> HIDE DEF n, a
<1>5. n + 1 <= a + 1 /\ (n + 1 <= a => item = accepted[n + 1]) /\ (n + 1 = a + 1 => item = Close)
  <2>1. CASE d \o queue = accepted
    <3>1. n + 1 <= a /\ item = accepted[n + 1]
      BY <1>0, <1>2, <2>1 DEF a
    <3> QED BY <1>0, <3>1
  <2>2. CASE d \o queue = Append(accepted, Close)
    <3>1. n + 1 + Len(queue) = a + 1 /\ item = Append(accepted, Close)[n + 1]
      BY <1>2, <1>3, <2>2
    <3> QED BY <1>0, <1>3, <3>1
  <2> QED BY <1>4, <2>1, <2>2
<1>6. ASSUME item # Close
      PROVE  item \in InputItems /\ d \in Seq(InputItems) /\ Leads(d, accepted)
  <2>1. n + 1 <= a /\ item = accepted[n + 1] /\ item \in InputItems
    BY <1>0, <1>5, <1>6
  <2>2. d \in Seq(InputItems)
    BY <1>0, <2>1, AppendProperties DEF d
  <2>3. Leads(d, accepted)
    BY <1>0, <1>1, <2>1 DEF Leads, a
  <2> QED BY <2>1, <2>2, <2>3
<1>7. ASSUME item = Close
      PROVE  delivered = accepted /\ d \o queue # accepted
  <2>1. ~(n + 1 <= a)
    BY <1>0, <1>5, <1>7, ItemBytes
  <2>2. n = a
    BY <1>0, <1>5, <2>1
  <2>3. delivered = accepted
    BY <1>0, <2>2, SeqEqual DEF n, a
  <2>4. d \o queue # accepted
    BY <1>0, <1>2, <2>1 DEF a
  <2> QED BY <2>3, <2>4
<1> QED BY <1>6, <1>7 DEF d

\* What the receipts mean changes with a receipt only.
LEMMA ReceiptsStay ==
  ASSUME ReceiptMeansAccepted, UNCHANGED <<inputReceipts, accepted>>,
         \A id \in InputIds : signals'[id] <= 1
  PROVE  ReceiptMeansAccepted'
<1>1. inputReceipts' = inputReceipts /\ accepted' = accepted /\ InputReceipts' = InputReceipts
  BY DEF InputReceipts
<1>2. /\ \A i, j \in DOMAIN accepted : accepted[i].id = accepted[j].id => i = j
      /\ {accepted[i] : i \in DOMAIN accepted}
           = {Input(id, inputReceipts[id]) :
                id \in {k \in InputReceipts : SizeOf(inputReceipts[k]) > 0}}
  BY DEF ReceiptMeansAccepted
<1>3. /\ \A i, j \in DOMAIN accepted' : accepted'[i].id = accepted'[j].id => i = j
      /\ {accepted'[i] : i \in DOMAIN accepted'}
           = {Input(id, inputReceipts'[id]) :
                id \in {k \in InputReceipts' : SizeOf(inputReceipts'[k]) > 0}}
  BY <1>1, <1>2
<1> QED
  BY <1>3 DEF ReceiptMeansAccepted

\* write, close_input: what is put into the queue comes last.
LEMMA CallerSteps ==
  ASSUME InputAssumption, InputInv,
         \/ \E id \in InputIds, data \in Data : WriteEmpty(id, data) \/ Write(id, data)
         \/ CloseInput
  PROVE  InputInv'
<1>0. /\ InputTypes /\ InputFlows /\ WriterTells /\ PermitsHeld /\ ReceiptMeansAccepted
      /\ SignalsTell
  BY DEF InputInv
<1>1. ASSUME NEW id \in InputIds, NEW data \in Data, inputReceipts[id] = NoInputReceipt,
             inputReceipts' = [inputReceipts EXCEPT ![id] = data]
      PROVE  /\ inputReceipts' \in [InputIds -> Data \cup {NoInputReceipt}]
             /\ {Input(k, inputReceipts'[k]) :
                   k \in {j \in InputReceipts' : SizeOf(inputReceipts'[j]) > 0}}
                  = {Input(k, inputReceipts[k]) :
                       k \in {j \in InputReceipts : SizeOf(inputReceipts[j]) > 0}}
                    \cup (IF SizeOf(data) > 0 THEN {Input(id, data)} ELSE {})
  <2>1. /\ inputReceipts' \in [InputIds -> Data \cup {NoInputReceipt}]
        /\ inputReceipts'[id] = data /\ data # NoInputReceipt
        /\ \A k \in InputIds : k # id => inputReceipts'[k] = inputReceipts[k]
    BY <1>0, <1>1 DEF InputTypes, InputAssumption
  <2>2. InputReceipts' = InputReceipts \cup {id} /\ id \notin InputReceipts
    BY <1>1, <2>1 DEF InputReceipts
  <2>3. InputReceipts \subseteq InputIds
    BY DEF InputReceipts
  <2> DEFINE K == {j \in InputReceipts : SizeOf(inputReceipts[j]) > 0}
             L == {j \in InputReceipts' : SizeOf(inputReceipts'[j]) > 0}
  <2>4. /\ \A k \in K : k \in L /\ inputReceipts'[k] = inputReceipts[k]
        /\ \A k \in L : k = id \/ (k \in K /\ inputReceipts'[k] = inputReceipts[k])
        /\ id \in L <=> SizeOf(data) > 0
    BY <2>1, <2>2, <2>3
  <2> HIDE DEF K, L
  <2>5. {Input(k, inputReceipts'[k]) : k \in L}
          = {Input(k, inputReceipts[k]) : k \in K}
            \cup (IF SizeOf(data) > 0 THEN {Input(id, data)} ELSE {})
    BY <2>1, <2>4
  <2> QED BY <2>1, <2>5 DEF K, L
<1>2. ASSUME NEW id \in InputIds, NEW data \in Data, WriteEmpty(id, data)
      PROVE  InputInv'
  <2>1. /\ inputReceipts[id] = NoInputReceipt /\ ~(SizeOf(data) > 0)
        /\ inputReceipts' = [inputReceipts EXCEPT ![id] = data]
        /\ UNCHANGED <<execution, stdin, tx, channel, task, interrupts, inputError, accepted>>
    BY <1>2 DEF WriteEmpty
  <2>2. /\ inputReceipts' \in [InputIds -> Data \cup {NoInputReceipt}]
        /\ {Input(k, inputReceipts'[k]) :
              k \in {j \in InputReceipts' : SizeOf(inputReceipts'[j]) > 0}}
             = {Input(k, inputReceipts[k]) :
                  k \in {j \in InputReceipts : SizeOf(inputReceipts[j]) > 0}}
    BY <1>1, <2>1
  <2>3. UNCHANGED <<rootExited, stdin, queue, held, writer, writing, delivered, eof,
                    interrupted, signals, inputError, accepted>>
    BY <2>1 DEF execution, channel, task, interrupts
  <2>4. InputTypes' /\ InputFlows' /\ WriterTells' /\ PermitsHeld' /\ SignalsTell'
    BY <1>0, <2>2, <2>3 DEF InputTypes, InputFlows, OnTheWay, WriterTells, PermitsHeld, SignalsTell
  <2>5. ReceiptMeansAccepted'
    BY <1>0, <2>2, <2>3 DEF ReceiptMeansAccepted
  <2> QED BY <2>4, <2>5 DEF InputInv
<1>3. ASSUME NEW id \in InputIds, NEW data \in Data, Write(id, data)
      PROVE  InputInv'
  <2> DEFINE item == Input(id, data)
  <2>1. /\ inputReceipts[id] = NoInputReceipt /\ SizeOf(data) > 0 /\ stdin = "open"
        /\ queue' = Append(queue, item) /\ held' = held + SizeOf(data)
        /\ inputReceipts' = [inputReceipts EXCEPT ![id] = data]
        /\ accepted' = Append(accepted, item)
        /\ UNCHANGED <<rootExited, stdin, writer, writing, delivered, eof, interrupted, signals,
                       inputError>>
    BY <1>3 DEF Write, execution, task, interrupts
  <2>2. item \in InputItems /\ item.id = id /\ item.data = data
    BY <2>1 DEF Input, InputItems
  <2>3. item \in Items /\ Bytes(item) = SizeOf(data)
    BY <2>2, ItemBytes DEF Items
  <2>4. /\ inputReceipts' \in [InputIds -> Data \cup {NoInputReceipt}]
        /\ {Input(k, inputReceipts'[k]) :
              k \in {j \in InputReceipts' : SizeOf(inputReceipts'[j]) > 0}}
             = {Input(k, inputReceipts[k]) :
                  k \in {j \in InputReceipts : SizeOf(inputReceipts[j]) > 0}} \cup {item}
    BY <1>1, <2>1
  <2> HIDE DEF item
  <2>5. /\ queue' \in Seq(Items)
        /\ (delivered \o OnTheWay)' = Append(delivered \o OnTheWay, item)
        /\ Total(OnTheWay') = Total(OnTheWay) + Bytes(item)
    BY <1>0, <2>1, <2>3, WayGrows
  <2>6. /\ accepted' \in Seq(InputItems) /\ Len(accepted') = Len(accepted) + 1
        /\ Len(accepted) \in Nat /\ accepted'[Len(accepted) + 1] = item
        /\ \A i \in 1 .. Len(accepted) : accepted'[i] = accepted[i]
        /\ DOMAIN accepted = 1 .. Len(accepted) /\ DOMAIN accepted' = 1 .. Len(accepted) + 1
        /\ delivered \in Seq(InputItems) /\ Len(delivered) \in Nat
    <3>1. accepted \in Seq(InputItems) /\ delivered \in Seq(InputItems)
      BY <1>0 DEF InputTypes
    <3>2. /\ accepted' \in Seq(InputItems) /\ Len(accepted') = Len(accepted) + 1
          /\ accepted'[Len(accepted) + 1] = item
          /\ \A i \in 1 .. Len(accepted) : accepted'[i] = accepted[i]
      BY <2>1, <2>2, <3>1, AppendProperties
    <3>3. Len(accepted) \in Nat /\ Len(delivered) \in Nat /\ DOMAIN accepted = 1 .. Len(accepted)
      BY <3>1, LenProperties
    <3>4. DOMAIN accepted' = 1 .. Len(accepted')
      BY <3>2, LenProperties
    <3> QED BY <3>1, <3>2, <3>3, <3>4
  <2>7. InputTypes'
    BY <1>0, <2>1, <2>4, <2>5, <2>6 DEF InputTypes
  <2>8. InputFlows'
    <3>1. Leads(delivered', accepted')
      <4>1. /\ Len(delivered) <= Len(accepted)
            /\ \A i \in 1 .. Len(delivered) : delivered[i] = accepted[i]
        BY <1>0 DEF InputFlows, Leads
      <4>2. /\ Len(delivered) <= Len(accepted')
            /\ \A i \in 1 .. Len(delivered) : delivered[i] = accepted'[i]
        BY <2>6, <4>1
      <4>3. delivered' = delivered
        BY <2>1
      <4> QED BY <4>2, <4>3 DEF Leads
    <3>2. writer = "running" => (delivered \o OnTheWay)' = accepted'
      BY <1>0, <2>1, <2>5 DEF InputFlows
    <3>3. ~eof
      BY <1>0, <2>1 DEF InputFlows
    <3> QED BY <2>1, <3>1, <3>2, <3>3 DEF InputFlows
  <2>9. WriterTells' /\ SignalsTell'
    BY <1>0, <2>1 DEF WriterTells, SignalsTell
  <2>10. PermitsHeld'
    BY <1>0, <2>1, <2>3, <2>5 DEF PermitsHeld
  <2>11. ReceiptMeansAccepted'
    <3>1. \A i \in DOMAIN accepted : accepted[i].id # id
      <4> SUFFICES ASSUME NEW i \in DOMAIN accepted, accepted[i].id = id PROVE FALSE
        OBVIOUS
      <4>1. PICK k \in InputReceipts : accepted[i] = Input(k, inputReceipts[k])
        BY <1>0 DEF ReceiptMeansAccepted
      <4>2. k = id
        BY <4>1 DEF Input
      <4> QED BY <2>1, <4>1, <4>2 DEF InputReceipts
    <3>2. \A i, j \in DOMAIN accepted' : accepted'[i].id = accepted'[j].id => i = j
      <4> SUFFICES ASSUME NEW i \in DOMAIN accepted', NEW j \in DOMAIN accepted',
                          accepted'[i].id = accepted'[j].id
                   PROVE  i = j
        OBVIOUS
      <4>1. CASE i \in DOMAIN accepted /\ j \in DOMAIN accepted
        BY <1>0, <2>6, <4>1 DEF ReceiptMeansAccepted
      <4>2. CASE i \notin DOMAIN accepted /\ j \notin DOMAIN accepted
        BY <2>6, <4>2
      <4>3. CASE i \in DOMAIN accepted /\ j \notin DOMAIN accepted
        BY <2>2, <2>6, <3>1, <4>3
      <4>4. CASE i \notin DOMAIN accepted /\ j \in DOMAIN accepted
        BY <2>2, <2>6, <3>1, <4>4
      <4> QED BY <4>1, <4>2, <4>3, <4>4
    <3>3. {accepted'[i] : i \in DOMAIN accepted'} = {accepted[i] : i \in DOMAIN accepted} \cup {item}
      <4>1. /\ \A i \in DOMAIN accepted : i \in DOMAIN accepted' /\ accepted'[i] = accepted[i]
            /\ Len(accepted) + 1 \in DOMAIN accepted' /\ accepted'[Len(accepted) + 1] = item
            /\ \A i \in DOMAIN accepted' : i \in DOMAIN accepted \/ i = Len(accepted) + 1
        BY <2>6
      <4> QED BY <4>1
    <3>4. \A k \in InputIds : signals'[k] <= 1
      BY <1>0, <2>1 DEF SignalsTell
    <3> QED BY <1>0, <2>4, <3>2, <3>3, <3>4 DEF ReceiptMeansAccepted
  <2> QED BY <2>7, <2>8, <2>9, <2>10, <2>11 DEF InputInv
<1>4. CASE CloseInput
  <2>1. /\ stdin = "open" /\ queue' = Append(queue, Close) /\ stdin' = "closing"
        /\ UNCHANGED <<rootExited, held, writer, writing, delivered, eof, inputReceipts,
                       interrupted, signals, inputError, accepted>>
    BY <1>4 DEF CloseInput, execution, task, interrupts
  <2>2. Close \in Items /\ Bytes(Close) = 0
    BY ItemBytes
  <2>3. /\ queue' \in Seq(Items)
        /\ (delivered \o OnTheWay)' = Append(delivered \o OnTheWay, Close)
        /\ Total(OnTheWay') = Total(OnTheWay) + Bytes(Close)
    BY <1>0, <2>1, <2>2, WayGrows
  <2>4. InputTypes' /\ WriterTells' /\ SignalsTell'
    BY <1>0, <2>1, <2>3 DEF InputTypes, WriterTells, SignalsTell
  <2>5. InputFlows'
    <3>1. ~eof /\ (writer = "running" => (delivered \o OnTheWay)' = Append(accepted, Close))
      BY <1>0, <2>1, <2>3 DEF InputFlows
    <3> QED BY <1>0, <2>1, <3>1 DEF InputFlows
  <2>6. PermitsHeld'
    <3>1. Total(OnTheWay) \in Nat
      BY <1>0, <2>2, WayTypes, TotalOfAppend
    <3> QED BY <1>0, <2>1, <2>2, <2>3, <3>1 DEF PermitsHeld
  <2>7. ReceiptMeansAccepted'
    <3>1. \A id \in InputIds : signals'[id] <= 1
      BY <1>0, <2>1 DEF SignalsTell
    <3> QED BY <1>0, <2>1, <3>1, ReceiptsStay
  <2> QED BY <2>4, <2>5, <2>6, <2>7 DEF InputInv
<1> QED
  BY <1>2, <1>3, <1>4

\* write_input: the writer takes the first of the queue, and gives it to the process or gives up.
LEMMA WriterSteps ==
  ASSUME InputAssumption, InputInv, Writer
  PROVE  InputInv'
<1>0. /\ InputTypes /\ InputFlows /\ WriterTells /\ PermitsHeld /\ ReceiptMeansAccepted
      /\ SignalsTell
  BY DEF InputInv
<1>1. ASSUME UNCHANGED <<inputReceipts, interrupted, signals, accepted>>
      PROVE  ReceiptMeansAccepted' /\ SignalsTell'
  <2>1. SignalsTell' /\ \A id \in InputIds : signals'[id] <= 1
    BY <1>0, <1>1 DEF SignalsTell
  <2> QED BY <1>0, <1>1, <2>1, ReceiptsStay
<1>2. writing # Nothing =>
        \E item \in Items : writing = <<item>> /\ writing[1] = item
  BY <1>0 DEF InputTypes
<1>3. <<>> \in Seq(Items) /\ \A item \in Items : Bytes(item) \in Nat
  BY ItemBytes
<1>4. CASE TakeInput
  <2>1. /\ writing = <<>> /\ queue # <<>> /\ writing' = <<Head(queue)>> /\ queue' = Tail(queue)
        /\ UNCHANGED <<rootExited, stdin, held, writer, delivered, eof, inputReceipts, interrupted,
                       signals, inputError, accepted>>
    BY <1>4 DEF TakeInput, Nothing, execution, interrupts
  <2>2. queue \in Seq(Items)
    BY <1>0 DEF InputTypes
  <2>3. /\ Head(queue) \in Items /\ Tail(queue) \in Seq(Items)
        /\ <<Head(queue)>> \o Tail(queue) = queue
    BY <2>1, <2>2, HeadTailProperties
  <2>4. OnTheWay' = OnTheWay
    <3>1. OnTheWay = queue
      BY <2>1, <2>2, ConcatEmptySeq DEF OnTheWay
    <3> QED BY <2>1, <2>3, <3>1 DEF OnTheWay
  <2>5. InputTypes'
    BY <1>0, <2>1, <2>3 DEF InputTypes
  <2>6. InputFlows' /\ PermitsHeld'
    BY <1>0, <2>1, <2>4 DEF InputFlows, PermitsHeld
  <2>7. WriterTells'
    BY <1>0, <1>4, <2>1 DEF WriterTells, TakeInput
  <2>8. ReceiptMeansAccepted' /\ SignalsTell'
    BY <1>1, <2>1
  <2> QED BY <2>5, <2>6, <2>7, <2>8 DEF InputInv
<1>5. ASSUME NEW item \in Items, writing = <<item>>, writing[1] = item, writer = "running"
      PROVE  /\ delivered \o OnTheWay = Append(delivered, item) \o queue
             /\ <<>> \o queue = queue
             /\ Total(<<>> \o queue) = held - Bytes(item)
             /\ item # Close => /\ item \in InputItems
                                /\ Append(delivered, item) \in Seq(InputItems)
                                /\ Leads(Append(delivered, item), accepted)
             /\ item = Close => delivered = accepted /\ stdin # "open"
  <2>1. /\ delivered \o OnTheWay = Append(delivered, item) \o queue /\ <<>> \o queue = queue
        /\ Total(<<>> \o queue) = Total(OnTheWay) - Bytes(item)
    BY <1>0, <1>5, WayServed
  <2>2. /\ Leads(delivered, accepted)
        /\ Append(delivered, item) \o queue \in {accepted, Append(accepted, Close)}
        /\ stdin = "open" => Append(delivered, item) \o queue = accepted
    BY <1>0, <1>5, <2>1 DEF InputFlows
  <2>3. /\ item # Close => /\ item \in InputItems /\ Append(delivered, item) \in Seq(InputItems)
                           /\ Leads(Append(delivered, item), accepted)
        /\ item = Close => delivered = accepted /\ Append(delivered, item) \o queue # accepted
    BY <1>0, <2>2, NextIsNext
  <2>4. held = Total(OnTheWay)
    BY <1>0 DEF PermitsHeld
  <2> QED BY <2>1, <2>2, <2>3, <2>4
<1>6. CASE Deliver
  <2>1. /\ writer = "running" /\ writing # Nothing /\ ~IsClose(writing[1])
        /\ delivered' = Append(delivered, writing[1]) /\ held' = held - Bytes(writing[1])
        /\ writing' = Nothing
        /\ UNCHANGED <<rootExited, stdin, queue, writer, eof, inputReceipts, interrupted, signals,
                       inputError, accepted>>
    BY <1>6 DEF Deliver, execution, interrupts
  <2>2. PICK item \in Items : writing = <<item>> /\ writing[1] = item
    BY <1>2, <2>1
  <2>3. item # Close /\ delivered' = Append(delivered, item) /\ held' = held - Bytes(item)
    BY <2>1, <2>2 DEF IsClose
  <2>4. /\ delivered \o OnTheWay = delivered' \o queue /\ <<>> \o queue = queue
        /\ Total(<<>> \o queue) = held'
        /\ delivered' \in Seq(InputItems) /\ Leads(delivered', accepted)
    BY <1>5, <2>1, <2>2, <2>3
  <2>5. OnTheWay' = <<>> \o queue /\ OnTheWay' = queue
    BY <2>1, <2>4 DEF OnTheWay, Nothing
  <2>6. InputTypes'
    BY <1>0, <2>1, <2>4 DEF InputTypes
  <2>7. ~eof
    <3> SUFFICES ASSUME eof PROVE FALSE
      OBVIOUS
    <3>1. delivered = accepted /\ delivered \in Seq(InputItems)
      BY <1>0 DEF InputFlows, InputTypes
    <3>2. item \in InputItems /\ Leads(Append(delivered, item), delivered)
      BY <1>5, <2>1, <2>2, <2>3, <3>1
    <3>3. Len(Append(delivered, item)) = Len(delivered) + 1 /\ Len(delivered) \in Nat
      BY <3>1, <3>2, AppendProperties, LenProperties
    <3> QED BY <3>2, <3>3 DEF Leads
  <2>8. InputFlows'
    <3>1. /\ writer = "running" =>
               /\ delivered' \o OnTheWay' \in {accepted, Append(accepted, Close)}
               /\ stdin = "open" => delivered' \o OnTheWay' = accepted
      BY <1>0, <2>4, <2>5 DEF InputFlows
    <3> QED BY <2>1, <2>4, <2>7, <3>1 DEF InputFlows
  <2>9. WriterTells' /\ PermitsHeld'
    BY <2>1, <2>4, <2>5 DEF WriterTells, PermitsHeld
  <2>10. ReceiptMeansAccepted' /\ SignalsTell'
    BY <1>1, <2>1
  <2> QED BY <2>6, <2>8, <2>9, <2>10 DEF InputInv
<1>7. CASE DeliverClose
  <2>1. /\ writer = "running" /\ writing # Nothing /\ IsClose(writing[1])
        /\ eof' = TRUE /\ writing' = Nothing /\ writer' = "closed"
        /\ UNCHANGED <<rootExited, stdin, queue, held, delivered, inputReceipts, interrupted,
                       signals, inputError, accepted>>
    BY <1>7 DEF DeliverClose, execution, channel, interrupts
  <2>2. PICK item \in Items : writing = <<item>> /\ writing[1] = item
    BY <1>2, <2>1
  <2>3. item = Close /\ Bytes(item) = 0
    BY <2>1, <2>2, ItemBytes DEF IsClose
  <2>4. /\ Total(<<>> \o queue) = held - 0 /\ delivered = accepted /\ stdin # "open"
    BY <1>5, <2>1, <2>2, <2>3
  <2>5. held \in Nat
    BY <1>0, <1>3, WayTypes, TotalOfAppend, ItemBytes DEF PermitsHeld
  <2>6. OnTheWay' = <<>> \o queue
    BY <2>1 DEF OnTheWay, Nothing
  <2>7. InputTypes'
    BY <1>0, <2>1 DEF InputTypes
  <2>8. InputFlows'
    BY <1>0, <2>1, <2>4 DEF InputFlows
  <2>9. WriterTells' /\ PermitsHeld'
    BY <2>1, <2>4, <2>5, <2>6 DEF WriterTells, PermitsHeld
  <2>10. ReceiptMeansAccepted' /\ SignalsTell'
    BY <1>1, <2>1
  <2> QED BY <2>7, <2>8, <2>9, <2>10 DEF InputInv
<1>8. CASE DeliverFails
  <2>1. /\ writer = "running" /\ writing # Nothing
        /\ writing' = Nothing /\ held' = held - Bytes(writing[1]) /\ writer' = "failed"
        /\ UNCHANGED <<rootExited, stdin, queue, delivered, eof, inputReceipts, interrupted,
                       signals, inputError, accepted>>
    BY <1>8 DEF DeliverFails, execution, interrupts
  <2>2. PICK item \in Items : writing = <<item>> /\ writing[1] = item
    BY <1>2, <2>1
  <2>3. Total(<<>> \o queue) = held'
    BY <1>5, <2>1, <2>2
  <2>4. OnTheWay' = <<>> \o queue
    BY <2>1 DEF OnTheWay, Nothing
  <2>5. InputTypes' /\ InputFlows' /\ WriterTells' /\ PermitsHeld'
    BY <1>0, <2>1, <2>3, <2>4 DEF InputTypes, InputFlows, WriterTells, PermitsHeld
  <2>6. ReceiptMeansAccepted' /\ SignalsTell'
    BY <1>1, <2>1
  <2> QED BY <2>5, <2>6 DEF InputInv
<1>9. CASE WriterEnds
  <2>1. /\ writer \in {"closed", "failed"} /\ writer' = "ended" /\ stdin' = "closed"
        /\ inputError' = (inputError \/ writer = "failed") /\ queue' = <<>> /\ held' = 0
        /\ UNCHANGED <<rootExited, writing, delivered, eof, inputReceipts, interrupted, signals,
                       accepted>>
    BY <1>9 DEF WriterEnds, execution, interrupts
  <2>2. InputTypes' /\ InputFlows' /\ WriterTells'
    BY <1>0, <1>3, <2>1 DEF InputTypes, InputFlows, WriterTells
  <2>3. PermitsHeld'
    <3>1. OnTheWay' = <<>>
      BY <1>0, <2>1 DEF OnTheWay, WriterTells, Nothing
    <3> QED BY <2>1, <3>1, TotalOfNothing DEF PermitsHeld
  <2>4. ReceiptMeansAccepted' /\ SignalsTell'
    BY <1>1, <2>1
  <2> QED BY <2>2, <2>3, <2>4 DEF InputInv
<1> QED
  BY <1>4, <1>6, <1>7, <1>8, <1>9 DEF Writer

\* interrupt_execution and the end of run; what an abort drops is no longer held.
LEMMA ExecutionSteps ==
  ASSUME InputAssumption, InputInv,
         (\E id \in InputIds : Interrupt(id)) \/ StopExecution \/ RootExits \/ Abort
  PROVE  InputInv'
<1>0. /\ InputTypes /\ InputFlows /\ WriterTells /\ PermitsHeld /\ ReceiptMeansAccepted
      /\ SignalsTell
  BY DEF InputInv
<1>1. ASSUME NEW id \in InputIds, Interrupt(id)
      PROVE  InputInv'
  <2>1. /\ ~interrupted[id] /\ interrupted' = [interrupted EXCEPT ![id] = TRUE]
        /\ UNCHANGED <<rootExited, stdin, queue, held, writer, writing, delivered, eof,
                       inputReceipts, inputError, accepted>>
    BY <1>1 DEF Interrupt, execution, channel, task
  <2>2. PICK sent \in 0 .. 1 : signals' = [signals EXCEPT ![id] = @ + sent]
    BY <1>1 DEF Interrupt
  <2>3. signals[id] = 0 /\ interrupted \in [InputIds -> BOOLEAN] /\ signals \in [InputIds -> Nat]
    BY <1>0, <2>1 DEF SignalsTell, InputTypes
  <2>4. /\ signals' \in [InputIds -> Nat] /\ signals'[id] = sent
        /\ \A k \in InputIds : k # id => signals'[k] = signals[k]
    BY <2>2, <2>3
  <2>5. /\ interrupted' \in [InputIds -> BOOLEAN] /\ interrupted'[id]
        /\ \A k \in InputIds : k # id => interrupted'[k] = interrupted[k]
    BY <2>1, <2>3
  <2>6. \A k \in InputIds : signals'[k] <= 1 /\ (~interrupted'[k] => signals'[k] = 0)
    BY <1>0, <2>4, <2>5 DEF SignalsTell
  <2>7. InputTypes' /\ InputFlows' /\ WriterTells' /\ PermitsHeld'
    <3>1. InputTypes'
      BY <1>0, <2>1, <2>4, <2>5 DEF InputTypes
    <3>2. InputFlows' /\ PermitsHeld'
      BY <1>0, <2>1 DEF InputFlows, PermitsHeld, OnTheWay
    <3>3. WriterTells'
      BY <1>0, <2>1 DEF WriterTells
    <3> QED BY <3>1, <3>2, <3>3
  <2>8. ReceiptMeansAccepted'
    BY <1>0, <2>1, <2>6, ReceiptsStay
  <2> QED BY <2>6, <2>7, <2>8 DEF InputInv, SignalsTell
<1>2. CASE StopExecution
  <2>1. UNCHANGED <<rootExited, stdin, queue, held, writer, writing, delivered, eof, inputReceipts,
                    interrupted, signals, inputError, accepted>>
    BY <1>2 DEF StopExecution, channel, task, interrupts
  <2>2. InputTypes' /\ WriterTells'
    BY <1>0, <2>1 DEF InputTypes, WriterTells
  <2>3. InputFlows' /\ PermitsHeld'
    BY <1>0, <2>1 DEF InputFlows, OnTheWay, PermitsHeld
  <2>4. ReceiptMeansAccepted' /\ SignalsTell'
    <3>1. SignalsTell' /\ \A id \in InputIds : signals'[id] <= 1
      BY <1>0, <2>1 DEF SignalsTell
    <3> QED BY <1>0, <2>1, <3>1, ReceiptsStay
  <2> QED BY <2>2, <2>3, <2>4 DEF InputInv
<1>3. CASE RootExits
  <2>1. /\ rootExited' /\ stdin' = "closed"
        /\ UNCHANGED <<queue, held, writer, writing, delivered, eof, inputReceipts, interrupted,
                       signals, inputError, accepted>>
    BY <1>3 DEF RootExits, channel, task, interrupts
  <2>2. InputTypes' /\ WriterTells'
    BY <1>0, <2>1 DEF InputTypes, WriterTells
  <2>3. InputFlows' /\ PermitsHeld'
    BY <1>0, <2>1 DEF InputFlows, OnTheWay, PermitsHeld
  <2>4. ReceiptMeansAccepted' /\ SignalsTell'
    <3>1. SignalsTell' /\ \A id \in InputIds : signals'[id] <= 1
      BY <1>0, <2>1 DEF SignalsTell
    <3> QED BY <1>0, <2>1, <3>1, ReceiptsStay
  <2> QED BY <2>2, <2>3, <2>4 DEF InputInv
<1>4. CASE Abort
  <2>1. /\ rootExited /\ writer' = "ended" /\ writing' = <<>> /\ queue' = <<>> /\ held' = 0
        /\ UNCHANGED <<rootExited, stdin, delivered, eof, inputReceipts, interrupted, signals,
                       inputError, accepted>>
    BY <1>4 DEF Abort, Nothing, interrupts
  <2>2. <<>> \in Seq(Items)
    OBVIOUS
  <2>3. InputTypes' /\ InputFlows' /\ WriterTells'
    <3>1. InputTypes'
      BY <1>0, <2>1, <2>2 DEF InputTypes, Nothing
    <3>2. InputFlows'
      BY <1>0, <2>1 DEF InputFlows
    <3>3. WriterTells'
      BY <1>0, <2>1 DEF WriterTells, Nothing
    <3> QED BY <3>1, <3>2, <3>3
  <2>4. PermitsHeld'
    <3>1. OnTheWay' = <<>>
      BY <2>1 DEF OnTheWay
    <3> QED BY <2>1, <3>1, TotalOfNothing DEF PermitsHeld
  <2>5. ReceiptMeansAccepted' /\ SignalsTell'
    <3>1. SignalsTell' /\ \A id \in InputIds : signals'[id] <= 1
      BY <1>0, <2>1 DEF SignalsTell
    <3> QED BY <1>0, <2>1, <3>1, ReceiptsStay
  <2> QED BY <2>3, <2>4, <2>5 DEF InputInv
<1> QED
  BY <1>1, <1>2, <1>3, <1>4

LEMMA InputInitially ==
  ASSUME InputAssumption, InputInit
  PROVE  InputInv
<1>1. InputTypes
  BY DEF InputInit, InputTypes, Nothing
<1>2. OnTheWay = <<>> /\ delivered \o OnTheWay = accepted
  BY DEF InputInit, OnTheWay, Nothing
<1>3. InputFlows /\ WriterTells /\ SignalsTell
  BY <1>2 DEF InputInit, InputFlows, Leads, WriterTells, SignalsTell
<1>4. PermitsHeld
  BY <1>2, TotalOfNothing DEF InputInit, PermitsHeld
<1>5. ReceiptMeansAccepted
  <2>1. InputReceipts = {} /\ DOMAIN accepted = {}
    BY DEF InputInit, InputReceipts
  <2> QED BY <2>1 DEF ReceiptMeansAccepted, InputInit
<1> QED
  BY <1>1, <1>3, <1>4, <1>5 DEF InputInv

LEMMA InputSteps ==
  ASSUME InputAssumption, InputInv, [InputNext]_inputVars
  PROVE  InputInv'
<1>1. CASE InputNext
  BY <1>1, CallerSteps, WriterSteps, ExecutionSteps DEF InputNext
<1>2. CASE UNCHANGED inputVars
  <2>1. UNCHANGED <<rootExited, stdin, queue, held, writer, writing, delivered, eof,
                    inputReceipts, interrupted, signals, inputError, accepted>>
    BY <1>2 DEF inputVars, execution, channel, task, interrupts
  <2>2. InputTypes' /\ WriterTells'
    BY <2>1 DEF InputInv, InputTypes, WriterTells
  <2>3. InputFlows' /\ PermitsHeld'
    BY <2>1 DEF InputInv, InputFlows, OnTheWay, PermitsHeld
  <2>4. ReceiptMeansAccepted' /\ SignalsTell'
    <3>1. SignalsTell' /\ \A id \in InputIds : signals'[id] <= 1
      BY <2>1 DEF InputInv, SignalsTell
    <3> QED BY <2>1, <3>1, ReceiptsStay DEF InputInv
  <2> QED BY <2>2, <2>3, <2>4 DEF InputInv
<1> QED
  BY <1>1, <1>2

LEMMA InputKeepsFaith ==
  ASSUME InputAssumption, InputInv
  PROVE  InputIsFaithful
<1>0. /\ InputTypes /\ InputFlows /\ WriterTells /\ PermitsHeld /\ ReceiptMeansAccepted
  BY DEF InputInv
<1>1. IsPrefix(delivered, accepted)
  <2>1. /\ delivered \in Seq(InputItems) /\ accepted \in Seq(InputItems)
        /\ Len(delivered) \in Nat /\ Len(delivered) <= Len(accepted) /\ Len(accepted) \in Nat
        /\ \A i \in 1 .. Len(delivered) : delivered[i] = accepted[i]
        /\ DOMAIN delivered = 1 .. Len(delivered) /\ DOMAIN accepted = 1 .. Len(accepted)
    BY <1>0, LenProperties DEF InputTypes, InputFlows, Leads
  <2>2. delivered = SubSeq(accepted, 1, Len(delivered))
    <3>1. /\ SubSeq(accepted, 1, Len(delivered)) \in Seq(InputItems)
          /\ Len(SubSeq(accepted, 1, Len(delivered))) = Len(delivered)
          /\ \A i \in 1 .. Len(delivered) :
               SubSeq(accepted, 1, Len(delivered))[i] = accepted[i]
      BY <2>1, SubSeqProperties
    <3> QED BY <2>1, <3>1, SeqEqual
  <2> QED BY <2>1, <2>2 DEF IsPrefix
<1>2. DeliveredInOrder
  BY <1>0, <1>1 DEF InputFlows, DeliveredInOrder
<1>3. LossIsExplained
  BY <1>0 DEF InputFlows, WriterTells, PermitsHeld, LossIsExplained
<1> QED
  BY <1>0, <1>2, <1>3 DEF InputIsFaithful

\* What a process receives is what its callers were given receipts for, once each and in
\* their order; what it will not receive is explained by an exit or an error, and the queue
\* holds permits for what is on its way and nothing else (native/session.rs: write, enqueue,
\* close_input, write_input; native/runtime.rs: interrupt_execution).
THEOREM InputAlwaysFaithful ==
  ASSUME InputAssumption
  PROVE  InputSpec => []InputIsFaithful
<1>1. InputInit => InputInv
  BY InputInitially
<1>2. InputInv /\ [InputNext]_inputVars => InputInv'
  BY InputSteps
<1>3. InputInv => InputIsFaithful
  BY InputKeepsFaith
<1> QED
  BY <1>1, <1>2, <1>3, PTL DEF InputSpec

=============================================================================
