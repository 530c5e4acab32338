-------------------------- MODULE PlacementProofs --------------------------
(***************************************************************************)
(* For every set of nodes and hypervisors and every capacity: the          *)
(* variables keep their types, no hypervisor is overcommitted, a machine   *)
(* runs only where its rows and its disk are and keeps running, and nodes  *)
(* of a policy are kept apart where there is room.                         *)
(*                                                                         *)
(* The cores in use are a sum over the nodes (MapThenSumSet), so the first *)
(* part proves what the rest needs of such sums.  The induction theorems   *)
(* of the library take the property as an operator; here a set of subsets  *)
(* with a minimal member does their work.                                  *)
(***************************************************************************)
EXTENDS Placement, FiniteSetTheorems, WellFoundedInduction, TLAPS

-----------------------------------------------------------------------------
(* Sums over a finite set.                                                 *)

\* Among subsets of a finite set there is a minimal one.
LEMMA MinimalSubset ==
    ASSUME NEW S, IsFiniteSet(S), NEW B \in SUBSET SUBSET S, B # {}
    PROVE  \E T \in B : \A U \in B : U \subseteq T => U = T
<1>1. B \subseteq FiniteSubsetsOf(S)
  BY FS_FiniteSubsetsOfFinite
<1>2. PICK T \in B : \A U \in B : <<U, T>> \notin StrictSubsetOrdering(S)
  BY <1>1, FS_StrictSubsetOrderingWellFounded, WFMin
<1>3. \A U \in B : U \subseteq T => U = T
  BY <1>2 DEF StrictSubsetOrdering
<1>. QED
  BY <1>3

Chosen(s) == CHOOSE x \in s : TRUE

\* The recursion of MapThenSumSet for a function f, and what solves it.
SumStep(f, g, s) == IF s = {} THEN 0 ELSE LET x == CHOOSE x \in s : TRUE IN f[x] + g[s \ {x}]
IsSum(f, S, g) == g = [s \in SUBSET S |-> SumStep(f, g, s)]
Partial(f, S) == CHOOSE g : IsSum(f, S, g)
Total(f, S) == Partial(f, S)[S]

LEMMA SumStepOf ==
    ASSUME NEW f, NEW g, NEW s
    PROVE  /\ s = {} => SumStep(f, g, s) = 0
           /\ s # {} => Chosen(s) \in s /\ SumStep(f, g, s) = f[Chosen(s)] + g[s \ {Chosen(s)}]
<1>1. s # {} => Chosen(s) \in s
  BY DEF Chosen
<1>2. s # {} => SumStep(f, g, s) = f[Chosen(s)] + g[s \ {Chosen(s)}]
  BY DEF SumStep, Chosen
<1>. QED
  BY <1>1, <1>2 DEF SumStep

LEMMA SumIsUnique ==
    ASSUME NEW S, IsFiniteSet(S), NEW f, NEW g, NEW h, IsSum(f, S, g), IsSum(f, S, h)
    PROVE  g = h
<1>. DEFINE B == {s \in SUBSET S : g[s] # h[s]}
<1>0. B \in SUBSET SUBSET S /\ \A s : s \in B <=> s \in SUBSET S /\ g[s] # h[s]
  OBVIOUS
<1>. HIDE DEF B
<1>1. ASSUME B # {} PROVE FALSE
  <2>1. PICK T \in B : \A U \in B : U \subseteq T => U = T
    BY <1>0, <1>1, MinimalSubset
  <2>2. /\ g[T] = SumStep(f, g, T) /\ h[T] = SumStep(f, h, T)
        /\ T \in SUBSET S /\ g[T] # h[T]
    BY <1>0, <2>1 DEF IsSum
  <2>3. T # {} /\ Chosen(T) \in T
    <3>1. CASE T = {}
      <4>1. SumStep(f, g, T) = 0 /\ SumStep(f, h, T) = 0
        BY <3>1, SumStepOf
      <4>. QED
        BY <2>2, <4>1
    <3>2. CASE T # {}
      BY <3>2, SumStepOf
    <3>. QED
      BY <3>1, <3>2
  <2>4. g[T \ {Chosen(T)}] = h[T \ {Chosen(T)}]
    BY <1>0, <2>1, <2>2, <2>3
  <2>5. /\ SumStep(f, g, T) = f[Chosen(T)] + g[T \ {Chosen(T)}]
        /\ SumStep(f, h, T) = f[Chosen(T)] + h[T \ {Chosen(T)}]
    BY <2>3, SumStepOf
  <2>. QED
    BY <2>2, <2>4, <2>5
<1>2. \A s \in SUBSET S : g[s] = h[s]
  BY <1>0, <1>1
<1>3. /\ DOMAIN g = SUBSET S /\ g = [s \in SUBSET S |-> g[s]]
      /\ DOMAIN h = SUBSET S /\ h = [s \in SUBSET S |-> h[s]]
  BY DEF IsSum
<1>. QED
  BY <1>2, <1>3

OnSubsets(g, T) == [s \in SUBSET T |-> g[s]]

LEMMA SumRestricts ==
    ASSUME NEW S, NEW T \in SUBSET S, NEW f, NEW g, IsSum(f, S, g)
    PROVE  IsSum(f, T, OnSubsets(g, T))
<1>. USE DEF OnSubsets
<1>. DEFINE h == OnSubsets(g, T)
<1>1. ASSUME NEW s \in SUBSET T PROVE h[s] = SumStep(f, h, s)
  <2>1. h[s] = SumStep(f, g, s)
    BY DEF IsSum
  <2>2. CASE s = {}
    BY <2>1, <2>2, SumStepOf
  <2>3. CASE s # {}
    <3>1. Chosen(s) \in s
      BY <2>3, SumStepOf
    <3>2. h[s \ {Chosen(s)}] = g[s \ {Chosen(s)}]
      OBVIOUS
    <3>. QED
      BY <2>1, <2>3, <3>2, SumStepOf
  <2>. QED
    BY <2>2, <2>3
<1>. QED
  BY <1>1, Zenon DEF IsSum

\* The recursion has a solution: a least set without one would get one from
\* those of its subsets, which agree with each other.
LEMMA SumExists ==
    ASSUME NEW S, IsFiniteSet(S), NEW f
    PROVE  \E g : IsSum(f, S, g)
<1>. DEFINE B == {T \in SUBSET S : ~\E g : IsSum(f, T, g)}
<1>0. B \in SUBSET SUBSET S /\ \A T : T \in B <=> T \in SUBSET S /\ ~\E g : IsSum(f, T, g)
  OBVIOUS
<1>. HIDE DEF B
<1>1. ASSUME NEW T \in B, \A U \in B : U \subseteq T => U = T PROVE FALSE
  <2>. DEFINE g == [s \in SUBSET T |->
                      IF s = {} THEN 0 ELSE f[Chosen(s)] + Total(f, s \ {Chosen(s)})]
  <2>1. ASSUME NEW U \in SUBSET T, U # T PROVE IsSum(f, U, Partial(f, U)) /\ IsFiniteSet(U)
    <3>1. \E h : IsSum(f, U, h)
      BY <1>0, <1>1, <2>1
    <3>. QED
      BY <1>0, <2>1, <3>1, FS_Subset DEF Partial
  <2>2. ASSUME NEW U \in SUBSET T, U # T PROVE Total(f, U) = g[U]
    <3>1. Total(f, U) = SumStep(f, Partial(f, U), U)
      BY <2>1, <2>2 DEF Total, IsSum
    <3>2. CASE U = {}
      BY <3>1, <3>2, SumStepOf
    <3>3. CASE U # {}
      <4>. DEFINE V == U \ {Chosen(U)}
      <4>1. Chosen(U) \in U /\ V \in SUBSET U /\ V \in SUBSET T /\ V # T
        BY <3>3, SumStepOf
      <4>2. IsSum(f, V, OnSubsets(Partial(f, U), V))
        BY <2>1, <2>2, <4>1, SumRestricts
      <4>3. Partial(f, V) = OnSubsets(Partial(f, U), V)
        BY <2>1, <4>1, <4>2, SumIsUnique
      <4>4. Total(f, V) = Partial(f, U)[V]
        BY <4>3 DEF Total, OnSubsets
      <4>. QED
        BY <3>1, <3>3, <4>4, SumStepOf
    <3>. QED
      BY <3>2, <3>3
  <2>3. ASSUME NEW s \in SUBSET T PROVE g[s] = SumStep(f, g, s)
    <3>1. CASE s = {}
      BY <3>1, SumStepOf
    <3>2. CASE s # {}
      <4>1. Chosen(s) \in s
        BY <3>2, SumStepOf
      <4>2. Total(f, s \ {Chosen(s)}) = g[s \ {Chosen(s)}]
        <5>1. s \ {Chosen(s)} \in SUBSET T /\ s \ {Chosen(s)} # T
          BY <4>1
        <5>. HIDE DEF g
        <5>. QED
          BY <2>2, <5>1
      <4>3. g[s] = f[Chosen(s)] + Total(f, s \ {Chosen(s)})
        BY <3>2
      <4>. HIDE DEF g
      <4>4. SumStep(f, g, s) = f[Chosen(s)] + g[s \ {Chosen(s)}]
        BY <3>2, SumStepOf
      <4>. QED
        BY <4>2, <4>3, <4>4
    <3>. QED
      BY <3>1, <3>2
  <2>4. IsSum(f, T, g)
    BY <2>3, Zenon DEF IsSum
  <2>. QED
    BY <1>0, <2>4
<1>2. B = {}
  BY <1>0, <1>1, MinimalSubset
<1>. QED
  BY <1>0, <1>2

\* The defining equation.
LEMMA TotalStep ==
    ASSUME NEW S, IsFiniteSet(S), NEW f
    PROVE  /\ Total(f, {}) = 0
           /\ S # {} => /\ Chosen(S) \in S
                        /\ Total(f, S) = f[Chosen(S)] + Total(f, S \ {Chosen(S)})
<1>1. ASSUME NEW T, IsFiniteSet(T) PROVE IsSum(f, T, Partial(f, T))
  BY <1>1, SumExists DEF Partial
<1>2. ASSUME NEW T, IsFiniteSet(T) PROVE Total(f, T) = SumStep(f, Partial(f, T), T)
  BY <1>1, <1>2 DEF Total, IsSum
<1>3. Total(f, {}) = 0
  BY <1>2, FS_EmptySet, SumStepOf
<1>4. ASSUME S # {}
      PROVE  Chosen(S) \in S /\ Total(f, S) = f[Chosen(S)] + Total(f, S \ {Chosen(S)})
  <2>. DEFINE V == S \ {Chosen(S)}
  <2>1. Chosen(S) \in S /\ V \in SUBSET S /\ IsFiniteSet(V)
    BY <1>4, SumStepOf, FS_Subset
  <2>2. IsSum(f, V, OnSubsets(Partial(f, S), V))
    BY <1>1, <2>1, SumRestricts
  <2>3. Partial(f, V) = OnSubsets(Partial(f, S), V)
    BY <1>1, <2>1, <2>2, SumIsUnique
  <2>4. Total(f, V) = Partial(f, S)[V]
    BY <2>3 DEF Total, OnSubsets
  <2>. QED
    BY <1>2, <1>4, <2>1, <2>4, SumStepOf
<1>. QED
  BY <1>3, <1>4

LEMMA TotalIsNat ==
    ASSUME NEW S, IsFiniteSet(S), NEW f, \A x \in S : f[x] \in Nat
    PROVE  \A T \in SUBSET S : Total(f, T) \in Nat
<1>. DEFINE B == {T \in SUBSET S : Total(f, T) \notin Nat}
<1>0. B \in SUBSET SUBSET S /\ \A T : T \in B <=> T \in SUBSET S /\ Total(f, T) \notin Nat
  OBVIOUS
<1>. HIDE DEF B
<1>1. ASSUME NEW T \in B, \A U \in B : U \subseteq T => U = T PROVE FALSE
  <2>1. T \in SUBSET S /\ IsFiniteSet(T) /\ Total(f, T) \notin Nat
    BY <1>0, FS_Subset
  <2>2. T # {}
    BY <2>1, TotalStep
  <2>3. Chosen(T) \in T /\ Total(f, T) = f[Chosen(T)] + Total(f, T \ {Chosen(T)})
    BY <2>1, <2>2, TotalStep
  <2>4. Total(f, T \ {Chosen(T)}) \in Nat /\ f[Chosen(T)] \in Nat
    BY <1>0, <1>1, <2>1, <2>3
  <2>. QED
    BY <2>1, <2>3, <2>4
<1>2. B = {}
  BY <1>0, <1>1, MinimalSubset
<1>. QED
  BY <1>0, <1>2

\* Any element may be taken out first.
LEMMA TotalWithout ==
    ASSUME NEW S, IsFiniteSet(S), NEW f, \A x \in S : f[x] \in Nat, NEW e \in S
    PROVE  Total(f, S) = f[e] + Total(f, S \ {e})
<1>. DEFINE Bad(T) == \E x \in T : Total(f, T) # f[x] + Total(f, T \ {x})
            B == {T \in SUBSET S : Bad(T)}
<1>0. B \in SUBSET SUBSET S /\ \A T : T \in B <=> T \in SUBSET S /\ Bad(T)
  OBVIOUS
<1>. HIDE DEF B
<1>1. ASSUME NEW T \in B, \A U \in B : U \subseteq T => U = T PROVE FALSE
  <2>1. T \in SUBSET S /\ IsFiniteSet(T)
    BY <1>0, FS_Subset
  <2>2. PICK x \in T : Total(f, T) # f[x] + Total(f, T \ {x})
    BY <1>0
  <2>. DEFINE c == Chosen(T)
              V == T \ {c, x}
  <2>3. c \in T /\ Total(f, T) = f[c] + Total(f, T \ {c})
    BY <2>1, <2>2, TotalStep
  <2>. HIDE DEF c
  <2>4. c # x
    BY <2>2, <2>3
  <2>5. Total(f, T \ {c}) = f[x] + Total(f, (T \ {c}) \ {x})
    BY <1>0, <1>1, <2>1, <2>3, <2>4
  <2>6. Total(f, T \ {x}) = f[c] + Total(f, (T \ {x}) \ {c})
    BY <1>0, <1>1, <2>1, <2>3, <2>4
  <2>7. (T \ {c}) \ {x} = V /\ (T \ {x}) \ {c} = V
    OBVIOUS
  <2>8. Total(f, V) \in Nat /\ f[x] \in Nat /\ f[c] \in Nat
    BY <2>1, <2>3, TotalIsNat
  <2>. QED
    BY <2>2, <2>3, <2>5, <2>6, <2>7, <2>8
<1>2. B = {}
  BY <1>0, <1>1, MinimalSubset
<1>. QED
  BY <1>0, <1>2

LEMMA TotalAgrees ==
    ASSUME NEW S, IsFiniteSet(S), NEW f, NEW g, \A x \in S : f[x] = g[x]
    PROVE  Total(f, S) = Total(g, S)
<1>. DEFINE B == {T \in SUBSET S : Total(f, T) # Total(g, T)}
<1>0. B \in SUBSET SUBSET S /\ \A T : T \in B <=> T \in SUBSET S /\ Total(f, T) # Total(g, T)
  OBVIOUS
<1>. HIDE DEF B
<1>1. ASSUME NEW T \in B, \A U \in B : U \subseteq T => U = T PROVE FALSE
  <2>1. T \in SUBSET S /\ IsFiniteSet(T) /\ Total(f, T) # Total(g, T)
    BY <1>0, FS_Subset
  <2>2. T # {}
    BY <2>1, TotalStep
  <2>3. /\ Chosen(T) \in T
        /\ Total(f, T) = f[Chosen(T)] + Total(f, T \ {Chosen(T)})
        /\ Total(g, T) = g[Chosen(T)] + Total(g, T \ {Chosen(T)})
    BY <2>1, <2>2, TotalStep
  <2>4. /\ Total(f, T \ {Chosen(T)}) = Total(g, T \ {Chosen(T)})
        /\ f[Chosen(T)] = g[Chosen(T)]
    BY <1>0, <1>1, <2>1, <2>3
  <2>. QED
    BY <2>1, <2>3, <2>4
<1>2. B = {}
  BY <1>0, <1>1, MinimalSubset
<1>. QED
  BY <1>0, <1>2

\* One summand changes.
LEMMA TotalChanged ==
    ASSUME NEW S, IsFiniteSet(S), NEW f, NEW g, NEW e \in S,
           \A x \in S : f[x] \in Nat, g[e] \in Nat, \A x \in S \ {e} : g[x] = f[x]
    PROVE  Total(g, S) = Total(f, S) - f[e] + g[e]
<1>1. IsFiniteSet(S \ {e})
  BY FS_Subset
<1>2. Total(g, S \ {e}) = Total(f, S \ {e})
  BY <1>1, TotalAgrees
<1>3. Total(f, S) = f[e] + Total(f, S \ {e}) /\ Total(g, S) = g[e] + Total(g, S \ {e})
  BY TotalWithout
<1>4. Total(f, S \ {e}) \in Nat /\ f[e] \in Nat
  BY TotalIsNat
<1>. QED
  BY <1>2, <1>3, <1>4

\* At most D of the summands are positive, and none exceeds K.
LEMMA TotalBound ==
    ASSUME NEW S, IsFiniteSet(S), NEW f, NEW K \in Nat, NEW D \in SUBSET S,
           \A x \in S : f[x] \in 0 .. K, \A x \in S \ D : f[x] = 0
    PROVE  Total(f, S) <= K * Cardinality(D)
<1>. DEFINE Fine(T) == Total(f, T) <= K * Cardinality(T \intersect D)
            B == {T \in SUBSET S : ~Fine(T)}
<1>0. B \in SUBSET SUBSET S /\ \A T : T \in B <=> T \in SUBSET S /\ ~Fine(T)
  OBVIOUS
<1>. HIDE DEF B
<1>1. ASSUME NEW T \in B, \A U \in B : U \subseteq T => U = T PROVE FALSE
  <2>1. T \in SUBSET S /\ IsFiniteSet(T) /\ ~Fine(T)
    BY <1>0, FS_Subset
  <2>2. T # {}
    <3>1. ASSUME T = {} PROVE Fine(T)
      <4>1. Cardinality(T \intersect D) = 0 /\ Total(f, T) = 0
        BY <3>1, TotalStep, FS_EmptySet
      <4>. QED
        BY <4>1
    <3>. QED
      BY <2>1, <3>1
  <2>. DEFINE c == Chosen(T)
              V == T \ {c}
  <2>3. c \in T /\ Total(f, T) = f[c] + Total(f, V)
    BY <2>1, <2>2, TotalStep
  <2>. HIDE DEF c
  <2>4. V \in SUBSET S /\ V \subseteq T /\ V # T /\ IsFiniteSet(V) /\ IsFiniteSet(V \intersect D)
    BY <2>1, <2>3, FS_Subset
  <2>5. Total(f, V) <= K * Cardinality(V \intersect D)
    BY <1>0, <1>1, <2>4
  <2>6. Total(f, V) \in Nat /\ f[c] \in 0 .. K /\ Cardinality(V \intersect D) \in Nat
    BY <2>1, <2>3, <2>4, TotalIsNat, FS_CardinalityType
  <2>7. CASE c \in D
    <3>1. T \intersect D = (V \intersect D) \union {c} /\ c \notin V \intersect D
      BY <2>3, <2>7
    <3>2. Cardinality(T \intersect D) = Cardinality(V \intersect D) + 1
      BY <2>4, <3>1, FS_AddElement
    <3>3. K * (Cardinality(V \intersect D) + 1) = K * Cardinality(V \intersect D) + K
      BY <2>6
    <3>4. K * Cardinality(V \intersect D) \in Nat
      BY <2>6
    <3>. QED
      BY <2>1, <2>3, <2>5, <2>6, <3>2, <3>3, <3>4
  <2>8. CASE c \notin D
    <3>1. T \intersect D = V \intersect D
      BY <2>8
    <3>2. f[c] = 0
      BY <2>1, <2>3, <2>8
    <3>3. Total(f, T) = Total(f, V)
      BY <2>3, <2>6, <3>2
    <3>. QED
      BY <2>1, <2>5, <3>1, <3>3
  <2>. QED
    BY <2>7, <2>8
<1>2. B = {}
  BY <1>0, <1>1, MinimalSubset
<1>3. S \intersect D = D
  OBVIOUS
<1>. QED
  BY <1>0, <1>2, <1>3

-----------------------------------------------------------------------------
(* Types, and what the agent remembers of its capacity.                    *)

\* The cores in use are such a sum, before and after a step.
LEMMA UsedIsTotal ==
    ASSUME NEW CONSTANT p
    PROVE  Used(p) = Total(dpm[p], Nodes) /\ Used(p)' = Total(dpm'[p], Nodes)
BY DEF Used, MapThenSumSet, MapThenFoldSet, Total, Partial, SumStep, IsSum

AgentTurns == {"agent_volumes", "agent_machines"}

\* What the agent takes for free is free, after every step of its iteration.
MemoryInv ==
    turn \in AgentTurns =>
        /\ DOMAIN free = managed
        /\ \A p \in DOMAIN free : /\ free[p].cores + Used(p) <= cap[p].cores
                                  /\ free[p].store + Cardinality(dpv[p]) <= cap[p].store

\* The scheduler handles only nodes it has read.
ReadInv == turn = "placing" => todo \subseteq DOMAIN got /\ DOMAIN placed \subseteq DOMAIN got

TypeInv == TypeOK /\ NotOvercommitted /\ MemoryInv /\ ReadInv

LEMMA UsedIsNat ==
    ASSUME TypeOK, NEW p \in Pools
    PROVE  Used(p) \in Nat /\ Cardinality(dpv[p]) \in Nat /\ cap[p].cores \in Nat /\ cap[p].store \in Nat
<1>1. \A n \in Nodes : dpm[p][n] \in Nat
  BY DEF TypeOK
<1>2. Total(dpm[p], Nodes) \in Nat
  BY <1>1, PlacementAssumption, TotalIsNat
<1>3. IsFiniteSet(dpv[p])
  BY PlacementAssumption, FS_Subset DEF TypeOK
<1>4. cap \in [Pools -> [cores : Nat, store : Nat]]
  BY PlacementAssumption DEF TypeOK
<1>. QED
  BY <1>2, <1>3, <1>4, UsedIsTotal, FS_CardinalityType

\* Nothing of what these parts speak about changes.
LEMMA KeptMemory ==
    ASSUME NotOvercommitted, MemoryInv, cap' = cap, dpm' = dpm, dpv' = dpv,
           \/ turn' \notin AgentTurns
           \/ turn' = turn /\ free' = free /\ managed' = managed
    PROVE  NotOvercommitted' /\ MemoryInv'
<1>1. \A p : Used(p)' = Used(p)
  BY UsedIsTotal
<1>2. NotOvercommitted'
  BY <1>1 DEF NotOvercommitted
<1>3. MemoryInv'
  BY <1>1 DEF MemoryInv
<1>. QED
  BY <1>2, <1>3

\* The type, a group of variables at a time.
AskedType == cap \in Caps /\ cores \in [Nodes -> 0 .. MaxCores] /\ gone \subseteq Nodes
RowsType ==
    /\ port \subseteq Nodes /\ managed \subseteq Pools
    /\ machine \in [Nodes -> Place \union {NoRow}]
    /\ vol \in [Nodes -> Disk \union {NoRow}]
    /\ row \in [Pools -> Avail \union {NoRow}]
TargetsType ==
    /\ PartialFunction(nres, Nodes, 1 .. MaxCores)
    /\ PartialFunction(mres, Nodes, Place)
    /\ PartialFunction(vres, Nodes, Disk)
HostType ==
    /\ rep \in [Pools -> Avail \union {NoRow}]
    /\ dpm \in [Pools -> [Nodes -> 0 .. MaxCores]]
    /\ dpv \in [Pools -> SUBSET Nodes]
LocalsType ==
    /\ todo \subseteq Nodes
    /\ PartialFunction(free, Pools, Avail)
    /\ PartialFunction(got, Nodes, 1 .. MaxCores)
    /\ PartialFunction(placed, Nodes, Place)
    /\ aborted \in BOOLEAN
TurnType == turn \in Turns /\ events \in 0 .. MaxEvents

LEMMA TypeParts ==
    /\ TypeOK => AskedType /\ RowsType /\ TargetsType /\ HostType /\ LocalsType /\ TurnType
    /\ AskedType' /\ RowsType' /\ TargetsType' /\ HostType' /\ LocalsType' /\ TurnType' => TypeOK'
    /\ AskedType /\ RowsType /\ TargetsType /\ HostType /\ LocalsType /\ TurnType => TypeOK
BY DEF TypeOK, AskedType, RowsType, TargetsType, HostType, LocalsType, TurnType

\* A group keeps its type when its variables keep their values.
LEMMA KeptTypes ==
    ASSUME TypeOK
    PROVE  /\ UNCHANGED <<cap, asked>> => AskedType'
           /\ UNCHANGED rows => RowsType'
           /\ UNCHANGED targets => TargetsType'
           /\ UNCHANGED <<dpm, dpv, rep>> => HostType'
           /\ UNCHANGED locals => LocalsType'
           /\ turn' \in Turns /\ UNCHANGED events => TurnType'
           /\ turn' \in Turns /\ Tick => TurnType'
<1>1. UNCHANGED <<cap, asked>> => AskedType'
  BY DEF TypeOK, AskedType, asked
<1>2. UNCHANGED rows => RowsType'
  BY DEF TypeOK, RowsType, rows
<1>3. UNCHANGED targets => TargetsType'
  BY DEF TypeOK, TargetsType, targets, PartialFunction
<1>4. UNCHANGED <<dpm, dpv, rep>> => HostType'
  BY DEF TypeOK, HostType
<1>5. UNCHANGED locals => LocalsType'
  BY DEF TypeOK, LocalsType, locals, PartialFunction
<1>6. /\ turn' \in Turns /\ UNCHANGED events => TurnType'
      /\ turn' \in Turns /\ Tick => TurnType'
  BY PlacementAssumption DEF TypeOK, TurnType, Tick
<1>. QED
  BY <1>1, <1>2, <1>3, <1>4, <1>5, <1>6

LEMMA EmptyType == \A S, T : PartialFunction(Empty, S, T)
BY DEF Empty, PartialFunction

LEMMA InitTypeInv == Init => TypeInv
<1>. SUFFICES ASSUME Init PROVE TypeInv
  OBVIOUS
<1>1. TypeOK
  <2>1. AskedType /\ RowsType /\ TurnType
    BY PlacementAssumption DEF Init, AskedType, RowsType, TurnType, Turns
  <2>2. HostType
    BY PlacementAssumption DEF Init, HostType
  <2>3. TargetsType /\ LocalsType
    BY EmptyType DEF Init, TargetsType, LocalsType
  <2>. QED
    BY <2>1, <2>2, <2>3, TypeParts
<1>2. ASSUME NEW p \in Pools PROVE Used(p) = 0 /\ Cardinality(dpv[p]) = 0
  <2>1. \A n \in Nodes : dpm[p][n] = 0
    BY DEF Init
  <2>2. Total(dpm[p], Nodes) <= 0 * Cardinality({})
    BY <2>1, PlacementAssumption, TotalBound
  <2>3. Cardinality(dpv[p]) = 0 /\ Cardinality({}) = 0
    BY FS_EmptySet DEF Init
  <2>. QED
    BY <1>1, <2>2, <2>3, UsedIsTotal, UsedIsNat
<1>3. NotOvercommitted
  BY <1>1, <1>2, UsedIsNat DEF NotOvercommitted
<1>4. MemoryInv /\ ReadInv
  BY DEF Init, MemoryInv, ReadInv, AgentTurns
<1>. QED
  BY <1>1, <1>3, <1>4 DEF TypeInv

LEMMA UserTypeInv == TypeInv /\ User => TypeInv'
<1>. SUFFICES ASSUME TypeInv, User PROVE TypeInv'
  OBVIOUS
<1>. USE DEF asked, rows, targets, host, locals, Tick
<1>0. TypeOK
  BY DEF TypeInv
<1>1. ASSUME NEW n \in Nodes, DeleteNode(n) PROVE TypeInv'
  <2>1. AskedType' /\ RowsType'
    BY <1>1, TypeParts DEF DeleteNode, TypeInv, AskedType, RowsType
  <2>2. TargetsType' /\ HostType' /\ LocalsType' /\ TurnType'
    BY <1>0, <1>1, TypeParts, KeptTypes DEF DeleteNode, TurnType
  <2>. QED
    BY <1>1, <2>1, <2>2, TypeParts, KeptMemory DEF DeleteNode, TypeInv, ReadInv
<1>2. ASSUME NEW n \in Nodes, NEW c \in 1 .. MaxCores, CreateNode(n, c) \/ ResizeNode(n, c)
      PROVE  TypeInv'
  <2>1. AskedType'
    BY <1>2, TypeParts, PlacementAssumption DEF CreateNode, ResizeNode, TypeInv, AskedType
  <2>2. RowsType' /\ TargetsType' /\ HostType' /\ LocalsType' /\ TurnType'
    BY <1>0, <1>2, TypeParts, KeptTypes DEF CreateNode, ResizeNode, TurnType
  <2>. QED
    BY <1>2, <2>1, <2>2, TypeParts, KeptMemory DEF CreateNode, ResizeNode, TypeInv, ReadInv
<1>. QED
  BY <1>1, <1>2 DEF User

LEMMA CrashTypeInv == TypeInv /\ Crash => TypeInv'
<1>. SUFFICES ASSUME TypeInv, Crash PROVE TypeInv'
  OBVIOUS
<1>. USE DEF asked, rows, targets, host, locals, Tick
<1>0. TypeOK
  BY DEF TypeInv
<1>1. TypeOK'
  <2>1. LocalsType'
    BY EmptyType DEF Crash, Restarted, LocalsType, PartialFunction
  <2>2. AskedType' /\ RowsType' /\ TargetsType' /\ HostType' /\ TurnType'
    BY <1>0, KeptTypes DEF Crash, Restarted, Turns
  <2>. QED
    BY <2>1, <2>2, TypeParts
<1>2. ReadInv' /\ turn' \notin AgentTurns
  BY DEF Crash, Restarted, ReadInv, AgentTurns
<1>. QED
  BY <1>1, <1>2, KeptMemory DEF Crash, TypeInv

\* What a placement does, without the operator Update.
Placing(n, p) ==
    /\ turn = "placing" /\ n \in todo /\ ~aborted /\ n \notin gone /\ p \in Suitable(n)
    /\ p \in DOMAIN free /\ free[p].cores >= got[n]
    /\ todo' = todo \ {n} /\ aborted' = (vol[n] # NoRow)
    /\ free' = [free EXCEPT ![p].cores = @ - got[n]]
    /\ DOMAIN placed' = DOMAIN placed \union {n}
    /\ placed' = [k \in DOMAIN placed' |->
                     IF k = n THEN [pool |-> p, cores |-> got[k]] ELSE placed[k]]
    /\ UNCHANGED <<asked, rows, targets, host, turn, got, events>>

LEMMA PlaceNodeStep ==
    ASSUME NEW n \in Nodes, NEW p \in Pools, PlaceNode(n, p)
    PROVE  Placing(n, p)
<1>1. placed' = [k \in DOMAIN placed \union {n} |->
                    IF k \in {n} THEN [pool |-> p, cores |-> got[k]] ELSE placed[k]]
  BY DEF PlaceNode, Update
<1>2. p \in Suitable(n)
  BY Zenon DEF PlaceNode
<1>3. p \in DOMAIN free /\ free[p].cores >= got[n]
  BY <1>2 DEF Suitable, Apart
<1>. QED
  BY <1>1, <1>2, <1>3 DEF PlaceNode, Placing, Update

LEMMA SchedulerTypeInv == TypeInv /\ Scheduler => TypeInv'
<1>. SUFFICES ASSUME TypeInv, Scheduler PROVE TypeInv'
  OBVIOUS
<1>. USE DEF asked, rows, targets, host, locals
<1>0. TypeOK
  BY DEF TypeInv
<1>1. CASE ScheduleBegin
  <2>1. AskedType' /\ RowsType' /\ TargetsType' /\ HostType' /\ TurnType'
    BY <1>0, <1>1, KeptTypes DEF ScheduleBegin, Turns
  <2>2. Unscheduled \subseteq Nodes /\ \A n \in Unscheduled : cores[n] \in 1 .. MaxCores
    BY PlacementAssumption, TypeParts, <1>0 DEF Unscheduled, Live, AskedType
  <2>3. PartialFunction(got', Nodes, 1 .. MaxCores) /\ DOMAIN got' = Unscheduled
    BY <1>0, <1>1, <2>2, TypeParts DEF ScheduleBegin, AskedType, PartialFunction, Restricted
  <2>4. PartialFunction(free', Pools, Avail)
    BY <1>0, <1>1, TypeParts DEF ScheduleBegin, RowsType, PartialFunction, Restricted
  <2>5. PartialFunction(placed', Nodes, Place) /\ DOMAIN placed' = {}
    BY <1>1, EmptyType DEF ScheduleBegin, Empty
  <2>6. LocalsType'
    BY <1>1, <2>2, <2>3, <2>4, <2>5 DEF ScheduleBegin, LocalsType, PartialFunction
  <2>7. ReadInv' /\ turn' \notin AgentTurns
    BY <1>1, <2>3, <2>5 DEF ScheduleBegin, ReadInv, AgentTurns
  <2>. QED
    BY <1>1, <2>1, <2>6, <2>7, TypeParts, KeptMemory DEF ScheduleBegin, TypeInv
<1>2. CASE ScheduleCommit
  <2>1. TargetsType' /\ HostType' /\ TurnType'
    BY <1>0, <1>2, KeptTypes DEF ScheduleCommit, Turns
  <2>2. LocalsType'
    BY <1>0, <1>2, TypeParts, EmptyType DEF ScheduleCommit, LocalsType, PartialFunction
  <2>. DEFINE done == IF aborted THEN {} ELSE DOMAIN placed
  <2>3. done \subseteq Nodes /\ done \subseteq DOMAIN placed /\ done \subseteq DOMAIN got
    BY <1>0, <1>2, TypeParts DEF ScheduleCommit, TypeInv, ReadInv, LocalsType, PartialFunction
  <2>. HIDE DEF done
  <2>4. \A n \in done : placed[n] \in Place /\ placed[n].pool \in Pools /\ got[n] \in 1 .. MaxCores
    BY <1>0, <2>3, TypeParts DEF LocalsType, PartialFunction, Place
  <2>5. 1 .. MaxCores \subseteq 0 .. MaxCores
    BY PlacementAssumption
  <2>6. /\ cores' = Update(cores, done, LAMBDA n : got[n])
        /\ machine' = Update(machine, done, LAMBDA n : placed[n])
        /\ vol' = Update(vol, done, LAMBDA n : RootVolume(placed[n].pool))
    BY <1>2 DEF ScheduleCommit, done
  <2>7. cores' \in [Nodes -> 0 .. MaxCores]
    BY <1>0, <2>3, <2>4, <2>5, <2>6, TypeParts DEF AskedType, Update
  <2>8. AskedType'
    BY <1>0, <1>2, <2>7, TypeParts DEF ScheduleCommit, AskedType
  <2>9. machine' \in [Nodes -> Place \union {NoRow}]
    BY <1>0, <2>3, <2>4, <2>6, TypeParts DEF RowsType, Update
  <2>10. vol' \in [Nodes -> Disk \union {NoRow}]
    BY <1>0, <2>3, <2>4, <2>6, TypeParts DEF RowsType, Update, RootVolume, Disk
  <2>11. RowsType'
    BY <1>0, <1>2, <2>9, <2>10, TypeParts DEF ScheduleCommit, RowsType, Assigned
  <2>12. ReadInv' /\ turn' \notin AgentTurns
    BY <1>2 DEF ScheduleCommit, ReadInv, AgentTurns
  <2>. QED
    BY <1>2, <2>1, <2>2, <2>8, <2>11, <2>12, TypeParts, KeptMemory DEF ScheduleCommit, TypeInv
<1>3. ASSUME NEW n \in Nodes, SchedulePass(n) PROVE TypeInv'
  <2>1. AskedType' /\ RowsType' /\ TargetsType' /\ HostType' /\ TurnType'
    BY <1>0, <1>3, TypeParts, KeptTypes DEF SchedulePass, TurnType
  <2>2. LocalsType'
    BY <1>0, <1>3, TypeParts DEF SchedulePass, LocalsType, PartialFunction
  <2>3. ReadInv' /\ turn' \notin AgentTurns
    BY <1>3 DEF SchedulePass, TypeInv, ReadInv, AgentTurns
  <2>. QED
    BY <1>3, <2>1, <2>2, <2>3, TypeParts, KeptMemory DEF SchedulePass, TypeInv
<1>4. ASSUME NEW n \in Nodes, NEW p \in Pools, PlaceNode(n, p) PROVE TypeInv'
  <2>0. Placing(n, p)
    BY <1>4, PlaceNodeStep
  <2>1. AskedType' /\ RowsType' /\ TargetsType' /\ HostType' /\ TurnType'
    BY <1>0, <2>0, TypeParts, KeptTypes DEF Placing, TurnType
  <2>2. n \in DOMAIN got /\ got[n] \in 1 .. MaxCores
    BY <1>0, <2>0, TypeParts DEF Placing, TypeInv, ReadInv, LocalsType, PartialFunction
  <2>4. free[p] \in Avail /\ free[p].cores - got[n] \in Nat
    BY <1>0, <2>0, <2>2, TypeParts, PlacementAssumption DEF Placing, LocalsType, PartialFunction, Avail
  <2>5. PartialFunction(free', Pools, Avail)
    BY <1>0, <2>0, <2>4, TypeParts DEF Placing, LocalsType, PartialFunction, Avail
  <2>8. \A k \in DOMAIN placed' : placed'[k] \in Place
    BY <1>0, <2>2, <2>0, TypeParts DEF Placing, LocalsType, PartialFunction, Place
  <2>9. PartialFunction(placed', Nodes, Place)
    BY <1>0, <2>0, <2>8, TypeParts DEF Placing, LocalsType, PartialFunction
  <2>10. LocalsType'
    BY <1>0, <2>0, <2>5, <2>9, TypeParts DEF Placing, LocalsType, PartialFunction
  <2>11. ReadInv' /\ turn' \notin AgentTurns
    BY <2>0, <2>2 DEF Placing, TypeInv, ReadInv, AgentTurns
  <2>. QED
    BY <2>0, <2>1, <2>10, <2>11, TypeParts, KeptMemory DEF Placing, TypeInv
<1>. QED
  BY <1>1, <1>2, <1>3, <1>4 DEF Scheduler

Builders == Network \/ BuildPools \/ BuildVolumes \/ BuildMachines \/ BuildNodes

\* None of the builders runs while the agent or the scheduler does.
BuildersFrame ==
    /\ turn \in Turns \ ({"placing"} \union AgentTurns)
    /\ turn' \in Turns \ ({"placing"} \union AgentTurns)
    /\ UNCHANGED <<cap, asked, host, locals, events>>

LEMMA BuildersElsewhere == Builders => BuildersFrame
<1>. USE DEF asked, rows, targets, host, locals, Turns, AgentTurns
<1>1. Network => BuildersFrame
  BY DEF Network, BuildersFrame
<1>2. BuildPools => BuildersFrame
  BY DEF BuildPools, BuildersFrame
<1>3. BuildVolumes => BuildersFrame
  BY DEF BuildVolumes, BuildersFrame
<1>4. BuildMachines => BuildersFrame
  BY DEF BuildMachines, BuildersFrame, Update
<1>5. BuildNodes => BuildersFrame
  BY DEF BuildNodes, BuildersFrame, Update
<1>. QED
  BY <1>1, <1>2, <1>3, <1>4, <1>5 DEF Builders

\* What the machine builder does to rows and targets.
Built ==
    LET created == {n \in NewMachines \ Rescheduled : DepsReady(n)}
        updated == Changed \ CannotGrow
        kept == {n \in DOMAIN mres : machine[n] # NoRow} \ Rescheduled
    IN  /\ mres' = [n \in kept \union created |->
                       IF n \in created \union updated THEN machine[n] ELSE mres[n]]
        /\ machine' = [n \in DOMAIN machine \union Rescheduled |->
                          IF n \in Rescheduled THEN NoRow ELSE machine[n]]
        /\ vol' = [n \in DOMAIN vol \union {k \in Rescheduled : vol[k] # NoRow} |->
                      IF n \in {k \in Rescheduled : vol[k] # NoRow}
                      THEN [vol[n] EXCEPT !.attached = FALSE] ELSE vol[n]]
        /\ UNCHANGED <<port, managed, row, nres, vres>>

LEMMA BuiltStep == BuildMachines => Built /\ turn = "machines" /\ turn' = "nodes"
BY DEF BuildMachines, Built, Update

\* What the node builder does to rows and targets.
Carried ==
    LET created == {n \in Live \ DOMAIN nres : n \in DOMAIN mres}
        updated == {n \in Live \intersect DOMAIN nres : nres[n] # cores[n]}
        moved == {n \in updated : machine[n] # NoRow}
    IN  /\ nres' = [n \in created \union (Live \intersect DOMAIN nres) |-> cores[n]]
        /\ machine' = [n \in DOMAIN machine \union moved |->
                          IF n \in moved THEN [machine[n] EXCEPT !.cores = cores[n]]
                          ELSE machine[n]]
        /\ UNCHANGED <<port, vol, managed, row, mres, vres>>

LEMMA CarriedStep == BuildNodes => Carried /\ turn = "nodes" /\ turn' = "agent"
BY DEF BuildNodes, Carried, Update

LEMMA BuildersTypeInv == TypeInv /\ Builders => TypeInv'
<1>. SUFFICES ASSUME TypeInv, Builders PROVE TypeInv'
  OBVIOUS
<1>0. TypeOK
  BY DEF TypeInv
<1>1. AskedType' /\ HostType' /\ LocalsType' /\ TurnType'
  BY <1>0, BuildersElsewhere, KeptTypes DEF BuildersFrame, host
<1>2. ASSUME Network PROVE RowsType' /\ TargetsType'
  <2>1. Live \subseteq Nodes
    BY DEF Live
  <2>. QED
    BY <1>0, <1>2, <2>1, TypeParts, KeptTypes DEF Network, RowsType
<1>3. ASSUME BuildPools PROVE RowsType' /\ TargetsType'
  <2>1. RowsType'
    BY <1>0, <1>3, TypeParts DEF BuildPools, RowsType, HostType
  <2>2. TargetsType'
    BY <1>0, <1>3, KeptTypes DEF BuildPools
  <2>. QED
    BY <2>1, <2>2
<1>4. ASSUME BuildVolumes PROVE RowsType' /\ TargetsType'
  <2>1. RowsType'
    BY <1>0, <1>4, TypeParts DEF BuildVolumes, RowsType
  <2>2. TargetsType'
    BY <1>0, <1>4, TypeParts DEF BuildVolumes, RowsType, TargetsType, PartialFunction
  <2>. QED
    BY <2>1, <2>2
<1>5. ASSUME BuildMachines PROVE RowsType' /\ TargetsType'
  <2>1. Built
    BY <1>5, BuiltStep
  <2>2. NewMachines \subseteq Nodes /\ Rescheduled \subseteq Nodes
    BY DEF NewMachines, Rescheduled, NotEnough
  <2>3. machine' \in [Nodes -> Place \union {NoRow}]
    BY <1>0, <2>1, <2>2, TypeParts DEF Built, RowsType
  <2>4. \A n \in Nodes : vol[n] # NoRow => [vol[n] EXCEPT !.attached = FALSE] \in Disk
    BY <1>0, TypeParts DEF RowsType, Disk
  <2>5. vol' \in [Nodes -> Disk \union {NoRow}]
    BY <1>0, <2>1, <2>2, <2>4, TypeParts DEF Built, RowsType
  <2>6. RowsType'
    BY <1>0, <2>1, <2>3, <2>5, TypeParts DEF Built, RowsType
  <2>7. DOMAIN mres' \subseteq Nodes
    BY <1>0, <2>1, <2>2, TypeParts DEF Built, TargetsType, PartialFunction
  <2>8. \A n \in DOMAIN mres' :
        \/ mres'[n] = machine[n] /\ machine[n] # NoRow
        \/ n \in DOMAIN mres /\ mres'[n] = mres[n]
    BY <2>1 DEF Built, NewMachines, Changed
  <2>9. mres' \in [DOMAIN mres' -> Place]
    <3>1. \A n \in DOMAIN mres' : mres'[n] \in Place
      BY <1>0, <2>7, <2>8, TypeParts DEF RowsType, TargetsType, PartialFunction
    <3>. QED
      BY <2>1, <3>1 DEF Built
  <2>10. TargetsType'
    BY <1>0, <2>1, <2>7, <2>9, TypeParts DEF Built, TargetsType, PartialFunction
  <2>. QED
    BY <2>6, <2>10
<1>6. ASSUME BuildNodes PROVE RowsType' /\ TargetsType'
  <2>1. Carried
    BY <1>6, CarriedStep
  <2>2. Live \subseteq Nodes /\ \A n \in Live : cores[n] \in 1 .. MaxCores
    BY <1>0, TypeParts, PlacementAssumption DEF Live, AskedType
  <2>3. \A n \in Live : machine[n] # NoRow => [machine[n] EXCEPT !.cores = cores[n]] \in Place
    BY <1>0, <2>2, TypeParts DEF RowsType, Place
  <2>4. machine' \in [Nodes -> Place \union {NoRow}]
    BY <1>0, <2>1, <2>2, <2>3, TypeParts DEF Carried, RowsType
  <2>5. RowsType'
    BY <1>0, <2>1, <2>4, TypeParts DEF Carried, RowsType
  <2>6. TargetsType'
    BY <1>0, <2>1, <2>2, TypeParts DEF Carried, TargetsType, PartialFunction
  <2>. QED
    BY <2>5, <2>6
<1>7. RowsType' /\ TargetsType'
  BY <1>2, <1>3, <1>4, <1>5, <1>6 DEF Builders
<1>8. ReadInv' /\ turn' \notin AgentTurns
  BY BuildersElsewhere DEF BuildersFrame, ReadInv
<1>. QED
  BY <1>1, <1>7, <1>8, BuildersElsewhere, TypeParts, KeptMemory DEF BuildersFrame, TypeInv, host

-----------------------------------------------------------------------------
(* The agent never takes more than there is.                               *)

\* What the agent does with a disk; the hypervisors it makes it or leaves it on.
Made(n) == {p \in managed : /\ n \in DOMAIN vres /\ vres[n].pool = p
                            /\ n \notin dpv[p] /\ free[p].store >= 1}
Left(n) == {p \in Pools : n \in DOMAIN vres /\ vres[n].pool = p}
AgentActs == turn \in AgentTurns /\ turn # "placing"
HandlesDisk(n) ==
    /\ AgentActs /\ todo' \subseteq todo
    /\ dpv' = [p \in Pools |-> IF p \in Made(n) THEN dpv[p] \union {n}
                               ELSE IF p \in Left(n) THEN dpv[p] ELSE dpv[p] \ {n}]
    /\ free' = [p \in DOMAIN free |->
                   IF p \in Made(n) THEN [free[p] EXCEPT !.store = @ - 1] ELSE free[p]]
    /\ UNCHANGED <<asked, rows, targets, cap, dpm, rep, turn, got, placed, aborted, events>>

LEMMA HandlesDiskStep ==
    ASSUME NEW n \in Nodes, AgentVolume(n)
    PROVE  HandlesDisk(n)
<1>. USE DEF asked, rows, targets, host, locals
<1>1. /\ turn = "agent_volumes" /\ todo' = todo \ {n}
      /\ UNCHANGED <<asked, rows, targets, cap, dpm, rep, turn, got, placed, aborted, events>>
  BY Zenon DEF AgentVolume
<1>2. dpv' = [p \in Pools |->
           IF MakesDisk(n, p) THEN dpv[p] \union {n}
           ELSE IF KeepsDisk(n, p) THEN dpv[p] ELSE dpv[p] \ {n}]
  BY Zenon DEF AgentVolume
<1>3. free' = [p \in DOMAIN free |->
           IF MakesDisk(n, p) THEN [free[p] EXCEPT !.store = @ - 1] ELSE free[p]]
  BY Zenon DEF AgentVolume
<1>4. dpv' = [p \in Pools |-> IF p \in Made(n) THEN dpv[p] \union {n}
                             ELSE IF p \in Left(n) THEN dpv[p] ELSE dpv[p] \ {n}]
  BY <1>2 DEF MakesDisk, KeepsDisk, Made, Left
<1>5. free' = [p \in DOMAIN free |->
                 IF p \in Made(n) THEN [free[p] EXCEPT !.store = @ - 1] ELSE free[p]]
  BY <1>3 DEF MakesDisk, KeepsDisk, Made
<1>6. todo' \subseteq todo /\ AgentActs
  <2>1. AgentActs
    BY <1>1, Zenon DEF AgentActs, AgentTurns
  <2>2. todo' \subseteq todo
    BY <1>1, Zenon
  <2>. QED
    BY <2>1, <2>2
<1>. QED
  BY <1>1, <1>4, <1>5, <1>6, Zenon DEF HandlesDisk

\* What the agent makes or takes away is counted: the disks ...
LEMMA AgentVolumeTypeInv ==
    ASSUME TypeInv, NEW n \in Nodes, AgentVolume(n)
    PROVE  TypeInv'
<1>. USE DEF asked, rows, targets, host, locals
<1>0. TypeOK /\ HandlesDisk(n)
  BY <1>0, HandlesDiskStep DEF TypeInv
<1>1. AskedType' /\ RowsType' /\ TargetsType' /\ TurnType' /\ ReadInv'
  <2>1. AgentActs /\ UNCHANGED <<cap, asked, rows, targets, turn, events>>
    BY <1>0 DEF HandlesDisk
  <2>2. turn \in Turns
    BY <1>0 DEF TypeOK
  <2>3. ReadInv'
    BY <2>1 DEF AgentActs, ReadInv
  <2>. QED
    BY <1>0, <2>1, <2>2, <2>3, KeptTypes
<1>2. HostType'
  BY <1>0, TypeParts DEF HandlesDisk, HostType
<1>3. /\ DOMAIN free = managed /\ managed \subseteq Pools
      /\ free \in [managed -> Avail]
      /\ \A p \in managed : /\ free[p].cores + Used(p) <= cap[p].cores
                           /\ free[p].store + Cardinality(dpv[p]) <= cap[p].store
  <2>1. turn \in AgentTurns
    BY <1>0 DEF HandlesDisk, AgentActs
  <2>2. managed \subseteq Pools /\ free \in [DOMAIN free -> Avail]
    BY <1>0, TypeParts DEF RowsType, LocalsType, PartialFunction
  <2>. QED
    BY <2>1, <2>2 DEF TypeInv, MemoryInv
<1>4. ASSUME NEW p \in managed
      PROVE  free'[p] = IF p \in Made(n) THEN [free[p] EXCEPT !.store = @ - 1] ELSE free[p]
  BY <1>0, <1>3 DEF HandlesDisk
<1>5. ASSUME NEW p \in managed PROVE free'[p] \in Avail
  <2>1. free[p].cores \in Nat /\ free[p].store \in Nat
    BY <1>3 DEF Avail
  <2>2. p \in Made(n) => free[p].store - 1 \in Nat
    BY <2>1 DEF Made
  <2>. QED
    BY <1>3, <1>4, <2>2 DEF Avail
<1>6. LocalsType'
  BY <1>0, <1>3, <1>5, TypeParts DEF HandlesDisk, LocalsType, PartialFunction
<1>7. ASSUME NEW p \in Pools
      PROVE  /\ Used(p)' = Used(p)
             /\ p \in Made(n) => Cardinality(dpv'[p]) = Cardinality(dpv[p]) + 1
             /\ p \notin Made(n) => Cardinality(dpv'[p]) <= Cardinality(dpv[p])
  <2>1. Used(p)' = Used(p)
    BY <1>0, UsedIsTotal DEF HandlesDisk
  <2>2. IsFiniteSet(dpv[p])
    BY <1>0, PlacementAssumption, FS_Subset, TypeParts DEF HostType
  <2>3. Cardinality(dpv[p]) \in Nat /\ cap[p].store \in Nat
    BY <1>0, UsedIsNat
  <2>4. p \in Made(n) => Cardinality(dpv'[p]) = Cardinality(dpv[p]) + 1
    BY <1>0, <2>2, FS_AddElement DEF HandlesDisk, Made
  <2>5. p \notin Made(n) => Cardinality(dpv'[p]) <= Cardinality(dpv[p])
    <3>1. p \notin Made(n) => dpv'[p] = dpv[p] \/ dpv'[p] = dpv[p] \ {n}
      BY <1>0 DEF HandlesDisk
    <3>2. Cardinality(dpv[p] \ {n}) <= Cardinality(dpv[p])
      <4>1. Cardinality(dpv[p] \ {n}) =
              IF n \in dpv[p] THEN Cardinality(dpv[p]) - 1 ELSE Cardinality(dpv[p])
        BY <2>2, FS_RemoveElement, Zenon
      <4>. QED
        BY <4>1, <2>3
    <3>3. dpv'[p] = dpv[p] => Cardinality(dpv'[p]) <= Cardinality(dpv[p])
      BY <2>3
    <3>4. dpv'[p] = dpv[p] \ {n} => Cardinality(dpv'[p]) <= Cardinality(dpv[p])
      BY <3>2
    <3>. QED
      BY <3>1, <3>3, <3>4
  <2>6. IsFiniteSet(dpv'[p]) /\ Cardinality(dpv'[p]) \in Nat
    <3>1. dpv'[p] \subseteq Nodes
      BY <1>2 DEF HostType
    <3>. QED
      BY <3>1, PlacementAssumption, FS_Subset, FS_CardinalityType
  <2>7. cap' = cap
    BY <1>0 DEF HandlesDisk
  <2>. QED
    BY <2>1, <2>3, <2>4, <2>5, <2>6, <2>7
<1>8. MemoryInv'
  <2>1. DOMAIN free' = managed'
    BY <1>0, <1>3 DEF HandlesDisk
  <2>2. ASSUME NEW p \in managed
        PROVE  /\ free'[p].cores + Used(p)' <= cap'[p].cores
               /\ free'[p].store + Cardinality(dpv'[p]) <= cap'[p].store
    <3>1. /\ free[p].cores + Used(p) <= cap[p].cores
          /\ free[p].store + Cardinality(dpv[p]) <= cap[p].store
      BY <1>3
    <3>2. p \in Pools /\ free[p].cores \in Nat /\ free[p].store \in Nat
      BY <1>3 DEF Avail
    <3>3. Used(p) \in Nat /\ Cardinality(dpv[p]) \in Nat /\ cap[p].store \in Nat
      BY <1>0, <3>2, UsedIsNat
    <3>4. Cardinality(dpv'[p]) \in Nat
      <4>1. dpv'[p] \subseteq Nodes
        BY <1>2, <3>2 DEF HostType
      <4>. QED
        BY <4>1, PlacementAssumption, FS_Subset, FS_CardinalityType
    <3>5. cap' = cap /\ Used(p)' = Used(p)
      BY <1>0, <1>7, <3>2 DEF HandlesDisk
    <3>6. CASE p \in Made(n)
      <4>1. free'[p].store = free[p].store - 1 /\ free'[p].cores = free[p].cores
        BY <1>3, <1>4, <3>6 DEF Avail
      <4>. QED
        BY <1>7, <3>1, <3>2, <3>3, <3>4, <3>5, <3>6, <4>1
    <3>7. CASE p \notin Made(n)
      <4>1. free'[p] = free[p]
        BY <1>4, <3>7
      <4>2. Cardinality(dpv'[p]) <= Cardinality(dpv[p])
        BY <1>7, <3>2, <3>7
      <4>. QED
        BY <3>1, <3>2, <3>3, <3>4, <3>5, <4>1, <4>2
    <3>. QED
      BY <3>6, <3>7
  <2>. QED
    BY <1>0, <2>1, <2>2 DEF MemoryInv, HandlesDisk
<1>9. NotOvercommitted'
  <2>1. ASSUME NEW p \in Pools
        PROVE  Used(p)' <= cap'[p].cores /\ Cardinality(dpv'[p]) <= cap'[p].store
    <3>1. Used(p) <= cap[p].cores /\ Cardinality(dpv[p]) <= cap[p].store
      BY DEF TypeInv, NotOvercommitted
    <3>2. p \in Made(n) => free[p].store >= 1 /\ p \in managed
      BY DEF Made
    <3>3. p \in managed => /\ free[p].store + Cardinality(dpv[p]) <= cap[p].store
                           /\ free[p].store \in Nat
      BY <1>3 DEF Avail
    <3>4. Cardinality(dpv[p]) \in Nat /\ cap[p].store \in Nat
      BY <1>0, UsedIsNat
    <3>5. cap' = cap /\ Used(p)' = Used(p)
      BY <1>0, <1>7 DEF HandlesDisk
    <3>6. Cardinality(dpv'[p]) \in Nat
      <4>1. dpv'[p] \subseteq Nodes
        BY <1>2 DEF HostType
      <4>. QED
        BY <4>1, PlacementAssumption, FS_Subset, FS_CardinalityType
    <3>7. p \in Made(n) => Cardinality(dpv'[p]) <= cap[p].store
      BY <1>7, <3>2, <3>3, <3>4, <3>6
    <3>8. p \notin Made(n) => Cardinality(dpv'[p]) <= cap[p].store
      BY <1>7, <3>1, <3>4, <3>6
    <3>. QED
      BY <3>1, <3>5, <3>7, <3>8
  <2>. QED
    BY <2>1 DEF NotOvercommitted
<1>. QED
  BY <1>0, <1>1, <1>2, <1>6, <1>8, <1>9, TypeParts DEF TypeInv

\* ... and the cores.
LEMMA UsedChanges ==
    ASSUME TypeOK, NEW p \in Pools, NEW n \in Nodes, dpm'[p][n] \in 0 .. MaxCores,
           \A m \in Nodes \ {n} : dpm'[p][m] = dpm[p][m]
    PROVE  Used(p)' = Used(p) - dpm[p][n] + dpm'[p][n]
<1>1. \A m \in Nodes : dpm[p][m] \in Nat
  BY DEF TypeOK
<1>2. dpm'[p][n] \in Nat
  BY PlacementAssumption
<1>. DEFINE f == dpm[p]
            g == dpm'[p]
<1>3. (\A m \in Nodes : f[m] \in Nat) /\ g[n] \in Nat /\ \A m \in Nodes \ {n} : g[m] = f[m]
  BY <1>1, <1>2
<1>. HIDE DEF f, g
<1>4. Total(g, Nodes) = Total(f, Nodes) - f[n] + g[n]
  BY <1>3, PlacementAssumption, TotalChanged
<1>. QED
  BY <1>4, UsedIsTotal DEF f, g

Sizes(n, p) ==
    /\ AgentActs /\ todo' \subseteq todo
    /\ n \in DOMAIN mres /\ p \in DOMAIN free
    /\ mres[n].cores <= dpm[p][n] + free[p].cores
    /\ SetCores(n, p)
    /\ UNCHANGED <<asked, rows, targets, cap, dpv, rep, turn, got, placed, aborted, events>>

LEMMA SizesStep ==
    ASSUME NEW n \in Nodes, NEW p \in Pools, CreateOrUpdateMachine(n, p)
    PROVE  Sizes(n, p)
<1>. USE DEF asked, rows, targets, host, locals
<1>1. turn = "agent_machines" /\ todo' = todo \ {n} /\ SetCores(n, p) /\ Wanted(n, p) /\ Fits(n, p)
  BY Zenon DEF CreateOrUpdateMachine
<1>2. UNCHANGED <<asked, rows, targets, cap, dpv, rep, turn, got, placed, aborted, events>>
  BY Zenon DEF CreateOrUpdateMachine
<1>3. AgentActs
  BY <1>1, Zenon DEF AgentActs, AgentTurns
<1>4. todo' \subseteq todo
  BY <1>1, Zenon
<1>. QED
  BY <1>1, <1>2, <1>3, <1>4, Zenon DEF Sizes, Wanted, Fits

LEMMA AgentMachineTypeInv ==
    ASSUME TypeInv, NEW n \in Nodes, NEW p \in Pools, CreateOrUpdateMachine(n, p)
    PROVE  TypeInv'
<1>. USE DEF asked, rows, targets, host, locals
<1>0. TypeOK /\ Sizes(n, p)
  BY SizesStep DEF TypeInv
<1>1. AskedType' /\ RowsType' /\ TargetsType' /\ TurnType' /\ ReadInv' /\ turn \in AgentTurns
  <2>1. AgentActs /\ UNCHANGED <<cap, asked, rows, targets, turn, events>>
    BY <1>0 DEF Sizes
  <2>2. turn \in Turns
    BY <1>0 DEF TypeOK
  <2>3. ReadInv' /\ turn \in AgentTurns
    BY <2>1 DEF AgentActs, ReadInv
  <2>. QED
    BY <1>0, <2>1, <2>2, <2>3, KeptTypes
<1>2. /\ DOMAIN free = managed /\ managed \subseteq Pools /\ free \in [managed -> Avail]
      /\ \A q \in managed : /\ free[q].cores + Used(q) <= cap[q].cores
                           /\ free[q].store + Cardinality(dpv[q]) <= cap[q].store
  <2>1. managed \subseteq Pools /\ free \in [DOMAIN free -> Avail]
    BY <1>0, TypeParts DEF RowsType, LocalsType, PartialFunction
  <2>. QED
    BY <1>1, <2>1 DEF TypeInv, MemoryInv
<1>3. mres[n].cores \in 1 .. MaxCores /\ mres[n].cores \in 0 .. MaxCores
  <2>1. mres[n].cores \in 1 .. MaxCores
    BY <1>0, TypeParts DEF Sizes, TargetsType, PartialFunction, Place
  <2>. QED
    BY <2>1, PlacementAssumption
<1>4. HostType'
  BY <1>0, <1>3, TypeParts DEF Sizes, SetCores, HostType
<1>5. \A q \in Pools \ {p} : dpm'[q] = dpm[q]
  BY <1>0, TypeParts DEF Sizes, SetCores, HostType
<1>6. /\ dpm'[p][n] = mres[n].cores
      /\ \A m \in Nodes \ {n} : dpm'[p][m] = dpm[p][m]
      /\ dpm[p][n] \in 0 .. MaxCores
  BY <1>0, TypeParts DEF Sizes, SetCores, HostType
<1>7. Used(p)' = Used(p) - dpm[p][n] + mres[n].cores
  BY <1>0, <1>3, <1>6, UsedChanges
<1>8. \A q \in Pools \ {p} : Used(q)' = Used(q)
  BY <1>5, UsedIsTotal
<1>9. /\ p \in managed /\ free[p] \in Avail
      /\ free'[p] = [free[p] EXCEPT !.cores = free[p].cores + dpm[p][n] - mres[n].cores]
      /\ \A q \in managed \ {p} : free'[q] = free[q]
      /\ DOMAIN free' = managed
      /\ mres[n].cores <= dpm[p][n] + free[p].cores
  BY <1>0, <1>2 DEF Sizes, SetCores
<1>10. /\ free'[p].cores = free[p].cores + dpm[p][n] - mres[n].cores
       /\ free'[p].store = free[p].store
       /\ free[p].cores \in Nat /\ free[p].store \in Nat
  BY <1>9 DEF Avail
<1>11. free'[p].cores \in Nat
  BY <1>3, <1>6, <1>9, <1>10, PlacementAssumption
<1>12. free'[p] \in Avail
  BY <1>9, <1>10, <1>11 DEF Avail
<1>13. PartialFunction(free', Pools, Avail)
  <2>1. \A q \in managed : free'[q] \in Avail
    BY <1>2, <1>9, <1>12
  <2>. QED
    BY <1>0, <1>2, <1>9, <2>1 DEF PartialFunction, Sizes, SetCores
<1>14. LocalsType'
  BY <1>0, <1>13, TypeParts DEF Sizes, LocalsType, PartialFunction
<1>15. Used(p) \in Nat /\ cap[p].cores \in Nat
  BY <1>0, UsedIsNat
<1>16. free'[p].cores + Used(p)' <= cap[p].cores
  BY <1>2, <1>3, <1>6, <1>7, <1>9, <1>10, <1>15
<1>17. cap' = cap /\ dpv' = dpv /\ managed' = managed
  BY <1>0 DEF Sizes
<1>18. MemoryInv'
  <2>1. ASSUME NEW q \in managed
        PROVE  /\ free'[q].cores + Used(q)' <= cap'[q].cores
               /\ free'[q].store + Cardinality(dpv'[q]) <= cap'[q].store
    <3>1. CASE q = p
      BY <1>2, <1>9, <1>10, <1>16, <1>17, <3>1
    <3>2. CASE q # p
      BY <1>2, <1>8, <1>9, <1>17, <3>2
    <3>. QED
      BY <3>1, <3>2
  <2>. QED
    BY <1>9, <1>17, <2>1 DEF MemoryInv
<1>19. NotOvercommitted'
  <2>1. ASSUME NEW q \in Pools
        PROVE  Used(q)' <= cap'[q].cores /\ Cardinality(dpv'[q]) <= cap'[q].store
    <3>1. Used(q) <= cap[q].cores /\ Cardinality(dpv[q]) <= cap[q].store
      BY DEF TypeInv, NotOvercommitted
    <3>2. Used(p)' <= cap[p].cores
      BY <1>3, <1>6, <1>7, <1>10, <1>11, <1>15, <1>16, PlacementAssumption
    <3>. QED
      BY <1>8, <1>17, <3>1, <3>2
  <2>. QED
    BY <2>1 DEF NotOvercommitted
<1>. QED
  BY <1>0, <1>1, <1>4, <1>14, <1>18, <1>19, TypeParts DEF TypeInv

\* A domain that is taken away leaves more room.
LEMMA LessUsed ==
    ASSUME TypeOK, NEW p \in Pools, NEW n \in Nodes, dpm'[p][n] = 0,
           \A m \in Nodes \ {n} : dpm'[p][m] = dpm[p][m]
    PROVE  Used(p)' <= Used(p) /\ Used(p)' \in Nat
<1>1. dpm'[p][n] \in 0 .. MaxCores /\ dpm[p][n] \in Nat
  BY PlacementAssumption DEF TypeOK
<1>2. Used(p)' = Used(p) - dpm[p][n] + dpm'[p][n]
  BY <1>1, UsedChanges
<1>3. Used(p) \in Nat
  BY UsedIsNat
<1>4. \A m \in Nodes : dpm'[p][m] \in Nat
  <2>1. \A m \in Nodes : dpm[p][m] \in Nat
    BY DEF TypeOK
  <2>. QED
    BY <2>1
<1>5. Total(dpm'[p], Nodes) \in Nat
  BY <1>4, PlacementAssumption, TotalIsNat
<1>. QED
  BY <1>1, <1>2, <1>3, <1>5, UsedIsTotal

\* Only domains are taken away.
Removes ==
    /\ UNCHANGED <<asked, rows, targets, cap, dpv, rep>>
    /\ dpm' \in [Pools -> [Nodes -> 0 .. MaxCores]]
    /\ \A p \in Pools : dpm'[p] = dpm[p] \/ \E n \in Nodes :
           dpm'[p][n] = 0 /\ \A m \in Nodes \ {n} : dpm'[p][m] = dpm[p][m]

LEMMA RemovesTypeInv ==
    ASSUME TypeInv, Removes, turn' \notin AgentTurns \/ (turn' = turn /\ free' = free)
    PROVE  HostType' /\ NotOvercommitted' /\ MemoryInv'
<1>. USE DEF rows
<1>0. TypeOK
  BY DEF TypeInv
<1>1. ASSUME NEW p \in Pools
      PROVE  Used(p)' <= Used(p) /\ Used(p)' \in Nat /\ Used(p) \in Nat /\ cap[p].cores \in Nat
  <2>1. CASE dpm'[p] = dpm[p]
    <3>1. Used(p)' = Used(p)
      BY <2>1, UsedIsTotal
    <3>. QED
      BY <1>0, <3>1, UsedIsNat
  <2>2. CASE dpm'[p] # dpm[p]
    <3>1. PICK n \in Nodes : dpm'[p][n] = 0 /\ \A m \in Nodes \ {n} : dpm'[p][m] = dpm[p][m]
      BY <2>2 DEF Removes
    <3>. QED
      BY <1>0, <3>1, LessUsed, UsedIsNat
  <2>. QED
    BY <2>1, <2>2
<1>2. HostType'
  BY <1>0, TypeParts DEF Removes, HostType
<1>3. cap' = cap /\ dpv' = dpv /\ managed' = managed
  BY DEF Removes
<1>4. NotOvercommitted'
  <2>1. ASSUME NEW p \in Pools
        PROVE  Used(p)' <= cap'[p].cores /\ Cardinality(dpv'[p]) <= cap'[p].store
    <3>1. Used(p) <= cap[p].cores /\ Cardinality(dpv[p]) <= cap[p].store
      BY DEF TypeInv, NotOvercommitted
    <3>. QED
      BY <1>1, <1>3, <3>1
  <2>. QED
    BY <2>1 DEF NotOvercommitted
<1>5. MemoryInv'
  <2>1. CASE turn' = turn /\ free' = free /\ turn \in AgentTurns
    <3>1. /\ DOMAIN free = managed /\ managed \subseteq Pools /\ free \in [managed -> Avail]
          /\ \A p \in managed : /\ free[p].cores + Used(p) <= cap[p].cores
                               /\ free[p].store + Cardinality(dpv[p]) <= cap[p].store
      <4>1. managed \subseteq Pools /\ free \in [DOMAIN free -> Avail]
        BY <1>0, TypeParts DEF RowsType, LocalsType, PartialFunction
      <4>. QED
        BY <2>1, <4>1 DEF TypeInv, MemoryInv
    <3>2. ASSUME NEW p \in managed
          PROVE  /\ free[p].cores + Used(p)' <= cap[p].cores
                 /\ free[p].store + Cardinality(dpv[p]) <= cap[p].store
      <4>1. p \in Pools /\ free[p].cores \in Nat
        BY <3>1 DEF Avail
      <4>2. Used(p)' <= Used(p) /\ Used(p)' \in Nat /\ Used(p) \in Nat /\ cap[p].cores \in Nat
        BY <1>1, <4>1
      <4>. QED
        BY <3>1, <4>1, <4>2
    <3>. QED
      BY <1>3, <2>1, <3>1, <3>2 DEF MemoryInv
  <2>2. CASE turn' \notin AgentTurns
    BY <2>2 DEF MemoryInv
  <2>3. CASE turn' = turn /\ turn \notin AgentTurns
    BY <2>3 DEF MemoryInv
  <2>. QED
    BY <2>1, <2>2, <2>3
<1>. QED
  BY <1>2, <1>4, <1>5

AgentRest ==
    \/ AgentStart \/ AgentVolumesDone \/ AgentReport
    \/ \E n \in Nodes : DeleteMachine(n)
    \/ \E n \in Nodes, p \in Pools : LeaveMachine(n, p) \/ CrashInUpdate(n, p)

LEMMA RestTypeInv == TypeInv /\ AgentRest => TypeInv'
<1>. SUFFICES ASSUME TypeInv, AgentRest PROVE TypeInv'
  OBVIOUS
<1>. USE DEF asked, rows, targets, host, locals
<1>0. TypeOK
  BY DEF TypeInv
<1>1. ASSUME NEW p \in Pools PROVE Fresh(p) \in Avail
  <2>1. Used(p) <= cap[p].cores /\ Cardinality(dpv[p]) <= cap[p].store
    BY DEF TypeInv, NotOvercommitted
  <2>2. cap[p].cores - Used(p) \in Nat /\ cap[p].store - Cardinality(dpv[p]) \in Nat
    BY <1>0, <2>1, UsedIsNat
  <2>. QED
    BY <2>2 DEF Fresh, Avail
<1>2. ASSUME AgentStart PROVE TypeInv'
  <2>1. AskedType' /\ RowsType' /\ TargetsType' /\ HostType' /\ TurnType'
    BY <1>0, <1>2, KeptTypes DEF AgentStart, Turns
  <2>2. managed \subseteq Pools
    BY <1>0 DEF TypeOK
  <2>3. PartialFunction(free', Pools, Avail)
    <3>1. DOMAIN free' = managed /\ \A p \in managed : free'[p] = Fresh(p)
      BY <1>2 DEF AgentStart
    <3>2. \A p \in managed : free'[p] \in Avail
      BY <1>1, <2>2, <3>1
    <3>3. free' = [p \in managed |-> free'[p]]
      BY <1>2, <3>1, Zenon DEF AgentStart
    <3>. QED
      BY <2>2, <3>1, <3>2, <3>3 DEF PartialFunction
  <2>4. LocalsType'
    BY <1>0, <1>2, <2>3, TypeParts DEF AgentStart, LocalsType, PartialFunction
  <2>5. ReadInv'
    BY <1>2 DEF AgentStart, ReadInv
  <2>6. dpm' = dpm /\ dpv' = dpv /\ cap' = cap /\ managed' = managed
    BY <1>2 DEF AgentStart
  <2>7. \A p : Used(p)' = Used(p)
    BY <2>6, UsedIsTotal
  <2>8. NotOvercommitted'
    BY <2>6, <2>7 DEF TypeInv, NotOvercommitted
  <2>9. MemoryInv'
    <3>1. DOMAIN free' = managed /\ \A p \in managed : free'[p] = Fresh(p)
      BY <1>2 DEF AgentStart
    <3>2. ASSUME NEW p \in managed
          PROVE  /\ free'[p].cores + Used(p)' <= cap[p].cores
                 /\ free'[p].store + Cardinality(dpv[p]) <= cap[p].store
      <4>1. Used(p) \in Nat /\ Cardinality(dpv[p]) \in Nat /\ cap[p].cores \in Nat /\ cap[p].store \in Nat
        BY <1>0, <2>2, UsedIsNat
      <4>2. free'[p].cores = cap[p].cores - Used(p) /\ free'[p].store = cap[p].store - Cardinality(dpv[p])
        BY <3>1 DEF Fresh
      <4>3. Used(p)' = Used(p)
        BY <2>7
      <4>. QED
        BY <4>1, <4>2, <4>3
    <3>. QED
      BY <2>6, <3>1, <3>2 DEF MemoryInv
  <2>. QED
    BY <2>1, <2>4, <2>5, <2>8, <2>9, TypeParts DEF TypeInv
<1>3. ASSUME AgentVolumesDone PROVE TypeInv'
  <2>1. AskedType' /\ RowsType' /\ TargetsType' /\ HostType' /\ TurnType'
    BY <1>0, <1>3, KeptTypes DEF AgentVolumesDone, Turns
  <2>2. LocalsType'
    BY <1>0, <1>3, TypeParts DEF AgentVolumesDone, LocalsType, PartialFunction
  <2>3. ReadInv' /\ turn \in AgentTurns
    BY <1>3 DEF AgentVolumesDone, ReadInv, AgentTurns
  <2>4. dpm' = dpm /\ dpv' = dpv /\ cap' = cap /\ managed' = managed /\ free' = free
    BY <1>3 DEF AgentVolumesDone
  <2>5. \A p : Used(p)' = Used(p)
    BY <2>4, UsedIsTotal
  <2>6. NotOvercommitted' /\ MemoryInv'
    BY <2>3, <2>4, <2>5 DEF TypeInv, NotOvercommitted, MemoryInv
  <2>. QED
    BY <2>1, <2>2, <2>3, <2>6, TypeParts DEF TypeInv
<1>4. ASSUME AgentReport PROVE TypeInv'
  <2>1. AskedType' /\ RowsType' /\ TargetsType' /\ TurnType'
    BY <1>0, <1>4, KeptTypes DEF AgentReport, Turns
  <2>2. LocalsType'
    BY <1>0, <1>4, EmptyType, TypeParts DEF AgentReport, LocalsType, PartialFunction
  <2>3. HostType'
    BY <1>0, <1>1, <1>4, TypeParts DEF AgentReport, HostType
  <2>4. ReadInv' /\ turn' \notin AgentTurns
    BY <1>4 DEF AgentReport, ReadInv, AgentTurns
  <2>. QED
    BY <1>4, <2>1, <2>2, <2>3, <2>4, KeptMemory, TypeParts DEF AgentReport, TypeInv
<1>5. ASSUME NEW n \in Nodes, DeleteMachine(n) PROVE TypeInv'
  <2>1. AskedType' /\ RowsType' /\ TargetsType' /\ TurnType'
    BY <1>0, <1>5, KeptTypes, TypeParts DEF DeleteMachine, TurnType
  <2>2. LocalsType'
    BY <1>0, <1>5, TypeParts DEF DeleteMachine, LocalsType, PartialFunction
  <2>3. ReadInv' /\ turn' = turn /\ free' = free
    BY <1>5 DEF DeleteMachine, ReadInv
  <2>4. Removes
    <3>1. dpm' \in [Pools -> [Nodes -> 0 .. MaxCores]]
      BY <1>0, <1>5, PlacementAssumption, TypeParts DEF DeleteMachine, HostType
    <3>2. \A p \in Pools : dpm'[p][n] = 0 /\ \A m \in Nodes \ {n} : dpm'[p][m] = dpm[p][m]
      BY <1>0, <1>5, TypeParts DEF DeleteMachine, HostType
    <3>. QED
      BY <1>5, <3>1, <3>2 DEF DeleteMachine, Removes
  <2>. QED
    BY <2>1, <2>2, <2>3, <2>4, RemovesTypeInv, TypeParts DEF TypeInv
<1>6. ASSUME NEW n \in Nodes, NEW p \in Pools, LeaveMachine(n, p) PROVE TypeInv'
  <2>1. AskedType' /\ RowsType' /\ TargetsType' /\ HostType' /\ TurnType'
    BY <1>0, <1>6, KeptTypes, TypeParts DEF LeaveMachine, TurnType
  <2>2. LocalsType'
    BY <1>0, <1>6, TypeParts DEF LeaveMachine, LocalsType, PartialFunction
  <2>3. ReadInv'
    BY <1>6 DEF LeaveMachine, ReadInv
  <2>. QED
    BY <1>6, <2>1, <2>2, <2>3, KeptMemory, TypeParts DEF LeaveMachine, TypeInv
<1>7. ASSUME NEW n \in Nodes, NEW p \in Pools, CrashInUpdate(n, p) PROVE TypeInv'
  <2>1. AskedType' /\ RowsType' /\ TargetsType' /\ TurnType'
    BY <1>0, <1>7, KeptTypes DEF CrashInUpdate, Restarted, Turns
  <2>2. LocalsType'
    BY <1>7, EmptyType DEF CrashInUpdate, Restarted, LocalsType, PartialFunction
  <2>3. ReadInv' /\ turn' \notin AgentTurns
    BY <1>7 DEF CrashInUpdate, Restarted, ReadInv, AgentTurns
  <2>4. Removes
    <3>1. dpm' \in [Pools -> [Nodes -> 0 .. MaxCores]]
      BY <1>0, <1>7, PlacementAssumption, TypeParts DEF CrashInUpdate, HostType
    <3>2. dpm'[p][n] = 0 /\ \A m \in Nodes \ {n} : dpm'[p][m] = dpm[p][m]
      BY <1>0, <1>7, TypeParts DEF CrashInUpdate, HostType
    <3>3. \A q \in Pools \ {p} : dpm'[q] = dpm[q]
      BY <1>0, <1>7, TypeParts DEF CrashInUpdate, HostType
    <3>. QED
      BY <1>7, <3>1, <3>2, <3>3 DEF CrashInUpdate, Removes
  <2>. QED
    BY <2>1, <2>2, <2>3, <2>4, RemovesTypeInv, TypeParts DEF TypeInv
<1>. QED
  BY <1>2, <1>3, <1>4, <1>5, <1>6, <1>7 DEF AgentRest

\* A step is one of these.
LEMMA Steps ==
    Next <=> \/ Scheduler \/ Builders \/ AgentRest \/ User \/ Crash
             \/ \E n \in Nodes : AgentVolume(n)
             \/ \E n \in Nodes, p \in Pools : CreateOrUpdateMachine(n, p)
BY DEF Next, Process, Builders, Agent, AgentRest, Crashes

LEMMA TypeInvKept == TypeInv /\ [Next]_vars => TypeInv'
<1>1. TypeInv /\ Next => TypeInv'
  BY Steps, SchedulerTypeInv, BuildersTypeInv, RestTypeInv, UserTypeInv, CrashTypeInv,
     AgentVolumeTypeInv, AgentMachineTypeInv
<1>2. TypeInv /\ UNCHANGED vars => TypeInv'
  <2>. SUFFICES ASSUME TypeInv, UNCHANGED vars PROVE TypeInv'
    OBVIOUS
  <2>. USE DEF vars, asked, rows, targets, host, locals
  <2>1. TypeOK
    BY DEF TypeInv
  <2>2. turn' \in Turns
    BY <2>1 DEF TypeOK
  <2>3. ReadInv'
    BY DEF TypeInv, ReadInv
  <2>4. NotOvercommitted' /\ MemoryInv'
    BY KeptMemory DEF TypeInv
  <2>5. AskedType' /\ RowsType' /\ TargetsType' /\ HostType' /\ LocalsType' /\ TurnType'
    BY <2>1, <2>2, KeptTypes
  <2>. QED
    BY <2>3, <2>4, <2>5, TypeParts DEF TypeInv
<1>. QED
  BY <1>1, <1>2

LEMMA TypeInvHolds == Spec => []TypeInv
BY InitTypeInv, TypeInvKept, PTL DEF Spec

\* The variables of scheduler, builders and agent keep their types: sizes and
\* free room never get below zero, and nothing is placed on an unknown pool.
THEOREM PlacementTypes == Spec => []TypeOK
<1>1. TypeInv => TypeOK
  BY DEF TypeInv
<1>. QED
  BY <1>1, TypeInvHolds, PTL

\* No hypervisor runs more cores or holds more disks than it has: the checks
\* of scheduler and builder do not ensure it, the agent's does, because what
\* it remembers as free is free after each of its steps.
THEOREM HypervisorsAreNotOvercommitted == Spec => []NotOvercommitted
<1>1. TypeInv => NotOvercommitted
  BY DEF TypeInv
<1>. QED
  BY <1>1, TypeInvHolds, PTL

-----------------------------------------------------------------------------
(* A machine runs where its rows and its disk are.                         *)

\* What the scheduler places is alive and has no machine, nor, as long as no
\* insert has failed, a volume.
PlacingInv ==
    /\ \A n \in DOMAIN placed : /\ n \in Live /\ machine[n] = NoRow /\ n \notin todo
                                /\ ~aborted => vol[n] = NoRow
    /\ turn = "placing" => \A n \in DOMAIN got \ gone : n \in Live /\ machine[n] = NoRow
    /\ turn # "placing" => DOMAIN placed = {}

\* Nothing is left of a node that has not been created.
UnusedInv == \A n \in Nodes : cores[n] = 0 =>
    /\ n \notin gone /\ machine[n] = NoRow /\ vol[n] = NoRow
    /\ n \notin DOMAIN mres /\ n \notin DOMAIN got
    /\ \A p \in Pools : dpm[p][n] = 0

\* A machine and the root volume that is attached to it are in one pool.
SamePoolInv == \A n \in Nodes :
    machine[n] # NoRow /\ vol[n] # NoRow /\ vol[n].attached => machine[n].pool = vol[n].pool

\* The volumes' targets are fresh when the machines are built.
FreshInv == turn = "machines" =>
    \A n \in Live : vol[n] # NoRow => n \in DOMAIN vres /\ vres[n] = vol[n]

\* A machine with a target keeps its pool and its root volume.
TargetInv == \A n \in Live : n \in DOMAIN mres =>
    /\ machine[n] # NoRow /\ machine[n].pool = mres[n].pool
    /\ vol[n] = [pool |-> mres[n].pool, attached |-> TRUE]
    /\ n \in DOMAIN vres /\ vres[n] = vol[n]

\* A domain has a target, on the same hypervisor, and its disk.
DomainInv == \A n \in Live, p \in Pools : dpm[p][n] > 0 =>
    n \in DOMAIN mres /\ mres[n].pool = p /\ n \in dpv[p]

PlaceInv == PlacingInv /\ UnusedInv /\ SamePoolInv /\ FreshInv /\ TargetInv /\ DomainInv

LEMMA InitPlaceInv == Init => PlaceInv
<1>. SUFFICES ASSUME Init PROVE PlaceInv
  OBVIOUS
<1>1. DOMAIN Empty = {}
  BY DEF Empty
<1>2. Live = {}
  BY DEF Init, Live
<1>3. PlacingInv /\ SamePoolInv /\ FreshInv /\ TargetInv /\ DomainInv
  BY <1>1, <1>2 DEF Init, PlacingInv, SamePoolInv, FreshInv, TargetInv, DomainInv
<1>4. UnusedInv
  BY <1>1 DEF Init, UnusedInv
<1>. QED
  BY <1>3, <1>4 DEF PlaceInv

\* Used where a step changes none of what these parts speak about, except that
\* nodes are deleted, that domains go or that the scheduler forgets.
LEMMA KeptPlaceInv ==
    ASSUME PlaceInv, TypeOK, TypeOK', UNCHANGED <<cores, gone, machine, vol, mres, vres>>,
           turn' # "machines" \/ turn' = turn,
           \/ placed' = Empty /\ turn' # "placing" /\ DOMAIN got' \subseteq DOMAIN got
           \/ placed' = placed /\ got' = got /\ todo' = todo /\ aborted' = aborted /\ turn' = turn,
           \A n \in Nodes, p \in Pools : dpm'[p][n] > 0 => dpm[p][n] > 0,
           \A n \in Nodes, p \in Pools : dpm[p][n] = 0 => dpm'[p][n] = 0,
           dpv' = dpv
    PROVE  PlaceInv'
<1>. USE DEF PlaceInv
<1>1. DOMAIN Empty = {}
  BY DEF Empty
<1>2. Live' = Live
  BY DEF Live
<1>3. PlacingInv'
  BY <1>1, <1>2 DEF PlacingInv
<1>4. UnusedInv'
  BY DEF UnusedInv
<1>5. SamePoolInv' /\ FreshInv' /\ TargetInv'
  BY <1>2 DEF SamePoolInv, FreshInv, TargetInv
<1>6. DomainInv'
  BY <1>2 DEF DomainInv, Live
<1>. QED
  BY <1>3, <1>4, <1>5, <1>6

LEMMA UserPlaceInv == PlaceInv /\ TypeInv /\ User => PlaceInv'
<1>. SUFFICES ASSUME PlaceInv, TypeInv, User PROVE PlaceInv'
  OBVIOUS
<1>. USE DEF PlaceInv, asked, rows, targets, host, locals
<1>0. TypeOK
  BY DEF TypeInv
<1>1. ASSUME NEW n \in Nodes, DeleteNode(n) PROVE PlaceInv'
  <2>1. /\ Live' = Live \ {n} /\ n \in Live /\ n \notin DOMAIN placed /\ gone' = gone \union {n}
        /\ cores[n] > 0
    BY <1>1 DEF DeleteNode, Live
  <2>2. \A m \in Nodes \ {n} : machine'[m] = machine[m] /\ vol'[m] = vol[m]
    BY <1>0, <1>1 DEF DeleteNode, TypeOK
  <2>3. machine'[n] = NoRow /\ vol'[n] = NoRow
    BY <1>0, <1>1 DEF DeleteNode, TypeOK
  <2>4. PlacingInv'
    BY <1>0, <1>1, <2>1, <2>2, <2>3, TypeParts DEF DeleteNode, PlacingInv, LocalsType, PartialFunction, Live
  <2>5. UnusedInv'
    <3>1. cores[n] # 0
      BY <1>0, <2>1 DEF TypeOK
    <3>. QED
      BY <1>1, <3>1, <2>1, <2>2, <2>3 DEF DeleteNode, UnusedInv
  <2>6. SamePoolInv'
    BY <1>1, <2>2, <2>3 DEF DeleteNode, SamePoolInv
  <2>7. FreshInv' /\ TargetInv'
    BY <1>1, <2>1, <2>2 DEF DeleteNode, FreshInv, TargetInv, Live
  <2>8. DomainInv'
    BY <1>1, <2>1 DEF DeleteNode, DomainInv
  <2>. QED
    BY <2>4, <2>5, <2>6, <2>7, <2>8
<1>2. ASSUME NEW n \in Nodes, NEW c \in 1 .. MaxCores, CreateNode(n, c) \/ ResizeNode(n, c)
      PROVE  PlaceInv'
  <2>1. /\ \A m \in Nodes \ {n} : cores'[m] = cores[m]
        /\ cores'[n] = c /\ c > 0 /\ c # 0
        /\ UNCHANGED <<gone, rows, targets, host, turn, locals>>
    BY <1>0, <1>2 DEF CreateNode, ResizeNode, TypeOK
  <2>2. Live' = Live \/ (cores[n] = 0 /\ Live' = Live \union {n})
    BY <1>0, <1>2, <2>1 DEF Live, CreateNode, ResizeNode
  <2>3. UnusedInv'
    BY <2>1 DEF UnusedInv
  <2>4. SamePoolInv'
    BY <2>1 DEF SamePoolInv
  <2>5. PlacingInv'
    BY <2>1, <2>2 DEF PlacingInv
  <2>6. FreshInv' /\ TargetInv'
    BY <2>1, <2>2 DEF FreshInv, TargetInv, UnusedInv
  <2>7. DomainInv'
    <3>1. \A m \in Live' \ Live : \A p \in Pools : dpm[p][m] = 0
      BY <2>2 DEF UnusedInv
    <3>. QED
      BY <2>1, <2>2, <3>1 DEF DomainInv
  <2>. QED
    BY <2>3, <2>4, <2>5, <2>6, <2>7
<1>. QED
  BY <1>1, <1>2 DEF User

\* What a commit does, without the operator Update.
Done == IF aborted THEN {} ELSE DOMAIN placed
Committing ==
    /\ turn' = "network" /\ turn = "placing"
    /\ Done \subseteq Nodes
    /\ \A n \in Nodes : /\ n \in Done => /\ cores'[n] = got[n] /\ machine'[n] = placed[n]
                                         /\ vol'[n] = RootVolume(placed[n].pool)
                        /\ n \notin Done => /\ cores'[n] = cores[n] /\ machine'[n] = machine[n]
                                            /\ vol'[n] = vol[n]
    /\ got' = Empty /\ placed' = Empty
    /\ UNCHANGED <<gone, port, row, targets, host, todo, events>>

LEMMA CommittingStep ==
    ASSUME TypeOK, ScheduleCommit
    PROVE  Committing
<1>1. DOMAIN cores = Nodes /\ DOMAIN machine = Nodes /\ DOMAIN vol = Nodes /\ DOMAIN placed \subseteq Nodes
  BY DEF TypeOK, PartialFunction
<1>2. /\ cores' = [n \in DOMAIN cores \union Done |-> IF n \in Done THEN got[n] ELSE cores[n]]
      /\ machine' = [n \in DOMAIN machine \union Done |-> IF n \in Done THEN placed[n] ELSE machine[n]]
      /\ vol' = [n \in DOMAIN vol \union Done |->
                    IF n \in Done THEN RootVolume(placed[n].pool) ELSE vol[n]]
  BY DEF ScheduleCommit, Done, Update
<1>3. Done \subseteq Nodes
  BY <1>1 DEF Done
<1>. QED
  BY <1>1, <1>2, <1>3 DEF ScheduleCommit, Committing, Update

LEMMA SchedulerPlaceInv == PlaceInv /\ TypeInv /\ Scheduler => PlaceInv'
<1>. SUFFICES ASSUME PlaceInv, TypeInv, Scheduler PROVE PlaceInv'
  OBVIOUS
<1>. USE DEF PlaceInv, asked, rows, targets, host, locals
<1>0. TypeOK
  BY DEF TypeInv
<1>1. ASSUME ScheduleBegin PROVE PlaceInv'
  <2>1. DOMAIN Empty = {}
    BY DEF Empty
  <2>2. Live' = Live /\ DOMAIN placed' = {}
    BY <1>1, <2>1 DEF ScheduleBegin, Live
  <2>3. DOMAIN got' = Unscheduled
    BY <1>0, <1>1 DEF ScheduleBegin, Restricted, TypeOK, Unscheduled, Live
  <2>4. \A n \in Unscheduled : n \in Live /\ machine[n] = NoRow
    BY DEF Unscheduled
  <2>5. PlacingInv'
    BY <1>1, <2>2, <2>3, <2>4 DEF ScheduleBegin, PlacingInv
  <2>6. UnusedInv'
    BY <1>0, <1>1, <2>3, <2>4 DEF ScheduleBegin, UnusedInv, Live, TypeOK
  <2>7. SamePoolInv' /\ FreshInv' /\ TargetInv' /\ DomainInv'
    BY <1>1, <2>2 DEF ScheduleBegin, SamePoolInv, FreshInv, TargetInv, DomainInv
  <2>. QED
    BY <2>5, <2>6, <2>7
<1>2. ASSUME ScheduleCommit PROVE PlaceInv'
  <2>0. Committing
    BY <1>0, <1>2, CommittingStep
  <2>1. DOMAIN Empty = {}
    BY DEF Empty
  <2>2. \A n \in Done : /\ n \in Live /\ machine[n] = NoRow /\ placed[n] \in Place
                        /\ got[n] > 0 /\ got[n] # 0
    <3>1. Done \subseteq DOMAIN placed /\ DOMAIN placed \subseteq DOMAIN got
      BY <2>0 DEF Committing, Done, TypeInv, ReadInv
    <3>2. \A n \in Done : got[n] \in 1 .. MaxCores
      BY <1>0, <3>1 DEF TypeOK, PartialFunction
    <3>. QED
      BY <1>0, <3>1, <3>2, PlacementAssumption DEF PlacingInv, TypeOK, PartialFunction
  <2>3. Live' = Live
    <3>1. gone' = gone /\ \A n \in Nodes \ Done : cores'[n] = cores[n]
      BY <2>0 DEF Committing
    <3>2. \A n \in Done : cores'[n] > 0 /\ n \in Live /\ n \in Nodes
      BY <2>0, <2>2 DEF Committing
    <3>. QED
      BY <3>1, <3>2 DEF Live
  <2>4. PlacingInv'
    BY <2>0, <2>1 DEF Committing, PlacingInv
  <2>5. UnusedInv'
    BY <2>0, <2>1, <2>2 DEF Committing, UnusedInv
  <2>6. SamePoolInv'
    <3>1. ASSUME NEW n \in Nodes, n \in Done PROVE machine'[n].pool = vol'[n].pool
      <4>1. machine'[n] = placed[n] /\ vol'[n] = RootVolume(placed[n].pool)
        BY <2>0, <3>1 DEF Committing
      <4>2. RootVolume(placed[n].pool).pool = placed[n].pool
        BY DEF RootVolume
      <4>. QED
        BY <4>1, <4>2
    <3>2. ASSUME NEW n \in Nodes, n \notin Done PROVE machine'[n] = machine[n] /\ vol'[n] = vol[n]
      BY <2>0, <3>2 DEF Committing
    <3>. QED
      BY <3>1, <3>2 DEF SamePoolInv
  <2>7. FreshInv'
    BY <2>0 DEF Committing, FreshInv
  <2>8. TargetInv'
    BY <2>0, <2>2, <2>3 DEF Committing, TargetInv, Live
  <2>9. DomainInv'
    BY <2>0, <2>3 DEF Committing, DomainInv
  <2>. QED
    BY <2>4, <2>5, <2>6, <2>7, <2>8, <2>9
<1>3. ASSUME NEW n \in Nodes, SchedulePass(n) PROVE PlaceInv'
  <2>1. Live' = Live
    BY <1>3 DEF SchedulePass, Live
  <2>2. PlacingInv' /\ UnusedInv'
    BY <1>3, <2>1 DEF SchedulePass, PlacingInv, UnusedInv
  <2>3. SamePoolInv' /\ FreshInv' /\ TargetInv' /\ DomainInv'
    BY <1>3, <2>1 DEF SchedulePass, SamePoolInv, FreshInv, TargetInv, DomainInv
  <2>. QED
    BY <2>2, <2>3
<1>4. ASSUME NEW n \in Nodes, NEW p \in Pools, PlaceNode(n, p) PROVE PlaceInv'
  <2>0. Placing(n, p)
    BY <1>4, PlaceNodeStep
  <2>1. Live' = Live
    BY <2>0 DEF Placing, Live
  <2>2. n \in Live /\ machine[n] = NoRow
    BY <2>0 DEF Placing, TypeInv, ReadInv, PlacingInv
  <2>3. PlacingInv'
    BY <2>0, <2>1, <2>2 DEF Placing, PlacingInv
  <2>4. UnusedInv'
    BY <2>0, <2>1 DEF Placing, UnusedInv
  <2>5. SamePoolInv' /\ FreshInv' /\ TargetInv' /\ DomainInv'
    BY <2>0, <2>1 DEF Placing, SamePoolInv, FreshInv, TargetInv, DomainInv
  <2>. QED
    BY <2>3, <2>4, <2>5
<1>. QED
  BY <1>1, <1>2, <1>3, <1>4 DEF Scheduler

\* A machine that follows its node keeps its pool.
LEMMA CarriedPools ==
    ASSUME TypeOK, Carried
    PROVE  \A n \in Nodes : /\ machine[n] = NoRow => machine'[n] = NoRow
                            /\ machine[n] # NoRow => /\ machine'[n] # NoRow
                                                     /\ machine'[n].pool = machine[n].pool
<1>1. ASSUME NEW n \in Nodes, machine[n] # NoRow
      PROVE  \/ machine'[n] = machine[n]
             \/ n \in Live /\ machine'[n] = [machine[n] EXCEPT !.cores = cores[n]]
  BY <1>1 DEF Carried, TypeOK
<1>2. ASSUME NEW n \in Nodes, machine[n] # NoRow
      PROVE  machine[n] \in Place /\ [machine[n] EXCEPT !.cores = cores[n]].pool = machine[n].pool
  BY <1>2 DEF TypeOK, Place
<1>3. ASSUME NEW n \in Nodes, machine[n] # NoRow PROVE machine'[n] # NoRow
  <2>1. CASE machine'[n] = machine[n]
    BY <1>3, <2>1
  <2>2. CASE machine'[n] # machine[n]
    <3>0. n \in Live
      BY <1>1, <1>3, <2>2
    <3>1. cores[n] \in 1 .. MaxCores
      BY <3>0, PlacementAssumption DEF TypeOK, Live
    <3>2. [machine[n] EXCEPT !.cores = cores[n]] \in Place
      BY <1>2, <1>3, <3>1 DEF Place
    <3>. QED
      BY <1>1, <1>3, <2>2, <3>2, NoRowAssumption
  <2>. QED
    BY <2>1, <2>2
<1>4. ASSUME NEW n \in Nodes, machine[n] = NoRow PROVE machine'[n] = NoRow
  BY <1>4 DEF Carried, TypeOK
<1>. QED
  BY <1>1, <1>2, <1>3, <1>4

LEMMA BuildersPlaceInv == PlaceInv /\ TypeInv /\ Builders => PlaceInv'
<1>. SUFFICES ASSUME PlaceInv, TypeInv, Builders PROVE PlaceInv'
  OBVIOUS
<1>. USE DEF PlaceInv, asked, rows, targets, host, locals
<1>0. TypeOK
  BY DEF TypeInv
<1>1. /\ UNCHANGED <<cores, gone, dpm, dpv, placed, got, todo, aborted>>
      /\ turn' # "placing" /\ turn # "placing" /\ Live' = Live
  BY BuildersElsewhere DEF BuildersFrame, Live
<1>2. ASSUME Network \/ BuildPools PROVE PlaceInv'
  <2>1. UNCHANGED <<machine, vol, mres, vres>> /\ turn' # "machines"
    BY <1>2 DEF Network, BuildPools
  <2>2. PlacingInv' /\ UnusedInv' /\ SamePoolInv'
    BY <1>1, <2>1 DEF PlacingInv, UnusedInv, SamePoolInv
  <2>3. FreshInv' /\ TargetInv' /\ DomainInv'
    BY <1>1, <2>1 DEF FreshInv, TargetInv, DomainInv
  <2>. QED
    BY <2>2, <2>3
<1>3. ASSUME BuildVolumes PROVE PlaceInv'
  <2>1. /\ DOMAIN vres' = {n \in Nodes : vol'[n] # NoRow}
        /\ \A n \in DOMAIN vres' : vres'[n] = vol[n]
        /\ \A n \in Nodes : vol'[n] = vol[n] \/ (vol'[n] = NoRow /\ n \notin DOMAIN vres)
        /\ \A n \in Nodes : machine'[n] = machine[n] \/ (machine'[n] = NoRow /\ n \notin DOMAIN vres)
        /\ mres' = mres
    BY <1>3 DEF BuildVolumes, NoSpace, NewVolumes
  <2>2. PlacingInv' /\ UnusedInv' /\ SamePoolInv'
    BY <1>1, <2>1 DEF PlacingInv, UnusedInv, SamePoolInv, Live
  <2>3. FreshInv'
    BY <1>1, <2>1 DEF FreshInv, Live
  <2>4. TargetInv'
    <3>1. ASSUME NEW n \in Live, n \in DOMAIN mres
          PROVE  machine'[n] = machine[n] /\ vol'[n] = vol[n] /\ vol[n] # NoRow /\ n \in Nodes
      <4>1. n \in DOMAIN vres /\ vres[n] = vol[n] /\ n \in Nodes
        BY <3>1 DEF TargetInv, Live
      <4>2. vres[n] \in Disk
        BY <1>0, <4>1 DEF TypeOK, PartialFunction
      <4>. QED
        BY <2>1, <4>1, <4>2, NoRowAssumption
    <3>. QED
      BY <1>1, <2>1, <3>1 DEF TargetInv
  <2>5. DomainInv'
    BY <1>1, <2>1 DEF DomainInv
  <2>. QED
    BY <2>2, <2>3, <2>4, <2>5
<1>4. ASSUME BuildMachines PROVE PlaceInv'
  <2>0. Built /\ turn = "machines" /\ turn' = "nodes"
    BY <1>4, BuiltStep
  <2>1. \A n \in Nodes :
          /\ n \in Rescheduled => n \notin DOMAIN mres /\ machine[n] # NoRow /\ n \notin DOMAIN mres'
          /\ n \in Rescheduled => machine'[n] = NoRow /\ (vol'[n] = vol[n] \/ vol'[n].attached = FALSE)
          /\ n \in Rescheduled /\ vol[n] = NoRow => vol'[n] = vol[n]
          /\ n \notin Rescheduled => machine'[n] = machine[n] /\ vol'[n] = vol[n]
    <3>1. \A n \in Rescheduled : n \in Nodes /\ n \notin DOMAIN mres /\ machine[n] # NoRow
      BY DEF Rescheduled, NotEnough, NewMachines
    <3>2. DOMAIN machine = Nodes /\ DOMAIN vol = Nodes
      BY <1>0 DEF TypeOK
    <3>3. \A n \in Nodes : vol[n] # NoRow => [vol[n] EXCEPT !.attached = FALSE].attached = FALSE
      BY <1>0 DEF TypeOK, Disk
    <3>4. \A n \in Rescheduled : n \notin DOMAIN mres'
      BY <2>0 DEF Built
    <3>. QED
      BY <2>0, <3>1, <3>2, <3>3, <3>4 DEF Built
  <2>2. \A n \in DOMAIN mres' : /\ n \notin Rescheduled /\ machine[n] # NoRow
                                /\ mres'[n] = machine[n] \/ (n \in DOMAIN mres /\ mres'[n] = mres[n])
                                /\ n \in DOMAIN mres \/ DepsReady(n)
    BY <2>0 DEF Built, Changed, NewMachines, DepsReady
  <2>3. \A n \in DOMAIN mres : machine[n] # NoRow /\ n \notin Rescheduled => n \in DOMAIN mres'
    BY <2>0 DEF Built
  <2>4. PlacingInv'
    BY <1>1, <2>1 DEF PlacingInv, Live
  <2>5. UnusedInv'
    BY <1>1, <2>1, <2>2 DEF UnusedInv
  <2>6. SamePoolInv'
    BY <2>1 DEF SamePoolInv
  <2>7. FreshInv'
    BY <2>0 DEF FreshInv
  <2>8. TargetInv'
    <3>1. vres' = vres
      BY <2>0 DEF Built
    <3>2. ASSUME NEW n \in Live, n \in DOMAIN mres'
          PROVE  /\ machine'[n] # NoRow /\ machine'[n].pool = mres'[n].pool
                 /\ vol'[n] = [pool |-> mres'[n].pool, attached |-> TRUE]
                 /\ n \in DOMAIN vres /\ vres[n] = vol'[n]
      <4>1. n \in Nodes /\ machine'[n] = machine[n] /\ vol'[n] = vol[n] /\ machine[n] # NoRow
        BY <2>1, <2>2, <3>2 DEF Live
      <4>2. CASE n \in DOMAIN mres
        BY <2>2, <3>2, <4>1, <4>2 DEF TargetInv
      <4>3. CASE n \notin DOMAIN mres
        <5>1. mres'[n] = machine[n] /\ vol[n] # NoRow /\ vol[n].attached
          BY <2>2, <3>2, <4>3 DEF DepsReady
        <5>2. machine[n].pool = vol[n].pool
          BY <4>1, <5>1 DEF SamePoolInv
        <5>3. n \in DOMAIN vres /\ vres[n] = vol[n]
          BY <2>0, <5>1 DEF FreshInv
        <5>4. vol[n] \in Disk
          BY <1>0, <4>1, <5>1 DEF TypeOK
        <5>5. vol[n] = [pool |-> vol[n].pool, attached |-> TRUE]
          BY <5>1, <5>4 DEF Disk
        <5>. QED
          BY <4>1, <5>1, <5>2, <5>3, <5>5
      <4>. QED
        BY <4>2, <4>3
    <3>. QED
      BY <1>1, <3>1, <3>2 DEF TargetInv
  <2>9. DomainInv'
    <3>1. ASSUME NEW n \in Live, NEW p \in Pools, dpm[p][n] > 0
          PROVE  n \in DOMAIN mres' /\ mres'[n].pool = p /\ n \in dpv[p]
      <4>1. n \in DOMAIN mres /\ mres[n].pool = p /\ n \in dpv[p] /\ n \in Nodes
        BY <3>1 DEF DomainInv, Live
      <4>2. machine[n] # NoRow /\ machine[n].pool = p
        BY <4>1 DEF TargetInv
      <4>. QED
        BY <2>1, <2>2, <2>3, <4>1, <4>2
    <3>. QED
      BY <1>1, <3>1 DEF DomainInv
  <2>. QED
    BY <2>4, <2>5, <2>6, <2>7, <2>8, <2>9
<1>5. ASSUME BuildNodes PROVE PlaceInv'
  <2>0. Carried /\ turn' = "agent"
    BY <1>5, CarriedStep
  <2>1. \A n \in Nodes : /\ machine[n] = NoRow => machine'[n] = NoRow
                         /\ machine[n] # NoRow => /\ machine'[n] # NoRow
                                                  /\ machine'[n].pool = machine[n].pool
    BY <1>0, <2>0, CarriedPools
  <2>2. UNCHANGED <<vol, mres, vres>>
    BY <2>0 DEF Carried
  <2>3. PlacingInv' /\ UnusedInv' /\ SamePoolInv'
    BY <1>1, <2>1, <2>2 DEF PlacingInv, UnusedInv, SamePoolInv, Live
  <2>4. FreshInv' /\ TargetInv' /\ DomainInv'
    BY <1>1, <2>0, <2>1, <2>2 DEF FreshInv, TargetInv, DomainInv, Live
  <2>. QED
    BY <2>3, <2>4
<1>. QED
  BY <1>2, <1>3, <1>4, <1>5 DEF Builders

\* A step of the agent, seen by what the tables and targets say of places.
AgentFrame ==
    /\ UNCHANGED <<cores, gone, machine, vol, mres, vres, got, placed, aborted>>
    /\ turn # "placing" /\ turn' # "placing" /\ turn' # "machines" /\ Live' = Live

LEMMA AgentKeeps == PlaceInv /\ AgentFrame =>
    PlacingInv' /\ SamePoolInv' /\ FreshInv' /\ TargetInv'
BY DEF PlaceInv, AgentFrame, PlacingInv, SamePoolInv, FreshInv, TargetInv

LEMMA AgentPlaceInv ==
    PlaceInv /\ TypeInv /\ (\E n \in Nodes : AgentVolume(n)) => PlaceInv'
<1>. SUFFICES ASSUME PlaceInv, TypeInv, NEW n \in Nodes, AgentVolume(n) PROVE PlaceInv'
  OBVIOUS
<1>. USE DEF asked, rows, targets, host, locals
<1>1. HandlesDisk(n)
  BY HandlesDiskStep
<1>2. AgentFrame
  BY DEF AgentVolume, AgentFrame, Live
<1>3. UnusedInv'
  BY <1>1 DEF HandlesDisk, PlaceInv, UnusedInv
<1>4. DomainInv'
  <2>1. ASSUME NEW m \in Live, NEW p \in Pools, dpm[p][m] > 0
        PROVE  m \in DOMAIN mres /\ mres[m].pool = p /\ m \in dpv'[p]
    <3>1. m \in DOMAIN mres /\ mres[m].pool = p /\ m \in dpv[p] /\ m \in DOMAIN vres
      BY <2>1 DEF PlaceInv, DomainInv, TargetInv
    <3>2. vres[m] = [pool |-> mres[m].pool, attached |-> TRUE]
      BY <3>1 DEF PlaceInv, TargetInv
    <3>3. vres[m].pool = p
      BY <3>1, <3>2
    <3>. QED
      BY <1>1, <3>1, <3>3 DEF HandlesDisk, Left
  <2>2. dpm' = dpm /\ mres' = mres /\ Live' = Live
    BY <1>1 DEF HandlesDisk, Live
  <2>. QED
    BY <2>1, <2>2 DEF DomainInv
<1>. QED
  BY <1>2, <1>3, <1>4, AgentKeeps DEF PlaceInv

LEMMA MachinePlaceInv ==
    ASSUME PlaceInv, TypeInv, NEW n \in Nodes, NEW p \in Pools, CreateOrUpdateMachine(n, p)
    PROVE  PlaceInv'
<1>. USE DEF asked, rows, targets, host, locals
<1>0. TypeOK
  BY DEF TypeInv
<1>1. Sizes(n, p)
  BY SizesStep
<1>2. AgentFrame
  BY DEF CreateOrUpdateMachine, AgentFrame, Live
<1>3. \A m \in Nodes, q \in Pools : m # n \/ q # p => dpm'[q][m] = dpm[q][m]
  BY <1>0, <1>1 DEF Sizes, SetCores, TypeOK
<1>4. UnusedInv'
  BY <1>1, <1>3 DEF Sizes, PlaceInv, UnusedInv
<1>5. n \in Live => n \in DOMAIN mres /\ mres[n].pool = p /\ n \in dpv[p]
  <2>1. n \in DOMAIN mres /\ mres[n].pool = p
    BY DEF CreateOrUpdateMachine, Wanted
  <2>2. CASE dpm[p][n] = 0
    BY <2>1, <2>2 DEF CreateOrUpdateMachine, Startable
  <2>3. CASE dpm[p][n] # 0
    <3>1. dpm[p][n] > 0
      BY <1>0, <2>3, PlacementAssumption DEF TypeOK
    <3>. QED
      BY <2>1, <3>1 DEF PlaceInv, DomainInv
  <2>. QED
    BY <2>2, <2>3
<1>6. DomainInv'
  BY <1>1, <1>2, <1>3, <1>5 DEF Sizes, AgentFrame, PlaceInv, DomainInv, Live
<1>. QED
  BY <1>2, <1>4, <1>6, AgentKeeps DEF PlaceInv

LEMMA RestPlaceInv == PlaceInv /\ TypeInv /\ AgentRest => PlaceInv'
<1>. SUFFICES ASSUME PlaceInv, TypeInv, AgentRest PROVE PlaceInv'
  OBVIOUS
<1>. USE DEF asked, rows, targets, host, locals
<1>0. TypeOK /\ TypeOK'
  BY RestTypeInv DEF TypeInv
<1>1. ASSUME AgentStart \/ AgentVolumesDone \/ AgentReport PROVE PlaceInv'
  <2>1. AgentFrame /\ dpm' = dpm /\ dpv' = dpv
    BY <1>1 DEF AgentStart, AgentVolumesDone, AgentReport, AgentFrame, Live
  <2>2. UnusedInv' /\ DomainInv'
    BY <2>1 DEF AgentFrame, PlaceInv, UnusedInv, DomainInv
  <2>. QED
    BY <2>1, <2>2, AgentKeeps DEF PlaceInv
<1>2. ASSUME NEW n \in Nodes, NEW p \in Pools, LeaveMachine(n, p) PROVE PlaceInv'
  <2>1. AgentFrame /\ dpm' = dpm /\ dpv' = dpv
    BY <1>2 DEF LeaveMachine, AgentFrame, Live
  <2>2. UnusedInv' /\ DomainInv'
    BY <2>1 DEF AgentFrame, PlaceInv, UnusedInv, DomainInv
  <2>. QED
    BY <2>1, <2>2, AgentKeeps DEF PlaceInv
<1>3. ASSUME NEW n \in Nodes, DeleteMachine(n) PROVE PlaceInv'
  <2>1. AgentFrame /\ dpv' = dpv
    BY <1>3 DEF DeleteMachine, AgentFrame, Live
  <2>2. \A m \in Nodes, p \in Pools : dpm'[p][m] = dpm[p][m] \/ dpm'[p][m] = 0
    BY <1>0, <1>3 DEF DeleteMachine, TypeOK
  <2>3. UnusedInv' /\ DomainInv'
    BY <2>1, <2>2 DEF AgentFrame, PlaceInv, UnusedInv, DomainInv, Live
  <2>. QED
    BY <2>1, <2>3, AgentKeeps DEF PlaceInv
<1>4. ASSUME NEW n \in Nodes, NEW p \in Pools, CrashInUpdate(n, p) PROVE PlaceInv'
  <2>1. \A m \in Nodes, q \in Pools : dpm'[q][m] = dpm[q][m] \/ dpm'[q][m] = 0
    BY <1>0, <1>4 DEF CrashInUpdate, TypeOK
  <2>2. /\ UNCHANGED <<cores, gone, machine, vol, mres, vres, dpv>>
        /\ placed' = Empty /\ got' = Empty /\ turn' = "schedule"
    BY <1>4 DEF CrashInUpdate, Restarted
  <2>3. \A m \in Nodes, q \in Pools : dpm'[q][m] > 0 => dpm[q][m] > 0
    <3>1. ASSUME NEW m \in Nodes, NEW q \in Pools, dpm'[q][m] > 0 PROVE dpm[q][m] > 0
      <4>1. dpm'[q][m] # 0
        BY <3>1
      <4>. QED
        BY <2>1, <3>1, <4>1
    <3>. QED
      BY <3>1
  <2>4. \A m \in Nodes, q \in Pools : dpm[q][m] = 0 => dpm'[q][m] = 0
    BY <2>1
  <2>5. DOMAIN got' = {}
    BY <2>2 DEF Empty
  <2>. QED
    BY <1>0, <2>2, <2>3, <2>4, <2>5, KeptPlaceInv
<1>. QED
  BY <1>1, <1>2, <1>3, <1>4 DEF AgentRest

LEMMA PlaceInvKept == TypeInv /\ TypeInv' /\ PlaceInv /\ [Next]_vars => PlaceInv'
<1>1. ASSUME TypeInv, TypeInv', PlaceInv, Crash PROVE PlaceInv'
  <2>. USE DEF asked, rows, targets, host, locals
  <2>1. /\ UNCHANGED <<cores, gone, machine, vol, mres, vres, dpm, dpv>>
        /\ placed' = Empty /\ got' = Empty /\ turn' = "schedule"
    BY <1>1 DEF Crash, Restarted
  <2>2. DOMAIN got' = {}
    BY <2>1 DEF Empty
  <2>. QED
    BY <1>1, <2>1, <2>2, KeptPlaceInv DEF TypeInv
<1>2. ASSUME TypeInv, TypeInv', PlaceInv, UNCHANGED vars PROVE PlaceInv'
  <2>1. /\ UNCHANGED <<cores, gone, machine, vol, mres, vres, dpm, dpv>>
        /\ placed' = placed /\ got' = got /\ todo' = todo /\ aborted' = aborted /\ turn' = turn
    BY <1>2 DEF vars, asked, rows, targets, host, locals
  <2>. QED
    BY <1>2, <2>1, KeptPlaceInv DEF TypeInv
<1>3. TypeInv /\ TypeInv' /\ PlaceInv /\ Next => PlaceInv'
  BY <1>1, Steps, SchedulerPlaceInv, BuildersPlaceInv, RestPlaceInv, UserPlaceInv,
     AgentPlaceInv, MachinePlaceInv
<1>. QED
  BY <1>2, <1>3

LEMMA PlaceInvHolds == Spec => []PlaceInv
BY TypeInvHolds, InitPlaceInv, PlaceInvKept, PTL DEF Spec

\* A machine that runs, of a node that is not deleted, runs on the hypervisor
\* its row and its root volume's row name, and its disk is there: a placement
\* is never undone under a machine that exists.
THEOREM MachinesRunWhereTheirDisksAre == Spec => []RunsWhereItsDiskIs
<1>1. PlaceInv => RunsWhereItsDiskIs
  BY DEF PlaceInv, DomainInv, TargetInv, RunsWhereItsDiskIs
<1>. QED
  BY <1>1, PlaceInvHolds, PTL

\* Only the user's deletion, or a crash between the two halves of a change,
\* stops a machine that runs.
THEOREM MachinesKeepRunning == Spec => RunningStays
<1>. DEFINE Stays == \A n \in Live : Runs(n) => Runs(n)' \/ \E p \in Pools : CrashInUpdate(n, p)
<1>1. ASSUME TypeInv, PlaceInv, Next PROVE Stays
  <2>. USE DEF asked, rows, targets, host, locals
  <2>0. TypeOK
    BY <1>1 DEF TypeInv
  <2>1. SUFFICES ASSUME NEW n \in Live, NEW p \in Pools, dpm[p][n] > 0,
                        ~\E q \in Pools : CrashInUpdate(n, q)
                 PROVE  \E q \in Pools : dpm'[q][n] > 0
    BY DEF Runs
  <2>2. n \in Nodes /\ n \in DOMAIN mres
    BY <1>1, <2>1 DEF Live, PlaceInv, DomainInv
  <2>3. CASE dpm' = dpm
    BY <2>1, <2>3
  <2>4. ASSUME NEW m \in Nodes, NEW q \in Pools, CreateOrUpdateMachine(m, q)
        PROVE  dpm'[p][n] > 0
    <3>1. mres[m].cores > 0
      BY <2>0, <2>4, PlacementAssumption DEF CreateOrUpdateMachine, Wanted, TypeOK, PartialFunction, Place
    <3>. QED
      BY <2>0, <2>1, <2>2, <2>4, <3>1 DEF CreateOrUpdateMachine, SetCores, TypeOK
  <2>5. ASSUME NEW m \in Nodes, DeleteMachine(m)
        PROVE  dpm'[p][n] > 0
    <3>1. m # n
      BY <2>2, <2>5 DEF DeleteMachine
    <3>. QED
      BY <2>0, <2>1, <2>2, <2>5, <3>1 DEF DeleteMachine, TypeOK
  <2>6. ASSUME NEW m \in Nodes, NEW q \in Pools, CrashInUpdate(m, q)
        PROVE  dpm'[p][n] > 0
    <3>1. m # n
      BY <2>1, <2>6
    <3>. QED
      BY <2>0, <2>1, <2>2, <2>6, <3>1 DEF CrashInUpdate, TypeOK
  <2>7. ASSUME NEW m \in Nodes, AgentVolume(m) PROVE dpm' = dpm
    BY <2>7, HandlesDiskStep DEF HandlesDisk
  <2>8. ASSUME User PROVE dpm' = dpm
    BY <2>8 DEF User, DeleteNode, CreateNode, ResizeNode
  <2>9. ASSUME Scheduler PROVE dpm' = dpm
    <3>1. ASSUME NEW m \in Nodes, NEW q \in Pools, PlaceNode(m, q) PROVE dpm' = dpm
      BY <3>1, PlaceNodeStep DEF Placing
    <3>2. ScheduleCommit => dpm' = dpm
      BY <2>0, CommittingStep DEF Committing
    <3>3. ScheduleBegin => dpm' = dpm
      BY DEF ScheduleBegin
    <3>4. ASSUME NEW m \in Nodes, SchedulePass(m) PROVE dpm' = dpm
      BY <3>4 DEF SchedulePass
    <3>. QED
      BY <2>9, <3>1, <3>2, <3>3, <3>4 DEF Scheduler
  <2>10. Builders => dpm' = dpm
    BY BuildersElsewhere DEF BuildersFrame
  <2>11. Crash => dpm' = dpm
    BY DEF Crash
  <2>12. AgentStart \/ AgentVolumesDone \/ AgentReport => dpm' = dpm
    BY DEF AgentStart, AgentVolumesDone, AgentReport
  <2>13. ASSUME NEW m \in Nodes, NEW q \in Pools, LeaveMachine(m, q) PROVE dpm' = dpm
    BY <2>13 DEF LeaveMachine
  <2>14. AgentRest => dpm' = dpm \/ dpm'[p][n] > 0
    BY <2>5, <2>6, <2>12, <2>13 DEF AgentRest
  <2>15. dpm' = dpm \/ dpm'[p][n] > 0
    BY <1>1, <2>4, <2>7, <2>8, <2>9, <2>10, <2>11, <2>14, Steps
  <2>. QED
    BY <2>1, <2>15
<1>2. TypeInv /\ PlaceInv /\ [Next]_vars => [Stays]_vars
  BY <1>1
<1>3. Spec => [][Stays]_vars
  BY <1>2, TypeInvHolds, PlaceInvHolds, PTL DEF Spec
<1>. QED
  BY <1>3 DEF RunningStays

-----------------------------------------------------------------------------
(* Where there is room, nodes of a policy are kept apart.                  *)

\* Nodes that may use a hypervisor, or will never be placed again.
Begun == gone \union DOMAIN mres

\* An availability v of a hypervisor of c cores that has lost at most what the
\* nodes of S can use.
Enough(v, c, S) == v # NoRow => v.cores + MaxCores * Cardinality(S) >= c

\* What the agent reports, the row holds and the scheduler counts down is never
\* less than what the nodes begun, and the nodes placed since, leave free.
RoomInv == \A p \in Pools :
    /\ Enough(rep[p], cap[p].cores, Begun)
    /\ Enough(row[p], cap[p].cores, Begun)
    /\ turn = "placing" /\ p \in DOMAIN free =>
           Enough(free[p], cap[p].cores, Begun \union DOMAIN placed)

AllOrNone(f) == (\A p \in Pools : f[p] = NoRow) \/ (\A p \in Pools : f[p] # NoRow)

\* All hypervisors get their agent at once, and report at once.
AllInv ==
    /\ managed \in {{}, Pools} /\ AllOrNone(rep) /\ AllOrNone(row)
    /\ turn = "placing" => DOMAIN free \in {{}, Pools}

\* MatesApart, with the machines of the transaction that is running.
MatesInv == (Roomy /\ Cardinality(Mates) <= Cardinality(Pools)) =>
    \A m, n \in Mates : m # n /\ PoolOf(m) # NoRow /\ PoolOf(n) # NoRow => PoolOf(m) # PoolOf(n)

ApartInv == RoomInv /\ AllInv /\ MatesInv

\* More nodes can use more.
LEMMA WorthOfMore ==
    ASSUME NEW S, NEW T, S \subseteq T, T \subseteq Nodes
    PROVE  /\ MaxCores * Cardinality(S) \in Nat /\ MaxCores * Cardinality(T) \in Nat
           /\ MaxCores * Cardinality(S) <= MaxCores * Cardinality(T)
<1>1. IsFiniteSet(T) /\ IsFiniteSet(S)
  BY PlacementAssumption, FS_Subset
<1>2. Cardinality(S) \in Nat /\ Cardinality(T) \in Nat /\ Cardinality(S) <= Cardinality(T)
  BY <1>1, FS_Subset, FS_CardinalityType
<1>3. PICK d \in Nat : Cardinality(T) = Cardinality(S) + d
  <2>1. Cardinality(T) - Cardinality(S) \in Nat
    BY <1>2
  <2>. QED
    BY <1>2, <2>1
<1>. DEFINE s == Cardinality(S)
<1>4. s \in Nat /\ MaxCores \in Nat
  BY <1>2, PlacementAssumption
<1>. HIDE DEF s
<1>5. MaxCores * (s + d) = MaxCores * s + MaxCores * d
  BY <1>3, <1>4
<1>6. MaxCores * s \in Nat /\ MaxCores * d \in Nat
  BY <1>3, <1>4
<1>7. MaxCores * s <= MaxCores * (s + d) /\ MaxCores * (s + d) \in Nat
  BY <1>5, <1>6
<1>. QED
  BY <1>3, <1>6, <1>7 DEF s

LEMMA WorthOfOne ==
    ASSUME NEW S, S \subseteq Nodes, NEW n \in Nodes, n \notin S
    PROVE  MaxCores * Cardinality(S \union {n}) = MaxCores * Cardinality(S) + MaxCores
<1>1. IsFiniteSet(S)
  BY PlacementAssumption, FS_Subset
<1>2. Cardinality(S) \in Nat /\ Cardinality(S \union {n}) = Cardinality(S) + 1
  BY <1>1, FS_AddElement, FS_CardinalityType
<1>3. MaxCores * (Cardinality(S) + 1) = MaxCores * Cardinality(S) + MaxCores
  BY <1>2, PlacementAssumption
<1>. QED
  BY <1>2, <1>3

LEMMA EnoughForMore ==
    ASSUME NEW v \in Avail \union {NoRow}, NEW c \in Nat, NEW S, NEW T,
           S \subseteq T, T \subseteq Nodes, Enough(v, c, S)
    PROVE  Enough(v, c, T)
<1>1. v # NoRow => v.cores \in Nat
  BY DEF Avail
<1>2. /\ MaxCores * Cardinality(S) \in Nat /\ MaxCores * Cardinality(T) \in Nat
      /\ MaxCores * Cardinality(S) <= MaxCores * Cardinality(T)
  BY WorthOfMore
<1>. QED
  BY <1>1, <1>2 DEF Enough

\* Nobody leaves the nodes begun.
LEMMA BegunGrows ==
    TypeInv /\ TypeInv' /\ PlaceInv /\ [Next]_vars => Begun \subseteq Begun' /\ Begun' \subseteq Nodes /\ cap' = cap
<1>. SUFFICES ASSUME TypeInv, TypeInv', PlaceInv, [Next]_vars
              PROVE  Begun \subseteq Begun' /\ Begun' \subseteq Nodes /\ cap' = cap
  OBVIOUS
<1>. USE DEF asked, rows, targets, host, locals
<1>0. TypeOK /\ TypeOK'
  BY DEF TypeInv
<1>1. Begun' \subseteq Nodes
  BY <1>0 DEF Begun, TypeOK, PartialFunction
<1>2. CASE BuildMachines
  <2>1. Built /\ gone' = gone /\ cap' = cap
    BY <1>2, BuiltStep, BuildersElsewhere DEF Builders, BuildersFrame
  <2>2. ASSUME NEW n \in DOMAIN mres, n \notin gone PROVE n \in DOMAIN mres'
    <3>1. n \in Nodes /\ cores[n] # 0
      BY <1>0, <2>2 DEF TypeOK, PartialFunction, PlaceInv, UnusedInv
    <3>2. n \in Live
      BY <1>0, <2>2, <3>1 DEF Live, TypeOK
    <3>3. machine[n] # NoRow
      BY <3>2, <2>2 DEF PlaceInv, TargetInv
    <3>. QED
      BY <2>1, <2>2, <3>3 DEF Built, Rescheduled, NotEnough, NewMachines
  <2>. QED
    BY <1>1, <2>1, <2>2 DEF Begun
<1>3. CASE ~BuildMachines
  <2>1. User => mres' = mres /\ gone \subseteq gone' /\ cap' = cap
    BY DEF User, DeleteNode, CreateNode, ResizeNode
  <2>2. Network \/ BuildPools \/ BuildVolumes => mres' = mres /\ gone' = gone /\ cap' = cap
    BY DEF Network, BuildPools, BuildVolumes
  <2>3. BuildNodes => mres' = mres /\ gone' = gone /\ cap' = cap
    BY CarriedStep, BuildersElsewhere DEF Carried, Builders, BuildersFrame
  <2>4. AgentRest => mres' = mres /\ gone' = gone /\ cap' = cap
    BY DEF AgentRest, AgentStart, AgentVolumesDone, AgentReport, DeleteMachine, LeaveMachine, CrashInUpdate
  <2>5. ASSUME NEW n \in Nodes, NEW p \in Pools, CreateOrUpdateMachine(n, p)
        PROVE  mres' = mres /\ gone' = gone /\ cap' = cap
    BY <2>5, SizesStep DEF Sizes
  <2>6. ASSUME NEW n \in Nodes, AgentVolume(n) PROVE mres' = mres /\ gone' = gone /\ cap' = cap
    BY <2>6, HandlesDiskStep DEF HandlesDisk
  <2>7. ASSUME NEW n \in Nodes, NEW p \in Pools, PlaceNode(n, p)
        PROVE  mres' = mres /\ gone' = gone /\ cap' = cap
    BY <2>7, PlaceNodeStep DEF Placing
  <2>8. ScheduleCommit => mres' = mres /\ gone' = gone /\ cap' = cap
    BY <1>0, CommittingStep DEF Committing
  <2>9. ScheduleBegin => mres' = mres /\ gone' = gone /\ cap' = cap
    BY DEF ScheduleBegin
  <2>10. ASSUME NEW n \in Nodes, SchedulePass(n) PROVE mres' = mres /\ gone' = gone /\ cap' = cap
    BY <2>10 DEF SchedulePass
  <2>11. Scheduler => mres' = mres /\ gone' = gone /\ cap' = cap
    BY <2>7, <2>8, <2>9, <2>10 DEF Scheduler
  <2>12. Crash => mres' = mres /\ gone' = gone /\ cap' = cap
    BY DEF Crash
  <2>13. UNCHANGED vars => mres' = mres /\ gone' = gone /\ cap' = cap
    BY DEF vars
  <2>14. mres' = mres /\ gone \subseteq gone' /\ cap' = cap
    BY <1>3, <2>1, <2>2, <2>3, <2>4, <2>5, <2>6, <2>11, <2>12, <2>13, Steps DEF Builders
  <2>. QED
    BY <1>1, <2>14 DEF Begun
<1>. QED
  BY <1>2, <1>3

LEMMA CapIsNat == ASSUME TypeOK, NEW p \in Pools PROVE cap[p].cores \in Nat
BY UsedIsNat

\* A node loses its pool or keeps it.
LEMMA KeptMates ==
    ASSUME MatesInv, cap' = cap, \A n \in Nodes : PoolOf(n)' = PoolOf(n) \/ PoolOf(n)' = NoRow
    PROVE  MatesInv'
<1>1. Roomy' <=> Roomy
  BY DEF Roomy
<1>2. Mates \subseteq Nodes
  BY PlacementAssumption
<1>3. ASSUME Roomy, Cardinality(Mates) <= Cardinality(Pools), NEW m \in Mates, NEW n \in Mates,
             m # n, PoolOf(m)' # NoRow, PoolOf(n)' # NoRow
      PROVE  PoolOf(m)' # PoolOf(n)'
  <2>1. PoolOf(m)' = PoolOf(m) /\ PoolOf(n)' = PoolOf(n)
    BY <1>2, <1>3
  <2>2. PoolOf(m) # PoolOf(n)
    BY <1>3, <2>1 DEF MatesInv
  <2>. QED
    BY <2>1, <2>2
<1>. QED
  BY <1>1, <1>3 DEF MatesInv

\* The reports and the rows stay, and the scheduler places nothing.
LEMMA KeptRoom ==
    ASSUME TypeOK, TypeOK', RoomInv, Begun \subseteq Begun', Begun' \subseteq Nodes, cap' = cap,
           \A p \in Pools : rep'[p] = rep[p] \/ Enough(rep'[p], cap[p].cores, Begun'),
           \A p \in Pools : row'[p] = row[p] \/ row'[p] = rep[p],
           turn' # "placing" \/ (turn' = turn /\ free' = free /\ DOMAIN placed' = DOMAIN placed)
    PROVE  RoomInv'
<1>1. ASSUME NEW p \in Pools
      PROVE  /\ cap[p].cores \in Nat /\ rep[p] \in Avail \union {NoRow} /\ row[p] \in Avail \union {NoRow}
             /\ Enough(rep[p], cap[p].cores, Begun) /\ Enough(row[p], cap[p].cores, Begun)
  BY CapIsNat DEF TypeOK, RoomInv
<1>2. ASSUME NEW p \in Pools
      PROVE  Enough(rep[p], cap[p].cores, Begun') /\ Enough(row[p], cap[p].cores, Begun')
  BY <1>1, EnoughForMore
<1>3. ASSUME NEW p \in Pools
      PROVE  Enough(rep'[p], cap[p].cores, Begun') /\ Enough(row'[p], cap[p].cores, Begun')
  <2>1. Enough(rep'[p], cap[p].cores, Begun')
    BY <1>2
  <2>2. Enough(row'[p], cap[p].cores, Begun')
    BY <1>2
  <2>. QED
    BY <2>1, <2>2
<1>4. ASSUME NEW p \in Pools, turn' = "placing", p \in DOMAIN free'
      PROVE  Enough(free'[p], cap[p].cores, Begun' \union DOMAIN placed')
  <2>1. turn = "placing" /\ free' = free /\ DOMAIN placed' = DOMAIN placed
    BY <1>4
  <2>2. Enough(free[p], cap[p].cores, Begun \union DOMAIN placed)
    BY <1>4, <2>1 DEF RoomInv
  <2>3. free[p] \in Avail /\ DOMAIN placed \subseteq Nodes
    BY <1>4, <2>1 DEF TypeOK, PartialFunction
  <2>4. Begun \union DOMAIN placed \subseteq Begun' \union DOMAIN placed
    OBVIOUS
  <2>5. Begun' \union DOMAIN placed \subseteq Nodes
    BY <2>3
  <2>6. Enough(free[p], cap[p].cores, Begun' \union DOMAIN placed)
    BY <1>1, <2>2, <2>3, <2>4, <2>5, EnoughForMore
  <2>. QED
    BY <2>1, <2>6
<1>. QED
  BY <1>3, <1>4 DEF RoomInv

LEMMA KeptAll ==
    ASSUME AllInv, managed' = managed \/ managed' = Pools, UNCHANGED <<rep, row>>,
           turn' # "placing" \/ (turn' = turn /\ DOMAIN free' = DOMAIN free)
    PROVE  AllInv'
BY DEF AllInv, AllOrNone

LEMMA InitApartInv == Init => ApartInv
<1>. SUFFICES ASSUME Init PROVE ApartInv
  OBVIOUS
<1>1. RoomInv
  BY DEF Init, RoomInv, Enough
<1>2. AllInv
  BY DEF Init, AllInv, AllOrNone
<1>3. \A n \in Nodes : PoolOf(n) = NoRow
  BY DEF Init, PoolOf, Empty
<1>4. MatesInv
  BY <1>3, PlacementAssumption DEF MatesInv
<1>. QED
  BY <1>1, <1>2, <1>4 DEF ApartInv

\* The step of another transaction than the scheduler's, by what it changes.
Elsewhere ==
    /\ UNCHANGED <<rep, row>>
    /\ managed' = managed \/ managed' = Pools
    /\ turn' # "placing" \/ (turn' = turn /\ free' = free /\ DOMAIN placed' = DOMAIN placed)
    /\ \A n \in Nodes : PoolOf(n)' = PoolOf(n) \/ PoolOf(n)' = NoRow

LEMMA ElsewhereApart ==
    TypeInv /\ TypeInv' /\ PlaceInv /\ ApartInv /\ [Next]_vars /\ Elsewhere => ApartInv'
<1>. SUFFICES ASSUME TypeInv, TypeInv', PlaceInv, ApartInv, [Next]_vars, Elsewhere PROVE ApartInv'
  OBVIOUS
<1>1. Begun \subseteq Begun' /\ Begun' \subseteq Nodes /\ cap' = cap
  BY BegunGrows
<1>2. RoomInv'
  BY <1>1, KeptRoom DEF Elsewhere, ApartInv, TypeInv
<1>3. AllInv' /\ MatesInv'
  BY <1>1, KeptAll, KeptMates DEF Elsewhere, ApartInv
<1>. QED
  BY <1>2, <1>3 DEF ApartInv

\* Pools after a step that leaves the machines or takes some.
LEMMA PoolsStay ==
    ASSUME TypeOK, PlaceInv, \A n \in Nodes : machine'[n] = machine[n] \/ machine'[n] = NoRow,
           placed' = placed \/ placed' = Empty
    PROVE  \A n \in Nodes : PoolOf(n)' = PoolOf(n) \/ PoolOf(n)' = NoRow
<1>1. DOMAIN Empty = {}
  BY DEF Empty
<1>2. \A n \in Nodes : n \in DOMAIN placed => machine[n] = NoRow
  BY DEF PlaceInv, PlacingInv
<1>. QED
  BY <1>1, <1>2 DEF PoolOf

LEMMA ElsewhereSteps ==
    ASSUME TypeInv, PlaceInv,
           \/ User \/ Network \/ BuildVolumes \/ BuildMachines \/ BuildNodes \/ Crash
           \/ AgentStart \/ AgentVolumesDone \/ ScheduleCommit \/ UNCHANGED vars
           \/ \E n \in Nodes : AgentVolume(n) \/ DeleteMachine(n) \/ SchedulePass(n)
           \/ \E n \in Nodes, p \in Pools : \/ CreateOrUpdateMachine(n, p)
                                            \/ LeaveMachine(n, p) \/ CrashInUpdate(n, p)
    PROVE  Elsewhere
<1>. USE DEF asked, rows, targets, host, locals
<1>0. TypeOK
  BY DEF TypeInv
\* Steps that leave the machines.
<1>. DEFINE Plain ==
         /\ UNCHANGED <<rep, row, managed, machine>>
         /\ \/ turn' # "placing" /\ (placed' = placed \/ placed' = Empty)
            \/ turn' = turn /\ free' = free /\ placed' = placed
<1>1. Plain => Elsewhere
  BY <1>0, PoolsStay DEF Elsewhere
<1>2. Network \/ Crash \/ AgentStart \/ AgentVolumesDone => Plain
  BY DEF Network, Crash, Restarted, AgentStart, AgentVolumesDone
<1>3. ASSUME NEW n \in Nodes, DeleteMachine(n) \/ SchedulePass(n) PROVE Plain
  BY <1>3 DEF DeleteMachine, SchedulePass
<1>4. ASSUME NEW n \in Nodes, NEW p \in Pools, LeaveMachine(n, p) \/ CrashInUpdate(n, p) PROVE Plain
  BY <1>4 DEF LeaveMachine, CrashInUpdate, Restarted
<1>5. ASSUME NEW n \in Nodes, AgentVolume(n) PROVE Plain
  BY <1>5, HandlesDiskStep DEF HandlesDisk, AgentActs
<1>6. ASSUME NEW n \in Nodes, NEW p \in Pools, CreateOrUpdateMachine(n, p) PROVE Plain
  BY <1>6, SizesStep DEF Sizes, AgentActs
<1>7. UNCHANGED vars => Plain
  BY DEF vars
<1>8. ASSUME NEW n \in Nodes, NEW c \in 1 .. MaxCores, CreateNode(n, c) \/ ResizeNode(n, c) PROVE Plain
  BY <1>8 DEF CreateNode, ResizeNode
<1>9. ASSUME NEW n \in Nodes, DeleteNode(n) PROVE Elsewhere
  <2>1. \A m \in Nodes : machine'[m] = machine[m] \/ machine'[m] = NoRow
    BY <1>0, <1>9 DEF DeleteNode, TypeOK
  <2>2. UNCHANGED <<rep, row, managed, turn, free, placed>>
    BY <1>9 DEF DeleteNode
  <2>. QED
    BY <1>0, <2>1, <2>2, PoolsStay DEF Elsewhere
<1>10. ASSUME BuildVolumes \/ BuildMachines PROVE Elsewhere
  <2>1. BuildVolumes => \A m \in Nodes : machine'[m] = machine[m] \/ machine'[m] = NoRow
    BY DEF BuildVolumes
  <2>2. BuildMachines => \A m \in Nodes : machine'[m] = machine[m] \/ machine'[m] = NoRow
    BY <1>0, BuiltStep DEF Built, TypeOK
  <2>3. UNCHANGED <<rep, placed>> /\ turn' # "placing"
    BY <1>10, BuildersElsewhere DEF Builders, BuildersFrame
  <2>4. row' = row /\ managed' = managed
    BY <1>10, BuiltStep DEF BuildVolumes, Built
  <2>. QED
    BY <1>0, <1>10, <2>1, <2>2, <2>3, <2>4, PoolsStay DEF Elsewhere
<1>11. ASSUME BuildNodes PROVE Elsewhere
  <2>1. Carried /\ UNCHANGED <<rep, placed>> /\ turn' # "placing"
    BY <1>11, CarriedStep, BuildersElsewhere DEF Builders, BuildersFrame
  <2>2. row' = row /\ managed' = managed
    BY <2>1 DEF Carried
  <2>3. \A n \in Nodes : PoolOf(n)' = PoolOf(n)
    BY <1>0, <2>1, CarriedPools DEF PoolOf
  <2>. QED
    BY <2>1, <2>2, <2>3 DEF Elsewhere
<1>12. ASSUME ScheduleCommit PROVE Elsewhere
  <2>1. Committing
    BY <1>0, <1>12, CommittingStep
  <2>2. managed' = managed \/ managed' = Pools
    BY <1>12 DEF ScheduleCommit, Assigned
  <2>3. DOMAIN placed' = {} /\ UNCHANGED <<rep, row>> /\ turn' # "placing"
    BY <2>1 DEF Committing, Empty
  <2>4. ASSUME NEW n \in Nodes PROVE PoolOf(n)' = PoolOf(n) \/ PoolOf(n)' = NoRow
    <3>1. CASE n \in Done
      <4>1. n \in DOMAIN placed /\ machine'[n] = placed[n]
        BY <2>1, <3>1 DEF Committing, Done
      <4>2. placed[n] # NoRow
        BY <1>0, <4>1, NoRowAssumption DEF TypeOK, PartialFunction
      <4>. QED
        BY <2>3, <4>1, <4>2 DEF PoolOf
    <3>2. CASE n \notin Done
      <4>1. machine'[n] = machine[n]
        BY <2>1, <3>2 DEF Committing
      <4>2. n \in DOMAIN placed => machine[n] = NoRow
        BY DEF PlaceInv, PlacingInv
      <4>. QED
        BY <2>3, <4>1, <4>2 DEF PoolOf
    <3>. QED
      BY <3>1, <3>2
  <2>. QED
    BY <2>2, <2>3, <2>4 DEF Elsewhere
<1>. HIDE DEF Plain
<1>13. User => Elsewhere
  BY <1>1, <1>8, <1>9 DEF User
<1>. QED
  BY <1>1, <1>2, <1>3, <1>4, <1>5, <1>6, <1>7, <1>10, <1>11, <1>12, <1>13

\* What the agent reports is enough: only nodes begun have a domain.
LEMMA ReportIsEnough ==
    ASSUME TypeInv, PlaceInv, NEW p \in Pools
    PROVE  Enough(Fresh(p), cap[p].cores, Begun)
<1>0. TypeOK
  BY DEF TypeInv
<1>1. Begun \in SUBSET Nodes
  BY <1>0 DEF Begun, TypeOK, PartialFunction
<1>2. \A n \in Nodes : dpm[p][n] \in 0 .. MaxCores
  BY <1>0 DEF TypeOK
<1>3. ASSUME NEW n \in Nodes \ Begun PROVE dpm[p][n] = 0
  <2>1. CASE cores[n] = 0
    BY <2>1 DEF PlaceInv, UnusedInv
  <2>2. CASE cores[n] # 0
    <3>1. n \in Live
      BY <1>0, <1>3, <2>2, PlacementAssumption DEF Live, Begun, TypeOK
    <3>2. ~(dpm[p][n] > 0)
      BY <1>3, <3>1 DEF PlaceInv, DomainInv, Begun
    <3>3. dpm[p][n] \in 0 .. MaxCores
      BY <1>2, <1>3
    <3>. QED
      BY <3>2, <3>3, PlacementAssumption
  <2>. QED
    BY <2>1, <2>2
<1>4. Total(dpm[p], Nodes) <= MaxCores * Cardinality(Begun)
  BY <1>1, <1>2, <1>3, PlacementAssumption, TotalBound
<1>5. Used(p) <= MaxCores * Cardinality(Begun)
  BY <1>4, UsedIsTotal
<1>6. Used(p) \in Nat /\ cap[p].cores \in Nat /\ MaxCores * Cardinality(Begun) \in Nat
  BY <1>0, <1>1, UsedIsNat, WorthOfMore
<1>7. Fresh(p).cores = cap[p].cores - Used(p)
  BY DEF Fresh
<1>. QED
  BY <1>5, <1>6, <1>7 DEF Enough

LEMMA ReportApart ==
    TypeInv /\ TypeInv' /\ PlaceInv /\ ApartInv /\ [Next]_vars /\ (AgentReport \/ BuildPools) => ApartInv'
<1>. SUFFICES ASSUME TypeInv, TypeInv', PlaceInv, ApartInv, [Next]_vars, AgentReport \/ BuildPools
              PROVE  ApartInv'
  OBVIOUS
<1>. USE DEF asked, rows, targets, host, locals
<1>0. TypeOK /\ TypeOK'
  BY DEF TypeInv
<1>1. Begun \subseteq Begun' /\ Begun' \subseteq Nodes /\ cap' = cap
  BY BegunGrows
<1>2. MatesInv'
  <2>1. machine' = machine /\ placed' = placed
    BY DEF AgentReport, BuildPools
  <2>2. \A n \in Nodes : PoolOf(n)' = PoolOf(n) \/ PoolOf(n)' = NoRow
    BY <1>0, <2>1, PoolsStay
  <2>. QED
    BY <1>1, <2>2, KeptMates DEF ApartInv
<1>3. ASSUME AgentReport PROVE RoomInv' /\ AllInv'
  <2>1. /\ rep' = [p \in Pools |-> IF p \in DOMAIN free THEN Fresh(p) ELSE rep[p]]
        /\ UNCHANGED <<row, managed>> /\ turn' # "placing" /\ turn \in AgentTurns
    BY <1>3 DEF AgentReport, AgentTurns
  <2>2. ASSUME NEW p \in Pools PROVE rep'[p] = rep[p] \/ Enough(rep'[p], cap[p].cores, Begun')
    <3>1. CASE rep'[p] = Fresh(p)
      <4>1. Enough(rep'[p], cap[p].cores, Begun)
        BY <3>1, ReportIsEnough
      <4>2. rep'[p] \in Avail \union {NoRow} /\ cap[p].cores \in Nat
        BY <1>0, CapIsNat DEF TypeOK
      <4>. QED
        BY <1>1, <4>1, <4>2, EnoughForMore
    <3>. QED
      BY <2>1, <3>1
  <2>3. RoomInv'
    BY <1>0, <1>1, <2>1, <2>2, KeptRoom DEF ApartInv
  <2>4. DOMAIN free \in {{}, Pools}
    BY <2>1 DEF TypeInv, MemoryInv, ApartInv, AllInv
  <2>5. AllOrNone(rep)'
    <3>1. CASE DOMAIN free = {}
      BY <2>1, <3>1 DEF ApartInv, AllInv, AllOrNone
    <3>2. CASE DOMAIN free = Pools
      <4>1. \A p \in Pools : Fresh(p) \in Avail
        <5>1. ASSUME NEW p \in Pools PROVE Fresh(p) \in Avail
          <6>1. Used(p) <= cap[p].cores /\ Cardinality(dpv[p]) <= cap[p].store
            BY DEF TypeInv, NotOvercommitted
          <6>. QED
            BY <1>0, <6>1, UsedIsNat DEF Fresh, Avail
        <5>. QED
          BY <5>1
      <4>. QED
        BY <2>1, <3>2, <4>1, NoRowAssumption DEF AllOrNone
    <3>. QED
      BY <2>4, <3>1, <3>2
  <2>. QED
    BY <2>1, <2>3, <2>5 DEF ApartInv, AllInv, AllOrNone
<1>4. ASSUME BuildPools PROVE RoomInv' /\ AllInv'
  <2>1. /\ row' = [p \in Pools |-> IF p \in managed /\ rep[p] # NoRow THEN rep[p] ELSE row[p]]
        /\ UNCHANGED <<rep, managed>> /\ turn' # "placing"
    BY <1>4 DEF BuildPools
  <2>2. \A p \in Pools : row'[p] = row[p] \/ row'[p] = rep[p]
    BY <2>1
  <2>3. RoomInv'
    BY <1>0, <1>1, <2>1, <2>2, KeptRoom DEF ApartInv
  <2>4. AllOrNone(row)'
    BY <2>1 DEF ApartInv, AllInv, AllOrNone
  <2>. QED
    BY <2>1, <2>3, <2>4 DEF ApartInv, AllInv, AllOrNone
<1>. QED
  BY <1>2, <1>3, <1>4 DEF ApartInv

LEMMA BeginApart ==
    TypeInv /\ TypeInv' /\ PlaceInv /\ ApartInv /\ [Next]_vars /\ ScheduleBegin => ApartInv'
<1>. SUFFICES ASSUME TypeInv, TypeInv', PlaceInv, ApartInv, [Next]_vars, ScheduleBegin
              PROVE  ApartInv'
  OBVIOUS
<1>. USE DEF asked, rows, targets, host, locals
<1>0. TypeOK /\ TypeOK'
  BY DEF TypeInv
<1>1. Begun' = Begun /\ cap' = cap /\ UNCHANGED <<rep, row, managed, machine>> /\ placed' = Empty
  BY DEF ScheduleBegin, Begun
<1>2. /\ DOMAIN free' = {p \in Pools : p \in managed /\ row[p] # NoRow}
      /\ \A p \in DOMAIN free' : free'[p] = row[p]
  BY <1>0 DEF ScheduleBegin, Restricted, TypeOK
<1>3. RoomInv'
  <2>1. DOMAIN placed' = {}
    BY <1>1 DEF Empty
  <2>2. ASSUME NEW p \in Pools, p \in DOMAIN free'
        PROVE  Enough(free'[p], cap[p].cores, Begun \union DOMAIN placed')
    <3>1. Enough(row[p], cap[p].cores, Begun)
      BY DEF ApartInv, RoomInv
    <3>2. Begun \union DOMAIN placed' = Begun /\ free'[p] = row[p]
      BY <1>2, <2>1, <2>2
    <3>. QED
      BY <3>1, <3>2
  <2>. QED
    BY <1>1, <2>2 DEF ApartInv, RoomInv
<1>4. AllInv'
  BY <1>1, <1>2 DEF ApartInv, AllInv, AllOrNone
<1>5. MatesInv'
  <2>1. \A n \in Nodes : PoolOf(n)' = PoolOf(n) \/ PoolOf(n)' = NoRow
    BY <1>0, <1>1, PoolsStay
  <2>. QED
    BY <1>1, <2>1, KeptMates DEF ApartInv
<1>. QED
  BY <1>3, <1>4, <1>5 DEF ApartInv

\* The mates of a node cannot have taken all hypervisors.
LEMMA APoolIsLeft ==
    ASSUME Cardinality(Mates) <= Cardinality(Pools), NEW n \in Mates
    PROVE  ~(Pools \subseteq {PoolOf(m) : m \in Mates \ {n}})
<1>. SUFFICES ASSUME Pools \subseteq {PoolOf(m) : m \in Mates \ {n}} PROVE FALSE
  OBVIOUS
<1>. DEFINE M == {m \in Mates \ {n} : PoolOf(m) \in Pools}
            f == [m \in M |-> PoolOf(m)]
<1>1. IsFiniteSet(Mates) /\ IsFiniteSet(Mates \ {n}) /\ IsFiniteSet(M)
  BY PlacementAssumption, FS_Subset
<1>2. f \in Surjection(M, Pools)
  BY DEF Surjection
<1>3. Cardinality(Pools) <= Cardinality(M)
  <2>. HIDE DEF M, f
  <2>. QED
    BY <1>1, <1>2, FS_Surjection
<1>4. Cardinality(M) <= Cardinality(Mates \ {n})
  BY <1>1, FS_Subset
<1>5. Cardinality(Mates \ {n}) = Cardinality(Mates) - 1
  BY <1>1, FS_RemoveElement
<1>6. /\ Cardinality(Mates) \in Nat /\ Cardinality(Pools) \in Nat
      /\ Cardinality(M) \in Nat /\ Cardinality(Mates \ {n}) \in Nat
  BY <1>1, PlacementAssumption, FS_CardinalityType
<1>. HIDE DEF M
<1>. QED
  BY <1>3, <1>4, <1>5, <1>6

LEMMA PlaceApart ==
    ASSUME TypeInv, TypeInv', PlaceInv, ApartInv, [Next]_vars,
           NEW n \in Nodes, NEW p \in Pools, PlaceNode(n, p)
    PROVE  ApartInv'
<1>. USE DEF asked, rows, targets, host, locals
<1>0. TypeOK /\ TypeOK' /\ Placing(n, p)
  BY PlaceNodeStep DEF TypeInv
<1>. DEFINE S == Begun \union DOMAIN placed
<1>1. Begun' = Begun /\ cap' = cap /\ UNCHANGED <<rep, row, managed, machine, turn>>
  BY <1>0 DEF Placing, Begun
<1>2. S \subseteq Nodes /\ n \notin S
  <2>1. n \in DOMAIN got /\ n \notin gone /\ n \notin DOMAIN placed
    BY <1>0 DEF Placing, TypeInv, ReadInv, PlaceInv, PlacingInv
  <2>2. n \in Live /\ machine[n] = NoRow
    BY <1>0, <2>1 DEF Placing, PlaceInv, PlacingInv
  <2>3. n \notin DOMAIN mres
    BY <2>2 DEF PlaceInv, TargetInv
  <2>. QED
    BY <1>0, <2>1, <2>3 DEF Begun, TypeOK, PartialFunction
<1>3. got[n] \in 1 .. MaxCores
  BY <1>0 DEF Placing, TypeInv, ReadInv, TypeOK, PartialFunction
<1>4. DOMAIN placed' = DOMAIN placed \union {n} /\ Begun' \union DOMAIN placed' = S \union {n}
  BY <1>0, <1>1 DEF Placing
<1>5. /\ MaxCores * Cardinality(S) \in Nat
      /\ MaxCores * Cardinality(S \union {n}) = MaxCores * Cardinality(S) + MaxCores
  BY <1>2, WorthOfMore, WorthOfOne
<1>6. /\ DOMAIN free' = DOMAIN free /\ DOMAIN free \subseteq Pools
      /\ \A q \in DOMAIN free : free[q] \in Avail /\ Enough(free[q], cap[q].cores, S)
      /\ \A q \in DOMAIN free \ {p} : free'[q] = free[q]
      /\ free'[p].cores = free[p].cores - got[n] /\ p \in DOMAIN free
  <2>1. DOMAIN free \subseteq Pools /\ \A q \in DOMAIN free : free[q] \in Avail
    BY <1>0 DEF TypeOK, PartialFunction
  <2>2. p \in DOMAIN free /\ turn = "placing" /\ DOMAIN free' = DOMAIN free
    BY <1>0 DEF Placing
  <2>3. free'[p].cores = free[p].cores - got[n]
    BY <1>0, <2>1, <2>2 DEF Placing, Avail
  <2>4. \A q \in DOMAIN free : Enough(free[q], cap[q].cores, S)
    BY <2>1, <2>2 DEF ApartInv, RoomInv
  <2>5. \A q \in DOMAIN free \ {p} : free'[q] = free[q]
    BY <1>0 DEF Placing
  <2>. QED
    BY <2>1, <2>2, <2>3, <2>4, <2>5
<1>7. ASSUME NEW q \in DOMAIN free PROVE free[q].cores \in Nat /\ free[q] # NoRow
  BY <1>6, NoRowAssumption DEF Avail
<1>. HIDE DEF S
<1>8. RoomInv'
  <2>1. ASSUME NEW q \in DOMAIN free PROVE Enough(free'[q], cap[q].cores, S \union {n})
    <3>1. q \in Pools /\ cap[q].cores \in Nat
      BY <1>0, <1>6, CapIsNat
    <3>2. CASE q = p
      <4>1. free[p].cores + MaxCores * Cardinality(S) >= cap[p].cores
        BY <1>6, <1>7 DEF Enough
      <4>2. free[p].cores \in Nat /\ MaxCores \in Nat /\ got[n] \in Nat /\ got[n] <= MaxCores
        BY <1>3, <1>6, <1>7, PlacementAssumption
      <4>3. free'[p].cores + MaxCores * Cardinality(S \union {n}) >= cap[p].cores
        BY <1>5, <1>6, <3>1, <3>2, <4>1, <4>2
      <4>. QED
        BY <3>2, <4>3 DEF Enough
    <3>3. CASE q # p
      <4>1. free'[q] = free[q] /\ free[q] \in Avail \union {NoRow} /\ Enough(free[q], cap[q].cores, S)
        BY <1>6, <3>3
      <4>2. S \subseteq S \union {n} /\ S \union {n} \subseteq Nodes
        BY <1>2
      <4>. QED
        BY <3>1, <4>1, <4>2, EnoughForMore
    <3>. QED
      BY <3>2, <3>3
  <2>. QED
    BY <1>1, <1>4, <1>6, <2>1 DEF ApartInv, RoomInv
<1>9. AllInv'
  BY <1>1, <1>6, KeptAll DEF ApartInv
<1>10. MatesInv'
  <2>1. \A m \in Nodes \ {n} : PoolOf(m)' = PoolOf(m)
    BY <1>0, <1>1 DEF Placing, PoolOf
  <2>2. PoolOf(n)' = p
    BY <1>0 DEF Placing, PoolOf
  <2>3. ASSUME Roomy, Cardinality(Mates) <= Cardinality(Pools), n \in Mates
        PROVE  p \notin {PoolOf(m) : m \in Mates \ {n}}
    <3>1. DOMAIN free = Pools
      BY <1>0, <1>6 DEF Placing, ApartInv, AllInv
    <3>2. ASSUME NEW q \in Pools PROVE free[q].cores >= got[n]
      <4>1. cap[q].cores >= MaxCores * Cardinality(Nodes)
        BY <2>3 DEF Roomy
      <4>2. MaxCores * Cardinality(S \union {n}) <= MaxCores * Cardinality(Nodes)
        BY <1>2, WorthOfMore
      <4>3. MaxCores * Cardinality(Nodes) \in Nat
        BY WorthOfMore
      <4>4. free[q].cores + MaxCores * Cardinality(S) >= cap[q].cores
        BY <1>6, <1>7, <3>1 DEF Enough
      <4>5. free[q].cores \in Nat /\ cap[q].cores \in Nat /\ MaxCores \in Nat
            /\ got[n] \in Nat /\ got[n] <= MaxCores
        BY <1>0, <1>3, <1>7, <3>1, CapIsNat, PlacementAssumption
      <4>6. MaxCores * Cardinality(S) + MaxCores <= cap[q].cores
        BY <1>5, <4>1, <4>2, <4>3, <4>5
      <4>. QED
        BY <1>5, <4>4, <4>5, <4>6
    <3>3. {q \in DOMAIN free : free[q].cores >= got[n]} = Pools
      BY <3>1, <3>2
    <3>4. ~(Pools \subseteq {PoolOf(m) : m \in Mates \ {n}})
      BY <2>3, APoolIsLeft
    <3>5. Suitable(n) = Pools \ {PoolOf(m) : m \in Mates \ {n}}
      BY <2>3, <3>3, <3>4 DEF Suitable, Apart
    <3>. QED
      BY <1>0, <3>5 DEF Placing
  <2>4. Roomy' <=> Roomy
    BY <1>1 DEF Roomy
  <2>5. ASSUME Roomy, Cardinality(Mates) <= Cardinality(Pools), NEW k \in Mates, NEW m \in Mates,
               k # m, PoolOf(k)' # NoRow, PoolOf(m)' # NoRow
        PROVE  PoolOf(k)' # PoolOf(m)'
    <3>1. k \in Nodes /\ m \in Nodes
      BY PlacementAssumption
    <3>2. CASE k # n /\ m # n
      <4>1. PoolOf(k)' = PoolOf(k) /\ PoolOf(m)' = PoolOf(m)
        BY <2>1, <3>1, <3>2
      <4>2. PoolOf(k) # PoolOf(m)
        BY <2>5, <4>1 DEF ApartInv, MatesInv
      <4>. QED
        BY <4>1, <4>2
    <3>3. CASE k = n
      <4>1. PoolOf(k)' = p /\ PoolOf(m)' = PoolOf(m)
        BY <2>1, <2>2, <2>5, <3>1, <3>3
      <4>2. p # PoolOf(m)
        BY <2>3, <2>5, <3>3
      <4>. QED
        BY <4>1, <4>2
    <3>4. CASE m = n
      <4>1. PoolOf(m)' = p /\ PoolOf(k)' = PoolOf(k)
        BY <2>1, <2>2, <2>5, <3>1, <3>4
      <4>2. p # PoolOf(k)
        BY <2>3, <2>5, <3>4
      <4>. QED
        BY <4>1, <4>2
    <3>. QED
      BY <3>2, <3>3, <3>4
  <2>. QED
    BY <2>4, <2>5 DEF MatesInv
<1>. QED
  BY <1>8, <1>9, <1>10 DEF ApartInv

LEMMA ApartInvKept == TypeInv /\ TypeInv' /\ PlaceInv /\ ApartInv /\ [Next]_vars => ApartInv'
<1>. SUFFICES ASSUME TypeInv, TypeInv', PlaceInv, ApartInv, [Next]_vars PROVE ApartInv'
  OBVIOUS
<1>1. CASE \E n \in Nodes, p \in Pools : PlaceNode(n, p)
  BY <1>1, PlaceApart
<1>2. CASE ScheduleBegin \/ AgentReport \/ BuildPools
  BY <1>2, BeginApart, ReportApart
<1>3. CASE ~ScheduleBegin /\ ~AgentReport /\ ~BuildPools /\ ~\E n \in Nodes, p \in Pools : PlaceNode(n, p)
  <2>1. \/ User \/ Network \/ BuildVolumes \/ BuildMachines \/ BuildNodes \/ Crash
        \/ AgentStart \/ AgentVolumesDone \/ ScheduleCommit \/ UNCHANGED vars
        \/ \E n \in Nodes : AgentVolume(n) \/ DeleteMachine(n) \/ SchedulePass(n)
        \/ \E n \in Nodes, p \in Pools : \/ CreateOrUpdateMachine(n, p)
                                         \/ LeaveMachine(n, p) \/ CrashInUpdate(n, p)
    BY <1>3 DEF Next, Process, Scheduler, Agent, Crashes
  <2>2. Elsewhere
    BY <2>1, ElsewhereSteps
  <2>. QED
    BY <2>2, ElsewhereApart
<1>. QED
  BY <1>1, <1>2, <1>3

\* Where there is room, nodes of a policy are never on one hypervisor: what the
\* scheduler counts down is enough for every node it has still to place, so a
\* pool without a mate is left and the filter is not given up.
THEOREM MatesAreKeptApart == Spec => []MatesApart
<1>1. Spec => []ApartInv
  BY TypeInvHolds, PlaceInvHolds, InitApartInv, ApartInvKept, PTL DEF Spec
<1>2. TypeInv /\ PlaceInv /\ ApartInv => MatesApart
  <2>. SUFFICES ASSUME TypeInv, PlaceInv, ApartInv PROVE MatesApart
    OBVIOUS
  <2>1. ASSUME NEW m \in Mates, machine[m] # NoRow PROVE PoolOf(m) = machine[m].pool
    BY <2>1, PlacementAssumption DEF PlaceInv, PlacingInv, PoolOf
  <2>2. ASSUME NEW m \in Mates, machine[m] # NoRow PROVE machine[m].pool # NoRow
    BY <2>2, PlacementAssumption, NoRowAssumption DEF TypeInv, TypeOK, Place
  <2>. QED
    BY <2>1, <2>2 DEF ApartInv, MatesInv, MatesApart
<1>. QED
  BY <1>1, <1>2, TypeInvHolds, PlaceInvHolds, PTL
=============================================================================
