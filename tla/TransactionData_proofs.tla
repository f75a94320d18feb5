------------------------- MODULE TransactionData_proofs -------------------------
(***************************************************************************)
(* Proofs about what becomes of a transaction, part by part, for every     *)
(* value of the constants that the assumptions of TransactionData allow.   *)
(***************************************************************************)
EXTENDS TransactionData, FiniteSetTheorems, SequenceTheorems, WellFoundedInduction, TLAPS

-----------------------------------------------------------------------------
(* The queue of events *)

(* A heap that holds anything has a minimum. *)
LEMMA MinimaExist ==
    ASSUME NEW D \in SUBSET Event, D # {}
    PROVE  \E m \in D : m \in Minima(D)
<1> DEFINE R == OpToRel(<, Nat)
           T == {Priority[e] : e \in D}
<1>1. T \subseteq Nat /\ T # {}
  BY PriorityAssumption
<1>2. PICK x \in T : \A y \in T : ~(<<y, x>> \in R)
  <2> HIDE DEF R, T
  <2>1. IsWellFoundedOn(R, Nat)
    BY NatLessThanWellFounded DEF R
  <2>2. QED  BY <1>1, <2>1, WFMin
<1>3. \A y \in T : ~(y < x)
  BY <1>1, <1>2 DEF OpToRel
<1>4. PICK m \in D : Priority[m] = x
  BY <1>2
<1>5. \A e \in D : Priority[m] <= Priority[e]
  <2> SUFFICES ASSUME NEW e \in D
               PROVE  Priority[m] <= Priority[e]
    OBVIOUS
  <2>1. ~(Priority[e] < Priority[m])
    BY <1>3, <1>4
  <2>2. Priority[e] \in Nat /\ Priority[m] \in Nat
    BY PriorityAssumption
  <2>3. QED  BY <2>1, <2>2
<1>6. QED  BY <1>5 DEF Minima

(* add keeps the best of what it held and what it is given: no event it    *)
(* turns away or evicts is better than one it keeps, and it has room for   *)
(* none.                                                                   *)
LEMMA AddKeepsTheBest ==
    ASSUME NEW k \in Nat, NEW D \in SUBSET Event, NEW e \in Event, e \notin D,
           IsFiniteSet(D), Cardinality(D) <= k,
           NEW K \in AfterAdd(k, D, e)
    PROVE  /\ K \subseteq D \cup {e}
           /\ IsFiniteSet(K)
           /\ Cardinality(K) <= k
           /\ Cardinality(K) < k => K = D \cup {e}
           /\ \A x \in K, y \in (D \cup {e}) \ K : Priority[y] <= Priority[x]
           /\ Cardinality(K) >= Cardinality(D)
<1>0. /\ Cardinality(D) \in Nat
      /\ \A x \in Event : Priority[x] \in Nat
  BY FS_CardinalityType, PriorityAssumption
<1>1. CASE k = 0
  <2>1. K = D /\ D = {}
    BY <1>0, <1>1, FS_EmptySet DEF AfterAdd
  <2>2. QED  BY <1>0, <1>1, <2>1
<1>2. CASE k # 0 /\ Cardinality(D) # k
  <2>1. K = D \cup {e}
    BY <1>2 DEF AfterAdd
  <2>2. IsFiniteSet(K) /\ Cardinality(K) = Cardinality(D) + 1
    BY <2>1, FS_AddElement
  <2>3. QED  BY <1>0, <1>2, <2>1, <2>2
<1>3. CASE k # 0 /\ Cardinality(D) = k
  <2>1. CASE \E m \in Minima(D) : Priority[m] < Priority[e]
    <3>1. PICK m \in Minima(D) : K = (D \cup {e}) \ {m}
      BY <1>3, <2>1 DEF AfterAdd
    <3>2. PICK n \in Minima(D) : Priority[n] < Priority[e]
      BY <2>1
    <3>3. /\ m \in D
          /\ Priority[m] < Priority[e]
          /\ \A x \in D : Priority[m] <= Priority[x]
      BY <1>0, <3>2 DEF Minima
    <3>4. IsFiniteSet(K) /\ Cardinality(K) = k
      <4>1. IsFiniteSet(D \cup {e}) /\ Cardinality(D \cup {e}) = k + 1
        BY <1>3, FS_AddElement
      <4>2. m \in D \cup {e}
        BY <3>3
      <4>3. /\ IsFiniteSet((D \cup {e}) \ {m})
            /\ Cardinality((D \cup {e}) \ {m}) = (k + 1) - 1
        <5> DEFINE E == D \cup {e}
        <5> SUFFICES IsFiniteSet(E \ {m}) /\ Cardinality(E \ {m}) = (k + 1) - 1
          OBVIOUS
        <5>1. IsFiniteSet(E) /\ Cardinality(E) = k + 1 /\ m \in E
          BY <4>1, <4>2
        <5> HIDE DEF E
        <5>2. QED  BY <5>1, FS_RemoveElement
      <4>4. QED  BY <3>1, <4>3
    <3>5. (D \cup {e}) \ K = {m}
      BY <3>1, <3>3
    <3>6. \A x \in K : Priority[m] <= Priority[x]
      BY <1>0, <3>1, <3>3
    <3>7. QED  BY <1>0, <1>3, <3>1, <3>4, <3>5, <3>6
  <2>2. CASE ~\E m \in Minima(D) : Priority[m] < Priority[e]
    <3>1. K = D
      BY <1>3, <2>2 DEF AfterAdd
    <3>2. \A x \in D : Priority[e] <= Priority[x]
      <4> SUFFICES ASSUME NEW x \in D
                   PROVE  Priority[e] <= Priority[x]
        OBVIOUS
      <4>1. PICK m \in D : m \in Minima(D)
        BY MinimaExist
      <4>2. Priority[m] <= Priority[x] /\ ~(Priority[m] < Priority[e])
        BY <2>2, <4>1 DEF Minima
      <4>3. QED  BY <1>0, <4>2
    <3>3. QED  BY <1>0, <1>3, <3>1, <3>2
  <2>3. QED  BY <2>1, <2>2
<1>4. QED  BY <1>1, <1>2, <1>3

-----------------------------------------------------------------------------
(* The inductive invariant *)

(* An event is offered once, and a merge that runs has events left. *)
OfferedOnce ==
    /\ fresh \cap (source \cup offered) = {}
    /\ source \cap offered = {}
    /\ (pc = "merging") = (source # {})

(* offered is finite, and seen counts at least the events in it. *)
SeenCounts == IsFiniteSet(offered) /\ Cardinality(offered) <= seen

(* setLimit extracts only while the queue is too long. *)
Shrinks == pc = "shrinking" => Cardinality(data) > limit

IInv ==
    TypeOK /\ OfferedOnce /\ SeenCounts /\ KeepsBest /\ Bounded /\ Shrinks

LEMMA TypeInit == Init => TypeOK
BY DEF Init, TypeOK

LEMMA AfterAddType ==
    ASSUME NEW k, NEW D \in SUBSET Event, NEW e \in Event
    PROVE  AfterAdd(k, D, e) \subseteq SUBSET Event
BY DEF AfterAdd, Minima

LEMMA TypeStep == TypeOK /\ [Next]_vars => TypeOK'
<1> SUFFICES ASSUME TypeOK, [Next]_vars
             PROVE  TypeOK'
  OBVIOUS
<1> USE DEF TypeOK
<1>1. ASSUME NEW e \in Event, Add(e)
      PROVE  TypeOK'
  BY <1>1, AfterAddType DEF Add, Insert
<1>8. ASSUME NEW e \in Event, AddSegment(e)
      PROVE  TypeOK'
  BY <1>8, AfterAddType DEF AddSegment, Insert
<1>2. ASSUME NEW S \in SUBSET Event, Merge(S)
      PROVE  TypeOK'
  BY <1>2 DEF Merge
<1>3. CASE MergeOne
  <2>1. PICK e \in source : source' = source \ {e} /\ Insert(e)
    BY <1>3 DEF MergeOne, Minima
  <2>2. data' \subseteq Event
    BY <2>1, AfterAddType DEF Insert
  <2>3. QED  BY <1>3, <2>1, <2>2 DEF MergeOne, Insert
<1>4. ASSUME NEW newLimit \in Limits, SetLimit(newLimit)
      PROVE  TypeOK'
  BY <1>4 DEF SetLimit
<1>5. CASE ExtractMinimum
  BY <1>5 DEF ExtractMinimum
<1>6. CASE UNCHANGED vars
  BY <1>6 DEF vars
<1>7. QED  BY <1>1, <1>2, <1>3, <1>4, <1>5, <1>6, <1>8 DEF Next

(* The types hold of every behaviour. *)
THEOREM TypeCorrect == Spec => []TypeOK
BY TypeInit, TypeStep, PTL DEF Spec

(* What one call of add does to the invariant, whether the event is new or *)
(* comes from the queue that is merged in.                                 *)
LEMMA InsertKeeps ==
    ASSUME IInv, pc # "shrinking", NEW e \in Event \ offered,
           Insert(e), UNCHANGED limit
    PROVE  /\ SeenCounts'
           /\ KeepsBest'
           /\ Cardinality(data') <= limit'
<1>1. /\ IsFiniteSet(offered) /\ Cardinality(offered) <= seen
      /\ data \subseteq offered /\ data \in SUBSET Event
      /\ limit \in Nat /\ seen \in Nat
      /\ Cardinality(data) <= limit
  BY LimitsAssumption DEF IInv, TypeOK, SeenCounts, KeepsBest, Bounded
<1>2. IsFiniteSet(data) /\ Cardinality(data) \in Nat
  BY <1>1, FS_Subset, FS_CardinalityType
<1>3. /\ data' \in AfterAdd(limit, data, e)
      /\ seen' = seen + 1
      /\ offered' = offered \cup {e}
  BY DEF Insert
<1>4. /\ data' \subseteq data \cup {e}
      /\ IsFiniteSet(data')
      /\ Cardinality(data') <= limit
      /\ Cardinality(data') < limit => data' = data \cup {e}
      /\ \A x \in data', y \in (data \cup {e}) \ data' :
            Priority[y] <= Priority[x]
      /\ Cardinality(data') >= Cardinality(data)
  BY <1>1, <1>2, <1>3, AddKeepsTheBest
<1>5. SeenCounts'
  <2>1. IsFiniteSet(offered') /\ Cardinality(offered') = Cardinality(offered) + 1
    BY <1>1, <1>3, FS_AddElement
  <2>2. QED  BY <1>1, <1>3, <2>1, FS_CardinalityType DEF SeenCounts
<1>6. KeepsBest'
  <2>1. data' \subseteq offered'
    BY <1>1, <1>3, <1>4
  <2>2. ASSUME NEW x \in data', NEW y \in offered' \ data'
        PROVE  Priority[y] <= Priority[x]
    <3>1. CASE y \in data \cup {e}
      BY <1>4, <3>1
    <3>2. CASE y \in offered \ data /\ y # e
      \* The queue was full, so x is at least as good as something in it.
      <4>1. CASE x \in data
        BY <3>2, <4>1 DEF IInv, KeepsBest
      <4>2. CASE x = e
        <5>1. Cardinality(data) = limit
          BY <1>1, <1>2, <3>2 DEF IInv, KeepsBest
        <5>2. PICK m \in data : m \notin data'
          <6>1. CASE data \subseteq data'
            <7>1. Cardinality(data \cup {e}) = Cardinality(data) + 1
              BY <1>1, <1>2, FS_AddElement
            <7>2. data' = data \cup {e}
              BY <1>4, <2>2, <4>2, <6>1
            <7>3. FALSE
              BY <1>1, <1>2, <1>4, <5>1, <7>1, <7>2
            <7>4. QED  BY <7>3
          <6>2. QED  BY <6>1
        <5>3. Priority[m] <= Priority[x] /\ Priority[y] <= Priority[m]
          BY <1>4, <2>2, <3>2, <5>2 DEF IInv, KeepsBest
        <5>4. /\ Priority[x] \in Nat
              /\ Priority[m] \in Nat
              /\ Priority[y] \in Nat
          BY <1>1, <3>2, <4>2, <5>2, PriorityAssumption DEF IInv, TypeOK
        <5>5. QED  BY <5>3, <5>4
      <4>3. QED  BY <1>4, <2>2, <4>1, <4>2
    <3>3. QED  BY <1>3, <2>2, <3>1, <3>2
  <2>3. ASSUME Cardinality(data') < limit'
        PROVE  data' = offered'
    <3>1. data' = data \cup {e} /\ Cardinality(data') \in Nat
      BY <1>4, <2>3, FS_CardinalityType
    <3>2. data = offered
      BY <1>1, <1>2, <1>4, <2>3, <3>1 DEF IInv, KeepsBest
    <3>3. QED  BY <1>3, <3>1, <3>2
  <2>4. QED  BY <2>1, <2>2, <2>3 DEF KeepsBest
<1>7. QED  BY <1>4, <1>5, <1>6

LEMMA InvInit == Init => IInv
<1> SUFFICES ASSUME Init
             PROVE  IInv
  OBVIOUS
<1>1. SeenCounts
  BY FS_EmptySet DEF Init, SeenCounts
<1>2. Cardinality(data) = 0 /\ limit \in Nat
  BY FS_EmptySet, LimitsAssumption DEF Init
<1>3. QED
  BY <1>1, <1>2, TypeInit
     DEF IInv, Init, OfferedOnce, KeepsBest, Bounded, Shrinks

LEMMA InvStep == IInv /\ [Next]_vars => IInv'
<1> SUFFICES ASSUME IInv, [Next]_vars
             PROVE  (OfferedOnce /\ SeenCounts /\ KeepsBest /\ Bounded /\ Shrinks)'
  BY TypeStep DEF IInv
<1>0. /\ TypeOK /\ OfferedOnce /\ SeenCounts /\ KeepsBest /\ Bounded /\ Shrinks
      /\ IsFiniteSet(data)
      /\ Cardinality(data) \in Nat /\ Cardinality(offered) \in Nat
      /\ limit \in Nat /\ seen \in Nat
  BY FS_Subset, FS_CardinalityType, LimitsAssumption
     DEF IInv, TypeOK, SeenCounts, KeepsBest
<1>1. ASSUME NEW e \in Event, Add(e)
      PROVE  (OfferedOnce /\ SeenCounts /\ KeepsBest /\ Bounded /\ Shrinks)'
  <2>1. SeenCounts' /\ KeepsBest' /\ Cardinality(data') <= limit'
    BY <1>0, <1>1, InsertKeeps DEF Add, OfferedOnce
  <2>2. OfferedOnce'
    BY <1>0, <1>1 DEF Add, Insert, OfferedOnce
  <2>3. QED  BY <1>1, <2>1, <2>2 DEF Bounded, Shrinks, Add
<1>8. ASSUME NEW e \in Event, AddSegment(e)
      PROVE  (OfferedOnce /\ SeenCounts /\ KeepsBest /\ Bounded /\ Shrinks)'
  <2>0. pc = "idle" /\ pc' = pc /\ limit' = limit /\ e \in Event \ offered
    BY <1>0, <1>8 DEF AddSegment, OfferedOnce
  <2>1. CASE Insert(e)
    <3>1. SeenCounts' /\ KeepsBest' /\ Cardinality(data') <= limit'
      BY <2>0, <2>1, InsertKeeps
    <3>2. OfferedOnce'
      BY <1>0, <1>8, <2>1 DEF AddSegment, Insert, OfferedOnce
    <3>3. QED  BY <2>0, <3>1, <3>2 DEF Bounded, Shrinks
  <2>2. CASE UNCHANGED <<seen, data, offered>>
    BY <1>0, <1>8, <2>0, <2>2
       DEF AddSegment, OfferedOnce, SeenCounts, KeepsBest, Bounded, Shrinks
  \* Turned away: what add would have done, too.
  <2>3. ASSUME NEW m \in Minima(data), Cardinality(data) >= limit,
               Priority[e] < Priority[m], UNCHANGED data,
               seen' = seen + 1, offered' = offered \cup {e}
        PROVE  Insert(e)
    <3>1. Cardinality(data) = limit /\ m \in data
      BY <1>0, <2>0, <2>3 DEF Bounded, Minima
    <3>2. limit # 0
      BY <1>0, <3>1, FS_EmptySet
    <3>3. ASSUME NEW n \in Minima(data)
          PROVE  ~(Priority[n] < Priority[e])
      <4>1. Priority[m] <= Priority[n] /\ n \in data
        BY <2>3, <3>1, <3>3 DEF Minima
      <4>2. {Priority[e], Priority[m], Priority[n]} \subseteq Nat
        BY <1>0, <3>1, <4>1, PriorityAssumption DEF TypeOK
      <4>3. QED  BY <2>3, <4>1, <4>2
    <3>4. AfterAdd(limit, data, e) = {data}
      BY <3>1, <3>2, <3>3 DEF AfterAdd
    <3>5. QED  BY <2>3, <3>4 DEF Insert
  <2>4. QED  BY <1>8, <2>1, <2>2, <2>3 DEF AddSegment
<1>2. ASSUME NEW S \in SUBSET Event, Merge(S)
      PROVE  (OfferedOnce /\ SeenCounts /\ KeepsBest /\ Bounded /\ Shrinks)'
  <2>1. OfferedOnce'
    BY <1>0, <1>2 DEF Merge, OfferedOnce
  <2>2. SeenCounts' /\ KeepsBest' /\ Bounded' /\ Shrinks'
    BY <1>0, <1>2 DEF Merge, SeenCounts, KeepsBest, Bounded, Shrinks
  <2>3. QED  BY <2>1, <2>2
<1>3. CASE MergeOne
  <2>1. PICK e \in source : source' = source \ {e} /\ Insert(e)
    BY <1>3 DEF MergeOne, Minima
  <2>2. e \in Event \ offered /\ pc = "merging" /\ limit' = limit
    BY <1>0, <1>3 DEF MergeOne, TypeOK, OfferedOnce
  <2>3. SeenCounts' /\ KeepsBest' /\ Cardinality(data') <= limit'
    BY <2>1, <2>2, InsertKeeps
  <2>4. OfferedOnce'
    BY <1>0, <1>3, <2>1 DEF MergeOne, Insert, OfferedOnce
  <2>5. QED  BY <1>3, <2>3, <2>4 DEF Bounded, Shrinks, MergeOne
<1>4. ASSUME NEW newLimit \in Limits, SetLimit(newLimit)
      PROVE  (OfferedOnce /\ SeenCounts /\ KeepsBest /\ Bounded /\ Shrinks)'
  <2>0. /\ newLimit \in Nat /\ limit' = newLimit
        /\ data' = data /\ seen' = seen /\ source' = source /\ fresh' = fresh
        /\ pc = "idle"
        /\ pc' = IF Cardinality(data) > newLimit THEN "shrinking" ELSE "idle"
        /\ offered' = IF newLimit > limit THEN data ELSE offered
    BY <1>4, LimitsAssumption DEF SetLimit
  <2>1. OfferedOnce'
    BY <1>0, <2>0 DEF OfferedOnce, KeepsBest
  <2>2. SeenCounts'
    <3>1. Cardinality(data) <= Cardinality(offered)
      BY <1>0, FS_Subset DEF KeepsBest, SeenCounts
    <3>2. QED  BY <1>0, <2>0, <3>1 DEF SeenCounts
  <2>3. KeepsBest'
    BY <1>0, <2>0 DEF KeepsBest
  <2>4. Bounded' /\ Shrinks'
    BY <1>0, <2>0 DEF Bounded, Shrinks
  <2>5. QED  BY <2>1, <2>2, <2>3, <2>4
<1>5. CASE ExtractMinimum
  <2>1. PICK m \in Minima(data) : data' = data \ {m}
    BY <1>5 DEF ExtractMinimum
  <2>2. /\ pc = "shrinking"
        /\ pc' = IF Cardinality(data') > limit THEN "shrinking" ELSE "idle"
        /\ UNCHANGED <<limit, seen, source, fresh, offered>>
    BY <1>5 DEF ExtractMinimum
  <2>3. OfferedOnce' /\ SeenCounts'
    BY <1>0, <2>2 DEF OfferedOnce, SeenCounts
  <2>4. m \in data /\ \A x \in data : Priority[m] <= Priority[x]
    BY <2>1 DEF Minima
  <2>5. Cardinality(data') = Cardinality(data) - 1
    BY <1>0, <2>1, <2>4, FS_RemoveElement
  <2>6. KeepsBest'
    <3>1. ASSUME NEW x \in data', NEW y \in offered' \ data'
          PROVE  Priority[y] <= Priority[x]
      <4>1. CASE y = m
        BY <2>1, <2>4, <4>1
      <4>2. CASE y # m
        BY <1>0, <2>1, <2>2, <4>2 DEF KeepsBest
      <4>3. QED  BY <4>1, <4>2
    <3>2. ~(Cardinality(data') < limit')
      BY <1>0, <2>2, <2>5 DEF Shrinks
    <3>3. data' \subseteq offered'
      BY <1>0, <2>1, <2>2 DEF KeepsBest
    <3>4. QED  BY <3>1, <3>2, <3>3 DEF KeepsBest
  <2>7. Bounded' /\ Shrinks'
    BY <1>0, <2>2, <2>5 DEF Bounded, Shrinks
  <2>8. QED  BY <2>3, <2>6, <2>7
<1>6. CASE UNCHANGED vars
  BY <1>0, <1>6 DEF vars, OfferedOnce, SeenCounts, KeepsBest, Bounded, Shrinks
<1>7. QED  BY <1>1, <1>2, <1>3, <1>4, <1>5, <1>6, <1>8 DEF Next

THEOREM InvAlways == Spec => []IInv
BY InvInit, InvStep, PTL DEF Spec

(* However many adds, merges and changes of the limit follow one another,  *)
(* the queue holds the best of the events offered to it.                   *)
THEOREM BestKept == Spec => []KeepsBest
BY InvAlways, PTL DEF IInv

(* Except in the loop that shortens it, the queue is within its limit. *)
THEOREM WithinBounds == Spec => []Bounded
BY InvAlways, PTL DEF IInv

(* An overflow of zero says that nothing was dropped. *)
THEOREM OverflowHonest == Spec => []OverflowIsHonest
<1>1. ASSUME IInv
      PROVE  OverflowIsHonest
  <2> SUFFICES ASSUME pc = "idle", OverflowOf(limit, seen) = 0
               PROVE  data = offered
    BY DEF OverflowIsHonest
  <2>1. /\ limit \in Nat /\ seen \in Nat
        /\ IsFiniteSet(offered) /\ Cardinality(offered) <= seen
        /\ data \subseteq offered
        /\ Cardinality(data) <= limit
        /\ Cardinality(data) < limit => data = offered
    BY <1>1, LimitsAssumption
       DEF IInv, TypeOK, SeenCounts, KeepsBest, Bounded
  <2>2. seen <= limit
    BY <2>1 DEF OverflowOf
  <2>3. /\ Cardinality(data) \in Nat /\ Cardinality(offered) \in Nat
        /\ Cardinality(data) <= Cardinality(offered)
        /\ Cardinality(offered) = Cardinality(data) => offered = data
    BY <2>1, FS_Subset, FS_CardinalityType
  <2>4. QED  BY <2>1, <2>2, <2>3
<1>2. QED  BY <1>1, InvAlways, PTL

(* A queue at rest is one of the Top sets that EventAggregator takes the   *)
(* result of merge and setLimit from.                                      *)
THEOREM HoldsATop == Spec => [](pc = "idle" => data \in Top(limit, offered))
<1>1. ASSUME IInv, pc = "idle"
      PROVE  data \in Top(limit, offered)
  <2>1. /\ limit \in Nat
        /\ IsFiniteSet(offered)
        /\ data \subseteq offered
        /\ Cardinality(data) <= limit
        /\ Cardinality(data) < limit => data = offered
        /\ \A e \in data, f \in offered \ data : Priority[f] <= Priority[e]
    BY <1>1, LimitsAssumption
       DEF IInv, TypeOK, SeenCounts, KeepsBest, Bounded
  <2>2. /\ Cardinality(data) \in Nat /\ Cardinality(offered) \in Nat
        /\ Cardinality(data) <= Cardinality(offered)
        /\ Cardinality(offered) = Cardinality(data) => offered = data
    BY <2>1, FS_Subset, FS_CardinalityType
  <2>3. Cardinality(data) = IF Cardinality(offered) <= limit
                            THEN Cardinality(offered) ELSE limit
    BY <2>1, <2>2
  <2>4. QED  BY <2>1, <2>3 DEF Top
<1>2. QED  BY <1>1, InvAlways, PTL

-----------------------------------------------------------------------------
(* The adaptive sampler *)

(* What a period may sample: StaysNearTarget bounds sampled by it. *)
Allowance == (IF first THEN largest ELSE 2 * largest) + changes

(* The allowance is used up only when no draw passes any more, and then    *)
(* the target has been reached.                                            *)
SamplerInv ==
    /\ Sampler!TypeOK
    /\ samplingTarget \in Nat \ {0}
    /\ samplingTarget <= largest
    /\ sampled <= transactionsSeen
    /\ passes = "none" => sampled >= samplingTarget /\ sampled <= Allowance
    /\ passes # "none" => sampled < Allowance

-----------------------------------------------------------------------------
LEMMA SamplerInit == Sampler!Init => SamplerInv
BY SamplerAssumption DEF Sampler!Init, SamplerInv, Sampler!TypeOK, Allowance

(* A draw that passes leaves room for another one, or is the last.  The    *)
(* target may have been lowered below what has been sampled already.       *)
LEMMA IncrementKeeps ==
    ASSUME SamplerInv, passes # "none", Sampler!IncrementSampled,
           transactionsSeen' = transactionsSeen + 1,
           UNCHANGED <<samplingTarget, first, largest, changes>>
    PROVE  SamplerInv'
<1>1. /\ samplingTarget \in Nat \ {0} /\ largest \in Nat /\ changes \in Nat
      /\ sampled \in Nat /\ transactionsSeen \in Nat /\ first \in BOOLEAN
      /\ samplingTarget <= largest /\ sampled <= transactionsSeen
      /\ sampled < Allowance
  BY DEF SamplerInv, Sampler!TypeOK
<1>2. sampled' = sampled + 1 /\ sampled' <= Allowance
  BY <1>1 DEF Sampler!IncrementSampled, Allowance
<1>3. Allowance' = Allowance
  BY DEF Allowance
<1>4. CASE sampled' < samplingTarget
  <2>1. passes' = passes
    BY <1>4 DEF Sampler!IncrementSampled
  <2>2. sampled' < Allowance
    BY <1>1, <1>4, <1>2 DEF Allowance
  <2> QED
    BY <1>1, <1>2, <1>3, <2>1, <2>2 DEF SamplerInv, Sampler!TypeOK
<1>5. CASE ~(sampled' < samplingTarget) /\ Sampler!Exhausted(sampled')
  <2>1. passes' = "none"
    BY <1>5 DEF Sampler!IncrementSampled
  <2> QED
    BY <1>1, <1>2, <1>3, <1>5, <2>1 DEF SamplerInv, Sampler!TypeOK
<1>6. CASE ~(sampled' < samplingTarget) /\ ~Sampler!Exhausted(sampled')
  <2>1. passes' = "some"
    BY <1>6 DEF Sampler!IncrementSampled
  <2>2. ~first /\ sampled' < 2 * samplingTarget
    BY <1>1, <1>2, <1>6 DEF Sampler!Exhausted
  <2>3. sampled' < Allowance
    BY <1>1, <1>2, <2>2 DEF Allowance
  <2> QED
    BY <1>1, <1>2, <1>3, <2>1, <2>3 DEF SamplerInv, Sampler!TypeOK
<1> QED
  BY <1>4, <1>5, <1>6

(* What is within the allowance leaves room when the allowance grows.      *)
LEMMA Room ==
    ASSUME NEW n \in Nat, NEW a \in Nat, NEW b \in Nat, NEW c \in Nat,
           a <= b, n <= a + c
    PROVE  n < b + (c + 1)
OBVIOUS

LEMMA Twice ==
    ASSUME NEW a \in Nat, NEW b \in Nat, a <= b
    PROVE  2 * a \in Nat /\ 2 * b \in Nat /\ 2 * a <= 2 * b
OBVIOUS

LEMMA SamplerStep ==
    ASSUME SamplerInv, [Sampler!Next]_Sampler!vars PROVE SamplerInv'
<1>1. CASE Sampler!ShouldSample
  <2>1. CASE passes # "none" /\ Sampler!IncrementSampled
    BY <1>1, <2>1, IncrementKeeps DEF Sampler!ShouldSample
  <2>2. CASE UNCHANGED <<sampled, passes>>
    BY <1>1, <2>2 DEF Sampler!ShouldSample, SamplerInv, Sampler!TypeOK, Allowance
  <2> QED
    BY <1>1, <2>1, <2>2 DEF Sampler!ShouldSample
<1>2. CASE \E target \in Target : Sampler!SetTarget(target)
  <2> PICK target \in Target : Sampler!SetTarget(target)
    BY <1>2
  <2>1. /\ target \in Nat \ {0}
        /\ largest \in Nat /\ changes \in Nat /\ sampled \in Nat /\ transactionsSeen \in Nat
        /\ sampled <= transactionsSeen
    BY SamplerAssumption DEF SamplerInv, Sampler!TypeOK
  <2>2. /\ samplingTarget' = target /\ changes' = changes + 1
        /\ transactionsSeen' = transactionsSeen /\ sampled' = sampled /\ first' = first
        /\ largest' \in Nat \ {0} /\ target <= largest' /\ largest <= largest'
    BY <2>1 DEF Sampler!SetTarget, Sampler!Larger
  <2>3. sampled' < Allowance'
    <3>1. sampled <= Allowance
      BY DEF SamplerInv, Sampler!TypeOK, Allowance
    <3>2. CASE first
      <4>1. sampled <= largest + changes
        BY <3>1, <3>2 DEF Allowance
      <4>2. Allowance' = largest' + (changes + 1)
        BY <2>2, <3>2 DEF Allowance
      <4>3. sampled < largest' + (changes + 1)
        BY <2>1, <2>2, <4>1, Room
      <4> QED
        BY <2>2, <4>2, <4>3
    <3>3. CASE ~first
      <4>1. sampled <= 2 * largest + changes
        BY <3>1, <3>3 DEF Allowance
      <4>2. Allowance' = 2 * largest' + (changes + 1)
        BY <2>2, <3>3 DEF Allowance
      <4>3. 2 * largest \in Nat /\ 2 * largest' \in Nat /\ 2 * largest <= 2 * largest'
        BY <2>1, <2>2, Twice
      <4>4. sampled < 2 * largest' + (changes + 1)
        BY <2>1, <4>1, <4>3, Room
      <4> QED
        BY <2>2, <4>2, <4>4
    <3> QED
      BY <3>2, <3>3
  <2>4. passes' \in {"all", "some"}
    (* With none transactionsSeen, none is sampled, and the draws have not been refused. *)
    BY <2>1 DEF Sampler!SetTarget, Sampler!AdjustStats, SamplerInv, Sampler!TypeOK
  <2>5. Sampler!TypeOK'
    BY <2>1, <2>2, <2>4 DEF SamplerInv, Sampler!TypeOK
  <2>6. passes' # "none"
    BY <2>4
  <2> QED
    BY <2>1, <2>2, <2>3, <2>5, <2>6 DEF SamplerInv
<1>3. CASE Sampler!Reset
  <2>1. passes' \in {"all", "some"}
    BY <1>3 DEF Sampler!Reset, Sampler!AdjustStats, SamplerInv, Sampler!TypeOK
  <2>2. /\ samplingTarget' = samplingTarget /\ largest' = samplingTarget
        /\ transactionsSeen' = 0 /\ sampled' = 0 /\ changes' = 0 /\ first' = FALSE
    BY <1>3 DEF Sampler!Reset
  <2>3. samplingTarget \in Nat \ {0}
    BY DEF SamplerInv
  <2>4. Allowance' = 2 * samplingTarget
    BY <2>2, <2>3 DEF Allowance
  <2>5. sampled' < Allowance' /\ sampled' <= transactionsSeen'
    BY <2>2, <2>3, <2>4
  <2>6. passes' # "none"
    BY <2>1
  <2>7. Sampler!TypeOK'
    BY <2>1, <2>2, <2>3 DEF Sampler!TypeOK
  <2> QED
    BY <2>2, <2>3, <2>5, <2>6, <2>7 DEF SamplerInv
<1>4. CASE UNCHANGED Sampler!vars
  BY <1>4 DEF Sampler!vars, SamplerInv, Sampler!TypeOK, Allowance
<1> QED
  BY <1>1, <1>2, <1>3, <1>4 DEF Sampler!Next

-----------------------------------------------------------------------------
(* Every state of the sampler is well typed, for any positive targets.     *)
THEOREM SamplerTyped == Sampler!Spec => []Sampler!TypeOK
<1>1. SamplerInv => Sampler!TypeOK
  BY DEF SamplerInv
<1> QED
  BY SamplerInit, SamplerStep, <1>1, PTL DEF Sampler!Spec

(* A period never samples more than the sampler allows, whatever targets   *)
(* are set in it, and none is turned away before the target is reached.    *)
THEOREM NearTarget == Sampler!Spec => []StaysNearTarget
<1>1. SamplerInv => StaysNearTarget
  BY DEF SamplerInv, StaysNearTarget, Sampler!StaysNearTarget, Allowance, Sampler!TypeOK
<1> QED
  BY SamplerInit, SamplerStep, <1>1, PTL DEF Sampler!Spec

-----------------------------------------------------------------------------
(* The wrapped modules *)

Items == [hook : Hook, resolvedName : Copy \cup {None}, meta : {"new", "success", "failure"}]

TrackerType ==
    /\ items \in Seq(Items)
    /\ loaded \subseteq Copy
    /\ tries \in [Hook -> [Copy -> Nat]]

(* An item that waits for a load, of a hook that never declines, is the    *)
(* only one of its hook, which has not been tried on anything.             *)
Waiting(i) ==
    items[i].meta = "new" /\ items[i].hook \notin Picky =>
        /\ items[i].resolvedName = None
        /\ \A j \in 1..Len(items) : items[j].hook = items[i].hook => j = i
        /\ \A c \in Copy : tries[items[i].hook][c] = 0

Tried(h, c) ==
    /\ c \notin loaded => tries[h][c] = 0
    /\ h \notin Picky => tries[h][c] <= 1
    /\ (\A i \in 1..Len(items) : items[i].hook # h) => tries[h][c] = 0

(* All hooks were registered before any load. *)
Early ==
    /\ loaded = {} => \A i \in 1..Len(items) : items[i].resolvedName = None /\ items[i].meta = "new"
    /\ loaded # {} => \A i \in 1..Len(items) : items[i].resolvedName # None
    /\ \A c \in loaded : tries[items[1].hook][c] >= 1

TrackerInv ==
    /\ TrackerType
    /\ \A i \in 1..Len(items) : Waiting(i) /\ items[i].resolvedName \in loaded \cup {None}
    /\ \A c \in loaded : \E i \in 1..Len(items) : items[i].resolvedName = c
    /\ \A h \in Hook, c \in Copy : Tried(h, c)
    /\ late = {} => Early

LEMMA TrackerInit == Tracker!Init => TrackerInv
<1> SUFFICES ASSUME Tracker!Init
             PROVE  TrackerInv
  OBVIOUS
<1>1. items = <<>> /\ loaded = {} /\ tries = [h \in Hook |-> [c \in Copy |-> 0]]
  BY DEF Tracker!Init
<1>2. Len(items) = 0 /\ items \in Seq(Items)
  BY <1>1, EmptySeq
<1>3. \A h \in Hook, c \in Copy : tries[h][c] = 0
  BY <1>1
<1>4. TrackerType
  BY <1>1, <1>2 DEF TrackerType
<1>5. \A h \in Hook, c \in Copy : Tried(h, c)
  BY <1>3 DEF Tried
<1>6. Early
  BY <1>1, <1>2 DEF Early
<1>7. \A i \in 1..Len(items) : FALSE
  BY <1>2
<1>8. QED  BY <1>1, <1>4, <1>5, <1>6, <1>7 DEF TrackerInv

LEMMA RegisterKeeps ==
    ASSUME TrackerInv, NEW h \in Hook, Tracker!Register(h)
    PROVE  TrackerInv'
<1> DEFINE item == [hook |-> h, resolvedName |-> None, meta |-> "new"]
<1>1. /\ \A i \in DOMAIN items : items[i].hook # h
      /\ items' = Append(items, item)
      /\ late' = IF loaded = {} THEN late ELSE late \cup {h}
      /\ loaded' = loaded /\ tries' = tries
  BY DEF Tracker!Register, Tracker!Item
<1>2. items \in Seq(Items) /\ Len(items) \in Nat /\ DOMAIN items = 1..Len(items)
  BY LenProperties DEF TrackerInv, TrackerType
<1>3. item \in Items /\ item.hook = h /\ item.resolvedName = None /\ item.meta = "new"
  BY DEF Items
<1> HIDE DEF item
<1>4. /\ items' \in Seq(Items)
      /\ Len(items') = Len(items) + 1
      /\ \A i \in 1..Len(items) : items'[i] = items[i]
      /\ items'[Len(items) + 1] = item
  BY <1>1, <1>2, <1>3, AppendProperties
<1>5. \A c \in Copy : tries[h][c] = 0
  BY <1>1, <1>2 DEF TrackerInv, Tried
<1>6. ASSUME NEW i \in 1..Len(items')
      PROVE  Waiting(i)' /\ items'[i].resolvedName \in loaded' \cup {None}
  <2>1. CASE i \in 1..Len(items)
    <3>1. /\ items'[i] = items[i] /\ items[i].hook # h
          /\ items[i].resolvedName \in loaded \cup {None} /\ Waiting(i)
      BY <1>1, <1>2, <1>4, <2>1 DEF TrackerInv
    <3>2. ASSUME NEW j \in 1..Len(items'), items'[j].hook = items[i].hook
          PROVE  j \in 1..Len(items) /\ items[j].hook = items[i].hook
      <4>1. j # Len(items) + 1
        BY <1>3, <1>4, <3>1, <3>2
      <4>2. j \in 1..Len(items)
        BY <1>2, <1>4, <4>1
      <4>3. QED  BY <1>4, <3>2, <4>2
    <3>3. QED  BY <1>1, <3>1, <3>2 DEF Waiting
  <2>2. CASE i = Len(items) + 1
    <3>1. items'[i] = item
      BY <1>4, <2>2
    <3>2. ASSUME NEW j \in 1..Len(items'), items'[j].hook = h
          PROVE  j = i
      <4>1. j \notin 1..Len(items)
        BY <1>1, <1>2, <1>4, <3>2
      <4>2. QED  BY <1>2, <1>4, <2>2, <4>1
    <3>3. QED  BY <1>1, <1>3, <1>5, <3>1, <3>2 DEF Waiting
  <2>3. QED  BY <1>2, <1>4, <2>1, <2>2
<1>7. \A c \in loaded' : \E i \in 1..Len(items') : items'[i].resolvedName = c
  <2>1. ASSUME NEW c \in loaded
        PROVE  \E i \in 1..Len(items') : items'[i].resolvedName = c
    <3>1. PICK i \in 1..Len(items) : items[i].resolvedName = c
      BY DEF TrackerInv
    <3>2. i \in 1..Len(items') /\ items'[i].resolvedName = c
      BY <1>2, <1>4, <3>1
    <3>3. QED  BY <3>2
  <2>2. QED  BY <1>1, <2>1
<1>8. ASSUME NEW g \in Hook, NEW c \in Copy
      PROVE  Tried(g, c)'
  <2>1. Tried(g, c)
    BY DEF TrackerInv
  <2>2. (\A i \in 1..Len(items') : items'[i].hook # g) => \A i \in 1..Len(items) : items[i].hook # g
    BY <1>2, <1>4
  <2>3. QED  BY <1>1, <2>1, <2>2 DEF Tried
<1>9. late' = {} => Early'
  <2> SUFFICES ASSUME late' = {}
               PROVE  Early'
    OBVIOUS
  <2>1. loaded = {} /\ Early
    BY <1>1 DEF TrackerInv
  <2>2. ASSUME NEW i \in 1..Len(items')
        PROVE  items'[i].resolvedName = None /\ items'[i].meta = "new"
    BY <1>2, <1>3, <1>4, <2>1 DEF Early
  <2>3. QED  BY <1>1, <2>1, <2>2 DEF Early
<1>10. TrackerType'
  BY <1>1, <1>4 DEF TrackerInv, TrackerType
<1>11. QED  BY <1>6, <1>7, <1>8, <1>9, <1>10 DEF TrackerInv

(* What setResolvedName makes of the items for a copy: it changes no hook  *)
(* and no result, and after it an item is meant for the copy.              *)
LEMMA ResolvedItems ==
    ASSUME TrackerInv, items # <<>>, NEW c \in Copy, NEW its,
           its = Tracker!SetResolvedName(items, c)
    PROVE  /\ its \in Seq(Items)
           /\ Len(items) \in Nat /\ Len(its) \in Nat /\ 1 <= Len(items)
           /\ \A i \in 1..Len(items) :
                 /\ its[i].hook = items[i].hook /\ its[i].meta = items[i].meta
                 /\ its[i].resolvedName \in {items[i].resolvedName, c}
                 /\ items[i].resolvedName # None => its[i].resolvedName = items[i].resolvedName
           /\ \E i \in 1..Len(its) : its[i].resolvedName = c
           /\ its = items \/ \A i \in 1..Len(its) : its[i].resolvedName # None
           /\ its = items \/ \A i \in 1..Len(items) : items[i].resolvedName # c
           /\ \/ Len(its) = Len(items) /\ (its = items \/ \E i \in 1..Len(items) : items[i].resolvedName = None)
              \/ /\ Len(its) = Len(items) + 1
                 /\ its[Len(its)] = [hook |-> items[1].hook, resolvedName |-> c, meta |-> "new"]
                 /\ \A i \in 1..Len(items) : items[i].resolvedName \notin {None, c}
<1>1. /\ items \in Seq(Items) /\ Len(items) \in Nat /\ Len(items) >= 1
      /\ DOMAIN items = 1..Len(items)
  BY LenProperties, EmptySeq DEF TrackerInv, TrackerType
<1>2. \A i \in 1..Len(items) : items[i] \in Items
  BY <1>1, ElementOfSeq
<1>3. CASE \E i \in DOMAIN items : items[i].resolvedName = c
  <2>1. its = items
    BY <1>3 DEF Tracker!SetResolvedName
  <2>2. QED  BY <1>1, <1>3, <2>1
<1>4. CASE /\ ~ \E i \in DOMAIN items : items[i].resolvedName = c
           /\ \A i \in DOMAIN items : items[i].resolvedName # None
  <2> DEFINE item == [hook |-> items[1].hook, resolvedName |-> c, meta |-> "new"]
  <2>1. its = Append(items, item)
    BY <1>1, <1>4, HeadTailProperties DEF Tracker!SetResolvedName, Tracker!Item
  <2>2. item \in Items /\ item.resolvedName = c
    BY <1>1, <1>2 DEF Items
  <2> HIDE DEF item
  <2>3. /\ its \in Seq(Items) /\ Len(its) = Len(items) + 1
        /\ \A i \in 1..Len(items) : its[i] = items[i]
        /\ its[Len(items) + 1] = item
    BY <1>1, <2>1, <2>2, AppendProperties
  <2>4. \A i \in 1..Len(its) : its[i].resolvedName # None
    BY <1>1, <1>4, <2>2, <2>3, TrackerAssumption
  <2>5. Len(its) \in 1..Len(its) /\ its[Len(its)] = item
    BY <1>1, <2>3
  <2>6. \E i \in 1..Len(its) : its[i].resolvedName = c
    BY <2>2, <2>5
  <2>7. its[Len(its)] = [hook |-> items[1].hook, resolvedName |-> c, meta |-> "new"]
    BY <2>5 DEF item
  <2>8. \A i \in 1..Len(items) : items[i].resolvedName \notin {None, c}
    BY <1>1, <1>4
  <2>9. Len(its) \in Nat /\ 1 <= Len(items)
    BY <1>1, <2>3
  <2>10. QED  BY <1>1, <2>3, <2>4, <2>6, <2>7, <2>8, <2>9
<1>5. CASE /\ ~ \E i \in DOMAIN items : items[i].resolvedName = c
           /\ ~ \A i \in DOMAIN items : items[i].resolvedName # None
  <2>1. its = [i \in DOMAIN items |-> IF items[i].resolvedName = None
                                      THEN [items[i] EXCEPT !.resolvedName = c] ELSE items[i]]
    BY <1>5 DEF Tracker!SetResolvedName
  <2>2. ASSUME NEW i \in 1..Len(items)
        PROVE  /\ its[i] \in Items
               /\ its[i].hook = items[i].hook /\ its[i].meta = items[i].meta
               /\ its[i].resolvedName = IF items[i].resolvedName = None THEN c
                                        ELSE items[i].resolvedName
    BY <1>1, <1>2, <2>1 DEF Items
  <2>3. its \in Seq(Items) /\ Len(its) = Len(items)
    <3>1. its \in [1..Len(items) -> Items]
      BY <1>1, <2>1, <2>2
    <3>2. QED  BY <1>1, <3>1
  <2>4. PICK i \in 1..Len(items) : items[i].resolvedName = None
    BY <1>1, <1>5
  <2>5. its[i].resolvedName = c
    BY <2>2, <2>4
  <2>6. \A j \in 1..Len(its) : its[j].resolvedName # None
    BY <2>2, <2>3, TrackerAssumption
  <2>7. QED  BY <1>1, <1>5, <2>2, <2>3, <2>4, <2>5, <2>6
<1>6. QED  BY <1>3, <1>4, <1>5

LEMMA LoadKeeps ==
    ASSUME TrackerInv, NEW c \in Copy, Tracker!Load(c)
    PROVE  TrackerInv'
<1> DEFINE its == Tracker!SetResolvedName(items, c)
<1>2. items # <<>>
  BY DEF Tracker!Load
<1>3. /\ its \in Seq(Items)
      /\ Len(items) \in Nat /\ Len(its) \in Nat /\ 1 <= Len(items)
      /\ \A i \in 1..Len(items) :
            /\ its[i].hook = items[i].hook /\ its[i].meta = items[i].meta
            /\ its[i].resolvedName \in {items[i].resolvedName, c}
            /\ items[i].resolvedName # None => its[i].resolvedName = items[i].resolvedName
      /\ \E i \in 1..Len(its) : its[i].resolvedName = c
      /\ its = items \/ \A i \in 1..Len(its) : its[i].resolvedName # None
      /\ its = items \/ \A i \in 1..Len(items) : items[i].resolvedName # c
      /\ \/ Len(its) = Len(items) /\ (its = items \/ \E i \in 1..Len(items) : items[i].resolvedName = None)
         \/ /\ Len(its) = Len(items) + 1
            /\ its[Len(its)] = [hook |-> items[1].hook, resolvedName |-> c, meta |-> "new"]
            /\ \A i \in 1..Len(items) : items[i].resolvedName \notin {None, c}
  BY <1>2, ResolvedItems
<1>4. DOMAIN its = 1..Len(its) /\ \A i \in 1..Len(its) : its[i] \in Items
  BY <1>3, LenProperties, ElementOfSeq
<1> DEFINE Pending == Tracker!Pending(its)
           Of(h) == Tracker!PendingOf(its, h)
<1>5. PICK outcome \in [Pending -> {"success", "failure", "new"}] :
        /\ \A i \in Pending : outcome[i] = "new" => its[i].hook \in Picky
        /\ items' = [i \in DOMAIN its |->
               IF i \in Pending THEN [its[i] EXCEPT !.meta = outcome[i]] ELSE its[i]]
  BY DEF Tracker!Load
<1>6. /\ tries' = [h \in Hook |-> [tries[h] EXCEPT ![c] = @ + Tracker!Cardinality(Of(h))]]
      /\ \A h : Tracker!Cardinality(Of(h)) = Cardinality(Of(h))
  <2>1. tries' = [h \in Hook |-> [tries[h] EXCEPT ![c] = @ + Tracker!Cardinality(Of(h))]]
    BY DEF Tracker!Load
  <2>2. \A h : Tracker!Cardinality(Of(h)) = Cardinality(Of(h))
    BY DEF Tracker!Cardinality, Cardinality
  <2>3. QED  BY <2>1, <2>2
<1>7. loaded' = loaded \cup {c} /\ late' = late
  BY DEF Tracker!Load
<1>8. tries \in [Hook -> [Copy -> Nat]] /\ loaded \subseteq Copy
  BY DEF TrackerInv, TrackerType
<1> HIDE DEF its
<1>9. ASSUME NEW h
      PROVE  IsFiniteSet(Of(h)) /\ Cardinality(Of(h)) \in Nat
  <2>1. IsFiniteSet(1..Len(its))
    BY <1>3, FS_Interval
  <2>2. Of(h) \subseteq 1..Len(its)
    BY <1>4 DEF Tracker!PendingOf, Tracker!Pending
  <2>3. QED  BY <2>1, <2>2, FS_Subset, FS_CardinalityType
<1>10. \A h \in Hook, d \in Copy :
          tries'[h][d] = IF d # c THEN tries[h][d] ELSE tries[h][d] + Cardinality(Of(h))
  BY <1>6, <1>8
<1>11. ASSUME NEW i \in 1..Len(its)
       PROVE  /\ items'[i] \in Items
              /\ items'[i].hook = its[i].hook
              /\ items'[i].resolvedName = its[i].resolvedName
              /\ items'[i].meta = "new" => items'[i].hook \in Picky
  <2>1. its[i] \in Items
    BY <1>4
  <2>2. CASE i \in Pending
    <3>1. outcome[i] \in {"success", "failure", "new"}
      BY <1>5, <2>2
    <3>2. items'[i] = [its[i] EXCEPT !.meta = outcome[i]]
      BY <1>4, <1>5, <2>2
    <3>3. QED  BY <1>5, <2>1, <2>2, <3>1, <3>2 DEF Items
  <2>3. CASE i \notin Pending
    <3>1. items'[i] = its[i]
      BY <1>4, <1>5, <2>3
    <3>2. its[i].meta # "new"
      BY <1>4, <2>3 DEF Pending, Tracker!Pending
    <3>3. QED  BY <2>1, <3>1, <3>2
  <2>4. QED  BY <2>2, <2>3
<1>12. items' \in Seq(Items) /\ Len(items') = Len(its)
  <2>1. items' \in [1..Len(its) -> Items]
    BY <1>4, <1>5, <1>11
  <2>2. QED  BY <1>3, <2>1
<1> HIDE DEF Pending, Of
<1>13. ASSUME NEW h \in Hook, h \notin Picky
       PROVE  Of(h) = {} \/ (Cardinality(Of(h)) = 1 /\ tries[h][c] = 0)
  <2> SUFFICES ASSUME NEW i \in Of(h)
               PROVE  Cardinality(Of(h)) = 1 /\ tries[h][c] = 0
    OBVIOUS
  <2>1. i \in 1..Len(its) /\ its[i].meta = "new" /\ its[i].hook = h
    BY <1>4 DEF Of, Pending, Tracker!PendingOf, Tracker!Pending
  <2>2. ASSUME NEW j \in Of(h)
        PROVE  j \in 1..Len(its) /\ its[j].meta = "new" /\ its[j].hook = h
    BY <1>4 DEF Of, Pending, Tracker!PendingOf, Tracker!Pending
  <2>3. ASSUME NEW j \in Of(h), j \in 1..Len(items)
        PROVE  /\ items[j].meta = "new" /\ items[j].hook = h
               /\ items[j].resolvedName = None /\ tries[h][c] = 0
               /\ \A k \in 1..Len(items) : items[k].hook = h => k = j
    <3>1. items[j].meta = "new" /\ items[j].hook = h
      BY <1>3, <2>2, <2>3
    <3>2. Waiting(j)
      BY <2>3 DEF TrackerInv
    <3>3. QED  BY <1>13, <3>1, <3>2 DEF Waiting
  <2>4. /\ tries[h][c] = 0
        /\ \A j \in Of(h) : j = i
    <3>1. CASE i \in 1..Len(items)
      <4>1. Len(its) = Len(items)
        BY <1>3, <2>3, <3>1
      <4>2. \A j \in Of(h) : j \in 1..Len(items) /\ items[j].hook = h
        BY <2>2, <2>3, <4>1
      <4>3. QED  BY <2>3, <3>1, <4>2
    <3>2. CASE i \notin 1..Len(items)
      <4>1. /\ i = Len(items) + 1
            /\ \A k \in 1..Len(items) : items[k].resolvedName \notin {None, c}
        BY <1>3, <2>1, <3>2
      <4>2. \A j \in Of(h) : j \notin 1..Len(items)
        BY <2>3, <4>1
      <4>3. \A j \in Of(h) : j = i
        BY <1>3, <2>2, <4>1, <4>2
      <4>4. c \notin loaded
        BY <4>1 DEF TrackerInv
      <4>5. tries[h][c] = 0
        BY <4>4 DEF TrackerInv, Tried
      <4>6. QED  BY <4>3, <4>5
    <3>3. QED  BY <3>1, <3>2
  <2>5. Of(h) = {i}
    BY <2>4
  <2>6. QED  BY <2>4, <2>5, FS_Singleton
<1>14. ASSUME NEW i \in 1..Len(items')
       PROVE  Waiting(i)' /\ items'[i].resolvedName \in loaded' \cup {None}
  <2>1. i \in 1..Len(its)
    BY <1>12
  <2>2. Waiting(i)'
    BY <1>11, <2>1 DEF Waiting
  <2>3. its[i].resolvedName \in loaded' \cup {None}
    <3>1. CASE i \in 1..Len(items)
      BY <1>3, <1>7, <3>1 DEF TrackerInv
    <3>2. CASE i \notin 1..Len(items)
      BY <1>3, <1>7, <2>1, <3>2
    <3>3. QED  BY <3>1, <3>2
  <2>4. QED  BY <1>11, <2>1, <2>2, <2>3
<1>15. \A d \in loaded' : \E i \in 1..Len(items') : items'[i].resolvedName = d
  <2>1. \E i \in 1..Len(items') : items'[i].resolvedName = c
    BY <1>3, <1>11, <1>12
  <2>2. ASSUME NEW d \in loaded
        PROVE  \E i \in 1..Len(items') : items'[i].resolvedName = d
    <3>1. PICK i \in 1..Len(items) : items[i].resolvedName = d
      BY DEF TrackerInv
    <3>2. d # None
      BY <1>8, TrackerAssumption
    <3>3. i \in 1..Len(its) /\ its[i].resolvedName = d
      BY <1>3, <3>1, <3>2
    <3>4. QED  BY <1>11, <1>12, <3>3
  <2>3. QED  BY <1>7, <2>1, <2>2
<1>16. ASSUME NEW h \in Hook, NEW d \in Copy
       PROVE  Tried(h, d)'
  <2>1. tries[h][d] \in Nat /\ Cardinality(Of(h)) \in Nat /\ Tried(h, d)
    BY <1>8, <1>9 DEF TrackerInv
  <2>2. tries'[h][d] = IF d # c THEN tries[h][d] ELSE tries[h][d] + Cardinality(Of(h))
    BY <1>10
  <2>3. d \notin loaded' => tries'[h][d] = 0
    BY <1>7, <2>1, <2>2 DEF Tried
  <2>4. h \notin Picky => tries'[h][d] <= 1
    <3>1. CASE d # c \/ Of(h) = {}
      <4>1. tries'[h][d] = tries[h][d]
        BY <2>1, <2>2, <3>1, FS_EmptySet
      <4>2. QED  BY <2>1, <4>1 DEF Tried
    <3>2. CASE d = c /\ Of(h) # {}
      BY <1>13, <2>2, <3>2
    <3>3. QED  BY <3>1, <3>2
  <2>5. (\A i \in 1..Len(items') : items'[i].hook # h) => tries'[h][d] = 0
    <3> SUFFICES ASSUME \A i \in 1..Len(items') : items'[i].hook # h
                 PROVE  tries'[h][d] = 0
      OBVIOUS
    <3>1. \A i \in 1..Len(its) : its[i].hook # h
      BY <1>11, <1>12
    <3>2. \A i \in 1..Len(items) : items[i].hook # h
      BY <1>3, <3>1
    <3>3. Of(h) = {}
      BY <1>4, <3>1 DEF Of, Pending, Tracker!PendingOf, Tracker!Pending
    <3>4. tries[h][d] = 0
      BY <2>1, <3>2 DEF Tried
    <3>5. QED  BY <2>2, <3>3, <3>4, FS_EmptySet
  <2>6. QED  BY <2>3, <2>4, <2>5 DEF Tried
<1>17. late' = {} => Early'
  <2> SUFFICES ASSUME late' = {}
               PROVE  Early'
    OBVIOUS
  <2>1. Early
    BY <1>7 DEF TrackerInv
  <2>2. /\ items'[1].hook = items[1].hook /\ items[1].hook \in Hook
        /\ its[1].hook = items[1].hook /\ its[1].meta = items[1].meta
    <3>1. 1 \in 1..Len(items) /\ 1 \in 1..Len(its)
      BY <1>3
    <3>2. items[1] \in Items
      BY <3>1, ElementOfSeq DEF TrackerInv, TrackerType
    <3>3. QED  BY <1>3, <1>11, <3>1, <3>2 DEF Items
  <2>3. \A i \in 1..Len(its) : its[i].resolvedName # None
    <3>1. CASE its = items
      <4>1. PICK i \in 1..Len(items) : items[i].resolvedName = c
        BY <1>3, <3>1
      <4>2. loaded # {}
        BY <4>1, TrackerAssumption DEF TrackerInv
      <4>3. QED  BY <2>1, <3>1, <4>2 DEF Early
    <3>2. QED  BY <1>3, <3>1
  <2>4. c \in loaded \/ Of(items[1].hook) # {}
    <3>1. CASE loaded = {}
      <4>1. 1 \in 1..Len(its) /\ its[1].meta = "new"
        BY <1>3, <2>1, <2>2, <3>1 DEF Early
      <4>2. 1 \in Of(items[1].hook)
        BY <1>4, <2>2, <4>1 DEF Of, Pending, Tracker!PendingOf, Tracker!Pending
      <4>3. QED  BY <4>2
    <3>2. CASE loaded # {} /\ c \notin loaded
      <4>1. \A i \in 1..Len(items) : items[i].resolvedName \notin {None, c}
        BY <2>1, <3>2, TrackerAssumption DEF TrackerInv, Early
      <4>2. /\ Len(its) = Len(items) + 1
            /\ its[Len(its)] = [hook |-> items[1].hook, resolvedName |-> c, meta |-> "new"]
        BY <1>3, <4>1
      <4>3. Len(its) \in 1..Len(its)
        BY <1>3, <4>2
      <4>4. Len(its) \in Of(items[1].hook)
        BY <1>4, <4>2, <4>3 DEF Of, Pending, Tracker!PendingOf, Tracker!Pending
      <4>5. QED  BY <4>4
    <3>3. QED  BY <3>1, <3>2
  <2>5. ASSUME NEW d \in loaded'
        PROVE  tries'[items'[1].hook][d] >= 1
    <3> DEFINE h == items[1].hook
    <3>1. /\ h \in Hook /\ d \in Copy
          /\ tries'[h][d] = IF d # c THEN tries[h][d] ELSE tries[h][d] + Cardinality(Of(h))
          /\ tries[h][d] \in Nat /\ Cardinality(Of(h)) \in Nat
      BY <1>7, <1>8, <1>9, <1>10, <2>2
    <3>2. CASE d \in loaded
      BY <2>1, <2>2, <3>1, <3>2 DEF Early
    <3>3. CASE d = c /\ d \notin loaded
      <4>1. Cardinality(Of(h)) # 0
        BY <1>9, <2>4, <3>3, FS_EmptySet
      <4> HIDE DEF h
      <4>2. tries'[h][d] >= 1
        BY <3>1, <3>3, <4>1
      <4>3. QED  BY <2>2, <4>2 DEF h
    <3>4. QED  BY <1>7, <3>2, <3>3
  <2>6. \A i \in 1..Len(items') : items'[i].resolvedName # None
    BY <1>11, <1>12, <2>3
  <2>7. loaded' # {}
    BY <1>7
  <2>8. QED  BY <2>5, <2>6, <2>7 DEF Early
<1>18. TrackerType'
  <2>1. tries' \in [Hook -> [Copy -> Nat]]
    BY <1>6, <1>8, <1>9
  <2>2. QED  BY <1>7, <1>8, <1>12, <2>1 DEF TrackerType
<1>19. QED  BY <1>14, <1>15, <1>16, <1>17, <1>18 DEF TrackerInv

LEMMA TrackerStep == TrackerInv /\ [Tracker!Next]_Tracker!vars => TrackerInv'
<1> SUFFICES ASSUME TrackerInv, [Tracker!Next]_Tracker!vars
             PROVE  TrackerInv'
  OBVIOUS
<1>1. CASE UNCHANGED Tracker!vars
  BY <1>1 DEF Tracker!vars, TrackerInv, TrackerType, Waiting, Tried, Early
<1>2. QED  BY <1>1, RegisterKeeps, LoadKeeps DEF Tracker!Next

(* However many copies of a module are loaded, in whatever order, and      *)
(* again between registrations, a hook that never declines is tried at     *)
(* most once on each, and the first hook reaches every copy when all were  *)
(* registered before any load (instrumentation-tracker.js,                 *)
(* setResolvedName; shimmer.js, _postLoad).                                *)
THEOREM Wrapped == Tracker!Spec => []WrappedOnce
<1>1. TrackerInv => WrappedOnce
  BY DEF TrackerInv, Tried, Early, TrackerType, WrappedOnce, Tracker!WrappedOnce
<1>2. QED  BY <1>1, TrackerInit, TrackerStep, PTL DEF Tracker!Spec

-----------------------------------------------------------------------------
(* The traces of the slowest transactions *)

TracesInv == Traces!TypeOK /\ longest \in Nat /\ Traces!SlowestIsKept

LEMMA TracesInit == Traces!Init => TracesInv
BY TracesAssumption DEF Traces!Init, TracesInv, Traces!TypeOK, Traces!SlowestIsKept,
   Traces!DurationOf

LEMMA TraceLonger ==
    ASSUME NEW a \in Nat, NEW b \in Nat
    PROVE  /\ Traces!Longer(a, b) \in Nat
           /\ Traces!Longer(a, b) >= a /\ Traces!Longer(a, b) >= b
           /\ a < b => Traces!Longer(a, b) = b
           /\ ~(a < b) => Traces!Longer(a, b) = a
BY DEF Traces!Longer

(* While a trace is kept for being the slowest, nothing but its duration   *)
(* decides; when names decide, too, the tracker knows the kept one.        *)
LEMMA KeepKeeps ==
    ASSUME TracesInv, NEW t \in Transaction \ Synthetic, Traces!Keep(t)
    PROVE  /\ trace' \in (Transaction \ Synthetic) \cup {None}
           /\ requestTimes' \in [Traces!Names -> Nat]
           /\ longest' \in Nat
           /\ reported < Guarantee => Traces!DurationOf(trace)' = longest'
           /\ trace' # None => requestTimes'[NameOf[trace']] >= Duration[trace']
<1> DEFINE d == Duration[t]
           n == NameOf[t]
<1>1. /\ trace \in (Transaction \ Synthetic) \cup {None}
      /\ requestTimes \in [Traces!Names -> Nat] /\ reported \in 0..Guarantee
      /\ longest \in Nat
      /\ reported < Guarantee => Traces!DurationOf(trace) = longest
      /\ trace # None => requestTimes[NameOf[trace]] >= Duration[trace]
  BY DEF TracesInv, Traces!TypeOK, Traces!SlowestIsKept
<1>2. /\ t \in Transaction /\ t # None /\ n \in Traces!Names /\ d \in Nat
      /\ Guarantee \in Nat /\ reported \in Nat
  BY <1>1, TracesAssumption DEF Traces!Names
<1>3. longest' = Traces!Longer(longest, d)
  BY DEF Traces!Keep
<1>4. CASE Traces!IsBetter(t)
  <2>1. /\ trace' = t /\ Traces!DurationOf(trace) < d
        /\ requestTimes' = [requestTimes EXCEPT ![n] = Traces!Longer(@, d)]
    BY <1>4 DEF Traces!Keep, Traces!IsBetter
  <2>2. requestTimes[n] \in Nat
    BY <1>1, <1>2
  <2>3. /\ requestTimes' \in [Traces!Names -> Nat]
        /\ requestTimes'[n] = Traces!Longer(requestTimes[n], d)
    BY <1>1, <1>2, <2>1, <2>2, TraceLonger
  <2>4. requestTimes'[NameOf[trace']] >= Duration[trace']
    BY <1>2, <2>1, <2>2, <2>3, TraceLonger
  <2>5. reported < Guarantee => longest' = d
    BY <1>1, <1>2, <1>3, <2>1, TraceLonger
  <2>6. Traces!DurationOf(trace)' = d
    BY <1>2, <2>1 DEF Traces!DurationOf
  <2> QED
    BY <1>1, <1>2, <1>3, <2>1, <2>3, <2>4, <2>5, <2>6, TraceLonger
<1>5. CASE ~Traces!IsBetter(t)
  <2>1. trace' = trace /\ requestTimes' = requestTimes
    BY <1>5 DEF Traces!Keep
  <2>2. reported < Guarantee => ~(Traces!DurationOf(trace) < d)
    BY <1>1, <1>2, <1>5 DEF Traces!IsBetter
  <2>3. reported < Guarantee => longest' = longest
    BY <1>1, <1>2, <1>3, <2>2, TraceLonger
  <2> QED
    BY <1>1, <1>2, <1>3, <2>1, <2>3, TraceLonger DEF Traces!DurationOf
<1> QED
  BY <1>4, <1>5

LEMMA TracesStep == TracesInv /\ [Traces!Next]_Traces!vars => TracesInv'
<1> SUFFICES ASSUME TracesInv, [Traces!Next]_Traces!vars
             PROVE  TracesInv'
  OBVIOUS
<1> USE TracesAssumption
<1>1. /\ Traces!TypeOK /\ longest \in Nat /\ Traces!SlowestIsKept
      /\ Guarantee \in Nat /\ Patience \in Nat \ {0}
  BY DEF TracesInv
<1>2. ASSUME NEW t \in Transaction, Traces!Add(t)
      PROVE  TracesInv'
  <2>1. UNCHANGED <<reported, noTraceSubmitted, payloads>>
    BY <1>2 DEF Traces!Add
  <2>2. CASE t \in Synthetic
    <3>1. /\ syntheticsTraces' \subseteq Synthetic
          /\ UNCHANGED <<trace, requestTimes, longest>>
      BY <1>1, <1>2, <2>2 DEF Traces!Add, Traces!TypeOK
    <3> QED
      BY <1>1, <2>1, <3>1 DEF TracesInv, Traces!TypeOK, Traces!SlowestIsKept,
         Traces!DurationOf
  <2>3. CASE t \notin Synthetic
    <3>1. Traces!Keep(t) /\ UNCHANGED syntheticsTraces
      BY <1>2, <2>3 DEF Traces!Add
    <3> QED
      BY <1>1, <2>1, <2>3, <3>1, KeepKeeps DEF TracesInv, Traces!TypeOK,
         Traces!SlowestIsKept
  <2> QED
    BY <2>2, <2>3
<1>3. CASE Traces!Send
  <2>1. /\ trace' = None /\ syntheticsTraces' = {} /\ longest' = 0 /\ reported' = reported
    BY <1>3 DEF Traces!Send
  <2>2. noTraceSubmitted' \in 0..(Patience - 1)
    <3>1. noTraceSubmitted \in 0..(Patience - 1)
      BY <1>1 DEF Traces!TypeOK
    <3>2. noTraceSubmitted' = IF trace = None THEN (noTraceSubmitted + 1) % Patience ELSE 0
      BY <1>3 DEF Traces!Send, Traces!GetTraces
    <3>3. (noTraceSubmitted + 1) % Patience \in 0..(Patience - 1)
      BY <1>1, <3>1
    <3> QED
      BY <1>1, <3>2, <3>3
  <2>3. requestTimes' \in [Traces!Names -> Nat]
    BY <1>1, <1>3 DEF Traces!Send, Traces!GetTraces, Traces!TypeOK
  <2>4. payloads' \subseteq [trace : (Transaction \ Synthetic) \cup {None},
                             synthetics : SUBSET Synthetic]
    BY <1>1, <1>3 DEF Traces!Send, Traces!TypeOK
  <2> QED
    BY <1>1, <2>1, <2>2, <2>3, <2>4 DEF TracesInv, Traces!TypeOK, Traces!SlowestIsKept,
       Traces!DurationOf
<1>4. CASE Traces!Clear
  BY <1>1, <1>4 DEF Traces!Clear, TracesInv, Traces!TypeOK, Traces!SlowestIsKept,
     Traces!DurationOf
<1>5. ASSUME NEW p \in payloads, Traces!EncodingFails(p)
      PROVE  TracesInv'
  BY <1>1, <1>5 DEF Traces!EncodingFails, TracesInv, Traces!TypeOK, Traces!SlowestIsKept,
     Traces!DurationOf
<1>6. ASSUME NEW p \in payloads, NEW retain \in BOOLEAN, Traces!Answer(p, retain)
      PROVE  TracesInv'
  <2>1. payloads' \subseteq payloads /\ UNCHANGED <<syntheticsTraces, noTraceSubmitted>>
    BY <1>6 DEF Traces!Answer
  <2>2. /\ reported' \in 0..Guarantee
        /\ reported' < Guarantee => reported < Guarantee
    BY <1>1, <1>6 DEF Traces!Answer, Traces!TypeOK
  <2>3. CASE retain /\ p.trace # None
    <3>1. p.trace \in Transaction \ Synthetic
      BY <1>1, <2>3 DEF Traces!TypeOK
    <3>2. Traces!Keep(p.trace)
      BY <1>6, <2>3 DEF Traces!Answer
    <3> QED
      BY <1>1, <2>1, <2>2, <3>1, <3>2, KeepKeeps DEF TracesInv, Traces!TypeOK,
         Traces!SlowestIsKept
  <2>4. CASE ~(retain /\ p.trace # None)
    <3>1. UNCHANGED <<trace, requestTimes, longest>>
      BY <1>6, <2>4 DEF Traces!Answer
    <3> QED
      BY <1>1, <2>1, <2>2, <3>1 DEF TracesInv, Traces!TypeOK, Traces!SlowestIsKept,
         Traces!DurationOf
  <2> QED
    BY <2>3, <2>4
<1>7. CASE UNCHANGED Traces!vars
  BY <1>1, <1>7 DEF Traces!vars, TracesInv, Traces!TypeOK, Traces!SlowestIsKept,
     Traces!DurationOf
<1> QED
  BY <1>2, <1>3, <1>4, <1>5, <1>6, <1>7 DEF Traces!Next, Traces!Answered, Traces!Lost

(* Until enough harvests have been reported the slowest transaction's      *)
(* trace is the one that is kept, whatever comes back, and the tracker     *)
(* remembers it.                                                           *)
LEMMA TracesKept == Traces!Spec => []Traces!SlowestIsKept
<1>1. Traces!Init => TracesInv
  BY TracesInit
<1>2. TracesInv /\ [Traces!Next]_Traces!vars => TracesInv'
  BY TracesStep
<1>3. TracesInv => Traces!SlowestIsKept
  BY DEF TracesInv
<1> QED
  BY <1>1, <1>2, <1>3, PTL DEF Traces!Spec

-----------------------------------------------------------------------------
(* The slow queries *)

(* SlowestAreKept of samples s, slowest executions m and n samples that    *)
(* came back.                                                              *)
SlowestKept(s, m, n) ==
    /\ n = 0 =>
           /\ \A q \in Queries!Kept(s) : /\ s[q] = m[q]
                                         /\ \A r \in Query \ Queries!Kept(s) : m[r] <= s[q]
           /\ Cardinality(Queries!Kept(s)) < MaxSamples => Queries!Kept(m) = Queries!Kept(s)
    /\ MaxSamples > 0 => \A q \in Query : \E r \in Query : s[r] >= m[q]
    /\ Cardinality(Queries!Kept(s)) <= MaxSamples + n

Times == [Query -> 0..MaxDuration]

QueriesInv == Queries!TypeOK /\ SlowestKept(samples, slowest, returned)

LEMMA QueriesCardinality ==
    ASSUME NEW S
    PROVE  Queries!Cardinality(S) = Cardinality(S)
BY DEF Queries!Cardinality, Cardinality

LEMMA KeptIsFinite ==
    ASSUME NEW s
    PROVE  /\ Queries!Kept(s) \subseteq Query /\ IsFiniteSet(Queries!Kept(s))
           /\ Cardinality(Queries!Kept(s)) \in Nat
           /\ \A q \in Query : q \in Queries!Kept(s) <=> s[q] # 0
<1>1. Queries!Kept(s) \subseteq Query
  BY DEF Queries!Kept
<1>2. IsFiniteSet(Queries!Kept(s))
  BY <1>1, QueriesAssumption, FS_Subset
<1>3. Cardinality(Queries!Kept(s)) \in Nat
  BY <1>2, FS_CardinalityType
<1> QED
  BY <1>1, <1>2, <1>3 DEF Queries!Kept

LEMMA QueryLonger ==
    ASSUME NEW a \in Nat, NEW b \in Nat
    PROVE  /\ Queries!Longer(a, b) \in {a, b}
           /\ Queries!Longer(a, b) >= a /\ Queries!Longer(a, b) >= b
           /\ a <= b => Queries!Longer(a, b) = b
           /\ b <= a => Queries!Longer(a, b) = a
BY DEF Queries!Longer

LEMMA NothingKept == SlowestKept(Queries!Empty, Queries!Empty, 0)
<1> DEFINE e == Queries!Empty
<1>1. \A q \in Query : e[q] = 0
  BY DEF Queries!Empty
<1>2. Queries!Kept(e) = {}
  BY <1>1 DEF Queries!Kept
<1>3. Cardinality({}) = 0
  BY FS_EmptySet
<1> HIDE DEF e
<1>4. SlowestKept(e, e, 0)
  BY <1>1, <1>2, <1>3, QueriesAssumption DEF SlowestKept
<1> QED
  BY <1>4 DEF e

(* An execution of a query that has a sample. *)
LEMMA AddToKept ==
    ASSUME NEW s \in Times, NEW m \in Times, NEW n \in Nat, SlowestKept(s, m, n),
           NEW q \in Query, NEW d \in Queries!Durations, q \in Queries!Kept(s)
    PROVE  SlowestKept([s EXCEPT ![q] = Queries!Longer(@, d)],
                       [m EXCEPT ![q] = Queries!Longer(@, d)], n)
<1> DEFINE a == Queries!Longer(s[q], d)
           b == Queries!Longer(m[q], d)
           s1 == [s EXCEPT ![q] = a]
           m1 == [m EXCEPT ![q] = b]
<1>1. s[q] \in Nat /\ m[q] \in Nat /\ d \in Nat \ {0} /\ MaxSamples \in Nat
  BY QueriesAssumption DEF Times, Queries!Durations
<1>2. /\ a \in Nat /\ b \in Nat /\ a # 0 /\ b # 0 /\ a >= s[q] /\ a >= d
      /\ b = m[q] \/ b = d
      /\ s[q] = m[q] => a = b
  BY <1>1, QueryLonger
<1>3. /\ \A p \in Query : s1[p] = (IF p = q THEN a ELSE s[p])
      /\ \A p \in Query : m1[p] = (IF p = q THEN b ELSE m[p])
      /\ \A p \in Query : s[p] \in Nat /\ m[p] \in Nat
  BY QueriesAssumption DEF Times
<1> HIDE DEF a, b, s1, m1
<1>4. Queries!Kept(s1) = Queries!Kept(s)
  BY <1>2, <1>3, KeptIsFinite
<1>5. Queries!Kept(m1) = Queries!Kept(m) \cup {q}
  BY <1>2, <1>3, KeptIsFinite
<1>6. n = 0 => \A p \in Queries!Kept(s1) :
                  /\ s1[p] = m1[p]
                  /\ \A r \in Query \ Queries!Kept(s1) : m1[r] <= s1[p]
  <2> SUFFICES ASSUME n = 0, NEW p \in Queries!Kept(s)
               PROVE  /\ s1[p] = m1[p]
                      /\ \A r \in Query \ Queries!Kept(s) : m1[r] <= s1[p]
    BY <1>4
  <2>1. /\ p \in Query /\ s[p] = m[p] /\ s[q] = m[q] /\ s1[p] >= s[p]
    BY <1>1, <1>2, <1>3, KeptIsFinite DEF SlowestKept
  <2>2. \A r \in Query \ Queries!Kept(s) : m[r] <= s[p] /\ m1[r] = m[r]
    BY <1>3 DEF SlowestKept
  <2> QED
    BY <1>1, <1>2, <1>3, <2>1, <2>2
<1>7. n = 0 /\ Cardinality(Queries!Kept(s1)) < MaxSamples => Queries!Kept(m1) = Queries!Kept(s1)
  BY <1>4, <1>5 DEF SlowestKept
<1>8. MaxSamples > 0 => \A p \in Query : \E r \in Query : s1[r] >= m1[p]
  <2> SUFFICES ASSUME MaxSamples > 0, NEW p \in Query
               PROVE  \E r \in Query : s1[r] >= m1[p]
    OBVIOUS
  <2>1. PICK r \in Query : s[r] >= m[p]
    BY DEF SlowestKept
  <2>2. s1[r] >= m[p] /\ s1[q] >= d
    BY <1>1, <1>2, <1>3, <2>1
  <2> QED
    BY <1>2, <1>3, <2>2
<1>9. Cardinality(Queries!Kept(s1)) <= MaxSamples + n
  BY <1>4 DEF SlowestKept
<1>10. SlowestKept(s1, m1, n)
  BY <1>6, <1>7, <1>8, <1>9 DEF SlowestKept
<1> QED
  BY <1>10 DEF s1, m1, a, b

(* One of a query that has none: a sample is added, and if that is one too *)
(* many, a shortest one goes.                                              *)
LEMMA AddAnother ==
    ASSUME NEW s \in Times, NEW m \in Times, NEW n \in Nat, SlowestKept(s, m, n),
           NEW q \in Query, NEW d \in Queries!Durations, q \notin Queries!Kept(s),
           NEW s2 \in Queries!Limited(s, q, d)
    PROVE  SlowestKept(s2, [m EXCEPT ![q] = Queries!Longer(@, d)], n)
<1> DEFINE K == Queries!Kept(s)
           b == Queries!Longer(m[q], d)
           t == [s EXCEPT ![q] = d]
           m1 == [m EXCEPT ![q] = b]
<1>1. /\ s[q] = 0 /\ m[q] \in Nat /\ d \in Nat \ {0} /\ MaxSamples \in Nat
      /\ K \subseteq Query /\ IsFiniteSet(K) /\ Cardinality(K) \in Nat
  BY QueriesAssumption, KeptIsFinite DEF Times, Queries!Durations
<1>2. b \in Nat /\ b # 0 /\ (b = m[q] \/ b = d) /\ (m[q] <= d => b = d)
  BY <1>1, QueryLonger
<1>3. /\ \A p \in Query : t[p] = (IF p = q THEN d ELSE s[p])
      /\ \A p \in Query : m1[p] = (IF p = q THEN b ELSE m[p])
      /\ \A p \in Query : s[p] \in Nat /\ m[p] \in Nat
  BY QueriesAssumption DEF Times
<1>4. /\ n = 0 => /\ \A p \in K : /\ s[p] = m[p]
                                  /\ \A r \in Query \ K : m[r] <= s[p]
                  /\ Cardinality(K) < MaxSamples => Queries!Kept(m) = K
      /\ MaxSamples > 0 => \A p \in Query : \E r \in Query : s[r] >= m[p]
      /\ Cardinality(K) <= MaxSamples + n
  BY DEF SlowestKept
<1>5. s2 \in IF Cardinality(Queries!Kept(t)) > MaxSamples
             THEN {[t EXCEPT ![r] = 0] : r \in Queries!Shortest(t)}
             ELSE {t}
  BY QueriesCardinality DEF Queries!Limited
<1>6. t \in [Query -> 0..MaxDuration]
  BY DEF Times, Queries!Durations
<1> HIDE DEF b, t, m1
<1>7. Queries!Kept(t) = K \cup {q} /\ Queries!Kept(m1) = Queries!Kept(m) \cup {q}
  BY <1>1, <1>2, <1>3, KeptIsFinite
<1>8. Cardinality(Queries!Kept(t)) = Cardinality(K) + 1
  BY <1>1, <1>7, FS_AddElement
<1>9. MaxSamples > 0 => \A p \in Query : \E r \in Query : t[r] >= m1[p]
  <2> SUFFICES ASSUME MaxSamples > 0, NEW p \in Query
               PROVE  \E r \in Query : t[r] >= m1[p]
    OBVIOUS
  <2>1. PICK r \in Query : s[r] >= m[p]
    BY <1>4
  <2>2. t[r] >= m[p] /\ t[q] >= d
    BY <1>1, <1>3, <2>1
  <2> QED
    BY <1>2, <1>3, <2>2
<1>10. CASE Cardinality(Queries!Kept(t)) <= MaxSamples
  <2>1. s2 = t
    BY <1>1, <1>5, <1>8, <1>10
  <2>2. n = 0 => /\ Queries!Kept(m) = K /\ \A r \in Query \ Queries!Kept(t) : m1[r] = 0
                 /\ m[q] = 0 /\ Queries!Kept(m1) = Queries!Kept(t)
    BY <1>1, <1>3, <1>4, <1>7, <1>8, <1>10, KeptIsFinite
  <2>3. n = 0 => \A p \in Queries!Kept(t) : t[p] = m1[p]
    BY <1>1, <1>2, <1>3, <1>4, <1>7, <2>2
  <2>4. \A p \in Query : t[p] \in Nat
    BY <1>1, <1>3
  <2>5. n = 0 => \A p \in Queries!Kept(t) : \A r \in Query \ Queries!Kept(t) : m1[r] <= t[p]
    BY <1>1, <1>7, <2>2, <2>4
  <2>6. Cardinality(Queries!Kept(t)) <= MaxSamples + n
    BY <1>1, <1>8, <1>10
  <2>7. SlowestKept(t, m1, n)
    BY <1>9, <2>2, <2>3, <2>5, <2>6 DEF SlowestKept
  <2> QED
    BY <2>1, <2>7 DEF m1, b
<1>11. CASE Cardinality(Queries!Kept(t)) > MaxSamples
  <2>1. PICK r \in Queries!Shortest(t) : s2 = [t EXCEPT ![r] = 0]
    BY <1>5, <1>11
  <2>2. /\ r \in Query /\ r \in Queries!Kept(t)
        /\ \A p \in Queries!Kept(t) : t[r] <= t[p]
    BY <2>1, KeptIsFinite DEF Queries!Shortest
  <2>3. \A p \in Query : s2[p] = (IF p = r THEN 0 ELSE t[p])
    BY <1>6, <2>1, <2>2
  <2>4. \A p \in Query : t[p] \in Nat
    BY <1>1, <1>3
  <2>5. Queries!Kept(s2) = Queries!Kept(t) \ {r}
    BY <2>2, <2>3, <2>4, KeptIsFinite
  <2>6. Cardinality(Queries!Kept(s2)) = Cardinality(K)
    <3>1. IsFiniteSet(Queries!Kept(t))
      BY KeptIsFinite
    <3>2. Cardinality(Queries!Kept(t) \ {r}) = Cardinality(Queries!Kept(t)) - 1
      BY <2>2, <3>1, FS_RemoveElement
    <3> QED
      BY <1>1, <1>8, <2>5, <3>2
  <2>7. n = 0 => ~(Cardinality(Queries!Kept(s2)) < MaxSamples)
    BY <1>1, <1>8, <1>11, <2>6
  <2>8. n = 0 => \A p \in Queries!Kept(s2) : s2[p] = m1[p]
    <3> SUFFICES ASSUME n = 0, NEW p \in Queries!Kept(s2)
                 PROVE  s2[p] = m1[p]
      OBVIOUS
    <3>1. p \in Query /\ p \in K \cup {q} /\ p # r /\ s2[p] = t[p]
      BY <1>7, <2>3, <2>5, KeptIsFinite
    <3>2. CASE p # q
      BY <1>3, <1>4, <3>1, <3>2
    <3>3. CASE p = q
      <4>1. r \in K
        BY <1>7, <2>2, <3>1, <3>3
      <4>2. m[q] <= s[r] /\ s[r] = t[r] /\ t[r] <= d
        BY <1>1, <1>3, <1>4, <1>7, <2>2, <3>1, <3>3, <4>1
      <4>3. m[q] <= d
        BY <1>1, <1>3, <2>2, <4>2
      <4> QED
        BY <1>2, <1>3, <3>1, <3>3, <4>3
    <3> QED
      BY <3>2, <3>3
  <2>9. n = 0 => \A p \in Queries!Kept(s2) : \A u \in Query \ Queries!Kept(s2) : m1[u] <= s2[p]
    <3> SUFFICES ASSUME n = 0, NEW p \in Queries!Kept(s2), NEW u \in Query \ Queries!Kept(s2)
                 PROVE  m1[u] <= s2[p]
      OBVIOUS
    <3>1. p \in Query /\ p \in K \cup {q} /\ p # r /\ s2[p] = t[p] /\ t[r] <= t[p]
      BY <1>7, <2>2, <2>3, <2>5, KeptIsFinite
    <3>2. u = r \/ u \notin K \cup {q}
      BY <1>7, <2>5
    <3>3. CASE r = q
      <4>1. p \in K /\ p # q /\ s[p] = t[p] /\ m[u] <= s[p] /\ m[q] <= s[p] /\ d <= s[p]
        BY <1>1, <1>3, <1>4, <3>1, <3>2, <3>3
      <4> QED
        BY <1>2, <1>3, <3>1, <3>2, <3>3, <4>1
    <3>4. CASE r # q
      <4>1. r \in K /\ t[r] = s[r] /\ s[r] = m[r] /\ m1[u] = m[u]
        BY <1>1, <1>3, <1>4, <1>7, <2>2, <3>2, <3>4
      <4>2. m[u] <= s[r]
        BY <1>3, <1>4, <2>2, <3>2, <4>1
      <4> QED
        BY <1>3, <2>2, <2>4, <3>1, <4>1, <4>2
    <3> QED
      BY <3>3, <3>4
  <2>10. MaxSamples > 0 => \A p \in Query : \E u \in Query : s2[u] >= m1[p]
    <3> SUFFICES ASSUME MaxSamples > 0, NEW p \in Query
                 PROVE  \E u \in Query : s2[u] >= m1[p]
      OBVIOUS
    <3>1. PICK w \in Query : t[w] >= m1[p]
      BY <1>9
    <3>2. CASE w # r
      BY <2>3, <3>1, <3>2
    <3>3. CASE w = r
      <4>1. Queries!Kept(s2) # {}
        BY <1>1, <1>8, <1>11, <2>6, FS_EmptySet
      <4>2. PICK u \in Query : u \in Queries!Kept(t) /\ u # r
        BY <2>5, <4>1, KeptIsFinite
      <4>3. s2[u] = t[u] /\ t[r] <= t[u]
        BY <2>2, <2>3, <4>2
      <4>4. m1[p] \in Nat
        BY <1>2, <1>3
      <4> QED
        BY <2>2, <2>4, <3>1, <3>3, <4>3, <4>4
    <3> QED
      BY <3>2, <3>3
  <2>11. Cardinality(Queries!Kept(s2)) <= MaxSamples + n
    BY <1>4, <2>6
  <2>12. SlowestKept(s2, m1, n)
    BY <2>7, <2>8, <2>9, <2>10, <2>11 DEF SlowestKept
  <2> QED
    BY <2>12 DEF m1, b
<1> QED
  BY <1>1, <1>8, <1>10, <1>11

(* Samples p come back. *)
LEMMA MergeKeeps ==
    ASSUME NEW s \in Times, NEW m \in Times, NEW n \in Nat, SlowestKept(s, m, n),
           NEW p \in Times
    PROVE  /\ n + Cardinality(Queries!Kept(p) \ Queries!Kept(s)) \in Nat
           /\ SlowestKept(Queries!LongerOf(s, p), Queries!LongerOf(m, p),
                          n + Cardinality(Queries!Kept(p) \ Queries!Kept(s)))
<1> DEFINE K == Queries!Kept(s)
           N == Queries!Kept(p) \ K
           s1 == Queries!LongerOf(s, p)
           m1 == Queries!LongerOf(m, p)
<1>1. /\ \A q \in Query : s[q] \in Nat /\ m[q] \in Nat /\ p[q] \in Nat
      /\ MaxSamples \in Nat
  BY QueriesAssumption DEF Times
<1>2. \A q \in Query : /\ s1[q] = Queries!Longer(s[q], p[q])
                       /\ m1[q] = Queries!Longer(m[q], p[q])
  BY DEF Queries!LongerOf
<1>3. \A q \in Query : /\ s1[q] \in {s[q], p[q]} /\ s1[q] >= s[q] /\ s1[q] >= p[q]
                       /\ m1[q] \in {m[q], p[q]} /\ m1[q] >= m[q] /\ m1[q] >= p[q]
                       /\ s[q] = m[q] => s1[q] = m1[q]
  BY <1>1, <1>2, QueryLonger
<1>4. /\ IsFiniteSet(K) /\ Cardinality(K) \in Nat /\ IsFiniteSet(N) /\ Cardinality(N) \in Nat
      /\ K \subseteq Query /\ N \subseteq Query
  <2>1. IsFiniteSet(K) /\ Cardinality(K) \in Nat /\ K \subseteq Query /\ N \subseteq Query
    BY KeptIsFinite
  <2>2. IsFiniteSet(N)
    BY KeptIsFinite, FS_Difference
  <2> QED
    BY <2>1, <2>2, FS_CardinalityType
<1>5. /\ n = 0 => /\ \A q \in K : /\ s[q] = m[q]
                                  /\ \A r \in Query \ K : m[r] <= s[q]
                  /\ Cardinality(K) < MaxSamples => Queries!Kept(m) = K
      /\ MaxSamples > 0 => \A q \in Query : \E r \in Query : s[r] >= m[q]
      /\ Cardinality(K) <= MaxSamples + n
  BY DEF SlowestKept
<1> HIDE DEF s1, m1
<1>6. Queries!Kept(s1) = K \cup N /\ Queries!Kept(m1) = Queries!Kept(m) \cup Queries!Kept(p)
  BY <1>1, <1>3, KeptIsFinite
<1>7. Cardinality(K \cup N) = Cardinality(K) + Cardinality(N)
  <2>1. K \cap N = {}
    OBVIOUS
  <2>2. Cardinality(K \cup N) = Cardinality(K) + Cardinality(N) - Cardinality(K \cap N)
    BY <1>4, FS_Union
  <2>3. Cardinality(K \cap N) = 0
    BY <2>1, FS_EmptySet
  <2>4. Cardinality(K \cup N) = Cardinality(K) + Cardinality(N) - 0
    BY <2>2, <2>3
  <2> QED
    BY <1>4, <2>4
<1>8. n + Cardinality(N) = 0 => n = 0 /\ N = {}
  <2>1. \A c \in Nat : n + c = 0 => n = 0 /\ c = 0
    OBVIOUS
  <2>2. Cardinality(N) = 0 => N = {}
    BY <1>4, FS_EmptySet
  <2> QED
    BY <1>4, <2>1, <2>2
<1>9. ASSUME n + Cardinality(N) = 0
      PROVE  /\ \A q \in K : /\ s1[q] = m1[q]
                             /\ \A r \in Query \ K : m1[r] <= s1[q]
             /\ Cardinality(K) < MaxSamples => Queries!Kept(m1) = K
  <2>1. n = 0 /\ Queries!Kept(p) \subseteq K
    BY <1>8, <1>9
  <2>2. \A r \in Query \ K : p[r] = 0 /\ m1[r] = m[r]
    BY <1>1, <1>3, <2>1, KeptIsFinite
  <2>3. \A q \in K : s1[q] = m1[q]
    BY <1>3, <1>4, <1>5, <2>1
  <2>4. \A q \in K : \A r \in Query \ K : m1[r] <= s1[q]
    BY <1>1, <1>3, <1>4, <1>5, <2>1, <2>2
  <2> QED
    BY <1>5, <1>6, <2>1, <2>3, <2>4
<1>10. MaxSamples > 0 => \A q \in Query : \E r \in Query : s1[r] >= m1[q]
  <2> SUFFICES ASSUME MaxSamples > 0, NEW q \in Query
               PROVE  \E r \in Query : s1[r] >= m1[q]
    OBVIOUS
  <2>1. PICK r \in Query : s[r] >= m[q]
    BY <1>5
  <2> QED
    BY <1>1, <1>3, <2>1
<1>11. Cardinality(Queries!Kept(s1)) <= MaxSamples + (n + Cardinality(N))
  BY <1>1, <1>4, <1>5, <1>6, <1>7
<1>12. n + Cardinality(N) = 0 => Queries!Kept(s1) = K
  BY <1>6, <1>8
<1>13. SlowestKept(s1, m1, n + Cardinality(N))
  BY <1>9, <1>10, <1>11, <1>12 DEF SlowestKept
<1> QED
  BY <1>4, <1>13 DEF s1, m1

LEMMA KeptAsStated == Queries!SlowestAreKept <=> SlowestKept(samples, slowest, returned)
BY QueriesCardinality DEF Queries!SlowestAreKept, SlowestKept

LEMMA QueriesInit == Queries!Init => QueriesInv
<1> SUFFICES ASSUME Queries!Init
             PROVE  QueriesInv
  OBVIOUS
<1>1. samples = Queries!Empty /\ slowest = Queries!Empty /\ returned = 0
  BY DEF Queries!Init
<1>2. Queries!TypeOK
  BY QueriesAssumption DEF Queries!Init, Queries!TypeOK, Queries!Empty
<1> QED
  BY <1>1, <1>2, NothingKept DEF QueriesInv

LEMMA LongerTimes ==
    ASSUME NEW s \in Times, NEW p \in Times
    PROVE  /\ Queries!LongerOf(s, p) \in Times
           /\ \A q \in Query, d \in Queries!Durations :
                 [s EXCEPT ![q] = Queries!Longer(@, d)] \in Times
<1>1. \A a, b \in 0..MaxDuration : Queries!Longer(a, b) \in 0..MaxDuration
  BY DEF Queries!Longer
<1>2. \A q \in Query : s[q] \in 0..MaxDuration /\ p[q] \in 0..MaxDuration
  BY DEF Times
<1>3. Queries!LongerOf(s, p) \in Times
  BY <1>1, <1>2 DEF Queries!LongerOf, Times
<1>4. \A d \in Queries!Durations : d \in 0..MaxDuration
  BY QueriesAssumption DEF Queries!Durations
<1> QED
  BY <1>1, <1>2, <1>3, <1>4 DEF Times

LEMMA LimitedTimes ==
    ASSUME NEW s \in Times, NEW q \in Query, NEW d \in Queries!Durations,
           NEW s2 \in Queries!Limited(s, q, d)
    PROVE  s2 \in Times
<1>1. d \in 0..MaxDuration /\ 0 \in 0..MaxDuration
  BY QueriesAssumption DEF Queries!Durations
<1>2. [s EXCEPT ![q] = d] \in Times
  BY <1>1 DEF Times
<1> QED
  BY <1>1, <1>2 DEF Queries!Limited, Times

LEMMA QueriesStep == QueriesInv /\ [Queries!Next]_Queries!vars => QueriesInv'
<1> SUFFICES ASSUME QueriesInv, [Queries!Next]_Queries!vars
             PROVE  QueriesInv'
  OBVIOUS
<1>1. /\ samples \in Times /\ slowest \in Times /\ returned \in Nat
      /\ sent \in [Slot -> Times]
      /\ SlowestKept(samples, slowest, returned)
  BY DEF QueriesInv, Queries!TypeOK, Times
<1>2. /\ Queries!Empty \in Times /\ SlowestKept(Queries!Empty, Queries!Empty, 0)
  BY NothingKept, QueriesAssumption DEF Queries!Empty, Times
<1>3. SUFFICES \E s, m \in Times, n \in Nat :
                  /\ samples' = s /\ slowest' = m /\ returned' = n
                  /\ sent' \in [Slot -> Times] /\ SlowestKept(s, m, n)
  BY DEF QueriesInv, Queries!TypeOK, Times, SlowestKept, Queries!Kept
<1>4. ASSUME NEW q \in Query, NEW d \in Queries!Durations, Queries!Add(q, d)
      PROVE  \E s, m \in Times, n \in Nat :
                /\ samples' = s /\ slowest' = m /\ returned' = n
                /\ sent' \in [Slot -> Times] /\ SlowestKept(s, m, n)
  <2> DEFINE m == [slowest EXCEPT ![q] = Queries!Longer(@, d)]
  <2>1. slowest' = m /\ returned' = returned /\ sent' = sent /\ m \in Times
    BY <1>1, <1>4, LongerTimes DEF Queries!Add
  <2>2. CASE q \in Queries!Kept(samples)
    <3> DEFINE s == [samples EXCEPT ![q] = Queries!Longer(@, d)]
    <3>1. samples' = s /\ s \in Times
      BY <1>1, <1>4, <2>2, LongerTimes DEF Queries!Add
    <3>2. SlowestKept(s, m, returned)
      BY <1>1, <2>2, AddToKept
    <3> QED
      BY <1>1, <2>1, <3>1, <3>2
  <2>3. CASE q \notin Queries!Kept(samples)
    <3>1. PICK s \in Queries!Limited(samples, q, d) : samples' = s
      BY <1>4, <2>3 DEF Queries!Add
    <3>2. s \in Times
      BY <1>1, LimitedTimes
    <3>3. SlowestKept(s, m, returned)
      BY <1>1, <2>3, AddAnother
    <3> QED
      BY <1>1, <2>1, <3>1, <3>2, <3>3
  <2> QED
    BY <2>2, <2>3
<1>5. ASSUME NEW i \in Slot, Queries!Send(i)
      PROVE  \E s, m \in Times, n \in Nat :
                /\ samples' = s /\ slowest' = m /\ returned' = n
                /\ sent' \in [Slot -> Times] /\ SlowestKept(s, m, n)
  <2>1. sent' \in [Slot -> Times]
    BY <1>1, <1>5 DEF Queries!Send
  <2> QED
    BY <1>2, <1>5, <2>1 DEF Queries!Send
<1>6. ASSUME NEW i \in Slot, Queries!Released(i)
      PROVE  \E s, m \in Times, n \in Nat :
                /\ samples' = s /\ slowest' = m /\ returned' = n
                /\ sent' \in [Slot -> Times] /\ SlowestKept(s, m, n)
  <2>1. sent' \in [Slot -> Times]
    BY <1>1, <1>2, <1>6 DEF Queries!Released
  <2> QED
    BY <1>1, <1>6, <2>1 DEF Queries!Released
<1>7. ASSUME NEW i \in Slot, Queries!Retained(i)
      PROVE  \E s, m \in Times, n \in Nat :
                /\ samples' = s /\ slowest' = m /\ returned' = n
                /\ sent' \in [Slot -> Times] /\ SlowestKept(s, m, n)
  <2> DEFINE p == sent[i]
             more == Cardinality(Queries!Kept(p) \ Queries!Kept(samples))
  <2>1. p \in Times /\ sent' \in [Slot -> Times]
    BY <1>1, <1>2, <1>7 DEF Queries!Retained
  <2>2. /\ samples' = Queries!LongerOf(samples, p)
        /\ slowest' = Queries!LongerOf(slowest, p)
        /\ returned' = returned + more
    BY <1>7, QueriesCardinality DEF Queries!Retained, Queries!Merge
  <2>3. Queries!LongerOf(samples, p) \in Times /\ Queries!LongerOf(slowest, p) \in Times
    BY <1>1, <2>1, LongerTimes
  <2>4. /\ returned + more \in Nat
        /\ SlowestKept(Queries!LongerOf(samples, p), Queries!LongerOf(slowest, p),
                       returned + more)
    BY <1>1, <2>1, MergeKeeps
  <2> HIDE DEF more, p
  <2> QED
    BY <2>1, <2>2, <2>3, <2>4
<1>8. CASE Queries!Clear
  BY <1>1, <1>2, <1>8 DEF Queries!Clear
<1>9. CASE UNCHANGED Queries!vars
  BY <1>1, <1>9 DEF Queries!vars
<1> QED
  BY <1>4, <1>5, <1>6, <1>7, <1>8, <1>9 DEF Queries!Next

(* Traces and queries: what a failed send gives back takes nothing slower  *)
(* away, however many names, samples and payloads there are.               *)
THEOREM KeepsSlowest == Traces!Spec /\ Queries!Spec => []SlowestAreKept
<1>1. Queries!Init => QueriesInv
  BY QueriesInit
<1>2. QueriesInv /\ [Queries!Next]_Queries!vars => QueriesInv'
  BY QueriesStep
<1>3. QueriesInv => Queries!SlowestAreKept
  BY KeptAsStated DEF QueriesInv
<1>4. Traces!SlowestIsKept /\ Queries!SlowestAreKept => SlowestAreKept
  BY DEF SlowestAreKept
<1> QED
  BY <1>1, <1>2, <1>3, <1>4, TracesKept, PTL DEF Queries!Spec

-----------------------------------------------------------------------------
(* The Lambda invocations *)

Live(i) == transactionOf[i] = i /\ i \notin ran

(* As long as no ender has run again, an invocation that has a transaction *)
(* has one of its own, which is active until its ender has run,            *)
OwnTransactions ==
    /\ \A i \in Invocations!Invocation :
          /\ transactionOf[i] \in {Invocations!Nil, i}
          /\ transactionOf[i] # Invocations!Nil => i <= started
          /\ i \in ran => transactionOf[i] = i
    /\ \A i \in Invocations!Invocation : i \in going <=> Live(i)

(* and the enders of the active ones, and no others, are in their places,  *)
EndersInPlace ==
    /\ \A i \in going : /\ place[i] \in 1..Len(transactionEnders)
                        /\ transactionEnders[place[i]] = i
    /\ \A p \in 1..Len(transactionEnders) :
          transactionEnders[p] \in Invocations!Invocation =>
              /\ transactionEnders[p] \in going
              /\ place[transactionEnders[p]] = p

(* and those whose enders have run are the answered ones, but for a        *)
(* streaming one that has been answered by a rejection.  What is not       *)
(* written when an ender has run waits for a harvest that a stopped agent  *)
(* does not make.                                                          *)
AnsweredHaveEnded ==
    /\ \A i \in Invocations!Invocation :
          /\ answered[i] \in {"ok", "error"} => i \in ran
          /\ i \in ran => answered[i] # "no"
    /\ \A i \in Invocations!Invocation : answered[i] = "error" => i \in errors[i]
    /\ ran \subseteq written \cup collected
    /\ enabled => collected = {}

InvocationsInv ==
    /\ Invocations!TypeOK
    /\ ~again => OwnTransactions /\ EndersInPlace /\ AnsweredHaveEnded

LEMMA InvocationsNumbers ==
    /\ Invocations!Invocation = 1..MaxInvocations /\ Invocations!Nil = 0
    /\ Invocations!Clean = MaxInvocations + 1 /\ Invocations!Undefined = MaxInvocations + 2
    /\ MaxInvocations \in Nat
    /\ \A i \in Invocations!Invocation : i \in Nat /\ i # Invocations!Nil
    /\ Invocations!Clean \notin Invocations!Invocation
    /\ Invocations!Undefined \notin Invocations!Invocation
    /\ Invocations!Undefined # Invocations!Clean
BY InvocationsAssumption DEF Invocations!Invocation, Invocations!Nil, Invocations!Clean,
   Invocations!Undefined

LEMMA InvocationsInit == Invocations!Init => InvocationsInv
<1> SUFFICES ASSUME Invocations!Init
             PROVE  InvocationsInv
  OBVIOUS
<1>1. Invocations!TypeOK
  <2>1. transactionEnders \in Seq(Invocations!Invocation \cup
                                  {Invocations!Clean, Invocations!Undefined})
    BY DEF Invocations!Init
  <2>2. /\ place \in [Invocations!Invocation -> Nat]
        /\ transactionOf \in [Invocations!Invocation ->
                              Invocations!Invocation \cup {Invocations!Nil}]
        /\ errors \in [Invocations!Invocation -> SUBSET Invocations!Invocation]
        /\ done \in [Invocations!Invocation -> 0..MaxActs]
        /\ answered \in [Invocations!Invocation -> {"no", "ok", "error", "rejected"}]
    BY InvocationsAssumption DEF Invocations!Init
  <2>3. started \in 0..MaxInvocations
    BY InvocationsAssumption DEF Invocations!Init
  <2> QED
    BY <2>1, <2>2, <2>3 DEF Invocations!Init, Invocations!TypeOK
<1>2. OwnTransactions /\ EndersInPlace /\ AnsweredHaveEnded
  BY InvocationsNumbers DEF Invocations!Init, OwnTransactions, EndersInPlace,
     AnsweredHaveEnded, Live
<1> QED
  BY <1>1, <1>2 DEF InvocationsInv

(* What an ender that runs does to the types, whatever it finds. *)
LEMMA EndTypes ==
    ASSUME Invocations!TypeOK,
           NEW i \in Invocations!Invocation,
           NEW errs \in [Invocations!Invocation -> SUBSET Invocations!Invocation],
           NEW u \in Invocations!Invocation \cup {Invocations!Nil},
           Invocations!EndTransaction(i, errs, u)
    PROVE  /\ transactionEnders' \in Seq(Invocations!Invocation \cup
                                        {Invocations!Clean, Invocations!Undefined})
           /\ going' \subseteq Invocations!Invocation
           /\ errors' \in [Invocations!Invocation -> SUBSET Invocations!Invocation]
           /\ uncaughtException' \in Invocations!Invocation \cup {Invocations!Nil}
           /\ collected' \subseteq Invocations!Invocation
           /\ written' \subseteq Invocations!Invocation
           /\ ran' \subseteq Invocations!Invocation
           /\ again' \in BOOLEAN
<1> DEFINE In == Invocations!Invocation
           Places == In \cup {Invocations!Clean, Invocations!Undefined}
           ran1 == ~(transactionEnders = <<>> \/ Invocations!At(place[i]) = Invocations!Clean)
<1>1. /\ transactionEnders \in Seq(Places) /\ place[i] \in Nat
      /\ going \subseteq In /\ collected \subseteq In /\ written \subseteq In
      /\ ran \subseteq In /\ again \in BOOLEAN
      /\ transactionOf[i] \in In \cup {Invocations!Nil}
  BY DEF Invocations!TypeOK
<1>2. CASE ~ran1
  BY <1>1, <1>2 DEF Invocations!EndTransaction
<1>3. CASE ran1
  <2>1. /\ transactionEnders' = Invocations!CleanAt(place[i])
        /\ errors' = Invocations!WithError(errs, transactionOf[i], u)
        /\ uncaughtException' = Invocations!Nil
        /\ Invocations!EndAndHarvest({transactionOf[i]})
        /\ ran' = ran \cup {i} /\ again' = (again \/ i \in ran)
    BY <1>3 DEF Invocations!EndTransaction
  <2>2. transactionEnders' \in Seq(Places)
    <3> DEFINE n == IF place[i] > Len(transactionEnders) THEN place[i]
                    ELSE Len(transactionEnders)
               f == [q \in 1..n |-> IF q = place[i] THEN Invocations!Clean
                                    ELSE Invocations!At(q)]
    <3>1. n \in Nat
      BY <1>1
    <3>2. \A q \in 1..n : Invocations!At(q) \in Places
      BY <1>1 DEF Invocations!At
    <3>3. f \in [1..n -> Places]
      BY <3>2
    <3>4. f \in Seq(Places)
      BY <3>1, <3>3, SeqDef
    <3> QED
      BY <2>1, <3>4 DEF Invocations!CleanAt
  <2>3. errors' \in [In -> SUBSET In]
    BY <1>1, <2>1 DEF Invocations!WithError
  <2>4. /\ going' \subseteq In /\ collected' \subseteq In /\ written' \subseteq In
    BY <1>1, <2>1 DEF Invocations!EndAndHarvest
  <2> QED
    BY <1>1, <2>1, <2>2, <2>3, <2>4
<1> QED
  BY <1>2, <1>3

(* Unless it has run before, an ender finds itself in its place and its    *)
(* transaction active, and ends it.                                        *)
LEMMA EndKeeps ==
    ASSUME InvocationsInv, ~again',
           NEW i \in Invocations!Invocation, transactionOf[i] # Invocations!Nil,
           NEW errs \in [Invocations!Invocation -> SUBSET Invocations!Invocation],
           NEW u \in Invocations!Invocation \cup {Invocations!Nil},
           Invocations!EndTransaction(i, errs, u),
           UNCHANGED <<started, enabled, place, transactionOf>>
    PROVE  /\ ~again /\ ran' = ran \cup {i}
           /\ OwnTransactions' /\ EndersInPlace'
           /\ ran' \subseteq written' \cup collected'
           /\ enabled => collected' = {}
           /\ \A j \in Invocations!Invocation : errs[j] \subseteq errors'[j]
           /\ i \notin ran /\ u # Invocations!Nil => u \in errors'[i]
<1> DEFINE In == Invocations!Invocation
           Places == In \cup {Invocations!Clean, Invocations!Undefined}
           ran1 == ~(transactionEnders = <<>> \/ Invocations!At(place[i]) = Invocations!Clean)
<1>1. /\ transactionEnders \in Seq(Places) /\ place \in [In -> Nat]
      /\ going \subseteq In /\ again \in BOOLEAN /\ ran \subseteq In
      /\ Len(transactionEnders) \in Nat
  BY DEF InvocationsInv, Invocations!TypeOK
<1>2. ~again
  BY <1>1 DEF Invocations!EndTransaction
<1>3. OwnTransactions /\ EndersInPlace /\ AnsweredHaveEnded
  BY <1>2 DEF InvocationsInv
<1>4. /\ transactionOf[i] = i
      /\ i \notin ran => i \in going /\ place[i] \in 1..Len(transactionEnders)
                         /\ transactionEnders[place[i]] = i
  BY <1>3 DEF OwnTransactions, EndersInPlace, Live
<1>5. i \notin ran => ran1
  BY <1>1, <1>4, InvocationsNumbers DEF Invocations!At
<1>6. CASE ~ran1
  <2>1. /\ errors' = errs
        /\ UNCHANGED <<transactionEnders, going, collected, written, ran>>
    BY <1>6 DEF Invocations!EndTransaction
  <2>2. i \in ran
    BY <1>5, <1>6
  <2>3. OwnTransactions' /\ EndersInPlace'
    BY <1>3, <2>1 DEF OwnTransactions, EndersInPlace, Live
  <2> QED
    BY <1>2, <1>3, <2>1, <2>2, <2>3 DEF AnsweredHaveEnded
<1>7. CASE ran1
  <2>1. /\ transactionEnders' = Invocations!CleanAt(place[i])
        /\ errors' = Invocations!WithError(errs, i, u)
        /\ Invocations!EndAndHarvest({i})
        /\ ran' = ran \cup {i} /\ i \notin ran
    BY <1>2, <1>4, <1>7 DEF Invocations!EndTransaction
  <2>2. going' = going \ {i}
    BY <2>1 DEF Invocations!EndAndHarvest
  <2>3. OwnTransactions'
    BY <1>3, <1>4, <2>1, <2>2 DEF OwnTransactions, Live
  <2>4. /\ Len(transactionEnders') = Len(transactionEnders)
        /\ \A q \in 1..Len(transactionEnders) :
              transactionEnders'[q] = IF q = place[i] THEN Invocations!Clean
                                      ELSE transactionEnders[q]
    <3> DEFINE n == Len(transactionEnders)
               f == [q \in 1..n |-> IF q = place[i] THEN Invocations!Clean
                                    ELSE Invocations!At(q)]
    <3>1. transactionEnders' = f
      BY <1>1, <1>4, <2>1 DEF Invocations!CleanAt
    <3>2. Len(f) = n
      BY <1>1
    <3>3. \A q \in 1..n : f[q] = IF q = place[i] THEN Invocations!Clean
                                 ELSE transactionEnders[q]
      BY <1>1 DEF Invocations!At
    <3> HIDE DEF f
    <3> QED
      BY <3>1, <3>2, <3>3
  <2>5. EndersInPlace'
    <3>1. ASSUME NEW j \in going'
          PROVE  /\ place'[j] \in 1..Len(transactionEnders')
                 /\ transactionEnders'[place'[j]] = j
      <4>1. /\ j \in going /\ j # i /\ place[j] \in 1..Len(transactionEnders)
            /\ transactionEnders[place[j]] = j
        BY <1>3, <2>2, <3>1 DEF EndersInPlace
      <4>2. place[j] # place[i]
        BY <1>4, <2>1, <4>1
      <4> QED
        BY <2>4, <4>1, <4>2
    <3>2. ASSUME NEW p \in 1..Len(transactionEnders'), transactionEnders'[p] \in In
          PROVE  /\ transactionEnders'[p] \in going'
                 /\ place'[transactionEnders'[p]] = p
      <4>1. /\ p \in 1..Len(transactionEnders) /\ p # place[i]
            /\ transactionEnders'[p] = transactionEnders[p]
        BY <2>4, <3>2, InvocationsNumbers
      <4>2. /\ transactionEnders[p] \in going /\ place[transactionEnders[p]] = p
        BY <1>3, <3>2, <4>1 DEF EndersInPlace
      <4> QED
        BY <2>2, <4>1, <4>2
    <3> QED
      BY <3>1, <3>2 DEF EndersInPlace
  <2>6. /\ ran' \subseteq written' \cup collected'
        /\ enabled => collected' = {}
    BY <1>3, <1>4, <2>1 DEF Invocations!EndAndHarvest, AnsweredHaveEnded
  <2>7. /\ \A j \in In : errs[j] \subseteq errors'[j]
        /\ u # Invocations!Nil => u \in errors'[i]
    BY <1>4, <2>1 DEF Invocations!WithError
  <2> QED
    BY <1>2, <2>1, <2>3, <2>5, <2>6, <2>7
<1> QED
  BY <1>6, <1>7

LEMMA ErrorAdds ==
    ASSUME Invocations!TypeOK,
           NEW errs \in [Invocations!Invocation -> SUBSET Invocations!Invocation],
           NEW t, NEW e \in Invocations!Invocation \cup {Invocations!Nil}
    PROVE  /\ Invocations!WithError(errs, t, e) \in
                  [Invocations!Invocation -> SUBSET Invocations!Invocation]
           /\ \A j \in Invocations!Invocation : errs[j] \subseteq Invocations!WithError(errs, t, e)[j]
           /\ t \in going /\ e # Invocations!Nil => e \in Invocations!WithError(errs, t, e)[t]
BY DEF Invocations!TypeOK, Invocations!WithError

(* The runtime takes the first answer of i, which comes as its ender runs  *)
(* or after it has run, and an answer that is an error with the error.     *)
LEMMA EndedIsAnswered ==
    ASSUME InvocationsInv, ~again', NEW i \in Invocations!Invocation,
           transactionOf[i] # Invocations!Nil,
           NEW errs \in [Invocations!Invocation -> SUBSET Invocations!Invocation],
           \A j \in Invocations!Invocation : errors[j] \subseteq errs[j],
           NEW u \in Invocations!Invocation \cup {Invocations!Nil},
           Invocations!EndTransaction(i, errs, u),
           UNCHANGED <<started, enabled, place, transactionOf>>,
           NEW how \in {"ok", "error"}, Invocations!Answer(i, how),
           how = "error" /\ i \notin ran => i \in errs[i] \/ u = i
    PROVE  OwnTransactions' /\ EndersInPlace' /\ AnsweredHaveEnded'
<1>1. /\ ~again /\ ran' = ran \cup {i}
      /\ OwnTransactions' /\ EndersInPlace'
      /\ ran' \subseteq written' \cup collected'
      /\ enabled => collected' = {}
      /\ \A j \in Invocations!Invocation : errs[j] \subseteq errors'[j]
      /\ i \notin ran /\ u # Invocations!Nil => u \in errors'[i]
  BY EndKeeps
<1>2. /\ AnsweredHaveEnded
      /\ answered \in [Invocations!Invocation -> {"no", "ok", "error", "rejected"}]
  BY <1>1 DEF InvocationsInv, Invocations!TypeOK
<1>3. \A j \in Invocations!Invocation :
          answered'[j] = IF j = i /\ answered[i] = "no" THEN how ELSE answered[j]
  BY <1>2 DEF Invocations!Answer
<1>4. \A j \in Invocations!Invocation :
          /\ answered'[j] \in {"ok", "error"} => j \in ran'
          /\ j \in ran' => answered'[j] # "no"
  BY <1>1, <1>2, <1>3 DEF AnsweredHaveEnded
<1>5. ASSUME NEW j \in Invocations!Invocation, answered'[j] = "error"
      PROVE  j \in errors'[j]
  <2>1. CASE j = i /\ answered[i] = "no"
    <3>1. i \notin ran /\ how = "error"
      BY <1>2, <1>3, <1>5, <2>1 DEF AnsweredHaveEnded
    <3> QED
      BY <1>1, <2>1, <3>1, InvocationsNumbers
  <2>2. CASE ~(j = i /\ answered[i] = "no")
    BY <1>1, <1>2, <1>3, <1>5, <2>2 DEF AnsweredHaveEnded
  <2> QED
    BY <2>1, <2>2
<1> QED
  BY <1>1, <1>4, <1>5 DEF AnsweredHaveEnded

LEMMA ActKeeps ==
    ASSUME InvocationsInv, NEW i \in Invocations!Invocation, Invocations!Act(i)
    PROVE  InvocationsInv'
<1> DEFINE In == Invocations!Invocation
           Ended(errs, u, how) ==
               /\ errs \in [In -> SUBSET In] /\ \A j \in In : errors[j] \subseteq errs[j]
               /\ u \in In \cup {Invocations!Nil}
               /\ Invocations!EndTransaction(i, errs, u)
               /\ how \in {"ok", "error"} /\ Invocations!Answer(i, how)
               /\ ~again /\ how = "error" /\ i \notin ran => i \in errs[i] \/ u = i
<1>1. /\ Invocations!TypeOK /\ i <= started /\ transactionOf[i] # Invocations!Nil
      /\ done' = [done EXCEPT ![i] = @ + 1] /\ done[i] < MaxActs
      /\ UNCHANGED <<started, streams, enabled, place, transactionOf, overlapped>>
  BY DEF InvocationsInv, Invocations!Act, Invocations!Does, Invocations!appVars
<1>2. /\ errors \in [In -> SUBSET In] /\ uncaughtException \in In \cup {Invocations!Nil}
      /\ answered \in [In -> {"no", "ok", "error", "rejected"}]
      /\ i # Invocations!Nil /\ again \in BOOLEAN
      /\ ~again => transactionOf[i] = i /\ (i \notin ran => i \in going)
  BY <1>1, InvocationsNumbers DEF Invocations!TypeOK, InvocationsInv, OwnTransactions, Live
<1>3. done' \in [In -> 0..MaxActs]
  BY <1>1, InvocationsAssumption DEF Invocations!TypeOK
<1>4. ASSUME NEW errs, NEW u, NEW how, Ended(errs, u, how)
      PROVE  InvocationsInv'
  <2>1. Invocations!TypeOK'
    <3>1. answered' \in [In -> {"no", "ok", "error", "rejected"}]
      BY <1>2, <1>4 DEF Invocations!Answer
    <3> QED
      BY <1>1, <1>3, <1>4, <3>1, EndTypes DEF Invocations!TypeOK
  <2>2. ~again' => OwnTransactions' /\ EndersInPlace' /\ AnsweredHaveEnded'
    <3> SUFFICES ASSUME ~again'
                 PROVE  OwnTransactions' /\ EndersInPlace' /\ AnsweredHaveEnded'
      OBVIOUS
    <3>1. ~again
      BY <1>1, <1>4, EndKeeps
    <3>2. how = "error" /\ i \notin ran => i \in errs[i] \/ u = i
      BY <1>4, <3>1
    <3> QED
      BY <1>1, <1>4, <3>2, EndedIsAnswered
  <2> QED
    BY <2>1, <2>2 DEF InvocationsInv
<1>5. ASSUME NEW failing \in BOOLEAN, Invocations!Callback(i, failing)
      PROVE  InvocationsInv'
  <2> DEFINE e == IF failing THEN i ELSE Invocations!Nil
             errs == Invocations!WithError(errors, transactionOf[i], e)
             how == IF failing THEN "error" ELSE "ok"
  <2>1. e \in In \cup {Invocations!Nil}
    OBVIOUS
  <2>2. /\ errs \in [In -> SUBSET In] /\ \A j \in In : errors[j] \subseteq errs[j]
        /\ transactionOf[i] \in going /\ e # Invocations!Nil => e \in errs[transactionOf[i]]
    BY <1>1, <1>2, <2>1, ErrorAdds
  <2>3. /\ Invocations!EndTransaction(i, errs, uncaughtException)
        /\ Invocations!Answer(i, how)
    BY <1>5 DEF Invocations!Callback
  <2>4. ~again /\ how = "error" /\ i \notin ran => i \in errs[i]
    BY <1>2, <2>2
  <2> HIDE DEF errs, Ended
  <2>5. Ended(errs, uncaughtException, how)
    BY <1>2, <2>2, <2>3, <2>4 DEF Ended
  <2> QED
    BY <1>4, <2>5
<1>6. CASE Invocations!Fail(i)
  <2>1. Ended(errors, i, "error")
    BY <1>2, <1>6 DEF Invocations!Fail
  <2> QED
    BY <1>4, <2>1
<1>7. CASE Invocations!StreamError(i)
  <2>1. /\ errors' = Invocations!WithError(errors, transactionOf[i], i)
        /\ UNCHANGED <<transactionEnders, going, uncaughtException, collected, written, ran,
                       again, answered>>
    BY <1>7 DEF Invocations!StreamError
  <2>2. /\ errors' \in [In -> SUBSET In] /\ \A j \in In : errors[j] \subseteq errors'[j]
    BY <1>1, <1>2, <2>1, ErrorAdds
  <2>3. Invocations!TypeOK'
    BY <1>1, <1>3, <2>1, <2>2 DEF Invocations!TypeOK
  <2>4. ~again' => OwnTransactions' /\ EndersInPlace' /\ AnsweredHaveEnded'
    BY <1>1, <2>1, <2>2 DEF InvocationsInv, OwnTransactions, EndersInPlace,
       AnsweredHaveEnded, Live
  <2> QED
    BY <2>3, <2>4 DEF InvocationsInv
<1>8. CASE Invocations!StreamClose(i)
  <2>1. Ended(errors, uncaughtException, "ok")
    BY <1>2, <1>8 DEF Invocations!StreamClose
  <2> QED
    BY <1>4, <2>1
<1>9. CASE Invocations!StreamRejects(i)
  <2>1. /\ Invocations!Answer(i, "rejected")
        /\ UNCHANGED <<transactionEnders, errors, going, uncaughtException, collected,
                       written, ran, again>>
    BY <1>9 DEF Invocations!StreamRejects, Invocations!endVars
  <2>2. \A j \in In : answered'[j] = IF j = i /\ answered[i] = "no" THEN "rejected"
                                     ELSE answered[j]
    BY <1>2, <2>1 DEF Invocations!Answer
  <2>3. answered' \in [In -> {"no", "ok", "error", "rejected"}]
    BY <1>2, <2>1 DEF Invocations!Answer
  <2>4. Invocations!TypeOK'
    BY <1>1, <1>3, <2>1, <2>3 DEF Invocations!TypeOK
  <2>5. ~again' => OwnTransactions' /\ EndersInPlace' /\ AnsweredHaveEnded'
    BY <1>1, <2>1, <2>2 DEF InvocationsInv, OwnTransactions, EndersInPlace,
       AnsweredHaveEnded, Live
  <2> QED
    BY <2>4, <2>5 DEF InvocationsInv
<1> QED
  BY <1>5, <1>6, <1>7, <1>8, <1>9 DEF Invocations!Act

(* When all enders run, the active transactions end, and an invocation     *)
(* that is ended for its own uncaught error is the only one.               *)
LEMMA EndAllKeeps ==
    ASSUME InvocationsInv, NEW u \in Invocations!Invocation \cup {Invocations!Nil},
           Invocations!EndAll(u), done' \in [Invocations!Invocation -> 0..MaxActs]
    PROVE  InvocationsInv'
<1> DEFINE In == Invocations!Invocation
           live == {p \in DOMAIN transactionEnders : transactionEnders[p] \in In}
           ends == {transactionEnders[p] : p \in live}
           least == CHOOSE p \in live : \A q \in live : p <= q
           T == {transactionOf[i] : i \in ends}
<1>1. /\ transactionEnders' = <<>> /\ Invocations!EndAndHarvest(T)
      /\ uncaughtException' = IF live = {} THEN u ELSE Invocations!Nil
      /\ errors' = IF live = {} THEN errors
                   ELSE Invocations!WithError(errors, transactionOf[transactionEnders[least]], u)
      /\ ran' = ran \cup ends
      /\ again' = (again \/ ends \cap ran # {})
      /\ answered' = [i \in In |->
            IF answered[i] # "no" \/ i \notin ends THEN answered[i]
            ELSE IF ends = {u} THEN "error" ELSE "ok"]
      /\ UNCHANGED <<started, streams, enabled, place, transactionOf, overlapped>>
  BY DEF Invocations!EndAll, Invocations!appVars
<1>2. /\ Invocations!TypeOK
      /\ errors \in [In -> SUBSET In] /\ answered \in [In -> {"no", "ok", "error", "rejected"}]
      /\ going \subseteq In /\ ran \subseteq In /\ again \in BOOLEAN
      /\ transactionEnders \in Seq(In \cup {Invocations!Clean, Invocations!Undefined})
      /\ DOMAIN transactionEnders = 1..Len(transactionEnders)
  BY DEF InvocationsInv, Invocations!TypeOK
<1>3. ends \subseteq In
  OBVIOUS
<1> HIDE DEF least, T, ends, live
<1>4. /\ errors' \in [In -> SUBSET In]
      /\ \A j \in In : errors[j] \subseteq errors'[j]
  BY <1>1, <1>2, ErrorAdds
<1>5. Invocations!TypeOK'
  <2>1. /\ transactionEnders' \in Seq(In \cup {Invocations!Clean, Invocations!Undefined})
        /\ uncaughtException' \in In \cup {Invocations!Nil}
    BY <1>1
  <2>2. going' \subseteq In /\ collected' \subseteq In /\ written' \subseteq In
    BY <1>1, <1>2 DEF Invocations!EndAndHarvest, Invocations!TypeOK
  <2>3. answered' \in [In -> {"no", "ok", "error", "rejected"}]
    BY <1>1, <1>2
  <2>4. ran' \subseteq In /\ again' \in BOOLEAN
    BY <1>1, <1>2, <1>3
  <2> QED
    BY <1>1, <1>2, <1>4, <2>1, <2>2, <2>3, <2>4 DEF Invocations!TypeOK
<1>6. ASSUME ~again'
      PROVE  OwnTransactions' /\ EndersInPlace' /\ AnsweredHaveEnded'
  <2>1. ~again /\ OwnTransactions /\ EndersInPlace /\ AnsweredHaveEnded
    BY <1>1, <1>2, <1>6 DEF InvocationsInv
  <2>2. ends = going
    BY <1>2, <2>1 DEF EndersInPlace, ends, live
  <2>3. T = going /\ \A i \in going : transactionOf[i] = i /\ i \notin ran
    BY <1>2, <2>1, <2>2 DEF OwnTransactions, Live, T
  <2>4. going' = {} /\ ran' = ran \cup going
    BY <1>1, <2>2, <2>3 DEF Invocations!EndAndHarvest
  <2>5. OwnTransactions'
    BY <1>1, <1>2, <2>1, <2>3, <2>4 DEF OwnTransactions, Live
  <2>6. EndersInPlace'
    BY <1>1, <2>4 DEF EndersInPlace
  <2>7. \A j \in In :
           /\ answered'[j] \in {"ok", "error"} => j \in ran'
           /\ j \in ran' => answered'[j] # "no"
    BY <1>1, <1>2, <2>1, <2>2, <2>4 DEF AnsweredHaveEnded
  <2>8. ASSUME NEW j \in In, answered'[j] = "error"
        PROVE  j \in errors'[j]
    <3>1. CASE answered[j] = "error"
      BY <1>4, <2>1, <3>1 DEF AnsweredHaveEnded
    <3>2. CASE answered[j] # "error"
      <4>1. j \in ends /\ ends = {u}
        BY <1>1, <1>2, <2>8, <3>2
      <4>2. \A p \in live : p = place[j] /\ transactionEnders[p] = j
        BY <1>2, <2>1, <4>1 DEF EndersInPlace, ends, live
      <4>3. place[j] \in live /\ \A p, q \in live : p <= q
        BY <1>2, <2>1, <2>2, <4>1, <4>2 DEF EndersInPlace, live
      <4>4. least \in live
        BY <4>3 DEF least
      <4>5. errors' = Invocations!WithError(errors, j, j)
        BY <1>1, <2>2, <2>3, <4>1, <4>2, <4>4
      <4> QED
        BY <1>2, <2>2, <4>1, <4>5, ErrorAdds, InvocationsNumbers
    <3> QED
      BY <3>1, <3>2
  <2>9. ran' \subseteq written' \cup collected' /\ (enabled' => collected' = {})
    BY <1>1, <2>1, <2>3, <2>4 DEF Invocations!EndAndHarvest, AnsweredHaveEnded
  <2>10. AnsweredHaveEnded'
    <3>1. \A j \in In : answered'[j] = "error" => j \in errors'[j]
      BY <2>8
    <3> QED
      BY <2>7, <2>9, <3>1 DEF AnsweredHaveEnded
  <2> QED
    BY <2>5, <2>6, <2>10
<1> QED
  BY <1>5, <1>6 DEF InvocationsInv

(* An invocation that begins takes over no transaction: the answered ones  *)
(* have ended theirs.                                                      *)
LEMMA InvokeKeeps ==
    ASSUME InvocationsInv, NEW context \in Invocations!Contexts, NEW streaming \in BOOLEAN,
           Invocations!Invoke(context, streaming)
    PROVE  InvocationsInv'
<1> DEFINE In == Invocations!Invocation
           Places == In \cup {Invocations!Clean, Invocations!Undefined}
           i == started + 1
           t == IF context # Invocations!Nil THEN context
                ELSE IF enabled THEN i ELSE Invocations!Nil
<1>1. /\ started < MaxInvocations /\ started' = i
      /\ streams' = (IF streaming THEN streams \cup {i} ELSE streams)
      /\ transactionOf' = [transactionOf EXCEPT ![i] = t]
      /\ going' = (IF t = i THEN going \cup {i} ELSE going)
      /\ t = Invocations!Nil => UNCHANGED <<transactionEnders, place>>
      /\ t # Invocations!Nil =>
            /\ place' = [place EXCEPT ![i] = Len(transactionEnders) + 1]
            /\ transactionEnders' = Append(transactionEnders, i)
      /\ overlapped' \in BOOLEAN
      /\ UNCHANGED <<enabled, errors, uncaughtException, collected, written, done,
                     answered, ran, again>>
  BY DEF InvocationsInv, Invocations!TypeOK, Invocations!Invoke, Invocations!NextPlace
<1>2. /\ Invocations!TypeOK
      /\ started \in 0..MaxInvocations /\ going \subseteq In
      /\ transactionOf \in [In -> In \cup {Invocations!Nil}]
      /\ place \in [In -> Nat] /\ transactionEnders \in Seq(Places)
      /\ Len(transactionEnders) \in Nat /\ ran \subseteq In
  BY DEF InvocationsInv, Invocations!TypeOK
<1>3. i \in In /\ i # Invocations!Nil /\ MaxInvocations \in Nat
  BY <1>1, <1>2, InvocationsNumbers
<1>4. t \in In \cup {Invocations!Nil}
  BY <1>2, <1>3 DEF Invocations!Contexts
<1>5. Invocations!TypeOK'
  <2>1. started' \in 0..MaxInvocations /\ streams' \subseteq In /\ going' \subseteq In
    BY <1>1, <1>2, <1>3 DEF Invocations!TypeOK
  <2>2. transactionOf' \in [In -> In \cup {Invocations!Nil}]
    BY <1>1, <1>2, <1>4
  <2>3. place' \in [In -> Nat] /\ transactionEnders' \in Seq(Places)
    <3>1. CASE t = Invocations!Nil
      BY <1>1, <1>2, <3>1
    <3>2. CASE t # Invocations!Nil
      <4>1. [place EXCEPT ![i] = Len(transactionEnders) + 1] \in [In -> Nat]
        BY <1>2, <1>3
      <4>2. Append(transactionEnders, i) \in Seq(Places)
        BY <1>2, <1>3
      <4> QED
        BY <1>1, <3>2, <4>1, <4>2
    <3> QED
      BY <3>1, <3>2
  <2> QED
    BY <1>1, <1>2, <2>1, <2>2, <2>3 DEF Invocations!TypeOK
<1>6. ASSUME ~again
      PROVE  OwnTransactions' /\ EndersInPlace' /\ AnsweredHaveEnded'
  <2>1. OwnTransactions /\ EndersInPlace /\ AnsweredHaveEnded
    BY <1>6 DEF InvocationsInv
  <2>2. i \notin going /\ i \notin ran /\ transactionOf[i] = Invocations!Nil
    BY <1>2, <1>3, <2>1, InvocationsNumbers DEF OwnTransactions, Live
  <2>3. Invocations!Contexts \subseteq {Invocations!Nil}
    <3> SUFFICES ASSUME NEW j \in 1..started, answered[j] \in {"ok", "error"},
                        transactionOf[j] \in going
                 PROVE  FALSE
      BY DEF Invocations!Contexts
    <3>1. j \in In
      BY <1>2, InvocationsNumbers
    <3>2. j \in ran /\ transactionOf[j] = j
      BY <2>1, <3>1 DEF AnsweredHaveEnded, OwnTransactions
    <3> QED
      BY <2>1, <3>1, <3>2 DEF OwnTransactions, Live
  <2>4. t \in {Invocations!Nil, i}
    BY <2>3
  <2>5. \A j \in In : transactionOf'[j] = IF j = i THEN t ELSE transactionOf[j]
    BY <1>1, <1>2
  <2> HIDE DEF t
  <2>6. OwnTransactions'
    <3>1. ASSUME NEW j \in In
          PROVE  /\ transactionOf'[j] \in {Invocations!Nil, j}
                 /\ transactionOf'[j] # Invocations!Nil => j <= started'
                 /\ j \in ran' => transactionOf'[j] = j
                 /\ j \in going' <=> transactionOf'[j] = j /\ j \notin ran'
      <4>1. CASE j = i
        BY <1>1, <1>2, <1>3, <2>2, <2>4, <2>5, <4>1
      <4>2. CASE j # i
        <5>1. transactionOf'[j] = transactionOf[j] /\ (j \in going' <=> j \in going)
          BY <1>1, <2>5, <4>2
        <5>2. j <= started => j <= started'
          BY <1>1, <1>2, InvocationsNumbers
        <5> QED
          BY <1>1, <2>1, <5>1, <5>2 DEF OwnTransactions, Live
      <4> QED
        BY <4>1, <4>2
    <3> QED
      BY <3>1 DEF OwnTransactions, Live
  <2>7. EndersInPlace'
    <3>1. CASE t = Invocations!Nil
      BY <1>1, <1>3, <2>1, <3>1 DEF EndersInPlace
    <3>2. CASE t # Invocations!Nil
      <4> DEFINE n == Len(transactionEnders)
      <4>1. /\ Len(transactionEnders') = n + 1
            /\ transactionEnders'[n + 1] = i
            /\ \A p \in 1..n : transactionEnders'[p] = transactionEnders[p]
            /\ place'[i] = n + 1 /\ \A j \in In : j # i => place'[j] = place[j]
            /\ going' = going \cup {i} /\ n \in Nat
        BY <1>1, <1>2, <1>3, <2>4, <3>2
      <4> HIDE DEF n
      <4>2. /\ \A j \in going : place[j] \in 1..n /\ transactionEnders[place[j]] = j
            /\ \A p \in 1..n : transactionEnders[p] \in In =>
                  /\ transactionEnders[p] \in going
                  /\ place[transactionEnders[p]] = p
        BY <2>1 DEF EndersInPlace, n
      <4>3. ASSUME NEW j \in going'
            PROVE  place'[j] \in 1..(n + 1) /\ transactionEnders'[place'[j]] = j
        BY <1>2, <2>2, <4>1, <4>2, <4>3
      <4>4. ASSUME NEW p \in 1..(n + 1), transactionEnders'[p] \in In
            PROVE  transactionEnders'[p] \in going' /\ place'[transactionEnders'[p]] = p
        <5>1. CASE p = n + 1
          BY <4>1, <5>1
        <5>2. CASE p # n + 1
          <6>1. p \in 1..n
            BY <4>1, <5>2
          <6>2. transactionEnders'[p] = transactionEnders[p] /\ transactionEnders[p] # i
            BY <2>2, <4>1, <4>2, <4>4, <6>1
          <6> QED
            BY <4>1, <4>2, <4>4, <6>1, <6>2
        <5> QED
          BY <5>1, <5>2
      <4> QED
        BY <4>1, <4>3, <4>4 DEF EndersInPlace
    <3> QED
      BY <3>1, <3>2
  <2> QED
    BY <1>1, <2>1, <2>6, <2>7 DEF AnsweredHaveEnded
<1> QED
  BY <1>1, <1>5, <1>6 DEF InvocationsInv

LEMMA InvocationsStep == InvocationsInv /\ [Invocations!Next]_Invocations!vars => InvocationsInv'
<1> SUFFICES ASSUME InvocationsInv, [Invocations!Next]_Invocations!vars
             PROVE  InvocationsInv'
  OBVIOUS
<1>1. Invocations!TypeOK
  BY DEF InvocationsInv
<1>2. ASSUME NEW context \in Invocations!Contexts, NEW streaming \in BOOLEAN,
             Invocations!Invoke(context, streaming)
      PROVE  InvocationsInv'
  BY <1>2, InvokeKeeps
<1>3. ASSUME NEW i \in Invocations!Invocation, Invocations!Act(i)
      PROVE  InvocationsInv'
  BY <1>3, ActKeeps
<1>4. CASE Invocations!BeforeExit
  <2>1. /\ uncaughtException \in Invocations!Invocation \cup {Invocations!Nil}
        /\ done' \in [Invocations!Invocation -> 0..MaxActs]
    BY <1>1, <1>4 DEF Invocations!BeforeExit, Invocations!TypeOK
  <2> QED
    BY <1>4, <2>1, EndAllKeeps DEF Invocations!BeforeExit
<1>5. ASSUME NEW i \in Invocations!Invocation, Invocations!Uncaught(i)
      PROVE  InvocationsInv'
  <2>1. done' \in [Invocations!Invocation -> 0..MaxActs]
    BY <1>1, <1>5, InvocationsAssumption DEF Invocations!Uncaught, Invocations!TypeOK
  <2> QED
    BY <1>5, <2>1, EndAllKeeps DEF Invocations!Uncaught
<1>6. CASE Invocations!Stop
  <2>1. /\ enabled' = FALSE
        /\ UNCHANGED <<started, streams, transactionEnders, errors, going,
                       uncaughtException, collected, written, ran, again, place,
                       transactionOf, done, answered, overlapped>>
    BY <1>6 DEF Invocations!Stop, Invocations!endVars
  <2>2. Invocations!TypeOK'
    BY <1>1, <2>1 DEF Invocations!TypeOK
  <2> QED
    BY <2>1, <2>2 DEF InvocationsInv, OwnTransactions, EndersInPlace, AnsweredHaveEnded, Live
<1>7. CASE UNCHANGED Invocations!vars
  <2>1. UNCHANGED <<started, streams, enabled, transactionEnders, errors, going,
                    uncaughtException, collected, written, ran, again, place,
                    transactionOf, done, answered, overlapped>>
    BY <1>7 DEF Invocations!vars, Invocations!appVars, Invocations!endVars
  <2>2. Invocations!TypeOK'
    BY <1>1, <2>1 DEF Invocations!TypeOK
  <2> QED
    BY <2>1, <2>2 DEF InvocationsInv, OwnTransactions, EndersInPlace, AnsweredHaveEnded, Live
<1> QED
  BY <1>2, <1>3, <1>4, <1>5, <1>6, <1>7 DEF Invocations!Next

(* Every state of the Lambda wrapper is well typed. *)
THEOREM InvocationsTyped == Invocations!Spec => []Invocations!TypeOK
<1>1. InvocationsInv => Invocations!TypeOK
  BY DEF InvocationsInv
<1> QED
  BY <1>1, InvocationsInit, InvocationsStep, PTL DEF Invocations!Spec

(* Until an ender runs again, an invocation whose answer the runtime has   *)
(* is written out, with the error it was answered with, or the agent was   *)
(* stopped before; unless it streams and its promise has rejected, of      *)
(* which the wrapper hears nothing.                                        *)
THEOREM Reported == Invocations!Spec => []AnsweredIsReported
<1>1. InvocationsInv => AnsweredIsReported
  <2> SUFFICES ASSUME InvocationsInv, NEW i \in Invocations!Invocation,
                      transactionOf[i] # Invocations!Nil,
                      answered[i] \in {"ok", "error"}, ~again
               PROVE  /\ transactionOf[i] \in written \cup collected
                      /\ enabled => transactionOf[i] \in written
                      /\ answered[i] = "error" => i \in errors[transactionOf[i]]
    BY DEF AnsweredIsReported, Invocations!AnsweredIsReported
  <2>1. OwnTransactions /\ AnsweredHaveEnded
    BY DEF InvocationsInv
  <2>2. i \in ran /\ transactionOf[i] = i
    BY <2>1 DEF AnsweredHaveEnded, OwnTransactions
  <2> QED
    BY <2>1, <2>2 DEF AnsweredHaveEnded
<1> QED
  BY <1>1, InvocationsInit, InvocationsStep, PTL DEF Invocations!Spec

-----------------------------------------------------------------------------
(* The web request *)

Errors == Error \cup {None}
Steps == [step : {"enter", "next", "final"}, at : Layer \cup {None}, err : Errors]
Settlements == [holder : Layer \cup {None}, failed : Layer \cup {None}, error : Errors]
Exceptions == [error : Error, copy : Nat]
Processed == Exceptions \cup {Request!StatusException}
Entries == [tx : {"own", "Unknown"}, exception : Processed]
Marks == seenObjects \cup seenStrings

RequestTyped ==
    /\ pending \in Steps \cup {None} /\ open \subseteq Layer
    /\ holder \in Layer \cup {None} /\ failed \in Layer \cup {None}
    /\ stack \in Seq({Route[l] : l \in Layer})
    /\ txError \in Errors /\ statusCode \in Request!Response
    /\ exceptions \in Seq(Exceptions) /\ userErrors \in Seq(Exceptions)
    /\ forceIgnore \in BOOLEAN \cup {None}
    /\ settled \in Settlements \cup {None}
    /\ frozen \in BOOLEAN /\ ended \in BOOLEAN /\ active \in BOOLEAN
    /\ ignore \in BOOLEAN /\ forceName \in BOOLEAN /\ recovered \in BOOLEAN
    /\ final.status \in Request!Status /\ recorded \in BOOLEAN /\ taken \in BOOLEAN
    /\ ending \in {"no", "record", "agent", "errors", "loop"} /\ calls \in Nat

CollectorTyped ==
    /\ todo \in Seq(Processed) /\ counted \in Seq(Processed) /\ traced \in Seq(Entries)
    /\ Marks \subseteq Entries

(* The path down to layer l; the application's own is empty. *)
PathTo(l) == IF l = None THEN <<>> ELSE PathOf[l]

(* Nothing has been counted for the transaction, *)
NothingCounted == counted = <<>> /\ \A entry \in Marks : entry.tx = "Unknown"

(* and its end has not begun. *)
Fresh ==
    /\ final = Request!Unnamed /\ ending = "no" /\ ~recorded /\ ~taken
    /\ todo = <<>> /\ NothingCounted

(* What is next in the turn: the framework enters a layer with the path of *)
(* its router, and passes on what a router was given; an error it passes   *)
(* on has been noted.                                                      *)
TurnIsActive ==
    /\ pending # None =>
          /\ active
          /\ pending.step # "final" => pending.at \in Layer
          /\ pending.err # None => txError = pending.err
    /\ active => Fresh

(* Until the response ends the path is the one to whoever has the request, *)
(* or to the layer that failed; from then on only errorwares are called.   *)
StackFits ==
    active /\ ~frozen /\ ~recovered =>
        /\ failed = None /\ pending = None => stack = PathTo(holder) /\ holder \notin Errorware
        /\ failed = None /\ pending # None =>
              /\ pending.err = None
              /\ pending.step = "enter" => /\ stack = PathTo(Parent[pending.at])
                                           /\ pending.at \notin Errorware
              /\ pending.step = "next" => /\ stack = PathTo(pending.at)
                                          /\ pending.at \notin Errorware
              /\ pending.step = "final" => stack = <<>>
        /\ failed # None =>
              /\ stack = PathTo(failed)
              /\ pending = None => holder \in Errorware \cup {None}
              /\ pending # None /\ pending.step = "enter" => pending.at \in Errorware
              /\ pending # None /\ pending.step # "enter" => pending.err # None

(* From then on the path stays, and so do the errors.                      *)
SettledStays ==
    /\ ended \/ frozen \/ ~active => settled # None
    /\ settled # None /\ active => frozen
    /\ settled # None =>
          /\ settled.error # None =>
                /\ statusCode = "failed" /\ ended
                /\ settled.error \notin IgnoredError =>
                      Request!Among(Request!Exception(settled.error), exceptions)
          /\ ~recovered => stack = PathTo(IF settled.failed # None THEN settled.failed
                                          ELSE settled.holder)

(* What the end has made of the name and the status. *)
FinalIsTrue ==
    ~active =>
        /\ final.status \in {statusCode, "none"}
        /\ ~forceName /\ rule # "renames" =>
              IF stack = <<>> THEN final.name.kind \in {"status", "uri"}
              ELSE final.name = [kind |-> "path", path |-> Request!Path(stack)]

(* What has been marked as seen has been traced since the last send, but   *)
(* for what is no error after all; and what has been traced is marked, but *)
(* for the error of the status, which is not asked for.                    *)
MarksAreTrue ==
    /\ \A i, j \in 1..Len(traced) : traced[i] = traced[j] => i = j
    /\ \A i, j \in 1..Len(counted) : counted[i] = counted[j] => i = j
    /\ \A entry \in Marks :
          \/ Request!Among(entry, traced)
          \/ entry.exception.error \in Malformed /\ (entry.tx = "Unknown" \/ final.status = "none")
    /\ \A i \in 1..Len(traced) :
          /\ traced[i].exception # Request!StatusException => Request!HaveSeen(traced[i])
          /\ traced[i].exception = Request!StatusException => traced[i].tx = "own"
          /\ traced[i].tx = "own" => Request!Among(traced[i].exception, counted)

(* Nothing is sent while the errors are gone through, so that all that has *)
(* been counted is marked.                                                 *)
CountedAreMarked ==
    \A i \in 1..Len(counted) :
       counted[i] # Request!StatusException =>
           Request!HaveSeen([tx |-> "own", exception |-> counted[i]])

(* What happens to an exception of the transaction: it is counted, has its *)
(* turn to come, or is no error after all.                                 *)
Handled(x) ==
    \/ Request!Among(x, counted) \/ Request!Among(x, todo)
    \/ x.error \in Malformed /\ final.status = "none"

LoopIsTrue ==
    /\ ending = "loop" => CountedAreMarked /\ todo # <<>>
    /\ ending \notin {"errors", "loop"} => todo = <<>>
    /\ \A i \in 1..Len(todo) : todo[i] = Request!StatusException =>
          /\ i = Len(todo) /\ final.status = "failed"
          /\ ~Request!Among(Request!StatusException, counted)
    /\ taken /\ ending \in {"loop", "no"} =>
          \A i \in 1..Len(Request!ToProcess) : Handled(Request!ToProcess[i])

(* The exception of AllOrNothing. *)
Overruled == forceIgnore = FALSE /\ forceName /\ final.name.kind \in IgnoredName

(* How far the end has come, and what the steps before have said. *)
EndIsWhole ==
    /\ ending # "no" => ~active
    /\ ending \in {"record", "agent"} =>
          /\ ~taken
          /\ forceIgnore # None => ignore = forceIgnore \/ Overruled
    /\ ending \in {"record", "agent", "errors"} => NothingCounted
    /\ ending = "agent" => recorded = ~ignore
    /\ ending = "errors" => ~ignore
    /\ ending \in {"errors", "loop"} => taken
    /\ ~active /\ ending \notin {"record", "agent"} =>
          /\ recorded => taken
          /\ counted # <<>> => taken
          /\ taken => recorded \/ Overruled
          /\ forceIgnore # None => (taken <=> ~forceIgnore)
          /\ ~taken => ignore

EndInv == FinalIsTrue /\ CollectorTyped /\ MarksAreTrue /\ LoopIsTrue /\ EndIsWhole

RequestInv ==
    RequestTyped /\ TurnIsActive /\ StackFits /\ SettledStays /\ EndInv

(* A set of numbers has a least one. *)
LEMMA LeastExists ==
    ASSUME NEW S, S \subseteq Nat, S # {}
    PROVE  \E i \in S : \A j \in S : i <= j
<1> DEFINE Less == {p \in Nat \X Nat : p[1] < p[2]}
<1>1. IsWellFoundedOn(OpToRel(<, Nat), Nat)
  BY NatLessThanWellFounded
<1>2. OpToRel(<, Nat) = Less
  BY DEF OpToRel
<1>3. IsWellFoundedOn(Less, Nat)
  BY <1>1, <1>2
<1>4. \A j, i \in Nat : j < i => <<j, i>> \in Less
  OBVIOUS
<1> HIDE DEF Less
<1>5. PICK i \in S : \A j \in S : ~(<<j, i>> \in Less)
  BY <1>3, WFMin
<1>6. ASSUME NEW j \in S
      PROVE  i <= j
  <2>1. i \in Nat /\ j \in Nat
    OBVIOUS
  <2>2. ~(j < i)
    BY <1>4, <1>5, <2>1
  <2> QED
    BY <2>1, <2>2
<1> QED
  BY <1>6

(* What the framework may do next. *)
LEMMA StepsKnown ==
    ASSUME NEW l \in Layer, NEW e \in Errors
    PROVE  /\ Request!Enter(l) \in Steps /\ Request!Enter(l) # None
           /\ Request!Enter(l).step = "enter" /\ Request!Enter(l).at = l
           /\ Request!Enter(l).err = None
           /\ Request!Passed(l, e) \in Steps /\ Request!Passed(l, e) # None
           /\ Request!Passed(l, e).step = "next" /\ Request!Passed(l, e).at = l
           /\ Request!Passed(l, e).err = e
           /\ Request!Final(e) \in Steps /\ Request!Final(e) # None
           /\ Request!Final(e).step = "final" /\ Request!Final(e).err = e
<1>1. None \notin Steps
  BY ErrorsAssumption DEF Steps, Errors
<1>2. Request!Enter(l) \in Steps /\ Request!Passed(l, e) \in Steps /\ Request!Final(e) \in Steps
  BY DEF Request!Enter, Request!Passed, Request!Final, Steps, Errors
<1> QED
  BY <1>1, <1>2 DEF Request!Enter, Request!Passed, Request!Final

(* The layers that are mounted on p, if there are any, begin with one that *)
(* takes no error.                                                         *)
LEMMA OnKnown ==
    ASSUME NEW p \in Layer \cup {None}
    PROVE  /\ Request!On(p) # <<>> =>
                 /\ Request!On(p) \in Mounted /\ Parent[Request!On(p)[1]] = p
                 /\ Request!On(p)[1] \in Layer \ Errorware /\ p \notin Errorware
           /\ \A l \in Layer : Parent[l] = p => Request!On(p) \in Mounted
                                             /\ Parent[Request!On(p)[1]] = p
<1>1. ASSUME NEW s \in Mounted
      PROVE  /\ s \in Seq(Layer) /\ s # <<>> /\ s[1] \in Layer \ Errorware
             /\ Parent[s[1]] \notin Errorware
  <2>1. s \in Seq(Layer) /\ s # <<>> /\ s[1] \notin Errorware
    BY LayersAssumption
  <2>2. 1 \in 1..Len(s)
    BY <2>1
  <2>3. s[1] \in Layer
    BY <2>1, <2>2
  <2>4. Parent[s[1]] \notin Errorware
    BY <2>2, LayersAssumption
  <2> QED
    BY <2>1, <2>3, <2>4
<1>2. Request!On(p) = IF \E s \in Mounted : Parent[s[1]] = p
                      THEN CHOOSE s \in Mounted : Parent[s[1]] = p ELSE <<>>
  BY DEF Request!On
<1>3. (\E s \in Mounted : Parent[s[1]] = p) => Request!On(p) \in Mounted /\ Parent[Request!On(p)[1]] = p
  BY <1>2
<1>4. ASSUME NEW l \in Layer, Parent[l] = p
      PROVE  \E s \in Mounted : Parent[s[1]] = p
  <2>1. PICK s \in Mounted : \E i \in 1..Len(s) : s[i] = l
    BY LayersAssumption
  <2>2. Parent[s[1]] = Parent[l]
    BY <2>1, LayersAssumption
  <2> QED
    BY <1>4, <2>2
<1> QED
  BY <1>1, <1>2, <1>3, <1>4

(* What comes after a layer: another one mounted with it that takes an     *)
(* error if there is one, the way back to its router, or the end.          *)
LEMMA AfterKnown ==
    ASSUME NEW l \in Layer, NEW e \in Errors
    PROVE  \/ \E m \in Layer : /\ Request!After(l, e) = Request!Enter(m)
                               /\ Parent[m] = Parent[l]
                               /\ m \in Errorware <=> e # None
           \/ /\ Parent[l] \in Layer \ Errorware
              /\ Request!After(l, e) = Request!Passed(Parent[l], e)
           \/ /\ Parent[l] = None
              /\ Request!After(l, e) = Request!Final(e)
<1> DEFINE s == Request!On(Parent[l])
           here == CHOOSE i \in 1..Len(s) : s[i] = l
           fit == {i \in here + 1..Len(s) : (s[i] \in Errorware) <=> (e # None)}
<1>1. Parent[l] \in Layer \cup {None}
  BY LayersAssumption
<1>2. s \in Mounted /\ Parent[s[1]] = Parent[l]
  BY <1>1, OnKnown
<1>3. /\ s \in Seq(Layer)
      /\ \A i \in 1..Len(s) : Parent[s[i]] = Parent[l] /\ Parent[l] \notin Errorware
  BY <1>2, LayersAssumption
<1>4. here \in 1..Len(s)
  <2>1. PICK t \in Mounted : \E i \in 1..Len(t) : t[i] = l
    BY LayersAssumption
  <2>2. Parent[t[1]] = Parent[l]
    BY <2>1, LayersAssumption
  <2>3. t = s
    BY <1>2, <2>2, LayersAssumption
  <2>4. \E i \in 1..Len(s) : s[i] = l
    BY <2>1, <2>3
  <2> QED
    BY <2>4
<1>5. Request!After(l, e) =
          IF fit # {} THEN Request!Enter(s[CHOOSE i \in fit : \A j \in fit : i <= j])
          ELSE IF Parent[l] # None THEN Request!Passed(Parent[l], e)
          ELSE Request!Final(e)
  BY DEF Request!After
<1> HIDE DEF here, s
<1>6. CASE fit # {}
  <2>1. fit \subseteq 1..Len(s) /\ fit \subseteq Nat
    BY <1>3, <1>4
  <2> DEFINE i == CHOOSE k \in fit : \A j \in fit : k <= j
  <2>2. i \in fit
    BY <1>6, <2>1, LeastExists
  <2>3. /\ s[i] \in Layer /\ Parent[s[i]] = Parent[l]
        /\ s[i] \in Errorware <=> e # None
    BY <1>3, <2>1, <2>2
  <2> QED
    BY <1>5, <1>6, <2>3
<1>7. CASE fit = {}
  <2>1. Parent[l] \notin Errorware
    BY <1>3, <1>4
  <2> QED
    BY <1>1, <1>5, <1>7, <2>1
<1> QED
  BY <1>6, <1>7

(* The path to a layer is the one to its router and its own route, which   *)
(* popPath finds at the end, whatever routes come before.                  *)
LEMMA PathsKnown ==
    ASSUME NEW l \in Layer
    PROVE  /\ PathTo(l) = PathOf[l]
           /\ PathTo(Parent[l]) \in Seq({Route[m] : m \in Layer})
           /\ PathOf[l] = Append(PathTo(Parent[l]), Route[l])
           /\ PathOf[l] # <<>>
           /\ ~frozen /\ stack = PathOf[l] => Request!PopPath(Route[l]) = PathTo(Parent[l])
<1> DEFINE R == {Route[m] : m \in Layer}
           b == PathTo(Parent[l])
           n == Len(b) + 1
<1>1. PathTo(l) = PathOf[l] /\ PathOf[l] = Append(b, Route[l])
  BY PathAssumption, LayersAssumption DEF PathTo
<1>2. b \in Seq(R)
  <2>1. CASE Parent[l] = None
    BY <2>1 DEF PathTo
  <2>2. CASE Parent[l] # None
    BY <2>2, PathAssumption, LayersAssumption DEF PathTo
  <2> QED
    BY <2>1, <2>2
<1> HIDE DEF b
<1>3. ASSUME ~frozen, stack = Append(b, Route[l])
      PROVE  Request!PopPath(Route[l]) = b
  <2> DEFINE at == {i \in 1..Len(stack) : stack[i] = Route[l]}
             last == CHOOSE i \in at : \A j \in at : j <= i
  <2>1. Len(stack) = n /\ n \in at /\ \A j \in at : j <= n
    BY <1>2, <1>3
  <2>2. last = n
    BY <2>1
  <2>3. Request!PopPath(Route[l]) = SubSeq(stack, 1, last - 1)
    BY <1>3, <2>1 DEF Request!PopPath
  <2>4. SubSeq(stack, 1, Len(b)) = b
    <3>1. SubSeq(stack, 1, Len(b)) \in Seq(R) /\ Len(SubSeq(stack, 1, Len(b))) = Len(b)
      BY <1>2, <1>3
    <3>2. \A i \in 1..Len(b) : SubSeq(stack, 1, Len(b))[i] = b[i]
      BY <1>2, <1>3
    <3> QED
      BY <1>2, <3>1, <3>2, SeqEqual
  <2> HIDE DEF last
  <2>5. Len(b) \in Nat /\ last = Len(b) + 1
    BY <1>2, <2>2
  <2>6. last - 1 = Len(b)
    BY <2>5
  <2> QED
    BY <2>3, <2>4, <2>6
<1>4. Append(b, Route[l]) # <<>>
  BY <1>2
<1> QED
  BY <1>1, <1>2, <1>3, <1>4 DEF b

LEMMA ExceptionsKnown ==
    ASSUME NEW e \in Error, calls \in Nat
    PROVE  /\ Request!Exception(e) \in Exceptions /\ Request!UserException(e) \in Exceptions
           /\ Request!Exception(e).error = e
           /\ \A x \in Exceptions : x # Request!StatusException
BY ErrorsAssumption DEF Exceptions, Request!Exception, Request!UserException,
   Request!StatusException

LEMMA RequestInit == Request!Init => RequestInv
<1> SUFFICES ASSUME Request!Init
             PROVE  RequestInv
  OBVIOUS
<1> DEFINE l == Request!On(None)[1]
<1>1. /\ pending = Request!Enter(l) /\ l \in Layer \ Errorware /\ Parent[l] = None
      /\ pending \in Steps /\ pending # None
      /\ pending.step = "enter" /\ pending.at = l /\ pending.err = None
  <2>1. PICK m \in Layer : Parent[m] = None
    BY LayersAssumption
  <2>2. Request!On(None) \in Mounted
    BY <2>1, OnKnown
  <2>3. Request!On(None) # <<>>
    BY <2>2, LayersAssumption
  <2>4. l \in Layer \ Errorware /\ Parent[l] = None
    BY <2>3, OnKnown
  <2>5. pending = Request!Enter(l)
    BY DEF Request!Init
  <2> QED
    BY <2>4, <2>5, StepsKnown DEF Errors
<1>2. RequestTyped
  <2>1. /\ stack \in Seq({Route[m] : m \in Layer})
        /\ exceptions \in Seq(Exceptions) /\ userErrors \in Seq(Exceptions)
    BY DEF Request!Init
  <2>2. final.status \in Request!Status
    BY DEF Request!Init, Request!Unnamed, Request!Status
  <2> QED
    BY <1>1, <2>1, <2>2 DEF Request!Init, RequestTyped, Errors, Request!Response
<1>3. Fresh /\ TurnIsActive
  BY <1>1 DEF Request!Init, TurnIsActive, Fresh, NothingCounted, Marks
<1>4. StackFits
  BY <1>1 DEF Request!Init, StackFits, PathTo
<1>5. SettledStays /\ FinalIsTrue /\ EndIsWhole
  BY DEF Request!Init, SettledStays, FinalIsTrue, EndIsWhole
<1>6. CollectorTyped /\ MarksAreTrue /\ LoopIsTrue
  BY DEF Request!Init, CollectorTyped, MarksAreTrue, LoopIsTrue, Marks
<1> QED
  BY <1>2, <1>3, <1>4, <1>5, <1>6 DEF RequestInv, EndInv

(* As long as it is active, what happens to the request does not touch     *)
(* what its end is made of.                                                *)
LEMMA NothingTaken ==
    ASSUME RequestInv, active, active',
           UNCHANGED <<final, ending, recorded, taken, todo, seenObjects, seenStrings,
                       traced, counted>>
    PROVE  Fresh' /\ EndInv'
<1>1. Fresh /\ CollectorTyped /\ MarksAreTrue /\ LoopIsTrue
  BY DEF RequestInv, TurnIsActive, EndInv
<1>2. Fresh' /\ CollectorTyped'
  BY <1>1 DEF Fresh, NothingCounted, CollectorTyped, Marks
<1>3. MarksAreTrue'
  BY <1>1 DEF MarksAreTrue, Marks, Request!Among, Request!HaveSeen
<1>4. LoopIsTrue'
  BY <1>2 DEF Fresh, LoopIsTrue
<1>5. FinalIsTrue' /\ EndIsWhole'
  BY <1>2 DEF Fresh, FinalIsTrue, EndIsWhole
<1> QED
  BY <1>2, <1>3, <1>4, <1>5 DEF EndInv

(* A layer is called with the path of its router, and an errorware, which  *)
(* nothing is mounted on, with the path of the layer that failed.          *)
LEMMA EnterKeeps ==
    ASSUME RequestInv, pending # None, Request!EnterLayer
    PROVE  RequestInv'
<1> DEFINE l == pending.at
           m == Request!On(l)[1]
<1>1. RequestTyped /\ TurnIsActive /\ StackFits /\ SettledStays
  BY DEF RequestInv
<1>2. /\ pending.step = "enter"
      /\ stack' = IF l \in Errorware THEN stack ELSE Request!AppendPath(Route[l])
      /\ open' = open \cup {l} /\ holder' = l
      /\ pending' = IF Request!On(l) = <<>> THEN None ELSE Request!Enter(m)
      /\ UNCHANGED <<failed, recovered, frozen, txError, exceptions, userErrors, ended,
                     statusCode, active, ignore, rule, forceName, forceIgnore, settled,
                     calls>>
      /\ UNCHANGED <<final, ending, recorded, taken, todo, seenObjects, seenStrings,
                     traced, counted>>
  BY DEF Request!EnterLayer, Request!txErrors, Request!responseVars, Request!endVars,
     Request!collectorVars, Request!apiVars, Request!ghosts
<1>3. active /\ l \in Layer
  BY <1>1, <1>2 DEF TurnIsActive
<1>4. Request!On(l) # <<>> => /\ m \in Layer \ Errorware /\ Parent[m] = l /\ l \notin Errorware
                              /\ pending' \in Steps /\ pending' # None
                              /\ pending'.step = "enter" /\ pending'.at = m
                              /\ pending'.err = None
  BY <1>2, <1>3, OnKnown, StepsKnown DEF Errors
<1>5. /\ frozen => stack' = stack
      /\ stack' \in Seq({Route[k] : k \in Layer})
  BY <1>1, <1>2, <1>3 DEF Request!AppendPath, RequestTyped
<1> HIDE DEF m
<1>6. RequestTyped'
  BY <1>1, <1>2, <1>3, <1>4, <1>5 DEF RequestTyped
<1>7. Fresh' /\ EndInv'
  BY <1>2, <1>3, NothingTaken
<1>8. StackFits'
  <2> SUFFICES ASSUME ~frozen, ~recovered
               PROVE  StackFits'
    BY <1>2 DEF StackFits
  <2>1. CASE failed = None
    <3>1. stack = PathTo(Parent[l]) /\ l \notin Errorware
      BY <1>1, <1>2, <1>3, <2>1 DEF StackFits
    <3>2. stack' = PathTo(l)
      BY <1>2, <1>3, <3>1, PathsKnown DEF Request!AppendPath
    <3> QED
      BY <1>2, <1>3, <1>4, <2>1, <3>1, <3>2 DEF StackFits, PathTo
  <2>2. CASE failed # None
    <3>1. stack = PathTo(failed) /\ l \in Errorware
      BY <1>1, <1>2, <1>3, <2>2 DEF StackFits
    <3>2. pending' = None /\ stack' = stack
      BY <1>2, <1>4, <3>1
    <3> QED
      BY <1>2, <2>2, <3>1, <3>2 DEF StackFits, PathTo
  <2> QED
    BY <2>1, <2>2
<1>9. SettledStays'
  BY <1>1, <1>2, <1>3, <1>5 DEF SettledStays, PathTo, Request!Among, Request!Exception
<1>10. TurnIsActive'
  BY <1>2, <1>3, <1>4, <1>7 DEF TurnIsActive
<1> QED
  BY <1>6, <1>7, <1>8, <1>9, <1>10 DEF RequestInv

(* A layer passes the request on, and its own path is popped, or an error, *)
(* which leaves the path to it.                                            *)
LEMMA PassKeeps ==
    ASSUME RequestInv, active, NEW l \in Layer, NEW e \in Errors, Request!Pass(l, e),
           ~frozen /\ ~recovered =>
               /\ failed = None => stack = PathOf[l] /\ l \notin Errorware
               /\ failed # None => e # None \/ l \in Errorware
    PROVE  RequestInv'
<1>1. RequestTyped /\ TurnIsActive /\ StackFits /\ SettledStays
  BY DEF RequestInv
<1>2. /\ txError' = (IF e # None THEN e ELSE txError)
      /\ stack' = (IF e # None \/ l \in Errorware THEN stack ELSE Request!PopPath(Route[l]))
      /\ open' = open \ {l} /\ pending' = Request!After(l, e)
      /\ failed' = (IF e # None /\ failed = None THEN l ELSE failed)
      /\ recovered' = (recovered \/ (l \in Errorware /\ e = None))
      /\ UNCHANGED <<holder, frozen, exceptions, userErrors, ended, statusCode, active,
                     ignore, rule, forceName, forceIgnore, settled, calls>>
      /\ UNCHANGED <<final, ending, recorded, taken, todo, seenObjects, seenStrings,
                     traced, counted>>
  BY DEF Request!Pass, Request!BoundNext, Request!txErrors, Request!responseVars,
     Request!endVars, Request!collectorVars, Request!apiVars, Request!ghosts
<1>3. Fresh' /\ EndInv'
  BY <1>2, NothingTaken
<1>4. /\ pending' \in Steps /\ pending' # None
      /\ pending'.err \in {None, e}
      /\ \/ /\ pending'.step = "enter" /\ pending'.at \in Layer
            /\ Parent[pending'.at] = Parent[l] /\ pending'.err = None
            /\ pending'.at \in Errorware <=> e # None
         \/ /\ pending'.step = "next" /\ pending'.at = Parent[l] /\ pending'.err = e
            /\ Parent[l] \in Layer \ Errorware
         \/ /\ pending'.step = "final" /\ pending'.err = e /\ Parent[l] = None
  BY <1>2, AfterKnown, StepsKnown
<1>5. frozen => stack' = stack
  BY <1>2 DEF Request!PopPath
<1>6. stack' \in Seq({Route[k] : k \in Layer})
  <2>1. stack \in Seq({Route[k] : k \in Layer})
    BY <1>1 DEF RequestTyped
  <2> DEFINE at == {i \in 1..Len(stack) : stack[i] = Route[l]}
             last == CHOOSE i \in at : \A j \in at : j <= i
  <2>2. CASE stack' = stack
    BY <2>1, <2>2
  <2>3. CASE stack' # stack
    <3>1. stack' = SubSeq(stack, 1, last - 1) /\ at # {}
      BY <1>2, <2>3 DEF Request!PopPath
    <3>2. last \in at
      <4> DEFINE up == {Len(stack) - i : i \in at}
      <4>1. up \subseteq Nat /\ up # {}
        BY <2>1, <3>1
      <4>2. PICK k \in up : \A j \in up : k <= j
        BY <4>1, LeastExists
      <4>3. PICK i \in at : k = Len(stack) - i
        BY <4>2
      <4>4. ASSUME NEW j \in at
            PROVE  j <= i
        <5>1. i \in Nat /\ j \in Nat /\ Len(stack) \in Nat
          BY <2>1
        <5>2. Len(stack) - i <= Len(stack) - j
          BY <4>2, <4>3
        <5> QED
          BY <5>1, <5>2
      <4> QED
        BY <4>3, <4>4
    <3> HIDE DEF last
    <3>3. last \in 1..Len(stack)
      BY <3>2
    <3>4. last - 1 \in Int /\ \A i \in 1..(last - 1) : stack[i] \in {Route[k] : k \in Layer}
      BY <2>1, <3>3
    <3> QED
      BY <3>1, <3>4, SubSeqProperties
  <2> QED
    BY <2>2, <2>3
<1>7. RequestTyped'
  BY <1>1, <1>2, <1>4, <1>6 DEF RequestTyped
<1>8. TurnIsActive'
  BY <1>2, <1>3, <1>4 DEF TurnIsActive
<1>9. StackFits'
  <2> SUFFICES ASSUME ~frozen, ~recovered, ~(l \in Errorware /\ e = None)
               PROVE  StackFits'
    BY <1>2 DEF StackFits
  <2>1. CASE failed = None /\ e = None
    <3>1. failed' = None /\ stack = PathOf[l] /\ l \notin Errorware
      BY <1>2, <2>1
    <3>2. stack' = PathTo(Parent[l])
      BY <1>2, <2>1, <3>1, PathsKnown
    <3> QED
      BY <1>4, <2>1, <3>1, <3>2 DEF StackFits, PathTo
  <2>2. CASE failed = None /\ e # None
    <3>1. failed' = l /\ l # None /\ stack' = PathOf[l]
      BY <1>2, <2>2, LayersAssumption
    <3> QED
      BY <1>4, <2>2, <3>1 DEF StackFits, PathTo
  <2>3. CASE failed # None
    <3>1. failed' = failed /\ e # None /\ stack' = stack /\ stack = PathTo(failed)
      BY <1>1, <1>2, <2>3 DEF StackFits
    <3> QED
      BY <1>4, <2>3, <3>1 DEF StackFits, PathTo
  <2> QED
    BY <2>1, <2>2, <2>3
<1>10. SettledStays'
  BY <1>1, <1>2, <1>5 DEF SettledStays, PathTo, Request!Among, Request!Exception
<1> QED
  BY <1>3, <1>7, <1>8, <1>9, <1>10 DEF RequestInv

(* The first end of the response settles the path and the error it is      *)
(* about; the ones after it find the path frozen and its status kept.      *)
LEMMA ResEndKeeps ==
    ASSUME RequestInv, active, NEW status \in Request!Response, status = statusCode \/ ~ended,
           NEW h \in Layer \cup {None}, NEW e \in Errors, Request!ResEnd(status, h, e),
           e # None => status = "failed" /\ e = txError,
           UNCHANGED <<failed, recovered>>, calls' \in Nat,
           ~frozen /\ ~recovered => stack = PathTo(IF failed # None THEN failed ELSE h),
           open' \subseteq Layer, holder' \in Layer \cup {None}, pending' = None
    PROVE  RequestInv'
<1> DEFINE x == Request!Exception(txError)
<1>1. RequestTyped /\ TurnIsActive /\ SettledStays
  BY DEF RequestInv
<1>2. /\ exceptions' = IF /\ txError # None
                          /\ ~errorHandled \/ status = "failed"
                          /\ txError \notin IgnoredError
                       THEN Append(exceptions, x) ELSE exceptions
      /\ frozen' = TRUE /\ ended' = TRUE /\ statusCode' = status
      /\ settled' = IF settled # None THEN settled
                    ELSE [holder |-> h, failed |-> failed, error |-> e]
      /\ UNCHANGED <<stack, txError, userErrors, active, ignore, rule, forceName,
                     forceIgnore>>
      /\ UNCHANGED <<final, ending, recorded, taken, todo, seenObjects, seenStrings,
                     traced, counted>>
  BY DEF Request!ResEnd, Request!ErrorAdded, Request!Settle, Request!errorVars,
     Request!endVars, Request!collectorVars, Request!apiVars
<1>3. Fresh' /\ EndInv'
  BY <1>2, NothingTaken
<1>4. /\ exceptions \in Seq(Exceptions) /\ exceptions' \in Seq(Exceptions)
      /\ \A y \in Exceptions : Request!Among(y, exceptions) => Request!Among(y, exceptions')
      /\ txError # None /\ status = "failed" /\ txError \notin IgnoredError
            => Request!Among(x, exceptions')
  <2>1. exceptions \in Seq(Exceptions) /\ txError \in Errors /\ calls \in Nat
    BY <1>1 DEF RequestTyped
  <2>2. CASE exceptions' = exceptions /\ ~(txError # None /\ status = "failed"
                                           /\ txError \notin IgnoredError)
    BY <2>1, <2>2
  <2>3. CASE exceptions' = Append(exceptions, x) /\ txError \in Error
    <3>1. x \in Exceptions
      BY <2>1, <2>3, ExceptionsKnown
    <3> HIDE DEF x
    <3>2. /\ exceptions' \in Seq(Exceptions) /\ Len(exceptions') = Len(exceptions) + 1
          /\ exceptions'[Len(exceptions) + 1] = x
          /\ \A i \in 1..Len(exceptions) : exceptions'[i] = exceptions[i]
          /\ Len(exceptions) \in Nat
      BY <2>1, <2>3, <3>1
    <3>3. Request!Among(x, exceptions')
      BY <3>2 DEF Request!Among
    <3>4. ASSUME NEW y \in Exceptions, Request!Among(y, exceptions)
          PROVE  Request!Among(y, exceptions')
      BY <3>2, <3>4 DEF Request!Among
    <3> QED
      BY <2>1, <3>2, <3>3, <3>4
  <2> QED
    BY <1>2, <2>1, <2>2, <2>3 DEF Errors
<1> HIDE DEF x
<1>5. CASE settled = None
  <2>1. ~frozen
    BY <1>1, <1>5 DEF SettledStays
  <2>2. /\ settled' \in Settlements /\ settled' # None
        /\ settled'.holder = h /\ settled'.failed = failed /\ settled'.error = e
    <3>1. settled' = [holder |-> h, failed |-> failed, error |-> e] /\ failed \in Layer \cup {None}
      BY <1>1, <1>2, <1>5 DEF RequestTyped
    <3>2. settled' \in Settlements
      BY <3>1 DEF Settlements
    <3> QED
      BY <3>1, <3>2, ErrorsAssumption DEF Settlements, Errors
  <2>3. SettledStays'
    <3>1. e # None => /\ statusCode' = "failed" /\ ended'
                      /\ e \notin IgnoredError => Request!Among(Request!Exception(e), exceptions')
      BY <1>2, <1>4 DEF x
    <3>2. ~recovered => stack' = PathTo(IF failed # None THEN failed ELSE h)
      BY <1>2, <2>1
    <3> QED
      BY <1>2, <2>2, <3>1, <3>2 DEF SettledStays, Request!Among, Request!Exception, PathTo
  <2>4. RequestTyped'
    BY <1>1, <1>2, <1>4, <2>2 DEF RequestTyped
  <2> QED
    BY <1>2, <1>3, <2>3, <2>4 DEF RequestInv, TurnIsActive, StackFits
<1>6. CASE settled # None
  <2>1. settled' = settled
    BY <1>2, <1>6
  <2> DEFINE y == Request!Exception(settled.error)
  <2>2. settled.error # None =>
           /\ settled.error \in Error /\ status = "failed"
           /\ settled.error \notin IgnoredError => Request!Among(y, exceptions)
    BY <1>1, <1>6 DEF SettledStays, RequestTyped, Settlements, Errors
  <2>3. settled.error # None /\ settled.error \notin IgnoredError =>
            Request!Among(y, exceptions')
    <3>1. settled.error # None => y \in Exceptions
      BY <1>1, <2>2, ExceptionsKnown DEF RequestTyped
    <3> HIDE DEF y
    <3> QED
      BY <1>4, <2>2, <3>1
  <2>4. SettledStays'
    BY <1>1, <1>2, <1>6, <2>1, <2>2, <2>3
       DEF SettledStays, Request!Among, Request!Exception, PathTo
  <2>5. RequestTyped'
    BY <1>1, <1>2, <1>4, <2>1 DEF RequestTyped
  <2> QED
    BY <1>2, <1>3, <2>4, <2>5 DEF RequestInv, TurnIsActive, StackFits
<1> QED
  BY <1>5, <1>6

(* An element more at the end of a sequence. *)
LEMMA AppendAmong ==
    ASSUME NEW S, NEW s \in Seq(S), NEW x \in S, NEW t, t = Append(s, x)
    PROVE  /\ t \in Seq(S)
           /\ \A y : Request!Among(y, t) <=> Request!Among(y, s) \/ y = x
           /\ (\A i, j \in 1..Len(s) : s[i] = s[j] => i = j) /\ ~Request!Among(x, s) =>
                  \A i, j \in 1..Len(t) : t[i] = t[j] => i = j
           /\ \A i \in 1..Len(t) : Request!Among(t[i], s) \/ t[i] = x
<1>1. /\ t \in Seq(S) /\ Len(t) = Len(s) + 1 /\ Len(s) \in Nat
      /\ t[Len(s) + 1] = x /\ \A i \in 1..Len(s) : t[i] = s[i]
  BY AppendProperties
<1>2. \A i \in 1..Len(t) : i \in 1..Len(s) \/ i = Len(s) + 1
  BY <1>1
<1>3. \A y : Request!Among(y, t) <=> Request!Among(y, s) \/ y = x
  <2> SUFFICES ASSUME NEW y
               PROVE  Request!Among(y, t) <=> Request!Among(y, s) \/ y = x
    OBVIOUS
  <2>1. ASSUME Request!Among(y, s)
        PROVE  Request!Among(y, t)
    BY <1>1, <2>1 DEF Request!Among
  <2>2. ASSUME y = x
        PROVE  Request!Among(y, t)
    BY <1>1, <2>2 DEF Request!Among
  <2>3. ASSUME Request!Among(y, t), y # x
        PROVE  Request!Among(y, s)
    BY <1>1, <1>2, <2>3 DEF Request!Among
  <2> QED
    BY <2>1, <2>2, <2>3
<1>4. ASSUME \A i, j \in 1..Len(s) : s[i] = s[j] => i = j, ~Request!Among(x, s),
             NEW i \in 1..Len(t), NEW j \in 1..Len(t), t[i] = t[j]
      PROVE  i = j
  <2>1. CASE i \in 1..Len(s) /\ j \in 1..Len(s)
    BY <1>1, <1>4, <2>1
  <2>2. CASE i = Len(s) + 1 \/ j = Len(s) + 1
    BY <1>1, <1>2, <1>4, <2>2 DEF Request!Among
  <2> QED
    BY <1>2, <2>1, <2>2
<1>5. \A i \in 1..Len(t) : Request!Among(t[i], s) \/ t[i] = x
  BY <1>1, <1>2 DEF Request!Among
<1> QED
  BY <1>1, <1>3, <1>4, <1>5

(* What is collected is marked and counted, once, or has been before.      *)
LEMMA CollectKeeps ==
    ASSUME CollectorTyped, MarksAreTrue, NEW whose \in {"own", "Unknown"}, NEW x \in Processed,
           Request!Collect(whose, x), UNCHANGED final, todo' \in Seq(Processed),
           x = Request!StatusException =>
               /\ whose = "own" /\ final.status # "none"
               /\ ~Request!Among(x, counted),
           whose = "own" => CountedAreMarked
    PROVE  /\ CollectorTyped' /\ MarksAreTrue'
           /\ whose = "own" => /\ CountedAreMarked'
                            /\ \/ Request!Among(x, counted')
                               \/ x.error \in Malformed /\ final.status = "none"
           /\ whose = "Unknown" => /\ counted' = counted
                                /\ \A entry \in Marks' : entry \in Marks \/ entry.tx = whose
           /\ \A y : Request!Among(y, counted) => Request!Among(y, counted')
           /\ \A y : Request!Among(y, counted') => Request!Among(y, counted) \/ y = x
<1> DEFINE entry == [tx |-> whose, exception |-> x]
           status == Request!StatusException
           Seen(e) == e \in IF Request!IsString(e.exception) THEN seenStrings ELSE seenObjects
           Sees(e) == e \in IF Request!IsString(e.exception) THEN seenStrings' ELSE seenObjects'
           Void == x.error \in Malformed /\ (whose = "Unknown" \/ final.status = "none")
<1>1. /\ counted \in Seq(Processed) /\ traced \in Seq(Entries) /\ Marks \subseteq Entries
      /\ Len(counted) \in Nat /\ Len(traced) \in Nat
      /\ entry \in Entries /\ entry.tx = whose /\ entry.exception = x
  BY DEF CollectorTyped, Entries
<1>2. /\ \A i, j \in 1..Len(traced) : traced[i] = traced[j] => i = j
      /\ \A i, j \in 1..Len(counted) : counted[i] = counted[j] => i = j
      /\ \A e \in Marks :
            \/ Request!Among(e, traced)
            \/ e.exception.error \in Malformed /\ (e.tx = "Unknown" \/ final.status = "none")
      /\ \A i \in 1..Len(traced) :
            /\ traced[i].exception # status => Seen(traced[i])
            /\ traced[i].exception = status => traced[i].tx = "own"
            /\ traced[i].tx = "own" => Request!Among(traced[i].exception, counted)
  BY DEF MarksAreTrue, Request!HaveSeen
<1>3. whose = "own" => \A i \in 1..Len(counted) :
                       counted[i] # status => Seen([tx |-> "own", exception |-> counted[i]])
  BY DEF CountedAreMarked, Request!HaveSeen
<1>4. IF x # status /\ Seen(entry)
      THEN UNCHANGED <<seenObjects, seenStrings, traced, counted>>
      ELSE /\ x # status => IF Request!IsString(x)
                            THEN /\ seenStrings' = seenStrings \cup {entry}
                                 /\ UNCHANGED seenObjects
                            ELSE /\ seenObjects' = seenObjects \cup {entry}
                                 /\ UNCHANGED seenStrings
           /\ x = status => UNCHANGED <<seenObjects, seenStrings>>
           /\ Void => UNCHANGED <<traced, counted>>
           /\ ~Void => /\ traced' = Append(traced, entry)
                       /\ counted' = IF whose = "own" THEN Append(counted, x) ELSE counted
  BY DEF Request!Collect, Request!HaveSeen, Request!MarkSeen, Request!collectorVars
<1>5. CASE x # status /\ Seen(entry)
  <2>1. UNCHANGED <<seenObjects, seenStrings, traced, counted>>
    BY <1>4, <1>5
  <2>2. CollectorTyped' /\ MarksAreTrue' /\ (CountedAreMarked => CountedAreMarked')
    BY <2>1 DEF CollectorTyped, MarksAreTrue, CountedAreMarked, Marks, Request!Among,
       Request!HaveSeen
  <2>3. whose = "own" => Request!Among(x, counted) \/ (x.error \in Malformed /\ final.status = "none")
    <3>1. entry \in Marks
      BY <1>5 DEF Marks
    <3>2. CASE Request!Among(entry, traced)
      BY <1>1, <1>2, <3>2 DEF Request!Among
    <3>3. CASE ~Request!Among(entry, traced)
      BY <1>1, <1>2, <3>1, <3>3
    <3> QED
      BY <3>2, <3>3
  <2> QED
    BY <2>1, <2>2, <2>3 DEF Marks, Request!Among
<1>6. CASE ~(x # status /\ Seen(entry))
  <2>1. /\ \A e : Seen(e) => Sees(e)
        /\ x # status => Sees(entry)
        /\ Marks' \subseteq Marks \cup {entry}
        /\ x = status => Marks' = Marks
        /\ x # status => ~Seen(entry)
    <3>1. CASE x = status
      BY <1>4, <1>6, <3>1 DEF Marks
    <3>2. CASE x # status
      BY <1>1, <1>4, <1>6, <3>2 DEF Marks
    <3> QED
      BY <3>1, <3>2
  <2> HIDE DEF Seen, Sees
  <2>2. CASE Void
    <3>1. x # status /\ UNCHANGED <<traced, counted>>
      BY <1>4, <1>6, <2>2
    <3>2. CollectorTyped'
      BY <1>1, <2>1, <3>1 DEF CollectorTyped
    <3>3. MarksAreTrue'
      <4>1. \A e \in Marks' :
               \/ Request!Among(e, traced)
               \/ e.exception.error \in Malformed /\ (e.tx = "Unknown" \/ final.status = "none")
        BY <1>1, <1>2, <2>1, <2>2
      <4>2. \A i \in 1..Len(traced) : traced[i].exception # status => Sees(traced[i])
        BY <1>2, <2>1
      <4> QED
        BY <1>2, <3>1, <4>1, <4>2 DEF MarksAreTrue, Request!Among, Request!HaveSeen, Sees
    <3>4. whose = "own" => CountedAreMarked'
      BY <1>3, <2>1, <3>1 DEF CountedAreMarked, Request!HaveSeen, Sees
    <3>5. \A e \in Marks' : e \in Marks \/ e.tx = whose
      BY <1>1, <2>1
    <3> QED
      BY <2>2, <3>1, <3>2, <3>3, <3>4, <3>5
  <2>3. CASE ~Void
    <3>1. /\ traced' = Append(traced, entry)
          /\ counted' = IF whose = "own" THEN Append(counted, x) ELSE counted
      BY <1>4, <1>6, <2>3 DEF Seen
    <3>2. /\ traced' \in Seq(Entries) /\ Len(traced') = Len(traced) + 1
          /\ traced'[Len(traced) + 1] = entry
          /\ \A i \in 1..Len(traced) : traced'[i] = traced[i]
      BY <1>1, <3>1, AppendProperties
    <3>3. whose = "own" => /\ counted' \in Seq(Processed) /\ Len(counted') = Len(counted) + 1
                        /\ counted'[Len(counted) + 1] = x
                        /\ \A i \in 1..Len(counted) : counted'[i] = counted[i]
      BY <1>1, <3>1, AppendProperties
    <3>4. /\ whose # "own" => counted' = counted
          /\ whose = "own" => counted' = Append(counted, x)
      BY <3>1
    <3> HIDE DEF entry
    <3>5. /\ \A y : Request!Among(y, counted) => Request!Among(y, counted')
          /\ \A y : Request!Among(y, counted') => Request!Among(y, counted) \/ y = x
          /\ whose = "own" => Request!Among(x, counted')
      <4>1. CASE whose = "own"
        BY <1>1, <3>4, <4>1, AppendAmong
      <4>2. CASE whose # "own"
        BY <3>4, <4>2
      <4> QED
        BY <4>1, <4>2
    <3>6. \A i \in 1..Len(traced) : traced[i] # entry
      <4> SUFFICES ASSUME NEW i \in 1..Len(traced), traced[i] = entry
                   PROVE  FALSE
        OBVIOUS
      <4>1. CASE x = status
        BY <1>1, <1>2, <4>1
      <4>2. CASE x # status
        BY <1>1, <1>2, <2>1, <4>2
      <4> QED
        BY <4>1, <4>2
    <3>7. whose = "own" => \A i \in 1..Len(counted) : counted[i] # x
      <4> SUFFICES ASSUME whose = "own", NEW i \in 1..Len(counted), counted[i] = x
                   PROVE  FALSE
        OBVIOUS
      <4>1. CASE x = status
        BY <4>1 DEF Request!Among
      <4>2. CASE x # status
        <5>1. Seen([tx |-> "own", exception |-> x])
          BY <1>3, <4>2
        <5> QED
          BY <2>1, <4>2, <5>1 DEF entry
      <4> QED
        BY <4>1, <4>2
    <3>8. CollectorTyped'
      BY <1>1, <2>1, <3>2, <3>3, <3>4 DEF CollectorTyped
    <3>9. MarksAreTrue'
      <4>1. \A i, j \in 1..Len(traced') : traced'[i] = traced'[j] => i = j
        BY <1>1, <1>2, <3>2, <3>6
      <4>2. \A i, j \in 1..Len(counted') : counted'[i] = counted'[j] => i = j
        <5>1. CASE whose = "own"
          <6>1. ~Request!Among(x, counted)
            BY <3>7, <5>1 DEF Request!Among
          <6>2. \A i, j \in 1..Len(counted) : counted[i] = counted[j] => i = j
            BY <1>2
          <6>3. counted \in Seq(Processed)
            BY <1>1
          <6>4. \A i, j \in 1..Len(Append(counted, x)) :
                   Append(counted, x)[i] = Append(counted, x)[j] => i = j
            BY <6>1, <6>2, <6>3, AppendAmong
          <6> QED
            BY <3>4, <5>1, <6>4
        <5>2. CASE whose # "own"
          BY <1>2, <3>4, <5>2
        <5> QED
          BY <5>1, <5>2
      <4>3. \A e \in Marks' :
               \/ Request!Among(e, traced')
               \/ e.exception.error \in Malformed /\ (e.tx = "Unknown" \/ final.status = "none")
        <5>1. \A e : Request!Among(e, traced) => Request!Among(e, traced')
          BY <1>1, <3>2 DEF Request!Among
        <5>2. Request!Among(entry, traced')
          BY <1>1, <3>2 DEF Request!Among
        <5> QED
          BY <1>2, <2>1, <5>1, <5>2
      <4>4. ASSUME NEW i \in 1..Len(traced')
            PROVE  /\ traced'[i].exception # status => Sees(traced'[i])
                   /\ traced'[i].exception = status => traced'[i].tx = "own"
                   /\ traced'[i].tx = "own" => Request!Among(traced'[i].exception, counted')
        <5>1. CASE i = Len(traced) + 1
          BY <1>1, <2>1, <3>2, <3>5, <5>1
        <5>2. CASE i \in 1..Len(traced)
          BY <1>2, <2>1, <3>2, <3>5, <5>2
        <5> QED
          BY <1>1, <3>2, <5>1, <5>2
      <4> HIDE DEF status
      <4> QED
        BY <4>1, <4>2, <4>3, <4>4 DEF MarksAreTrue, Request!HaveSeen, Sees, status
    <3>10. whose = "own" => CountedAreMarked'
      <4> SUFFICES ASSUME whose = "own", NEW i \in 1..Len(counted'), counted'[i] # status
                   PROVE  Sees([tx |-> "own", exception |-> counted'[i]])
        BY DEF CountedAreMarked, Request!HaveSeen, Sees
      <4>1. CASE i = Len(counted) + 1
        BY <2>1, <3>3, <4>1 DEF entry
      <4>2. CASE i \in 1..Len(counted)
        BY <1>3, <2>1, <3>3, <4>2
      <4> QED
        BY <1>1, <3>3, <4>1, <4>2
    <3>11. \A e \in Marks' : e \in Marks \/ e.tx = whose
      BY <1>1, <2>1
    <3> QED
      BY <3>4, <3>5, <3>8, <3>9, <3>10, <3>11
  <2> QED
    BY <2>2, <2>3
<1> QED
  BY <1>5, <1>6

(* What ends the transaction settles what is not, and gives it its name.   *)
LEMMA RequestEndKeeps ==
    ASSUME RequestInv, pending = None, ending = "no", NEW status \in Request!Status,
           status \in {statusCode, "none"},
           Request!Settle(holder, None), Request!End(status),
           UNCHANGED <<pending, open, holder, failed, recovered, stack, frozen, txError,
                       exceptions, userErrors, ended, statusCode, rule, forceName,
                       forceIgnore, calls>>
    PROVE  RequestInv'
<1>1. /\ RequestTyped /\ TurnIsActive /\ StackFits /\ SettledStays
      /\ FinalIsTrue /\ CollectorTyped /\ MarksAreTrue /\ LoopIsTrue /\ EndIsWhole
  BY DEF RequestInv, EndInv
<1>2. settled' = IF settled # None THEN settled
                 ELSE [holder |-> holder, failed |-> failed, error |-> None]
  BY DEF Request!Settle
<1>3. /\ settled' \in Settlements /\ settled' # None
      /\ settled = None => /\ settled'.holder = holder /\ settled'.failed = failed
                           /\ settled'.error = None
      /\ settled # None => settled' = settled
  <2>1. CASE settled # None
    BY <1>1, <1>2, <2>1 DEF RequestTyped
  <2>2. CASE settled = None
    <3>1. settled' = [holder |-> holder, failed |-> failed, error |-> None]
      BY <1>2, <2>2
    <3>2. settled' \in Settlements
      BY <1>1, <3>1 DEF Settlements, RequestTyped, Errors
    <3> QED
      BY <2>2, <3>1, <3>2, ErrorsAssumption DEF Settlements, Errors
  <2> QED
    BY <2>1, <2>2
<1>4. CASE ~active
  <2>1. UNCHANGED <<active, ignore, final, ending, recorded, taken, todo, seenObjects,
                    seenStrings, traced, counted>>
    BY <1>4 DEF Request!End, Request!endVars, Request!collectorVars
  <2>2. settled' = settled
    BY <1>1, <1>3, <1>4 DEF SettledStays
  <2>3. RequestTyped'
    BY <1>1, <2>1, <2>2 DEF RequestTyped
  <2>4. SettledStays' /\ TurnIsActive' /\ StackFits'
    BY <1>1, <1>4, <2>1, <2>2 DEF SettledStays, TurnIsActive, StackFits, PathTo,
       Request!Among, Request!Exception
  <2>5. FinalIsTrue' /\ CollectorTyped' /\ EndIsWhole'
    BY <1>1, <2>1, <2>2 DEF FinalIsTrue, CollectorTyped, EndIsWhole, Overruled,
       NothingCounted, Marks
  <2>6. MarksAreTrue'
    BY <1>1, <2>1 DEF MarksAreTrue, Marks, Request!Among, Request!HaveSeen
  <2>7. LoopIsTrue'
    BY <1>1, <2>1 DEF LoopIsTrue, CountedAreMarked, Handled, Request!Among, Request!HaveSeen,
       Request!ToProcess
  <2> QED
    BY <2>3, <2>4, <2>5, <2>6, <2>7 DEF RequestInv, EndInv
<1>5. CASE active
  <2> DEFINE name == Request!FullName(status)
  <2>1. /\ active' = FALSE /\ Request!FinalizeName(name)
        /\ final' = [name |-> name, status |-> status] /\ ending' = "record"
        /\ UNCHANGED <<recorded, taken, todo, seenObjects, seenStrings, traced, counted>>
    BY <1>5 DEF Request!End, Request!collectorVars
  <2>2. final'.name = name /\ final'.status = status
    BY <2>1
  <2>3. /\ ~recorded /\ ~taken /\ todo = <<>> /\ NothingCounted
    BY <1>1, <1>5 DEF TurnIsActive, Fresh
  <2>4. /\ ignore' \in BOOLEAN
        /\ forceIgnore # None =>
              \/ ignore' = forceIgnore
              \/ forceIgnore = FALSE /\ forceName /\ name.kind \in IgnoredName
    <3> HIDE DEF name
    <3>1. PICK first_1 \in Request!Verdicts(name), again_1 \in Request!Verdicts(name) :
             ignore' = \/ IF forceIgnore # None THEN forceIgnore ELSE ignore \/ first_1
                       \/ forceName /\ again_1
      BY <2>1 DEF Request!FinalizeName
    <3>2. /\ first_1 \in BOOLEAN /\ again_1 \in BOOLEAN
          /\ again_1 => name.kind \in IgnoredName
      BY <3>1 DEF Request!Verdicts
    <3>3. forceIgnore \in BOOLEAN \cup {None} /\ ignore \in BOOLEAN /\ forceName \in BOOLEAN
      BY <1>1 DEF RequestTyped
    <3> QED
      BY <3>1, <3>2, <3>3
  <2>5. RequestTyped'
    BY <1>1, <1>3, <2>1, <2>2, <2>4 DEF RequestTyped
  <2>6. TurnIsActive' /\ StackFits'
    BY <2>1 DEF TurnIsActive, StackFits
  <2>7. SettledStays'
    <3>1. ~recovered => stack = PathTo(IF settled'.failed # None THEN settled'.failed
                                       ELSE settled'.holder)
      <4>1. CASE settled = None
        BY <1>1, <1>3, <1>5, <4>1 DEF SettledStays, StackFits
      <4>2. CASE settled # None
        BY <1>1, <1>3, <4>2 DEF SettledStays
      <4> QED
        BY <4>1, <4>2
    <3>2. settled'.error # None =>
             /\ statusCode = "failed" /\ ended
             /\ settled'.error \notin IgnoredError =>
                   Request!Among(Request!Exception(settled'.error), exceptions)
      BY <1>1, <1>3 DEF SettledStays
    <3> QED
      BY <1>3, <2>1, <3>1, <3>2 DEF SettledStays, PathTo, Request!Among, Request!Exception
  <2>8. FinalIsTrue'
    <3>1. ~forceName /\ rule # "renames" =>
             IF stack = <<>> THEN name.kind \in {"status", "uri"}
             ELSE name = [kind |-> "path", path |-> Request!Path(stack)]
      BY DEF Request!FullName
    <3> HIDE DEF name
    <3> QED
      BY <2>2, <3>1 DEF FinalIsTrue
  <2>9. CollectorTyped'
    BY <1>1, <2>1 DEF CollectorTyped, Marks
  <2>10. MarksAreTrue'
    BY <1>1, <2>1, <2>3 DEF MarksAreTrue, NothingCounted, Marks, Request!Among, Request!HaveSeen
  <2>11. LoopIsTrue'
    BY <2>1, <2>3 DEF LoopIsTrue
  <2>12. EndIsWhole'
    <3> HIDE DEF name
    <3>1. NothingCounted'
      BY <2>1, <2>3 DEF NothingCounted, Marks
    <3>2. forceIgnore' # None => ignore' = forceIgnore' \/ Overruled'
      BY <2>2, <2>4 DEF Overruled
    <3> QED
      BY <2>1, <2>3, <3>1, <3>2 DEF EndIsWhole
  <2> QED
    BY <2>5, <2>6, <2>7, <2>8, <2>9, <2>10, <2>11, <2>12 DEF RequestInv, EndInv
<1> QED
  BY <1>4, <1>5

(* The steps of the end that follow: whether the transaction is recorded   *)
(* and taken is asked anew,                                                *)
LEMMA AsksAnew ==
    ASSUME RequestInv, Request!Record \/ Request!TransactionFinished,
           UNCHANGED <<userErrors, exceptions, statusCode, stack, rule, forceName, forceIgnore>>
    PROVE  EndInv' /\ ~active /\ ending' \in {"no", "agent", "errors"} /\ UNCHANGED <<active, final>>
           /\ ignore' \in BOOLEAN /\ recorded' \in BOOLEAN /\ taken' \in BOOLEAN
<1>1. /\ RequestTyped /\ FinalIsTrue /\ CollectorTyped /\ MarksAreTrue /\ LoopIsTrue /\ EndIsWhole
  BY DEF RequestInv, EndInv
<1>2. /\ UNCHANGED <<active, final, todo, seenObjects, seenStrings, traced, counted>>
      /\ ending \in {"record", "agent"}
  BY DEF Request!Record, Request!TransactionFinished, Request!collectorVars
<1>3. ~active /\ ~taken /\ todo = <<>> /\ NothingCounted
  BY <1>1, <1>2 DEF EndIsWhole, LoopIsTrue
<1>4. FinalIsTrue' /\ CollectorTyped'
  BY <1>1, <1>2 DEF FinalIsTrue, CollectorTyped, Marks
<1>5. MarksAreTrue' /\ NothingCounted'
  BY <1>1, <1>2, <1>3 DEF MarksAreTrue, NothingCounted, Marks, Request!Among, Request!HaveSeen
<1>6. CASE Request!Record
  <2>1. /\ ending = "record" /\ recorded' = ~ignore /\ ending' = "agent"
        /\ UNCHANGED <<ignore, taken>>
    BY <1>6 DEF Request!Record
  <2>2. LoopIsTrue'
    BY <1>2, <1>3, <2>1 DEF LoopIsTrue
  <2>3. EndIsWhole'
    BY <1>1, <1>2, <1>3, <1>5, <2>1 DEF EndIsWhole, Overruled
  <2> QED
    BY <1>1, <1>2, <1>3, <1>4, <1>5, <2>1, <2>2, <2>3 DEF EndInv, RequestTyped
<1>7. CASE Request!TransactionFinished
  <2>1. /\ ending = "agent"
        /\ ignore' = (IF forceIgnore # None THEN forceIgnore ELSE ignore)
        /\ taken' = ~ignore' /\ ending' = (IF ignore' THEN "no" ELSE "errors")
        /\ UNCHANGED recorded
    BY <1>7 DEF Request!TransactionFinished
  <2>2. /\ ignore \in BOOLEAN /\ forceIgnore \in BOOLEAN \cup {None} /\ ignore' \in BOOLEAN
        /\ recorded = ~ignore /\ (forceIgnore # None => ignore = forceIgnore \/ Overruled)
    BY <1>1, <2>1 DEF RequestTyped, EndIsWhole
  <2>3. LoopIsTrue'
    <3>1. ending' \in {"no", "errors"} /\ (ending' = "no" => ~taken')
      BY <2>1, <2>2
    <3>2. todo' = <<>>
      BY <1>2, <1>3
    <3> QED
      BY <3>1, <3>2 DEF LoopIsTrue
  <2>4. EndIsWhole'
    BY <1>2, <1>3, <1>5, <2>1, <2>2 DEF EndIsWhole, Overruled, NothingCounted
  <2> QED
    BY <1>1, <1>2, <1>3, <1>4, <1>5, <2>1, <2>2, <2>3, <2>4 DEF EndInv, RequestTyped
<1> QED
  BY <1>6, <1>7

(* the errors of one that is taken are lined up,                           *)
LEMMA ErrorsLineUp ==
    ASSUME RequestInv, Request!ErrorsOfTransaction,
           UNCHANGED <<userErrors, exceptions, statusCode, stack, rule, forceName, forceIgnore>>
    PROVE  EndInv' /\ ~active /\ ending' \in {"no", "loop"}
           /\ UNCHANGED <<active, final, ignore, recorded, taken>>
<1>1. /\ RequestTyped /\ FinalIsTrue /\ CollectorTyped /\ MarksAreTrue /\ LoopIsTrue /\ EndIsWhole
  BY DEF RequestInv, EndInv
<1>2. /\ ending = "errors"
      /\ UNCHANGED <<active, final, ignore, recorded, taken, seenObjects, seenStrings,
                     traced, counted>>
      /\ todo' = IF ignore THEN <<>> ELSE Request!ToProcess
      /\ ending' = IF todo' = <<>> THEN "no" ELSE "loop"
  BY DEF Request!ErrorsOfTransaction, Request!collectorVars
<1>3. ~active /\ taken /\ ~ignore /\ NothingCounted
  BY <1>1, <1>2 DEF EndIsWhole
<1>4. /\ userErrors \in Seq(Exceptions) /\ exceptions \in Seq(Exceptions)
      /\ calls \in Nat
  BY <1>1 DEF RequestTyped
<1>5. todo' = Request!ToProcess
  BY <1>2, <1>3
<1>6. /\ todo' \in Seq(Processed)
      /\ \A i \in 1..Len(todo') : todo'[i] = Request!StatusException =>
            i = Len(todo') /\ final.status = "failed"
  <2> DEFINE rest == IF exceptions # <<>> /\ final.status # "missing" THEN exceptions
                     ELSE IF exceptions = <<>> /\ final.status = "failed"
                     THEN <<Request!StatusException>> ELSE <<>>
  <2>1. todo' = userErrors \o rest
    BY <1>5 DEF Request!ToProcess
  <2>2. /\ userErrors \in Seq(Processed) /\ rest \in Seq(Processed)
        /\ \A i \in 1..Len(rest) : rest[i] = Request!StatusException =>
              Len(rest) = 1 /\ final.status = "failed"
        /\ \A i \in 1..Len(userErrors) : userErrors[i] # Request!StatusException
    <3>1. \A x \in Exceptions : x \in Processed /\ x # Request!StatusException
      BY ErrorsAssumption DEF Processed, Exceptions, Request!StatusException, Request!Exception
    <3>2. Request!StatusException \in Processed
      BY DEF Processed
    <3>3. userErrors \in Seq(Processed) /\ exceptions \in Seq(Processed)
      BY <1>4, <3>1
    <3>4. CASE rest = exceptions
      BY <1>4, <3>1, <3>3, <3>4
    <3>5. CASE rest = <<Request!StatusException>> /\ final.status = "failed"
      BY <1>4, <3>1, <3>2, <3>3, <3>5
    <3>6. CASE rest = <<>>
      BY <1>4, <3>1, <3>3, <3>6
    <3> QED
      BY <3>4, <3>5, <3>6
  <2> HIDE DEF rest
  <2>3. /\ todo' \in Seq(Processed) /\ Len(todo') = Len(userErrors) + Len(rest)
        /\ \A i \in 1..Len(todo') :
              todo'[i] = IF i <= Len(userErrors) THEN userErrors[i]
                         ELSE rest[i - Len(userErrors)]
    BY <2>1, <2>2, ConcatProperties
  <2>4. Len(userErrors) \in Nat /\ Len(rest) \in Nat
    BY <2>2
  <2>5. ASSUME NEW i \in 1..Len(todo'), todo'[i] = Request!StatusException
        PROVE  i = Len(todo') /\ final.status = "failed"
    <3>1. i \notin 1..Len(userErrors) /\ i \in Nat /\ i >= 1
      BY <2>2, <2>3, <2>4, <2>5
    <3>2. i - Len(userErrors) \in 1..Len(rest) /\ rest[i - Len(userErrors)] = Request!StatusException
      BY <2>3, <2>4, <2>5, <3>1
    <3> QED
      BY <2>2, <2>3, <2>4, <3>1, <3>2
  <2> QED
    BY <2>3, <2>5
<1>7. FinalIsTrue' /\ CollectorTyped'
  BY <1>1, <1>2, <1>6 DEF FinalIsTrue, CollectorTyped, Marks
<1>8. MarksAreTrue'
  BY <1>1, <1>2 DEF MarksAreTrue, Marks, Request!Among, Request!HaveSeen
<1>9. LoopIsTrue'
  <2>1. Request!ToProcess' = todo'
    BY <1>2, <1>5 DEF Request!ToProcess, Request!StatusException, Request!Exception
  <2>2. counted' = <<>>
    BY <1>2, <1>3 DEF NothingCounted
  <2>3. \A i \in 1..Len(Request!ToProcess') : Handled(Request!ToProcess[i])'
    BY <2>1 DEF Handled, Request!Among
  <2>4. CountedAreMarked' /\ ~Request!Among(Request!StatusException, counted)'
    BY <2>2 DEF CountedAreMarked, Request!Among
  <2> QED
    BY <1>2, <1>6, <2>3, <2>4 DEF LoopIsTrue, Request!StatusException, Request!Exception
<1>10. EndIsWhole'
  BY <1>1, <1>2, <1>3 DEF EndIsWhole, Overruled, NothingCounted
<1> QED
  BY <1>2, <1>3, <1>7, <1>8, <1>9, <1>10 DEF EndInv

(* and gone through, one after the other.                                  *)
LEMMA ProcessKeeps ==
    ASSUME RequestInv, Request!ProcessError,
           UNCHANGED <<userErrors, exceptions, statusCode, stack, rule, forceName, forceIgnore>>
    PROVE  EndInv' /\ ~active /\ ending' \in {"no", "loop"} /\ ignore' \in BOOLEAN
           /\ UNCHANGED <<active, final, recorded, taken>>
<1> DEFINE x == Head(todo)
           status == Request!StatusException
<1>1. /\ RequestTyped /\ FinalIsTrue /\ CollectorTyped /\ MarksAreTrue /\ LoopIsTrue /\ EndIsWhole
  BY DEF RequestInv, EndInv
<1>2. /\ ending = "loop" /\ Request!Collect("own", x) /\ todo' = Tail(todo)
      /\ ending' = IF todo' = <<>> THEN "no" ELSE "loop"
      /\ ignore' \in Request!AskedAgain(final.name)
      /\ UNCHANGED <<active, final, recorded, taken>>
  BY DEF Request!ProcessError
<1>3. ~active /\ taken /\ CountedAreMarked /\ todo # <<>>
  BY <1>1, <1>2 DEF EndIsWhole, LoopIsTrue
<1>4. /\ todo \in Seq(Processed) /\ Len(todo) \in Nat /\ Len(todo) > 0
      /\ x \in Processed /\ x = todo[1] /\ todo' \in Seq(Processed)
      /\ Len(todo') = Len(todo) - 1 /\ \A i \in 1..Len(todo') : todo'[i] = todo[i + 1]
  BY <1>1, <1>2, <1>3, HeadTailProperties DEF CollectorTyped
<1>5. /\ x = status => /\ todo' = <<>> /\ final.status = "failed"
                       /\ ~Request!Among(status, counted)
      /\ \A i \in 1..Len(todo') : todo'[i] = status =>
            /\ i = Len(todo') /\ final.status = "failed"
            /\ ~Request!Among(status, counted) /\ x # status
  <2>1. \A i \in 1..Len(todo) : todo[i] = status =>
            i = Len(todo) /\ final.status = "failed" /\ ~Request!Among(status, counted)
    BY <1>1 DEF LoopIsTrue
  <2>2. x = status => Len(todo) = 1
    BY <1>4, <2>1
  <2>3. x = status => todo' = <<>>
    BY <1>4, <2>2, EmptySeq
  <2> HIDE DEF x, status
  <2> QED
    BY <1>4, <2>1, <2>2, <2>3
<1> HIDE DEF x
<1>6. /\ CollectorTyped' /\ MarksAreTrue' /\ CountedAreMarked'
      /\ Request!Among(x, counted') \/ (x.error \in Malformed /\ final.status = "none")
      /\ \A y : Request!Among(y, counted) => Request!Among(y, counted')
      /\ \A y : Request!Among(y, counted') => Request!Among(y, counted) \/ y = x
  <2>1. x = status => final.status # "none" /\ ~Request!Among(x, counted)
    BY <1>5
  <2> QED
    BY <1>1, <1>2, <1>3, <1>4, <2>1, CollectKeeps
<1>7. LoopIsTrue'
  <2>1. \A i \in 1..Len(todo') : todo'[i] = status =>
            i = Len(todo') /\ final.status = "failed" /\ ~Request!Among(status, counted')
    BY <1>5, <1>6
  <2>2. ASSUME NEW y, Handled(y)
        PROVE  Handled(y)'
    <3>1. CASE Request!Among(y, counted)
      BY <1>6, <3>1 DEF Handled, Request!Among
    <3>2. CASE Request!Among(y, todo)
      <4>1. PICK i \in 1..Len(todo) : todo[i] = y
        BY <3>2 DEF Request!Among
      <4>2. CASE i = 1
        BY <1>2, <1>4, <1>6, <4>1, <4>2 DEF Handled, Request!Among
      <4>3. CASE i # 1
        <5>1. i - 1 \in 1..Len(todo') /\ todo'[i - 1] = y
          BY <1>4, <4>1, <4>3
        <5> QED
          BY <5>1 DEF Handled, Request!Among
      <4> QED
        BY <4>2, <4>3
    <3>3. CASE y.error \in Malformed /\ final.status = "none"
      BY <1>2, <3>3 DEF Handled
    <3> QED
      BY <2>2, <3>1, <3>2, <3>3 DEF Handled
  <2>3. \A i \in 1..Len(Request!ToProcess) : Handled(Request!ToProcess[i])
    BY <1>1, <1>2, <1>3 DEF LoopIsTrue
  <2>4. Request!ToProcess' = Request!ToProcess
    BY <1>2 DEF Request!ToProcess, Request!StatusException, Request!Exception
  <2>5. \A i \in 1..Len(Request!ToProcess') : Handled(Request!ToProcess[i])'
    BY <2>2, <2>3, <2>4
  <2> QED
    BY <1>2, <1>6, <2>1, <2>5 DEF LoopIsTrue, status, Request!StatusException, Request!Exception
<1>8. ignore' \in BOOLEAN
  BY <1>1, <1>2 DEF RequestTyped, Request!AskedAgain, Request!Verdicts
<1>9. FinalIsTrue'
  BY <1>1, <1>2 DEF FinalIsTrue
<1>10. EndIsWhole'
  BY <1>1, <1>2, <1>3 DEF EndIsWhole, Overruled
<1> QED
  BY <1>2, <1>3, <1>6, <1>7, <1>8, <1>9, <1>10 DEF EndInv

(* Error traces are sent, and all marks with them. *)
LEMMA SendKeeps ==
    ASSUME RequestInv, Request!SendErrors
    PROVE  RequestInv'
<1>1. /\ RequestTyped /\ TurnIsActive /\ StackFits /\ SettledStays
      /\ FinalIsTrue /\ CollectorTyped /\ MarksAreTrue /\ LoopIsTrue /\ EndIsWhole
  BY DEF RequestInv, EndInv
<1>2. /\ pending = None /\ ending = "no"
      /\ seenObjects' = {} /\ seenStrings' = {} /\ traced' = <<>>
      /\ UNCHANGED <<pending, open, holder, failed, recovered, stack, frozen, txError,
                     exceptions, userErrors, ended, statusCode, rule, forceName,
                     forceIgnore, settled, calls>>
      /\ UNCHANGED <<active, ignore, final, ending, recorded, taken, todo, counted>>
  BY DEF Request!SendErrors, Request!InTurn, Request!frameVars, Request!nameVars,
     Request!errorVars, Request!txErrors, Request!responseVars, Request!apiVars,
     Request!ghosts
<1>3. Marks' = {} /\ CollectorTyped'
  BY <1>1, <1>2 DEF Marks, CollectorTyped
<1>4. RequestTyped' /\ FinalIsTrue'
  BY <1>1, <1>2 DEF RequestTyped, FinalIsTrue
<1>5. TurnIsActive'
  BY <1>1, <1>2, <1>3 DEF TurnIsActive, Fresh, NothingCounted
<1>6. StackFits' /\ SettledStays'
  BY <1>1, <1>2 DEF StackFits, SettledStays, PathTo, Request!Among, Request!Exception
<1>7. MarksAreTrue'
  BY <1>1, <1>2, <1>3 DEF MarksAreTrue
<1>8. LoopIsTrue'
  BY <1>1, <1>2 DEF LoopIsTrue, Handled, Request!Among, Request!ToProcess,
     Request!StatusException, Request!Exception
<1>9. EndIsWhole'
  BY <1>1, <1>2 DEF EndIsWhole, Overruled
<1> QED
  BY <1>4, <1>5, <1>6, <1>7, <1>8, <1>9, <1>3 DEF RequestInv, EndInv

(* An error is reported, for the transaction or outside of it. *)
LEMMA NoticeKeeps ==
    ASSUME RequestInv, NEW e \in Error, Request!NoticeError(e)
    PROVE  RequestInv'
<1> DEFINE x == Request!UserException(e)
<1>1. /\ RequestTyped /\ TurnIsActive /\ StackFits /\ SettledStays
      /\ FinalIsTrue /\ CollectorTyped /\ MarksAreTrue /\ LoopIsTrue /\ EndIsWhole
  BY DEF RequestInv, EndInv
<1>2. /\ pending = None /\ ending = "no" /\ calls' = calls + 1
      /\ UNCHANGED <<pending, open, holder, failed, recovered, stack, frozen, txError,
                     exceptions, ended, statusCode, rule, forceName, forceIgnore, settled>>
      /\ active => /\ userErrors' = Append(userErrors, x)
                   /\ UNCHANGED <<active, ignore, final, ending, recorded, taken, todo,
                                  seenObjects, seenStrings, traced, counted>>
      /\ ~active => /\ Request!Collect("Unknown", x)
                    /\ UNCHANGED <<userErrors, active, ignore, final, ending, recorded,
                                   taken, todo>>
  BY DEF Request!NoticeError, Request!InTurn, Request!frameVars, Request!nameVars,
     Request!errorVars, Request!responseVars, Request!apiVars, Request!endVars,
     Request!collectorVars
<1>3. calls \in Nat /\ x \in Exceptions /\ x # Request!StatusException
  BY <1>1, ExceptionsKnown DEF RequestTyped
<1> HIDE DEF x
<1>4. userErrors' \in Seq(Exceptions) /\ UNCHANGED <<active, ignore, final, ending, recorded, taken>>
  <2>1. userErrors \in Seq(Exceptions)
    BY <1>1 DEF RequestTyped
  <2>2. Append(userErrors, x) \in Seq(Exceptions)
    BY <1>3, <2>1
  <2> QED
    BY <1>2, <2>1, <2>2
<1>5. RequestTyped'
  BY <1>1, <1>2, <1>3, <1>4 DEF RequestTyped
<1>6. StackFits' /\ SettledStays'
  BY <1>1, <1>2, <1>4 DEF StackFits, SettledStays, PathTo, Request!Among, Request!Exception
<1>7. CASE active
  <2>1. Fresh' /\ EndInv'
    BY <1>2, <1>7, NothingTaken
  <2> QED
    BY <1>2, <1>5, <1>6, <2>1 DEF RequestInv, TurnIsActive
<1>8. CASE ~active
  <2>1. /\ CollectorTyped' /\ MarksAreTrue' /\ counted' = counted
    <3>1. x \in Processed /\ todo' \in Seq(Processed)
      BY <1>1, <1>2, <1>3, <1>8 DEF Processed, CollectorTyped
    <3> QED
      BY <1>1, <1>2, <1>3, <1>8, <3>1, CollectKeeps
  <2>2. TurnIsActive' /\ FinalIsTrue'
    BY <1>1, <1>2, <1>4, <1>8 DEF TurnIsActive, FinalIsTrue
  <2>3. LoopIsTrue'
    BY <1>1, <1>2, <1>8, <2>1 DEF LoopIsTrue, Handled, Request!Among, Request!ToProcess,
       Request!StatusException, Request!Exception
  <2>4. EndIsWhole'
    BY <1>1, <1>2, <1>8, <2>1 DEF EndIsWhole, Overruled
  <2> QED
    BY <1>5, <1>6, <2>1, <2>2, <2>3, <2>4 DEF RequestInv, EndInv
<1> QED
  BY <1>7, <1>8

LEMMA EndTurnKeeps ==
    ASSUME RequestInv, Request!EndTurn
    PROVE  RequestInv'
<1>1. /\ RequestTyped /\ TurnIsActive /\ StackFits /\ SettledStays
  BY DEF RequestInv
<1>2. /\ Request!Record \/ Request!TransactionFinished \/ Request!ErrorsOfTransaction
         \/ Request!ProcessError
      /\ UNCHANGED <<pending, open, holder, failed, recovered, stack, frozen, txError,
                     exceptions, userErrors, ended, statusCode, rule, forceName,
                     forceIgnore, settled, calls>>
  BY DEF Request!EndTurn, Request!frameVars, Request!nameVars, Request!errorVars,
     Request!txErrors, Request!responseVars, Request!apiVars, Request!ghosts
<1>3. /\ EndInv' /\ ~active /\ UNCHANGED <<active, final>>
      /\ ending' \in {"no", "record", "agent", "errors", "loop"}
      /\ ignore' \in BOOLEAN /\ recorded' \in BOOLEAN /\ taken' \in BOOLEAN
  <2>1. /\ ignore \in BOOLEAN /\ recorded \in BOOLEAN /\ taken \in BOOLEAN
    BY <1>1 DEF RequestTyped
  <2>2. CASE Request!Record \/ Request!TransactionFinished
    BY <1>2, <2>2, AsksAnew
  <2>3. CASE Request!ErrorsOfTransaction
    BY <1>2, <2>1, <2>3, ErrorsLineUp
  <2>4. CASE Request!ProcessError
    BY <1>2, <2>1, <2>4, ProcessKeeps
  <2> QED
    BY <1>2, <2>2, <2>3, <2>4
<1>4. RequestTyped'
  BY <1>1, <1>2, <1>3 DEF RequestTyped
<1>5. TurnIsActive' /\ StackFits' /\ SettledStays'
  BY <1>1, <1>2, <1>3 DEF TurnIsActive, StackFits, SettledStays, PathTo, Request!Among,
     Request!Exception
<1> QED
  BY <1>3, <1>4, <1>5 DEF RequestInv

LEMMA RequestStep == RequestInv /\ [Request!Next]_Request!vars => RequestInv'
<1> SUFFICES ASSUME RequestInv, [Request!Next]_Request!vars
             PROVE  RequestInv'
  OBVIOUS
<1> USE DEF Request!frameVars, Request!nameVars, Request!errorVars, Request!txErrors,
        Request!responseVars, Request!endVars, Request!collectorVars, Request!apiVars,
        Request!ghosts, Request!InTurn
<1>1. /\ RequestTyped /\ TurnIsActive /\ StackFits /\ SettledStays /\ EndInv
  BY DEF RequestInv
<1>2. CASE pending # None /\ Request!EnterLayer
  BY <1>2, EnterKeeps
<1>3. CASE pending # None /\ Request!RouterPasses
  <2>1. /\ pending.step = "next" /\ Request!Pass(pending.at, pending.err)
        /\ active /\ pending.at \in Layer /\ pending.err \in Errors
    BY <1>1, <1>3 DEF Request!RouterPasses, TurnIsActive, RequestTyped, Steps
  <2>2. ~frozen /\ ~recovered =>
            /\ failed = None => stack = PathOf[pending.at] /\ pending.at \notin Errorware
            /\ failed # None => pending.err # None \/ pending.at \in Errorware
    BY <1>1, <1>3, <2>1, PathsKnown DEF StackFits
  <2> QED
    BY <2>1, <2>2, PassKeeps
<1>4. CASE pending # None /\ Request!FinalHandler
  <2>1. /\ pending.step = "final" /\ pending' = None /\ holder' = None
        /\ UNCHANGED <<open, failed, recovered, calls>>
        /\ active /\ calls \in Nat
        /\ pending.err \in Errors /\ (pending.err # None => txError = pending.err)
    BY <1>1, <1>4 DEF Request!FinalHandler, TurnIsActive, RequestTyped, Steps
  <2>2. CASE ended
    <3>1. UNCHANGED <<stack, frozen, txError, exceptions, userErrors, ended, statusCode,
                      active, ignore, rule, forceName, forceIgnore, settled, final, ending,
                      recorded, taken, todo, seenObjects, seenStrings, traced, counted>>
      BY <1>4, <2>2 DEF Request!FinalHandler
    <3>2. frozen
      BY <1>1, <2>1, <2>2 DEF SettledStays
    <3>3. Fresh' /\ EndInv'
      BY <2>1, <3>1, NothingTaken
    <3>4. RequestTyped'
      BY <1>1, <2>1, <3>1 DEF RequestTyped
    <3>5. SettledStays' /\ StackFits' /\ TurnIsActive'
      BY <1>1, <2>1, <3>1, <3>2, <3>3 DEF SettledStays, StackFits, TurnIsActive, PathTo,
         Request!Among, Request!Exception
    <3> QED
      BY <3>3, <3>4, <3>5 DEF RequestInv
  <2>3. CASE ~ended
    <3> DEFINE status == IF pending.err # None THEN "failed" ELSE "missing"
    <3>1. Request!ResEnd(status, None, pending.err) /\ status \in Request!Response
      BY <1>4, <2>3 DEF Request!FinalHandler, Request!Response
    <3>2. ~frozen /\ ~recovered => stack = PathTo(IF failed # None THEN failed ELSE None)
      BY <1>1, <1>4, <2>1 DEF StackFits, PathTo
    <3>3. open \subseteq Layer
      BY <1>1 DEF RequestTyped
    <3> QED
      BY <2>1, <2>3, <3>1, <3>2, <3>3, ResEndKeeps
  <2> QED
    BY <2>2, <2>3
<1>5. ASSUME NEW l \in Layer, NEW e \in Error \cup {None}, Request!CallNext(l, e)
      PROVE  RequestInv'
  <2>1. pending = None /\ active /\ holder = l /\ Request!Pass(l, e) /\ l # None
    BY <1>5, LayersAssumption DEF Request!CallNext
  <2>2. ~frozen /\ ~recovered =>
            /\ failed = None => stack = PathOf[l] /\ l \notin Errorware
            /\ failed # None => e # None \/ l \in Errorware
    BY <1>1, <2>1, PathsKnown DEF StackFits
  <2> QED
    BY <1>5, <2>1, <2>2, PassKeeps DEF Errors
<1>6. ASSUME NEW l \in Layer, NEW s \in Request!Response, Request!Respond(l, s)
      PROVE  RequestInv'
  <2> DEFINE e == IF s = "failed" THEN txError ELSE None
  <2>1. /\ pending = None /\ active /\ (s = statusCode \/ ~ended)
        /\ Request!ResEnd(s, holder, e) /\ calls' = calls + 1
        /\ UNCHANGED <<pending, open, holder, failed, recovered>>
    BY <1>6 DEF Request!Respond
  <2>2. /\ holder \in Layer \cup {None} /\ open \subseteq Layer /\ e \in Errors
        /\ calls \in Nat
    BY <1>1 DEF RequestTyped, Errors
  <2>3. ~frozen /\ ~recovered => stack = PathTo(IF failed # None THEN failed ELSE holder)
    BY <1>1, <2>1 DEF StackFits
  <2>4. calls' \in Nat
    BY <2>1, <2>2
  <2> QED
    BY <2>1, <2>2, <2>3, <2>4, ResEndKeeps
<1>7. CASE Request!Finish
  <2>1. /\ pending = None /\ ending = "no" /\ ended /\ Request!End(statusCode)
        /\ UNCHANGED settled
        /\ UNCHANGED <<pending, open, holder, failed, recovered, stack, frozen, txError,
                       exceptions, userErrors, ended, statusCode, rule, forceName,
                       forceIgnore, calls>>
    BY <1>7 DEF Request!Finish
  <2>2. Request!Settle(holder, None) /\ statusCode \in Request!Status
    BY <1>1, <2>1 DEF Request!Settle, SettledStays, RequestTyped, Request!Status
  <2> QED
    BY <2>1, <2>2, RequestEndKeeps
<1>8. CASE Request!Close
  <2>1. /\ pending = None /\ ending = "no" /\ Request!End(statusCode)
        /\ Request!Settle(holder, None)
        /\ UNCHANGED <<pending, open, holder, failed, recovered, stack, frozen, txError,
                       exceptions, userErrors, ended, statusCode, rule, forceName,
                       forceIgnore, calls>>
    BY <1>8 DEF Request!Close
  <2>2. statusCode \in Request!Status
    BY <1>1 DEF RequestTyped, Request!Status
  <2> QED
    BY <2>1, <2>2, RequestEndKeeps
<1>9. CASE Request!EndTransaction
  <2>1. /\ pending = None /\ ending = "no" /\ Request!End("none")
        /\ Request!Settle(holder, None)
        /\ UNCHANGED <<pending, open, holder, failed, recovered, stack, frozen, txError,
                       exceptions, userErrors, ended, statusCode, rule, forceName,
                       forceIgnore, calls>>
    BY <1>9 DEF Request!EndTransaction
  <2>2. "none" \in Request!Status
    BY DEF Request!Status
  <2> QED
    BY <2>1, <2>2, RequestEndKeeps
<1>10. CASE \/ Request!SetTransactionName
            \/ \E b \in BOOLEAN : Request!SetForceIgnore(b)
  <2> DEFINE Noted == /\ active /\ forceName' \in BOOLEAN /\ forceIgnore' \in BOOLEAN \cup {None}
                      /\ UNCHANGED <<pending, open, holder, failed, recovered, stack, frozen,
                                     txError, exceptions, userErrors, ended, statusCode, active,
                                     ignore, rule, settled, calls>>
                      /\ UNCHANGED <<final, ending, recorded, taken, todo, seenObjects,
                                     seenStrings, traced, counted>>
  <2>1. Noted
    <3>1. /\ forceName \in BOOLEAN /\ forceIgnore \in BOOLEAN \cup {None}
      BY <1>1 DEF RequestTyped
    <3>2. CASE Request!SetTransactionName
      BY <3>1, <3>2 DEF Request!SetTransactionName
    <3>3. ASSUME NEW b \in BOOLEAN, Request!SetForceIgnore(b)
          PROVE  Noted
      BY <3>1, <3>3 DEF Request!SetForceIgnore
    <3> QED
      BY <1>10, <3>2, <3>3
  <2>2. Fresh' /\ EndInv'
    BY <2>1, NothingTaken
  <2>3. RequestTyped'
    BY <1>1, <2>1 DEF RequestTyped
  <2>4. SettledStays' /\ StackFits' /\ TurnIsActive'
    BY <1>1, <2>1, <2>2 DEF SettledStays, StackFits, TurnIsActive, PathTo, Request!Among,
       Request!Exception
  <2> QED
    BY <2>2, <2>3, <2>4 DEF RequestInv
<1>11. ASSUME NEW e \in Error, Request!NoticeError(e)
       PROVE  RequestInv'
  BY <1>11, NoticeKeeps
<1>12. CASE UNCHANGED Request!vars
  <2>1. /\ UNCHANGED <<pending, open, holder, failed, recovered, stack, frozen, txError,
                       exceptions, userErrors, ended, statusCode, active, ignore, rule,
                       forceName, forceIgnore, settled, calls>>
        /\ UNCHANGED <<final, ending, recorded, taken, todo, seenObjects, seenStrings,
                       traced, counted>>
    BY <1>12 DEF Request!vars
  <2>2. RequestTyped'
    BY <1>1, <2>1 DEF RequestTyped
  <2>3. SettledStays' /\ StackFits' /\ TurnIsActive'
    BY <1>1, <2>1 DEF SettledStays, StackFits, TurnIsActive, Fresh, NothingCounted, Marks,
       PathTo, Request!Among, Request!Exception
  <2>4. FinalIsTrue' /\ CollectorTyped' /\ EndIsWhole'
    BY <1>1, <2>1 DEF EndInv, FinalIsTrue, CollectorTyped, EndIsWhole, Overruled,
       NothingCounted, Marks
  <2>5. MarksAreTrue'
    BY <1>1, <2>1 DEF EndInv, MarksAreTrue, Marks, Request!Among, Request!HaveSeen
  <2>6. LoopIsTrue'
    BY <1>1, <2>1 DEF EndInv, LoopIsTrue, CountedAreMarked, Handled, Request!Among,
       Request!HaveSeen, Request!ToProcess, Request!StatusException, Request!Exception
  <2> QED
    BY <2>2, <2>3, <2>4, <2>5, <2>6 DEF RequestInv, EndInv
<1> QED
  BY <1>2, <1>3, <1>4, <1>5, <1>6, <1>7, <1>8, <1>9, <1>10, <1>11, <1>12, SendKeeps,
     EndTurnKeeps DEF Request!Next, Request!Turn

LEMMA RequestHolds == Request!Spec => []RequestInv
BY RequestInit, RequestStep, PTL DEF Request!Spec

(* Every state of a request is well typed. *)
THEOREM RequestIsTyped == Request!Spec => []RequestTyped
<1>1. RequestInv => RequestTyped
  BY DEF RequestInv
<1> QED
  BY <1>1, RequestHolds, PTL

(* However layers, errorwares and routers are nested, a request is named   *)
(* by the path to the layer that had it or that failed.                    *)
THEOREM Named == Request!Spec => []NamedByPath
<1>1. RequestInv => NamedByPath
  <2> SUFFICES ASSUME RequestInv, taken, ~forceName, rule # "renames", ~recovered
               PROVE  LET l == IF settled.failed # None THEN settled.failed
                               ELSE settled.holder
                      IN  IF l = None THEN final.name.kind \in {"status", "uri"}
                          ELSE final.name = [kind |-> "path", path |-> Request!Path(PathOf[l])]
    BY DEF NamedByPath, Request!NamedByPath
  <2> DEFINE l == IF settled.failed # None THEN settled.failed ELSE settled.holder
  <2>1. RequestTyped /\ TurnIsActive /\ SettledStays /\ FinalIsTrue
    BY DEF RequestInv, EndInv
  <2>2. ~active
    BY <2>1 DEF TurnIsActive, Fresh
  <2>3. settled # None /\ settled \in Settlements
    BY <2>1, <2>2 DEF RequestTyped, SettledStays
  <2>4. l \in Layer \cup {None}
    BY <2>3 DEF Settlements
  <2>5. stack = PathTo(l)
    BY <2>1, <2>3 DEF SettledStays
  <2>6. IF stack = <<>> THEN final.name.kind \in {"status", "uri"}
        ELSE final.name = [kind |-> "path", path |-> Request!Path(stack)]
    BY <2>1, <2>2 DEF FinalIsTrue
  <2>7. l # None => stack = PathOf[l] /\ stack # <<>>
    BY <2>4, <2>5, PathsKnown DEF PathTo
  <2>8. l = None => stack = <<>>
    BY <2>5 DEF PathTo
  <2> QED
    BY <2>6, <2>7, <2>8
<1> QED
  BY <1>1, RequestHolds, PTL

(* However often an error is raised, noticed and answered with, and        *)
(* whatever is sent in between, _haveSeen lets it through once, turns away *)
(* none that has not been through, and the transaction counts the one the  *)
(* response is about.                                                      *)
THEOREM CountedOnce == Request!Spec => []ErrorsOnce
<1>1. RequestInv => ErrorsOnce
  <2> SUFFICES ASSUME RequestInv
               PROVE  ErrorsOnce
    OBVIOUS
  <2>1. /\ RequestTyped /\ TurnIsActive /\ SettledStays /\ FinalIsTrue /\ MarksAreTrue
        /\ LoopIsTrue
    BY DEF RequestInv, EndInv
  <2>2. ASSUME taken, ending = "no"
        PROVE  /\ \A i \in 1..Len(userErrors) :
                     Request!Among(userErrors[i], counted) \/ userErrors[i].error \in Malformed
               /\ settled.error \in Error \ (IgnoredError \cup Malformed) =>
                     Request!Among(Request!Exception(settled.error), counted)
               /\ final.status = "failed" => counted # <<>>
    <3> DEFINE rest == IF exceptions # <<>> /\ final.status # "missing" THEN exceptions
                       ELSE IF exceptions = <<>> /\ final.status = "failed"
                       THEN <<Request!StatusException>> ELSE <<>>
    <3>1. ~active /\ todo = <<>>
      BY <2>1, <2>2 DEF TurnIsActive, Fresh, LoopIsTrue
    <3>2. \A i \in 1..Len(userErrors \o rest) :
             LET x == (userErrors \o rest)[i] IN
             Request!Among(x, counted) \/ (x.error \in Malformed /\ final.status = "none")
      BY <2>1, <2>2, <3>1 DEF LoopIsTrue, Handled, Request!Among, Request!ToProcess
    <3>3. /\ userErrors \in Seq(Processed) /\ exceptions \in Seq(Processed)
          /\ rest \in Seq(Processed)
      <4>1. Request!StatusException \in Processed /\ \A x \in Exceptions : x \in Processed
        BY DEF Processed
      <4>2. userErrors \in Seq(Exceptions) /\ exceptions \in Seq(Exceptions)
        BY <2>1 DEF RequestTyped
      <4>3. userErrors \in Seq(Processed) /\ exceptions \in Seq(Processed)
        BY <4>1, <4>2
      <4> QED
        BY <4>1, <4>3
    <3> HIDE DEF rest
    <3>4. /\ \A i \in 1..Len(userErrors) :
                Request!Among(userErrors[i], counted)
                \/ (userErrors[i].error \in Malformed /\ final.status = "none")
          /\ \A i \in 1..Len(rest) :
                Request!Among(rest[i], counted)
                \/ (rest[i].error \in Malformed /\ final.status = "none")
      <4>1. /\ Len(userErrors) \in Nat /\ Len(rest) \in Nat
            /\ Len(userErrors \o rest) = Len(userErrors) + Len(rest)
            /\ \A i \in 1..Len(userErrors) + Len(rest) : (userErrors \o rest)[i] =
                  IF i <= Len(userErrors) THEN userErrors[i] ELSE rest[i - Len(userErrors)]
        BY <3>3, ConcatProperties
      <4>2. ASSUME NEW i \in 1..Len(userErrors)
            PROVE  Request!Among(userErrors[i], counted)
                   \/ (userErrors[i].error \in Malformed /\ final.status = "none")
        <5>1. i \in 1..Len(userErrors \o rest) /\ (userErrors \o rest)[i] = userErrors[i]
          BY <4>1
        <5> QED
          BY <3>2, <5>1
      <4>3. ASSUME NEW i \in 1..Len(rest)
            PROVE  Request!Among(rest[i], counted)
                   \/ (rest[i].error \in Malformed /\ final.status = "none")
        <5> DEFINE k == Len(userErrors) + i
        <5>1. k \in 1..Len(userErrors \o rest) /\ (userErrors \o rest)[k] = rest[i]
          BY <4>1
        <5> HIDE DEF k
        <5> QED
          BY <3>2, <5>1
      <4> QED
        BY <4>2, <4>3
    <3>5. \A i \in 1..Len(userErrors) :
             Request!Among(userErrors[i], counted) \/ userErrors[i].error \in Malformed
      BY <3>4
    <3>6. ASSUME settled.error \in Error \ (IgnoredError \cup Malformed)
          PROVE  Request!Among(Request!Exception(settled.error), counted)
      <4> DEFINE x == Request!Exception(settled.error)
      <4>1. settled # None /\ settled.error # None /\ x.error = settled.error
        BY <2>1, <3>1, <3>6, ErrorsAssumption DEF SettledStays, Request!Exception
      <4>2. statusCode = "failed" /\ Request!Among(x, exceptions)
        BY <2>1, <3>6, <4>1 DEF SettledStays
      <4>3. final.status # "missing"
        BY <2>1, <3>1, <4>2 DEF FinalIsTrue
      <4> HIDE DEF x
      <4>4. PICK i \in 1..Len(exceptions) : exceptions[i] = x
        BY <4>2 DEF Request!Among
      <4>5. exceptions # <<>>
        BY <4>4
      <4>6. rest = exceptions
        BY <4>3, <4>5 DEF rest
      <4> QED
        BY <3>4, <3>6, <4>1, <4>4, <4>6 DEF x
    <3>7. ASSUME final.status = "failed"
          PROVE  counted # <<>>
      <4>1. rest # <<>>
        BY <3>7 DEF rest
      <4>2. 1 \in 1..Len(rest)
        BY <3>3, <4>1
      <4> QED
        BY <3>4, <3>7, <4>2 DEF Request!Among
    <3> QED
      BY <3>5, <3>6, <3>7
  <2>3. /\ \A i, j \in 1..Len(traced) : traced[i] = traced[j] => i = j
        /\ \A i, j \in 1..Len(counted) : counted[i] = counted[j] => i = j
        /\ \A entry \in seenObjects \cup seenStrings :
              Request!Among(entry, traced) \/ entry.exception.error \in Malformed
    BY <2>1 DEF MarksAreTrue, Marks
  <2> QED
    BY <2>2, <2>3 DEF ErrorsOnce, Request!ErrorsOnce
<1> QED
  BY <1>1, RequestHolds, PTL

(* Whatever ends it, and whatever the rules say each time they are asked,  *)
(* a transaction is taken over as a whole or not at all, but for the one   *)
(* exception that AllOrNothing states.                                     *)
THEOREM WholeOrNot == Request!Spec => []AllOrNothing
<1>1. RequestInv => AllOrNothing
  BY DEF RequestInv, EndInv, EndIsWhole, Overruled, AllOrNothing, Request!AllOrNothing
<1> QED
  BY <1>1, RequestHolds, PTL
-----------------------------------------------------------------------------
(* The segments *)

SegmentRecord ==
    [parent : Nat, tx : Nat, within : Nat, hangs : BOOLEAN,
     kind : {"plain", "opaque", "internal"},
     from : {"begin", "call", "callback", "event", "listener"}, streamed : BOOLEAN]

CallRecord ==
    [tx : Nat, seg : Nat, full : BOOLEAN,
     then : {"nothing", "end", "promise", "stream", "innerstream"}]

BindingRecord ==
    [is : {"callback", "bound", "promise", "stream", "innerstream", "listener", "end"},
     tx : Nat, seg : Nat, event : Nat]

(* Segment s of the segments g counts for transaction t, unless it comes   *)
(* from a stream.  This is what a context has to say of its segment for    *)
(* the next one made in it to hang in the trace of its transaction.        *)
Belongs(g, s, t) == s \in 1..Len(g) /\ (g[s].streamed \/ g[s].tx = t)

TreeInv(g) ==
    /\ g \in Seq(SegmentRecord)
    /\ \A s \in 1..Len(g) :
          /\ g[s].parent < s
          /\ g[s].hangs \/ g[s].streamed
          /\ Belongs(g, s, g[s].within)

GoodCall(g, c) ==
    /\ c \in CallRecord
    /\ Belongs(g, c.seg, c.tx) \/ (c.tx = 0 /\ c.seg = 0 /\ ~c.full /\ c.then = "nothing")
    /\ c.then = "end" => ~c.full

CallsInv(g, st) ==
    /\ st \in Seq(CallRecord) /\ Len(st) <= MaxDepth
    /\ \A i \in 1..Len(st) : GoodCall(g, st[i])

GoodBinding(g, b) ==
    /\ b \in BindingRecord
    /\ b.seg \in 1..Len(g)
    /\ b.is # "listener" => Belongs(g, b.seg, b.tx)
    /\ b.event \in {0, MaxSegments + 1} \/ Belongs(g, b.event, b.tx)

Listeners(bd) == {b \in bd : b.is = "listener"}

BindingsInv(g, bd) ==
    /\ \A b \in bd : GoodBinding(g, b)
    /\ IsFiniteSet(bd)
    /\ Cardinality(Listeners(bd)) <= MaxListeners
    /\ Cardinality(bd \ Listeners(bd)) <= MaxBound

(* What keeps a segment from its end: its call is under way.               *)
UntouchedInv(g, th, st) ==
    \A s \in (1..Len(g)) \ th :
       /\ \/ g[s].from = "begin"
          \/ \E i \in 1..Len(st) : st[i].seg = s /\ st[i].full
       /\ \A c \in 1..Len(g) : g[c].from = "callback" => g[c].parent # s

TracingInv ==
    /\ types \in Seq({"web", "bg"}) /\ running \subseteq 1..Len(types)
    /\ opaque \subseteq 1..Len(segments) /\ touched \subseteq 1..Len(segments)
    /\ TreeInv(segments)
    /\ CallsInv(segments, calling)
    /\ BindingsInv(segments, bound)
    /\ UntouchedInv(segments, touched, calling)

-----------------------------------------------------------------------------
(* A segment that is made, and what is known of the others. *)

GoodSegment(g, r) ==
    /\ r \in SegmentRecord
    /\ r.parent <= Len(g)
    /\ r.hangs \/ r.streamed
    /\ r.streamed \/ r.tx = r.within

LEMMA BelongsGrows ==
    ASSUME NEW g \in Seq(SegmentRecord), NEW r \in SegmentRecord, NEW s, NEW t,
           Belongs(g, s, t)
    PROVE  Belongs(Append(g, r), s, t)
<1>1. s \in 1..Len(g) /\ (g[s].streamed \/ g[s].tx = t)
  BY DEF Belongs
<1>2. Len(Append(g, r)) = Len(g) + 1 /\ Append(g, r)[s] = g[s] /\ Len(g) \in Nat
  BY <1>1
<1>3. s \in 1..Len(Append(g, r))
  BY <1>1, <1>2
<1> QED
  BY <1>1, <1>2, <1>3 DEF Belongs

LEMMA TreeGrows ==
    ASSUME NEW g, TreeInv(g), NEW r, GoodSegment(g, r)
    PROVE  /\ TreeInv(Append(g, r))
           /\ Len(Append(g, r)) = Len(g) + 1
           /\ Belongs(Append(g, r), Len(g) + 1, r.within)
<1>1. g \in Seq(SegmentRecord) /\ Len(g) \in Nat /\ r \in SegmentRecord
  BY DEF TreeInv, GoodSegment
<1>2. /\ Append(g, r) \in Seq(SegmentRecord)
      /\ Len(Append(g, r)) = Len(g) + 1
      /\ Append(g, r)[Len(g) + 1] = r
      /\ \A s \in 1..Len(g) : Append(g, r)[s] = g[s]
  BY <1>1
<1>3. Belongs(Append(g, r), Len(g) + 1, r.within)
  BY <1>1, <1>2 DEF Belongs, GoodSegment
<1>4. ASSUME NEW s \in 1..Len(Append(g, r))
      PROVE  /\ Append(g, r)[s].parent < s
             /\ Append(g, r)[s].hangs \/ Append(g, r)[s].streamed
             /\ Belongs(Append(g, r), s, Append(g, r)[s].within)
  <2>1. CASE s \in 1..Len(g)
    <3>1. g[s].parent < s /\ (g[s].hangs \/ g[s].streamed) /\ Belongs(g, s, g[s].within)
      BY <2>1 DEF TreeInv
    <3>2. Belongs(Append(g, r), s, g[s].within)
      BY <1>1, <3>1, BelongsGrows
    <3> QED
      BY <1>2, <2>1, <3>1, <3>2
  <2>2. CASE s = Len(g) + 1
    <3>1. r.parent < s /\ (r.hangs \/ r.streamed)
      <4>1. r.parent \in Nat /\ r.parent <= Len(g)
        BY <1>1 DEF GoodSegment, SegmentRecord
      <4> QED
        BY <1>1, <2>2, <4>1 DEF GoodSegment
    <3> QED
      BY <1>2, <1>3, <2>2, <3>1
  <2> QED
    BY <1>1, <1>2, <2>1, <2>2
<1> QED
  BY <1>2, <1>3, <1>4 DEF TreeInv

LEMMA CallGrows ==
    ASSUME NEW g \in Seq(SegmentRecord), NEW r \in SegmentRecord, NEW c, GoodCall(g, c)
    PROVE  GoodCall(Append(g, r), c)
BY BelongsGrows DEF GoodCall

LEMMA CallsGrow ==
    ASSUME NEW g \in Seq(SegmentRecord), NEW r \in SegmentRecord, NEW st, CallsInv(g, st)
    PROVE  CallsInv(Append(g, r), st)
BY CallGrows DEF CallsInv

LEMMA BindingsGrow ==
    ASSUME NEW g \in Seq(SegmentRecord), NEW r \in SegmentRecord, NEW bd, BindingsInv(g, bd)
    PROVE  BindingsInv(Append(g, r), bd)
<1>1. ASSUME NEW b \in bd PROVE GoodBinding(Append(g, r), b)
  <2>1. GoodBinding(g, b)
    BY DEF BindingsInv
  <2>2. b.seg \in 1..Len(Append(g, r))
    BY <2>1 DEF GoodBinding
  <2> QED
    BY <2>1, <2>2, BelongsGrows DEF GoodBinding
<1> QED
  BY <1>1 DEF BindingsInv

LEMMA Called ==
    ASSUME NEW g, NEW st, CallsInv(g, st), NEW c, GoodCall(g, c), Len(st) < MaxDepth
    PROVE  CallsInv(g, Append(st, c))
<1>1. st \in Seq(CallRecord) /\ c \in CallRecord /\ Len(st) \in Nat
  BY DEF CallsInv, GoodCall
<1>2. /\ Append(st, c) \in Seq(CallRecord)
      /\ Len(Append(st, c)) = Len(st) + 1
      /\ Append(st, c)[Len(st) + 1] = c
      /\ \A i \in 1..Len(st) : Append(st, c)[i] = st[i]
  BY <1>1
<1>3. ASSUME NEW i \in 1..(Len(st) + 1) PROVE GoodCall(g, Append(st, c)[i])
  <2>1. i \in 1..Len(st) \/ i = Len(st) + 1
    BY <1>1
  <2> QED
    BY <1>2, <2>1 DEF CallsInv
<1> QED
  BY <1>1, <1>2, <1>3, TracingAssumption DEF CallsInv

(* What is under way stays so when another call is made. *)
LEMMA UntouchedCalls ==
    ASSUME NEW g, NEW th, NEW st, UntouchedInv(g, th, st), st \in Seq(CallRecord),
           NEW th2, th \subseteq th2, NEW c \in CallRecord
    PROVE  UntouchedInv(g, th2, Append(st, c))
<1>1. /\ Len(Append(st, c)) = Len(st) + 1 /\ Len(st) \in Nat
      /\ \A i \in 1..Len(st) : Append(st, c)[i] = st[i]
  BY DEF CallRecord
<1> SUFFICES ASSUME NEW s \in (1..Len(g)) \ th2
             PROVE  /\ \/ g[s].from = "begin"
                       \/ \E i \in 1..Len(Append(st, c)) :
                             Append(st, c)[i].seg = s /\ Append(st, c)[i].full
                    /\ \A d \in 1..Len(g) : g[d].from = "callback" => g[d].parent # s
  BY DEF UntouchedInv
<1>2. /\ g[s].from = "begin" \/ \E i \in 1..Len(st) : st[i].seg = s /\ st[i].full
      /\ \A d \in 1..Len(g) : g[d].from = "callback" => g[d].parent # s
  BY DEF UntouchedInv
<1>3. ASSUME NEW i \in 1..Len(st), st[i].seg = s, st[i].full
      PROVE  i \in 1..Len(Append(st, c)) /\ Append(st, c)[i].seg = s /\ Append(st, c)[i].full
  BY <1>1, <1>3
<1> QED
  BY <1>2, <1>3

LEMMA UntouchedStays ==
    ASSUME NEW g, NEW th, NEW st, UntouchedInv(g, th, st), NEW th2, th \subseteq th2
    PROVE  UntouchedInv(g, th2, st)
BY DEF UntouchedInv

(* A segment that is made is entered, and has an end if it is a callback's *)
(* parent.                                                                 *)
LEMMA UntouchedGrows ==
    ASSUME NEW g, NEW th, NEW st, TreeInv(g), UntouchedInv(g, th, st),
           NEW r, GoodSegment(g, r),
           r.from = "callback" => r.parent \in th,
           r.from = "begin" \/ \E i \in 1..Len(st) : st[i].seg = Len(g) + 1 /\ st[i].full
    PROVE  UntouchedInv(Append(g, r), th, st)
<1>1. g \in Seq(SegmentRecord) /\ Len(g) \in Nat /\ r \in SegmentRecord
  BY DEF TreeInv, GoodSegment
<1>2. /\ Len(Append(g, r)) = Len(g) + 1
      /\ Append(g, r)[Len(g) + 1] = r
      /\ \A s \in 1..Len(g) : Append(g, r)[s] = g[s]
  BY <1>1
<1>3. /\ \A d \in 1..Len(g) : g[d].parent \in Nat /\ g[d].parent < d
      /\ r.parent \in Nat /\ r.parent < Len(g) + 1
  <2>1. \A d \in 1..Len(g) : g[d] \in SegmentRecord
    BY <1>1
  <2> QED
    BY <1>1, <2>1 DEF TreeInv, GoodSegment, SegmentRecord
<1> SUFFICES ASSUME NEW s \in (1..(Len(g) + 1)) \ th
             PROVE  /\ \/ Append(g, r)[s].from = "begin"
                       \/ \E i \in 1..Len(st) : st[i].seg = s /\ st[i].full
                    /\ \A d \in 1..(Len(g) + 1) :
                          Append(g, r)[d].from = "callback" => Append(g, r)[d].parent # s
  BY <1>2 DEF UntouchedInv
<1>4. CASE s = Len(g) + 1
  <2>1. ASSUME NEW d \in 1..(Len(g) + 1) PROVE Append(g, r)[d].parent # s
    <3>1. d \in 1..Len(g) \/ d = Len(g) + 1
      BY <1>1
    <3>2. CASE d \in 1..Len(g)
      BY <1>1, <1>2, <1>3, <1>4, <3>2
    <3>3. CASE d = Len(g) + 1
      BY <1>1, <1>2, <1>3, <1>4, <3>3
    <3> QED
      BY <3>1, <3>2, <3>3
  <2> QED
    BY <1>2, <1>4, <2>1
<1>5. CASE s \in 1..Len(g)
  <2>1. /\ g[s].from = "begin" \/ \E i \in 1..Len(st) : st[i].seg = s /\ st[i].full
        /\ \A d \in 1..Len(g) : g[d].from = "callback" => g[d].parent # s
    BY <1>5 DEF UntouchedInv
  <2>2. ASSUME NEW d \in 1..(Len(g) + 1), Append(g, r)[d].from = "callback"
        PROVE  Append(g, r)[d].parent # s
    <3>1. d \in 1..Len(g) \/ d = Len(g) + 1
      BY <1>1
    <3> QED
      BY <1>2, <2>1, <2>2, <3>1
  <2> QED
    BY <1>2, <1>5, <2>1, <2>2
<1> QED
  BY <1>1, <1>4, <1>5

-----------------------------------------------------------------------------
(* The call under way. *)
LEMMA CurrentIsGood ==
    ASSUME TracingInv
    PROVE  /\ GoodCall(segments, Tracing!Current)
           /\ Tracing!Current.tx \in running =>
                 Belongs(segments, Tracing!Current.seg, Tracing!Current.tx)
           /\ calling # <<>> => Tracing!Current = calling[Len(calling)]
<1>1. calling \in Seq(CallRecord) /\ running \subseteq 1..Len(types) /\ Len(types) \in Nat
  BY DEF TracingInv, CallsInv
<1>2. CASE calling = <<>>
  <2>1. Tracing!Current = [tx |-> 0, seg |-> 0, full |-> FALSE, then |-> "nothing"]
    BY <1>2 DEF Tracing!Current, Tracing!NoCall, Tracing!Nil
  <2>2. Tracing!Current.tx = 0 /\ Tracing!Current.tx \notin running
    BY <1>1, <2>1
  <2> QED
    BY <1>2, <2>1, <2>2 DEF GoodCall, CallRecord
<1>3. CASE calling # <<>>
  <2>1. Tracing!Current = calling[Len(calling)]
    BY <1>3 DEF Tracing!Current, Tracing!Last
  <2>2. Len(calling) \in 1..Len(calling)
    BY <1>1, <1>3
  <2>3. GoodCall(segments, Tracing!Current)
    BY <2>1, <2>2 DEF TracingInv, CallsInv
  <2>4. Tracing!Current.tx \in running => Tracing!Current.tx # 0
    BY <1>1
  <2> QED
    BY <2>1, <2>3, <2>4 DEF GoodCall
<1> QED
  BY <1>2, <1>3

(* A segment is made below one that belongs to its transaction, or by a    *)
(* stream.                                                                 *)
GoodMake(p, t, w, kind, from) ==
    /\ t \in Nat /\ w \in Nat
    /\ kind \in {"plain", "opaque", "internal"}
    /\ from \in {"begin", "call", "callback", "event", "listener"}
    /\ \/ p = 0
       \/ Belongs(segments, p, t)
       \/ p \in 1..Len(segments) /\ from \in {"event", "listener"}
    /\ t = w \/ from = "event"

LEMMA Made ==
    ASSUME TracingInv, NEW p, NEW t, NEW w, NEW kind, NEW from,
           GoodMake(p, t, w, kind, from), Tracing!Make(p, t, w, kind, from)
    PROVE  \E r : /\ GoodSegment(segments, r) /\ segments' = Append(segments, r)
                  /\ r.parent = p /\ r.from = from /\ r.within = w
                  /\ Belongs(segments', Len(segments'), w)
                  /\ Len(segments') = Len(segments) + 1
<1>1. TreeInv(segments) /\ segments \in Seq(SegmentRecord) /\ Len(segments) \in Nat
  BY DEF TracingInv, TreeInv
<1> USE DEF GoodMake
<1> DEFINE hangs == Tracing!Hangs(p, t)
           streamed == Tracing!Streamed(p, from)
<1>2. PICK r : r = [parent |-> p, tx |-> t, within |-> w, hangs |-> hangs,
                    kind |-> kind, from |-> from, streamed |-> streamed]
  OBVIOUS
<1>3. segments' = Append(segments, r)
  BY <1>2 DEF Tracing!Make
<1>4. p \in Nat /\ p <= Len(segments)
  BY <1>1 DEF Belongs
<1>5. p \in 1..Len(segments) =>
        /\ segments[p] \in SegmentRecord /\ segments[p].hangs \in BOOLEAN
        /\ segments[p].streamed \in BOOLEAN
        /\ segments[p].hangs \/ segments[p].streamed
  <2>1. \A s \in 1..Len(segments) : segments[s] \in SegmentRecord
    BY <1>1
  <2> QED
    BY <1>1, <2>1 DEF TreeInv, SegmentRecord
<1>6. hangs \in BOOLEAN /\ streamed \in BOOLEAN /\ (hangs \/ streamed)
  <2>1. CASE p = 0
    BY <2>1 DEF Tracing!Hangs, Tracing!Streamed, Tracing!Nil
  <2>2. CASE p # 0
    <3>1. p \in 1..Len(segments)
      BY <1>1, <1>4, <2>2
    <3> QED
      BY <1>5, <2>2, <3>1 DEF Tracing!Hangs, Tracing!Streamed, Tracing!Nil, Belongs
  <2> QED
    BY <2>1, <2>2
<1>7. from = "event" => streamed
  BY DEF Tracing!Streamed
<1> HIDE DEF hangs, streamed
<1>8. GoodSegment(segments, r)
  BY <1>2, <1>4, <1>6, <1>7 DEF GoodSegment, SegmentRecord
<1>9. r.parent = p /\ r.from = from /\ r.within = w
  BY <1>2
<1> QED
  BY <1>1, <1>3, <1>8, <1>9, TreeGrows

(* What a step leaves to the segments, the calls and what is under way. *)
Kept ==
    /\ TreeInv(segments') /\ CallsInv(segments', calling')
    /\ UntouchedInv(segments', touched', calling')
    /\ touched' \subseteq 1..Len(segments')

LEMMA EnterMade ==
    ASSUME TracingInv, NEW r, GoodSegment(segments, r), segments' = Append(segments, r),
           NEW c, c \in CallRecord, c.seg = Len(segments'), c.tx = r.within,
           c.then = "end" => ~c.full,
           calling' = Append(calling, c), Len(calling) < MaxDepth,
           touched \subseteq touched', touched' \subseteq 1..Len(segments),
           r.from = "callback" => r.parent \in touched',
           r.from = "begin" \/ c.full
    PROVE  Kept /\ BindingsInv(segments', bound)
<1>1. /\ TreeInv(segments) /\ CallsInv(segments, calling) /\ BindingsInv(segments, bound)
      /\ UntouchedInv(segments, touched, calling)
      /\ segments \in Seq(SegmentRecord) /\ r \in SegmentRecord /\ Len(segments) \in Nat
      /\ calling \in Seq(CallRecord)
  BY DEF TracingInv, TreeInv, GoodSegment, CallsInv
<1>2. /\ TreeInv(segments') /\ Len(segments') = Len(segments) + 1
      /\ Belongs(segments', Len(segments'), r.within)
  BY <1>1, TreeGrows
<1>3. CallsInv(segments', calling) /\ BindingsInv(segments', bound)
  BY <1>1, CallsGrow, BindingsGrow
<1>4. GoodCall(segments', c)
  <2>1. Belongs(segments', c.seg, c.tx)
    BY <1>2
  <2> QED
    BY <2>1 DEF GoodCall
<1>5. CallsInv(segments', calling')
  BY <1>3, <1>4, Called
<1>6. UntouchedInv(segments, touched', calling')
  BY <1>1, UntouchedCalls
<1>7. r.from = "begin" \/ \E i \in 1..Len(calling') :
                             calling'[i].seg = Len(segments) + 1 /\ calling'[i].full
  <2>1. Len(calling') = Len(calling) + 1 /\ calling'[Len(calling) + 1] = c /\ Len(calling) \in Nat
    BY <1>1
  <2>2. Len(calling) + 1 \in 1..Len(calling')
    BY <2>1
  <2> QED
    BY <1>2, <2>1, <2>2
<1>8. UntouchedInv(segments', touched', calling')
  BY <1>1, <1>6, <1>7, UntouchedGrows
<1>9. touched' \subseteq 1..Len(segments')
  BY <1>1, <1>2
<1> QED
  BY <1>2, <1>3, <1>5, <1>8, <1>9 DEF Kept

LEMMA EnterKnown ==
    ASSUME TracingInv, UNCHANGED segments, NEW c, GoodCall(segments, c),
           calling' = Append(calling, c), Len(calling) < MaxDepth,
           touched \subseteq touched', touched' \subseteq 1..Len(segments)
    PROVE  Kept
<1>1. /\ TreeInv(segments) /\ CallsInv(segments, calling) /\ c \in CallRecord
      /\ UntouchedInv(segments, touched, calling) /\ calling \in Seq(CallRecord)
  BY DEF TracingInv, CallsInv, GoodCall
<1>2. CallsInv(segments', calling')
  BY <1>1, Called
<1>3. UntouchedInv(segments', touched', calling')
  BY <1>1, UntouchedCalls
<1> QED
  BY <1>1, <1>2, <1>3 DEF Kept

LEMMA NoneEntered ==
    ASSUME TracingInv, UNCHANGED <<segments, calling>>,
           touched \subseteq touched', touched' \subseteq 1..Len(segments)
    PROVE  Kept
BY UntouchedStays DEF Kept, TracingInv

(* The call under way returns: an end is what the segment of a full one    *)
(* gets.                                                                   *)
LEMMA Left ==
    ASSUME TracingInv, calling # <<>>, calling' = Tracing!Front(calling), UNCHANGED segments,
           touched \subseteq touched', touched' \subseteq 1..Len(segments),
           Tracing!Current.full => Tracing!Current.seg \in touched'
    PROVE  Kept
<1>1. /\ TreeInv(segments) /\ CallsInv(segments, calling)
      /\ UntouchedInv(segments, touched, calling) /\ calling \in Seq(CallRecord)
      /\ Len(calling) \in Nat /\ Len(calling) >= 1
  BY DEF TracingInv, CallsInv
<1>2. /\ Len(calling') = Len(calling) - 1 /\ calling' \in Seq(CallRecord)
      /\ \A i \in 1..(Len(calling) - 1) : calling'[i] = calling[i]
  <2>1. PICK n, q : n = Len(calling) - 1 /\ q = SubSeq(calling, 1, n)
    OBVIOUS
  <2>2. 1 \in Int /\ n \in Int /\ n >= 0 /\ \A i \in 1..n : calling[i] \in CallRecord
    BY <1>1, <2>1
  <2>3. /\ q \in Seq(CallRecord) /\ Len(q) = (IF 1 <= n THEN n - 1 + 1 ELSE 0)
        /\ \A i \in 1..(n - 1 + 1) : q[i] = calling[1 + i - 1]
    BY <2>1, <2>2, SubSeqProperties
  <2>4. Len(q) = n
    BY <2>2, <2>3
  <2>5. \A i \in 1..n : q[i] = calling[i]
    BY <2>2, <2>3
  <2>6. calling' = q
    BY <2>1 DEF Tracing!Front
  <2> QED
    BY <2>1, <2>3, <2>4, <2>5, <2>6
<1>3. Tracing!Current = calling[Len(calling)]
  BY CurrentIsGood
<1>4. CallsInv(segments', calling')
  <2>1. ASSUME NEW i \in 1..Len(calling') PROVE GoodCall(segments, calling'[i])
    BY <1>1, <1>2 DEF CallsInv
  <2>2. Len(calling') <= MaxDepth
    BY <1>1, <1>2, TracingAssumption DEF CallsInv
  <2> QED
    BY <1>2, <2>1, <2>2 DEF CallsInv
<1>5. ASSUME NEW s \in (1..Len(segments)) \ touched'
      PROVE  /\ \/ segments[s].from = "begin"
                \/ \E i \in 1..Len(calling') : calling'[i].seg = s /\ calling'[i].full
             /\ \A d \in 1..Len(segments) : segments[d].from = "callback" => segments[d].parent # s
  <2>1. /\ segments[s].from = "begin" \/ \E i \in 1..Len(calling) : calling[i].seg = s /\ calling[i].full
        /\ \A d \in 1..Len(segments) : segments[d].from = "callback" => segments[d].parent # s
    BY <1>1 DEF UntouchedInv
  <2>2. ASSUME NEW i \in 1..Len(calling), calling[i].seg = s, calling[i].full
        PROVE  i \in 1..Len(calling') /\ calling'[i].seg = s /\ calling'[i].full
    <3>1. i # Len(calling)
      BY <1>3, <2>2
    <3>2. i \in 1..(Len(calling) - 1)
      BY <1>1, <3>1
    <3> QED
      BY <1>2, <2>2, <3>2
  <2> QED
    BY <2>1, <2>2
<1>6. UntouchedInv(segments', touched', calling')
  BY <1>5 DEF UntouchedInv
<1> QED
  BY <1>1, <1>4, <1>6 DEF Kept

-----------------------------------------------------------------------------
(* What is bound. *)

LEMMA Bound ==
    ASSUME NEW g, NEW bd, NEW bd2, BindingsInv(g, bd), NEW b, GoodBinding(g, b),
           bd2 = bd \cup {b},
           Cardinality(Listeners(bd2)) <= MaxListeners,
           Cardinality(bd2 \ Listeners(bd2)) <= MaxBound
    PROVE  BindingsInv(g, bd2)
BY FS_AddElement DEF BindingsInv

LEMMA Unbound ==
    ASSUME NEW g, NEW bd, BindingsInv(g, bd), NEW b \in bd
    PROVE  BindingsInv(g, bd \ {b})
<1> DEFINE bd2 == bd \ {b}
<1>1. /\ IsFiniteSet(bd2) /\ IsFiniteSet(Listeners(bd)) /\ IsFiniteSet(bd \ Listeners(bd))
      /\ Cardinality(Listeners(bd)) <= MaxListeners
      /\ Cardinality(bd \ Listeners(bd)) <= MaxBound
  <2>1. IsFiniteSet(bd) /\ Listeners(bd) \subseteq bd
    BY DEF BindingsInv, Listeners
  <2> QED
    BY <2>1, FS_Subset DEF BindingsInv
<1>2. Listeners(bd2) \subseteq Listeners(bd) /\ (bd2 \ Listeners(bd2)) \subseteq bd \ Listeners(bd)
  BY DEF Listeners
<1>3. /\ Cardinality(Listeners(bd2)) <= Cardinality(Listeners(bd))
      /\ Cardinality(bd2 \ Listeners(bd2)) <= Cardinality(bd \ Listeners(bd))
      /\ Cardinality(Listeners(bd2)) \in Nat /\ Cardinality(bd2 \ Listeners(bd2)) \in Nat
      /\ Cardinality(Listeners(bd)) \in Nat /\ Cardinality(bd \ Listeners(bd)) \in Nat
  BY <1>1, <1>2, FS_Subset, FS_CardinalityType
<1>4. /\ Cardinality(Listeners(bd2)) <= MaxListeners
      /\ Cardinality(bd2 \ Listeners(bd2)) <= MaxBound
  BY <1>1, <1>3, TracingAssumption
<1>5. \A c \in bd2 : GoodBinding(g, c)
  BY DEF BindingsInv
<1> HIDE DEF bd2
<1>6. BindingsInv(g, bd2)
  BY <1>1, <1>4, <1>5 DEF BindingsInv
<1> QED
  BY <1>6 DEF bd2

(* The event of a stream is measured in the place of none. *)
LEMMA Rebound ==
    ASSUME NEW g, NEW bd, BindingsInv(g, bd), NEW b \in bd, b.is = "stream",
           NEW c, GoodBinding(g, c), c.is = "stream"
    PROVE  BindingsInv(g, (bd \ {b}) \cup {c})
<1> DEFINE bd2 == (bd \ {b}) \cup {c}
           rest == bd \ Listeners(bd)
<1>1. IsFiniteSet(bd) /\ IsFiniteSet(rest) /\ Cardinality(rest) \in Nat /\ IsFiniteSet(rest \ {b})
  BY FS_Subset, FS_CardinalityType DEF BindingsInv
<1>2. IsFiniteSet(bd2)
  BY <1>1, FS_RemoveElement, FS_AddElement
<1>3. Listeners(bd2) = Listeners(bd) /\ b \in rest /\ bd2 \ Listeners(bd2) = (rest \ {b}) \cup {c}
  BY DEF Listeners
<1>4. Cardinality(rest \ {b}) = Cardinality(rest) - 1
  BY <1>1, <1>3, FS_RemoveElement
<1>5. \/ Cardinality((rest \ {b}) \cup {c}) = Cardinality(rest \ {b}) + 1
      \/ Cardinality((rest \ {b}) \cup {c}) = Cardinality(rest \ {b})
  BY <1>1, FS_AddElement
<1>6. Cardinality(rest) <= MaxBound
  BY DEF BindingsInv
<1>7. Cardinality((rest \ {b}) \cup {c}) <= MaxBound
  <2> HIDE DEF rest
  <2> QED
    BY <1>1, <1>4, <1>5, <1>6, TracingAssumption
<1>8. /\ Cardinality(Listeners(bd2)) <= MaxListeners
      /\ Cardinality(bd2 \ Listeners(bd2)) <= MaxBound
  <2>1. Cardinality(Listeners(bd)) <= MaxListeners
    BY DEF BindingsInv
  <2> HIDE DEF rest, bd2
  <2> QED
    BY <1>3, <1>7, <2>1
<1>9. \A d \in bd2 : GoodBinding(g, d)
  BY DEF BindingsInv
<1> HIDE DEF bd2, rest
<1>10. BindingsInv(g, bd2)
  BY <1>2, <1>8, <1>9 DEF BindingsInv
<1> QED
  BY <1>10 DEF bd2

-----------------------------------------------------------------------------
(* The steps *)

LEMMA TracingInit == Tracing!Init => TracingInv
<1> SUFFICES ASSUME Tracing!Init PROVE TracingInv
  OBVIOUS
<1>1. /\ types = <<>> /\ running = {} /\ segments = <<>> /\ opaque = {} /\ touched = {}
      /\ calling = <<>> /\ bound = {}
  BY DEF Tracing!Init
<1>2. Listeners(bound) = {} /\ bound \ Listeners(bound) = {}
  BY <1>1 DEF Listeners
<1>3. IsFiniteSet({}) /\ Cardinality({}) = 0
  BY FS_EmptySet
<1>4. BindingsInv(segments, bound)
  <2>1. \A b \in bound : GoodBinding(segments, b)
    BY <1>1
  <2>2. IsFiniteSet(bound) /\ Cardinality(Listeners(bound)) = 0 /\ Cardinality(bound \ Listeners(bound)) = 0
    BY <1>1, <1>2, <1>3
  <2> QED
    BY <2>1, <2>2, TracingAssumption DEF BindingsInv
<1> QED
  BY <1>1, <1>4, TracingAssumption DEF TracingInv, TreeInv, CallsInv, UntouchedInv

(* What a step does to the rest. *)
LEMMA TracingKept ==
    ASSUME Kept, BindingsInv(segments', bound'), types' \in Seq({"web", "bg"}),
           running' \subseteq 1..Len(types'), opaque' \subseteq 1..Len(segments')
    PROVE  TracingInv'
BY DEF Kept, TracingInv

LEMMA TurnKeeps == ASSUME TracingInv, Tracing!Turn PROVE TracingInv'
<1>1. PICK s \in 1..Len(segments) : Tracing!Call(segments[s].within, s, FALSE, "nothing")
  BY DEF Tracing!Turn, Tracing!Segment
<1>2. segments \in Seq(SegmentRecord) /\ Belongs(segments, s, segments[s].within)
  BY DEF TracingInv, TreeInv
<1>3. segments[s].within \in Nat
  <2>1. segments[s] \in SegmentRecord
    BY <1>2
  <2> QED
    BY <2>1 DEF SegmentRecord
<1>4. PICK c : c = [tx |-> segments[s].within, seg |-> s, full |-> FALSE, then |-> "nothing"]
  OBVIOUS
<1>5. calling' = Append(calling, c) /\ Len(calling) < MaxDepth
  BY <1>1, <1>4 DEF Tracing!Call
<1>6. GoodCall(segments, c)
  BY <1>2, <1>3, <1>4 DEF GoodCall, CallRecord
<1>7. UNCHANGED <<types, running, segments, opaque, touched, bound>>
  BY DEF Tracing!Turn
<1>8. Kept
  BY <1>5, <1>6, <1>7, EnterKnown DEF TracingInv
<1> QED
  BY <1>7, <1>8, TracingKept DEF TracingInv

LEMMA BeginKeeps ==
    ASSUME TracingInv, NEW type \in {"web", "bg"}, Tracing!Begin(type)
    PROVE  TracingInv'
<1>1. /\ types' = Append(types, type) /\ running' = running \cup {Len(types')}
      /\ Tracing!Make(0, Len(types'), Len(types'), "plain", "begin")
      /\ Tracing!Call(Len(types'), Len(segments'), FALSE, "end")
      /\ UNCHANGED <<opaque, touched, bound>>
  BY DEF Tracing!Begin, Tracing!Nil
<1>2. /\ types' \in Seq({"web", "bg"}) /\ Len(types') = Len(types) + 1 /\ Len(types) \in Nat
      /\ running \subseteq 1..Len(types)
  BY <1>1 DEF TracingInv
<1>3. PICK n \in Nat : n = Len(types')
  BY <1>2
<1>4. Tracing!Make(0, n, n, "plain", "begin")
  BY <1>1, <1>3 DEF Tracing!Make
<1>5. PICK r : /\ GoodSegment(segments, r) /\ segments' = Append(segments, r)
               /\ r.from = "begin" /\ r.within = n
               /\ Len(segments') = Len(segments) + 1
  <2>1. GoodMake(0, n, n, "plain", "begin")
    BY <1>3 DEF GoodMake
  <2> QED
    BY <1>4, <2>1, Made
<1>6. PICK c : c = [tx |-> n, seg |-> Len(segments'), full |-> FALSE, then |-> "end"]
  OBVIOUS
<1>7. calling' = Append(calling, c) /\ Len(calling) < MaxDepth
  BY <1>1, <1>3, <1>6 DEF Tracing!Call
<1>8. Len(segments) \in Nat /\ touched \subseteq 1..Len(segments) /\ opaque \subseteq 1..Len(segments)
  BY DEF TracingInv, TreeInv
<1>9. c \in CallRecord /\ c.seg = Len(segments') /\ c.tx = n /\ ~c.full
  BY <1>5, <1>6, <1>8 DEF CallRecord
<1>10. Kept /\ BindingsInv(segments', bound)
  BY <1>1, <1>5, <1>7, <1>8, <1>9, EnterMade
<1>11. running' \subseteq 1..Len(types') /\ opaque' \subseteq 1..Len(segments')
  <2>1. running' \subseteq 1..Len(types')
    <3>1. running' = running \cup {n} /\ n = Len(types) + 1
      BY <1>1, <1>2, <1>3
    <3>2. running \subseteq 1..(n - 1)
      BY <1>2, <3>1
    <3>3. ASSUME NEW t \in running' PROVE t \in 1..n
      <4>1. t \in 1..(n - 1) \/ t = n
        BY <3>1, <3>2
      <4> QED
        BY <1>2, <3>1, <4>1
    <3> QED
      BY <1>3, <3>3
  <2> QED
    BY <1>1, <1>5, <1>8, <2>1
<1> QED
  BY <1>1, <1>2, <1>10, <1>11, TracingKept

(* A function that is called in a segment below the current one. *)
LEMMA MadeAndCalled ==
    ASSUME TracingInv, Tracing!Current.tx \in running,
           NEW kind \in {"plain", "opaque", "internal"},
           Tracing!Make(Tracing!Current.seg, Tracing!Current.tx, Tracing!Current.tx, kind, "call"),
           NEW then \in {"nothing", "promise", "stream", "innerstream"},
           Tracing!Call(Tracing!Current.tx, Len(segments'), TRUE, then),
           UNCHANGED touched
    PROVE  /\ Kept /\ BindingsInv(segments', bound)
           /\ Len(segments') = Len(segments) + 1 /\ Len(segments) \in Nat
           /\ Belongs(segments', Len(segments'), Tracing!Current.tx)
           /\ Tracing!Current.tx \in Nat
<1>1. /\ Belongs(segments, Tracing!Current.seg, Tracing!Current.tx)
      /\ GoodCall(segments, Tracing!Current)
  BY CurrentIsGood
<1>2. PICK p, t : p = Tracing!Current.seg /\ t = Tracing!Current.tx
  OBVIOUS
<1>3. t \in Nat
  BY <1>1, <1>2 DEF GoodCall, CallRecord
<1>4. Tracing!Make(p, t, t, kind, "call") /\ Belongs(segments, p, t)
  BY <1>1, <1>2 DEF Tracing!Make
<1>5. PICK r : /\ GoodSegment(segments, r) /\ segments' = Append(segments, r)
               /\ r.from = "call" /\ r.within = t
               /\ Belongs(segments', Len(segments'), t)
               /\ Len(segments') = Len(segments) + 1
  <2>1. GoodMake(p, t, t, kind, "call")
    BY <1>3, <1>4 DEF GoodMake
  <2> QED
    BY <1>4, <2>1, Made
<1>6. PICK c : c = [tx |-> t, seg |-> Len(segments'), full |-> TRUE, then |-> then]
  OBVIOUS
<1>7. calling' = Append(calling, c) /\ Len(calling) < MaxDepth
  BY <1>2, <1>6 DEF Tracing!Call
<1>8. Len(segments) \in Nat /\ touched \subseteq 1..Len(segments)
  BY DEF TracingInv, TreeInv
<1>9. c \in CallRecord /\ c.seg = Len(segments') /\ c.tx = t /\ c.full /\ c.then # "end"
  BY <1>3, <1>5, <1>6, <1>8 DEF CallRecord
<1>10. Kept /\ BindingsInv(segments', bound)
  BY <1>5, <1>7, <1>8, <1>9, EnterMade
<1> QED
  BY <1>2, <1>3, <1>5, <1>8, <1>10

(* A function that is called in the current segment. *)
LEMMA CalledWithin ==
    ASSUME TracingInv, Tracing!Current.tx \in running, UNCHANGED <<segments, touched>>,
           NEW then \in {"nothing", "promise", "stream", "innerstream"},
           Tracing!Call(Tracing!Current.tx, Tracing!Current.seg, TRUE, then)
    PROVE  Kept
<1>1. /\ Belongs(segments, Tracing!Current.seg, Tracing!Current.tx)
      /\ GoodCall(segments, Tracing!Current)
  BY CurrentIsGood
<1>2. PICK p, t : p = Tracing!Current.seg /\ t = Tracing!Current.tx
  OBVIOUS
<1>3. t \in Nat /\ p \in Nat
  BY <1>1, <1>2 DEF GoodCall, CallRecord
<1>4. PICK c : c = [tx |-> t, seg |-> p, full |-> TRUE, then |-> then]
  OBVIOUS
<1>5. calling' = Append(calling, c) /\ Len(calling) < MaxDepth
  BY <1>2, <1>4 DEF Tracing!Call
<1>6. GoodCall(segments, c)
  BY <1>1, <1>2, <1>3, <1>4 DEF GoodCall, CallRecord
<1> QED
  BY <1>5, <1>6, EnterKnown DEF TracingInv

LEMMA BeginNestedKeeps ==
    ASSUME TracingInv, NEW type \in {"web", "bg"}, Tracing!BeginNested(type)
    PROVE  TracingInv'
<1>1. Tracing!Current.tx \in running /\ UNCHANGED <<types, running, opaque, touched, bound>>
  BY DEF Tracing!BeginNested
<1>2. CASE UNCHANGED segments /\ Tracing!Call(Tracing!Current.tx, Tracing!Current.seg, TRUE, "nothing")
  <2>1. Kept
    BY <1>1, <1>2, CalledWithin
  <2> QED
    BY <1>1, <1>2, <2>1, TracingKept DEF TracingInv
<1>3. CASE /\ Tracing!Make(Tracing!Current.seg, Tracing!Current.tx, Tracing!Current.tx, "plain", "call")
           /\ Tracing!Call(Tracing!Current.tx, Len(segments'), TRUE, "nothing")
  <2>1. /\ Kept /\ BindingsInv(segments', bound)
        /\ Len(segments') = Len(segments) + 1 /\ Len(segments) \in Nat
    BY <1>1, <1>3, MadeAndCalled
  <2>2. opaque' \subseteq 1..Len(segments')
    BY <1>1, <2>1 DEF TracingInv
  <2> QED
    BY <1>1, <2>1, <2>2, TracingKept DEF TracingInv
<1> QED
  BY <1>2, <1>3 DEF Tracing!BeginNested

LEMMA BindKeeps ==
    ASSUME NEW g, NEW b, BindingsInv(g, bound), GoodBinding(g, b), Tracing!Bind(b)
    PROVE  BindingsInv(g, bound')
<1>1. /\ bound' = bound \cup {b}
      /\ Cardinality(Listeners(bound')) <= MaxListeners
      /\ Cardinality(bound' \ Listeners(bound')) <= MaxBound
  BY DEF Tracing!Bind, Tracing!Cardinality, Cardinality, Listeners
<1> QED
  BY <1>1, Bound

LEMMA RecordKeeps ==
    ASSUME TracingInv, NEW kind \in {"plain", "opaque", "internal"},
           NEW leaves \in {"nothing", "callback", "promise", "stream"},
           Tracing!Record(kind, leaves)
    PROVE  TracingInv'
<1>1. /\ Tracing!Current.tx \in running /\ UNCHANGED <<types, running, touched>>
      /\ Tracing!RecordWithin(leaves) \/ Tracing!RecordOwn(kind, leaves)
  BY DEF Tracing!Record
<1>2. /\ opaque \subseteq 1..Len(segments) /\ BindingsInv(segments, bound)
      /\ types \in Seq({"web", "bg"}) /\ running \subseteq 1..Len(types)
  BY DEF TracingInv
<1>3. CASE Tracing!RecordWithin(leaves)
  <2>1. UNCHANGED <<segments, opaque>>
    BY <1>3 DEF Tracing!RecordWithin
  <2>2. CASE leaves = "callback"
    <3>1. /\ Tracing!Bind(Tracing!Binding("bound", Tracing!Current.seg))
          /\ Tracing!Call(Tracing!Current.tx, Tracing!Current.seg, TRUE, "nothing")
      BY <1>3, <2>2 DEF Tracing!RecordWithin
    <3>2. Kept
      BY <1>1, <2>1, <3>1, CalledWithin
    <3>3. PICK b : b = Tracing!Binding("bound", Tracing!Current.seg)
      OBVIOUS
    <3>4. /\ Belongs(segments, Tracing!Current.seg, Tracing!Current.tx)
          /\ Tracing!Current.seg \in 1..Len(segments) /\ Tracing!Current.tx \in Nat
          /\ Tracing!Current.seg \in Nat
      BY <1>1, CurrentIsGood DEF Belongs, GoodCall, CallRecord
    <3>5. b = [is |-> "bound", tx |-> Tracing!Current.tx, seg |-> Tracing!Current.seg, event |-> 0]
      BY <3>3 DEF Tracing!Binding, Tracing!Nil
    <3>6. GoodBinding(segments, b)
      BY <3>4, <3>5 DEF GoodBinding, BindingRecord
    <3>7. BindingsInv(segments, bound')
      BY <1>2, <3>1, <3>3, <3>6, BindKeeps
    <3> QED
      BY <1>1, <1>2, <2>1, <3>2, <3>7, TracingKept
  <2>3. CASE leaves # "callback"
    <3>1. PICK then \in {"nothing", "promise", "stream", "innerstream"} :
             then = IF leaves = "stream" THEN "innerstream" ELSE leaves
      BY <2>3
    <3>2. /\ UNCHANGED bound
          /\ Tracing!Call(Tracing!Current.tx, Tracing!Current.seg, TRUE, then)
      BY <1>3, <2>3, <3>1 DEF Tracing!RecordWithin
    <3>3. Kept
      BY <1>1, <2>1, <3>2, CalledWithin
    <3> QED
      BY <1>1, <1>2, <2>1, <3>2, <3>3, TracingKept
  <2> QED
    BY <2>2, <2>3
<1>4. CASE Tracing!RecordOwn(kind, leaves)
  <2>1. /\ Tracing!Make(Tracing!Current.seg, Tracing!Current.tx, Tracing!Current.tx, kind, "call")
        /\ opaque' = opaque \/ opaque' = opaque \cup {Len(segments')}
    BY <1>4 DEF Tracing!RecordOwn
  <2>2. PICK then \in {"nothing", "promise", "stream", "innerstream"} :
           Tracing!Call(Tracing!Current.tx, Len(segments'), TRUE, then)
    <3>1. CASE leaves = "callback"
      BY <1>4, <3>1 DEF Tracing!RecordOwn
    <3>2. CASE leaves # "callback"
      <4>1. leaves \in {"nothing", "promise", "stream", "innerstream"}
        BY <3>2
      <4>2. Tracing!Call(Tracing!Current.tx, Len(segments'), TRUE, leaves)
        BY <1>4, <3>2 DEF Tracing!RecordOwn
      <4> QED
        BY <4>1, <4>2
    <3> QED
      BY <3>1, <3>2
  <2>3. /\ Kept /\ BindingsInv(segments', bound)
        /\ Len(segments') = Len(segments) + 1 /\ Len(segments) \in Nat
        /\ Belongs(segments', Len(segments'), Tracing!Current.tx)
        /\ Tracing!Current.tx \in Nat
    BY <1>1, <2>1, <2>2, MadeAndCalled
  <2>4. opaque' \subseteq 1..Len(segments')
    <3>1. /\ Len(segments') \in 1..Len(segments')
          /\ 1..Len(segments) \subseteq 1..Len(segments')
      BY <2>3
    <3>2. opaque' \subseteq opaque \cup {Len(segments')} /\ opaque \subseteq 1..Len(segments)
      BY <1>2, <2>1
    <3> QED
      BY <3>1, <3>2
  <2>5. BindingsInv(segments', bound')
    <3>1. CASE leaves = "callback"
      <4>1. Tracing!Bind(Tracing!Binding("callback", Len(segments')))
        BY <1>4, <3>1 DEF Tracing!RecordOwn
      <4>2. PICK b, g : b = Tracing!Binding("callback", Len(segments')) /\ g = segments'
        OBVIOUS
      <4>3. b = [is |-> "callback", tx |-> Tracing!Current.tx, seg |-> Len(g), event |-> 0]
        BY <4>2 DEF Tracing!Binding, Tracing!Nil
      <4>4. Len(g) \in Nat /\ Belongs(g, Len(g), Tracing!Current.tx) /\ Len(g) \in 1..Len(g)
        BY <2>3, <4>2
      <4>5. GoodBinding(g, b)
        BY <2>3, <4>3, <4>4 DEF GoodBinding, BindingRecord
      <4>6. Tracing!Bind(b)
        BY <4>1, <4>2 DEF Tracing!Bind
      <4> QED
        BY <2>3, <4>2, <4>5, <4>6, BindKeeps
    <3>2. CASE leaves # "callback"
      BY <1>4, <2>3, <3>2 DEF Tracing!RecordOwn
    <3> QED
      BY <3>1, <3>2
  <2> QED
    BY <1>1, <1>2, <2>3, <2>4, <2>5, TracingKept
<1> QED
  BY <1>1, <1>3, <1>4

LEMMA ReturnKeeps == ASSUME TracingInv, Tracing!Return PROVE TracingInv'
<1>1. /\ calling # <<>> /\ calling' = Tracing!Front(calling)
      /\ UNCHANGED <<types, segments, opaque>>
  BY DEF Tracing!Return
<1>2. /\ opaque \subseteq 1..Len(segments) /\ touched \subseteq 1..Len(segments)
      /\ BindingsInv(segments, bound)
      /\ types \in Seq({"web", "bg"}) /\ running \subseteq 1..Len(types)
      /\ GoodCall(segments, Tracing!Current)
  BY CurrentIsGood DEF TracingInv
<1>3. CASE /\ Tracing!Current.then = "end" /\ Tracing!End(Tracing!Current.tx) /\ UNCHANGED bound
  <2>1. /\ running' \subseteq running /\ touched \subseteq touched'
        /\ touched' \subseteq 1..Len(segments)
    BY <1>2, <1>3 DEF Tracing!End, Tracing!Segment
  <2>2. ~Tracing!Current.full
    BY <1>2, <1>3 DEF GoodCall
  <2>3. Kept
    BY <1>1, <2>1, <2>2, Left
  <2> QED
    BY <1>1, <1>2, <1>3, <2>1, <2>3, TracingKept
<1>4. CASE /\ touched' = IF Tracing!Current.full THEN touched \cup {Tracing!Current.seg} ELSE touched
           /\ \/ /\ Tracing!Current.then # "nothing"
                 /\ Tracing!Bind(Tracing!Binding(Tracing!Current.then, Tracing!Current.seg))
              \/ UNCHANGED bound
           /\ UNCHANGED running
  <2>1. Tracing!Current.full => Tracing!Current.seg \in 1..Len(segments)
    BY <1>2 DEF GoodCall, Belongs
  <2>2. Kept
    BY <1>1, <1>2, <1>4, <2>1, Left
  <2>3. BindingsInv(segments, bound')
    <3>1. CASE /\ Tracing!Current.then # "nothing"
               /\ Tracing!Bind(Tracing!Binding(Tracing!Current.then, Tracing!Current.seg))
      <4>1. PICK b : b = Tracing!Binding(Tracing!Current.then, Tracing!Current.seg)
        OBVIOUS
      <4>2. b = [is |-> Tracing!Current.then, tx |-> Tracing!Current.tx,
                 seg |-> Tracing!Current.seg, event |-> 0]
        BY <4>1 DEF Tracing!Binding, Tracing!Nil
      <4>3. /\ Tracing!Current.then \in {"end", "promise", "stream", "innerstream"}
            /\ Tracing!Current.tx \in Nat /\ Tracing!Current.seg \in Nat
        BY <1>2, <3>1 DEF GoodCall, CallRecord
      <4>4. Belongs(segments, Tracing!Current.seg, Tracing!Current.tx)
        BY <1>2, <3>1 DEF GoodCall
      <4>5. GoodBinding(segments, b)
        BY <4>2, <4>3, <4>4 DEF GoodBinding, BindingRecord, Belongs
      <4>6. Tracing!Bind(b)
        BY <3>1, <4>1
      <4> QED
        BY <1>2, <4>5, <4>6, BindKeeps
    <3>2. CASE UNCHANGED bound
      BY <1>2, <3>2
    <3> QED
      BY <1>4, <3>1, <3>2
  <2> QED
    BY <1>1, <1>2, <1>4, <2>2, <2>3, TracingKept
<1> QED
  BY <1>3, <1>4 DEF Tracing!Return

(* What outlived its call: a binding, and the segment it belongs to. *)
LEMMA BindingIsGood ==
    ASSUME TracingInv, NEW b \in bound
    PROVE  /\ GoodBinding(segments, b) /\ b.seg \in 1..Len(segments)
           /\ b.tx \in Nat /\ b.seg \in Nat /\ b.event \in Nat
           /\ b.is # "listener" => Belongs(segments, b.seg, b.tx)
           /\ segments \in Seq(SegmentRecord) /\ Len(segments) \in Nat
           /\ opaque \subseteq 1..Len(segments) /\ touched \subseteq 1..Len(segments)
           /\ BindingsInv(segments, bound)
           /\ types \in Seq({"web", "bg"}) /\ running \subseteq 1..Len(types)
BY DEF TracingInv, TreeInv, BindingsInv, GoodBinding, BindingRecord

LEMMA EndLaterKeeps ==
    ASSUME TracingInv, NEW b \in bound, Tracing!EndLater(b)
    PROVE  TracingInv'
<1>1. /\ running' \subseteq running /\ touched \subseteq touched'
      /\ touched' \subseteq 1..Len(segments) /\ bound' = bound \ {b}
      /\ UNCHANGED <<types, segments, opaque, calling>>
  BY BindingIsGood DEF Tracing!EndLater, Tracing!End, Tracing!Segment
<1>2. Kept
  BY <1>1, NoneEntered
<1>3. BindingsInv(segments, bound')
  BY <1>1, BindingIsGood, Unbound
<1> QED
  BY <1>1, <1>2, <1>3, BindingIsGood, TracingKept

LEMMA SettleKeeps ==
    ASSUME TracingInv, NEW b \in bound, Tracing!Settle(b)
    PROVE  TracingInv'
<1>1. /\ opaque' \subseteq opaque /\ touched \subseteq touched'
      /\ touched' \subseteq 1..Len(segments) /\ bound' = bound \ {b}
      /\ UNCHANGED <<types, running, segments, calling>>
  BY BindingIsGood DEF Tracing!Settle
<1>2. Kept
  BY <1>1, NoneEntered
<1>3. BindingsInv(segments, bound')
  BY <1>1, BindingIsGood, Unbound
<1> QED
  BY <1>1, <1>2, <1>3, BindingIsGood, TracingKept

LEMMA CallBackKeeps ==
    ASSUME TracingInv, NEW b \in bound, Tracing!CallBack(b), UNCHANGED <<types, running>>
    PROVE  TracingInv'
<1>1. /\ b.is \in {"callback", "listener"} /\ opaque' \subseteq opaque
      /\ touched' = touched \cup {b.seg} /\ UNCHANGED bound
  BY DEF Tracing!CallBack
<1>2. touched \subseteq touched' /\ touched' \subseteq 1..Len(segments) /\ b.seg \in touched'
  BY <1>1, BindingIsGood
<1>3. CASE /\ Tracing!Make(b.seg, b.tx, b.tx, "plain", b.is)
           /\ Tracing!Call(b.tx, Len(segments'), TRUE, "nothing")
  <2>1. PICK p, t, from : p = b.seg /\ t = b.tx /\ from = b.is
    OBVIOUS
  <2>2. /\ t \in Nat /\ from \in {"begin", "call", "callback", "event", "listener"}
        /\ Tracing!Make(p, t, t, "plain", from)
        /\ Belongs(segments, p, t) \/ (p \in 1..Len(segments) /\ from \in {"event", "listener"})
    BY <1>1, <1>3, <2>1, BindingIsGood
  <2>3. PICK r : /\ GoodSegment(segments, r) /\ segments' = Append(segments, r)
                 /\ r.parent = p /\ r.from = from /\ r.within = t
                 /\ Len(segments') = Len(segments) + 1
    <3>1. GoodMake(p, t, t, "plain", from)
      BY <2>2 DEF GoodMake
    <3> QED
      BY <2>2, <3>1, Made
  <2>4. PICK c : c = [tx |-> t, seg |-> Len(segments'), full |-> TRUE, then |-> "nothing"]
    OBVIOUS
  <2>5. calling' = Append(calling, c) /\ Len(calling) < MaxDepth
    BY <1>3, <2>1, <2>4 DEF Tracing!Call
  <2>6. c \in CallRecord /\ c.seg = Len(segments') /\ c.tx = t /\ c.full /\ c.then # "end"
    BY <2>2, <2>3, <2>4, BindingIsGood DEF CallRecord
  <2>7. Kept /\ BindingsInv(segments', bound)
    BY <1>2, <2>1, <2>3, <2>5, <2>6, EnterMade
  <2>8. opaque' \subseteq 1..Len(segments')
    <3>1. 1..Len(segments) \subseteq 1..Len(segments')
      BY <2>3, BindingIsGood
    <3> QED
      BY <1>1, <3>1, BindingIsGood
  <2> QED
    BY <1>1, <2>7, <2>8, BindingIsGood, TracingKept
<1>4. CASE UNCHANGED segments /\ Tracing!Call(Tracing!Current.tx, Tracing!Current.seg, FALSE, "nothing")
  <2>1. PICK c : c = [tx |-> Tracing!Current.tx, seg |-> Tracing!Current.seg,
                      full |-> FALSE, then |-> "nothing"]
    OBVIOUS
  <2>2. calling' = Append(calling, c) /\ Len(calling) < MaxDepth
    BY <1>4, <2>1 DEF Tracing!Call
  <2>3. GoodCall(segments, c)
    BY <2>1, CurrentIsGood DEF GoodCall, CallRecord
  <2>4. Kept
    BY <1>2, <1>4, <2>2, <2>3, EnterKnown
  <2> QED
    BY <1>1, <1>4, <2>4, BindingIsGood, TracingKept
<1> QED
  BY <1>3, <1>4 DEF Tracing!CallBack

(* A function that runs in a segment that has been bound for it. *)
LEMMA CalledInBound ==
    ASSUME TracingInv, NEW t \in Nat, NEW s \in Nat, Belongs(segments, s, t),
           UNCHANGED segments, Tracing!Call(t, s, TRUE, "nothing"),
           touched \subseteq touched', touched' \subseteq 1..Len(segments)
    PROVE  Kept
<1>1. PICK c : c = [tx |-> t, seg |-> s, full |-> TRUE, then |-> "nothing"]
  OBVIOUS
<1>2. calling' = Append(calling, c) /\ Len(calling) < MaxDepth
  BY <1>1 DEF Tracing!Call
<1>3. GoodCall(segments, c)
  BY <1>1 DEF GoodCall, CallRecord
<1> QED
  BY <1>2, <1>3, EnterKnown

LEMMA CallBoundKeeps ==
    ASSUME TracingInv, NEW b \in bound, Tracing!CallBound(b), UNCHANGED <<types, running>>
    PROVE  TracingInv'
<1>1. /\ b.is # "listener" /\ Tracing!Call(b.tx, b.seg, TRUE, "nothing")
      /\ UNCHANGED <<segments, opaque, touched, bound>>
  BY DEF Tracing!CallBound
<1>2. PICK t, s : t = b.tx /\ s = b.seg
  OBVIOUS
<1>3. Kept
  BY <1>1, <1>2, BindingIsGood, CalledInBound
<1> QED
  BY <1>1, <1>3, BindingIsGood, TracingKept

LEMMA EmitEndKeeps ==
    ASSUME TracingInv, NEW b \in bound, Tracing!EmitEnd(b), UNCHANGED <<types, running>>
    PROVE  TracingInv'
<1>1. /\ b.is # "listener" /\ Tracing!Call(b.tx, b.seg, TRUE, "nothing")
      /\ opaque' \subseteq opaque /\ touched' = touched \cup {b.seg}
      /\ UNCHANGED <<segments, bound>>
  BY DEF Tracing!EmitEnd
<1>2. PICK t, s : t = b.tx /\ s = b.seg
  OBVIOUS
<1>3. touched \subseteq touched' /\ touched' \subseteq 1..Len(segments)
  BY <1>1, BindingIsGood
<1>4. Kept
  BY <1>1, <1>2, <1>3, BindingIsGood, CalledInBound
<1> QED
  BY <1>1, <1>4, BindingIsGood, TracingKept

LEMMA EmitMeasuredKeeps ==
    ASSUME TracingInv, NEW b \in bound, Tracing!EmitMeasured(b), UNCHANGED <<types, running>>
    PROVE  TracingInv'
<1>1. /\ b.is = "stream" /\ b.tx \in running /\ b.event # MaxSegments + 1
      /\ UNCHANGED <<opaque, touched>>
  BY DEF Tracing!EmitMeasured, Tracing!Failed
<1>2. PICK t, s, v : t = b.tx /\ s = b.seg /\ v = b.event
  OBVIOUS
<1>3. /\ t \in Nat /\ s \in Nat /\ v \in Nat /\ Belongs(segments, s, t)
      /\ touched \subseteq touched' /\ touched' \subseteq 1..Len(segments)
      /\ b = [is |-> "stream", tx |-> t, seg |-> s, event |-> v]
  <2>1. b \in BindingRecord
    BY BindingIsGood DEF GoodBinding
  <2> QED
    BY <1>1, <1>2, <2>1, BindingIsGood DEF BindingRecord
<1>4. CASE /\ v # 0 /\ Tracing!Call(t, v, TRUE, "nothing") /\ UNCHANGED <<segments, bound>>
  <2>1. Belongs(segments, v, t)
    BY <1>1, <1>2, <1>4, BindingIsGood DEF GoodBinding
  <2>2. Kept
    BY <1>3, <1>4, <2>1, CalledInBound
  <2> QED
    BY <1>1, <1>4, <2>2, BindingIsGood, TracingKept
<1>5. CASE /\ bound' = (bound \ {b}) \cup {[b EXCEPT !.event = s]}
           /\ Tracing!Call(t, s, TRUE, "nothing") /\ UNCHANGED segments
  <2>1. Kept
    BY <1>3, <1>5, CalledInBound
  <2>2. PICK c : c = [is |-> "stream", tx |-> t, seg |-> s, event |-> s]
    OBVIOUS
  <2>3. GoodBinding(segments, c) /\ c.is = "stream"
    BY <1>2, <1>3, <2>2, BindingIsGood DEF GoodBinding, BindingRecord
  <2>4. bound' = (bound \ {b}) \cup {c}
    BY <1>3, <1>5, <2>2
  <2>5. BindingsInv(segments, bound')
    BY <1>1, <2>3, <2>4, BindingIsGood, Rebound
  <2> QED
    BY <1>1, <1>5, <2>1, <2>5, BindingIsGood, TracingKept
<1>6. CASE /\ Tracing!Current.tx \in running
           /\ Tracing!Make(s, Tracing!Current.tx, t, "plain", "event")
           /\ bound' = (bound \ {b}) \cup {[b EXCEPT !.event = Len(segments')]}
           /\ Tracing!Call(t, Len(segments'), TRUE, "nothing")
  <2>1. PICK u : u = Tracing!Current.tx
    OBVIOUS
  <2>2. u \in Nat /\ s \in 1..Len(segments)
    BY <1>2, <2>1, CurrentIsGood, BindingIsGood DEF GoodCall, CallRecord
  <2>3. Tracing!Make(s, u, t, "plain", "event")
    BY <1>6, <2>1
  <2>4. GoodMake(s, u, t, "plain", "event")
    BY <1>3, <2>2 DEF GoodMake
  <2>5. PICK r : /\ GoodSegment(segments, r) /\ segments' = Append(segments, r)
                 /\ r.parent = s /\ r.from = "event" /\ r.within = t
                 /\ Belongs(segments', Len(segments'), t)
                 /\ Len(segments') = Len(segments) + 1
    BY <2>3, <2>4, Made
  <2>6. PICK c : c = [tx |-> t, seg |-> Len(segments'), full |-> TRUE, then |-> "nothing"]
    OBVIOUS
  <2>7. calling' = Append(calling, c) /\ Len(calling) < MaxDepth
    BY <1>6, <2>6 DEF Tracing!Call
  <2>8. c \in CallRecord /\ c.seg = Len(segments') /\ c.tx = t /\ c.full /\ c.then # "end"
    BY <1>3, <2>5, <2>6, BindingIsGood DEF CallRecord
  <2>9. Kept /\ BindingsInv(segments', bound)
    BY <1>3, <2>5, <2>7, <2>8, EnterMade
  <2>10. PICK n, d : /\ n = Len(segments')
                     /\ d = [is |-> "stream", tx |-> t, seg |-> s, event |-> n]
    OBVIOUS
  <2>11. n \in Nat /\ s \in 1..n /\ Belongs(segments', n, t)
    BY <2>2, <2>5, <2>10, BindingIsGood
  <2>12. Belongs(segments', s, t)
    BY <1>3, <2>5, BindingIsGood, BelongsGrows DEF GoodSegment
  <2>13. GoodBinding(segments', d) /\ d.is = "stream"
    BY <1>3, <2>10, <2>11, <2>12 DEF GoodBinding, BindingRecord
  <2>14. bound' = (bound \ {b}) \cup {d}
    BY <1>3, <1>6, <2>10
  <2>15. BindingsInv(segments', bound')
    BY <1>1, <2>9, <2>13, <2>14, Rebound
  <2>16. opaque' \subseteq 1..Len(segments')
    <3>1. 1..Len(segments) \subseteq 1..Len(segments')
      BY <2>5, BindingIsGood
    <3> QED
      BY <1>1, <3>1, BindingIsGood
  <2> QED
    BY <2>9, <2>15, <2>16, BindingIsGood, TracingKept
<1>7. CASE /\ bound' = (bound \ {b}) \cup {[b EXCEPT !.event = MaxSegments + 1]}
           /\ UNCHANGED <<segments, calling>>
  <2>1. Kept
    BY <1>3, <1>7, NoneEntered
  <2>2. PICK c : c = [is |-> "stream", tx |-> t, seg |-> s, event |-> MaxSegments + 1]
    OBVIOUS
  <2>3. GoodBinding(segments, c) /\ c.is = "stream"
    BY <1>2, <1>3, <2>2, BindingIsGood, TracingAssumption DEF GoodBinding, BindingRecord
  <2>4. bound' = (bound \ {b}) \cup {c}
    BY <1>3, <1>7, <2>2
  <2>5. BindingsInv(segments, bound')
    BY <1>1, <2>3, <2>4, BindingIsGood, Rebound
  <2> QED
    BY <1>1, <1>7, <2>1, <2>5, BindingIsGood, TracingKept
<1> QED
  BY <1>2, <1>4, <1>5, <1>6, <1>7 DEF Tracing!EmitMeasured, Tracing!Nil, Tracing!Failed

LEMMA ListenKeeps ==
    ASSUME TracingInv, NEW b \in bound, Tracing!Listen(b), UNCHANGED <<types, running>>
    PROVE  TracingInv'
<1>1. /\ Tracing!Bind(Tracing!Binding("listener", b.seg))
      /\ UNCHANGED <<segments, opaque, touched, calling>>
  BY DEF Tracing!Listen
<1>2. Kept
  BY <1>1, BindingIsGood, NoneEntered
<1>3. PICK c : c = Tracing!Binding("listener", b.seg)
  OBVIOUS
<1>4. c = [is |-> "listener", tx |-> Tracing!Current.tx, seg |-> b.seg, event |-> 0]
  BY <1>3 DEF Tracing!Binding, Tracing!Nil
<1>5. Tracing!Current.tx \in Nat
  BY CurrentIsGood DEF GoodCall, CallRecord
<1>6. GoodBinding(segments, c)
  BY <1>4, <1>5, BindingIsGood DEF GoodBinding, BindingRecord
<1>7. BindingsInv(segments, bound')
  BY <1>1, <1>3, <1>6, BindingIsGood, BindKeeps
<1> QED
  BY <1>1, <1>2, <1>7, BindingIsGood, TracingKept

LEMMA TracingStep ==
    ASSUME TracingInv, [Tracing!Next]_(Tracing!vars)
    PROVE  TracingInv'
<1>1. CASE Tracing!Turn \/ Tracing!Return
  BY <1>1, TurnKeeps, ReturnKeeps
<1>2. ASSUME NEW type \in {"web", "bg"}, Tracing!Begin(type) \/ Tracing!BeginNested(type)
      PROVE  TracingInv'
  BY <1>2, BeginKeeps, BeginNestedKeeps
<1>3. ASSUME NEW kind \in {"plain", "opaque", "internal"},
             NEW leaves \in {"nothing", "callback", "promise", "stream"},
             Tracing!Record(kind, leaves)
      PROVE  TracingInv'
  BY <1>3, RecordKeeps
<1>4. ASSUME NEW b \in bound, Tracing!CallOf(b)
      PROVE  TracingInv'
  <2>1. UNCHANGED <<types, running>>
    BY <1>4 DEF Tracing!CallOf
  <2> QED
    BY <1>4, <2>1, CallBackKeeps, CallBoundKeeps, EmitEndKeeps, EmitMeasuredKeeps,
       ListenKeeps DEF Tracing!CallOf
<1>5. ASSUME NEW b \in bound, Tracing!Settle(b) \/ Tracing!EndLater(b)
      PROVE  TracingInv'
  BY <1>5, SettleKeeps, EndLaterKeeps
<1>6. CASE UNCHANGED Tracing!vars
  <2>1. UNCHANGED <<types, running, segments, opaque, touched, calling, bound>>
    BY <1>6 DEF Tracing!vars
  <2> QED
    BY <2>1 DEF TracingInv
<1> QED
  BY <1>1, <1>2, <1>3, <1>4, <1>5, <1>6 DEF Tracing!Next

LEMMA TracingHolds == Tracing!Spec => []TracingInv
BY TracingInit, TracingStep, PTL DEF Tracing!Spec

(* The calls, and what outlives them, are never more than the bounds, and  *)
(* only segments that have been made are opaque or have an end.            *)
THEOREM TracingIsTyped == Tracing!Spec => []Tracing!TypeOK
<1>1. TracingInv => Tracing!TypeOK
  <2> SUFFICES ASSUME TracingInv PROVE Tracing!TypeOK
    OBVIOUS
  <2>1. IsFiniteSet(bound) /\ Listeners(bound) \subseteq bound
    BY DEF TracingInv, BindingsInv, Listeners
  <2>2. /\ IsFiniteSet(Listeners(bound)) /\ IsFiniteSet(bound \ Listeners(bound))
        /\ Cardinality(Listeners(bound)) \in Nat /\ Cardinality(bound \ Listeners(bound)) \in Nat
        /\ Listeners(bound) \cap (bound \ Listeners(bound)) = {}
        /\ Listeners(bound) \cup (bound \ Listeners(bound)) = bound
    BY <2>1, FS_Subset, FS_CardinalityType
  <2>3. Cardinality(bound) = Cardinality(Listeners(bound)) + Cardinality(bound \ Listeners(bound))
    BY <2>2, FS_Union, FS_EmptySet
  <2>4. /\ Cardinality(Listeners(bound)) <= MaxListeners
        /\ Cardinality(bound \ Listeners(bound)) <= MaxBound
    BY DEF TracingInv, BindingsInv
  <2>5. Cardinality(bound) <= MaxBound + MaxListeners
    BY <2>2, <2>3, <2>4, TracingAssumption
  <2>6. Tracing!Cardinality(bound) <= MaxBound + MaxListeners
    BY <2>5 DEF Tracing!Cardinality, Cardinality
  <2> QED
    BY <2>6 DEF Tracing!TypeOK, TracingInv, CallsInv, Tracing!Segment
<1> QED
  BY <1>1, TracingHolds, PTL

(* However calls, callbacks and transactions of both types interleave, a   *)
(* segment is part of the trace of the transaction it counts for, unless   *)
(* it comes from a stream, and has its end once its function has returned  *)
(* or called back.                                                         *)
THEOREM TracesAreWhole == Tracing!Spec => []TraceIsWhole
<1>1. TracingInv => TraceIsWhole
  <2> SUFFICES ASSUME TracingInv PROVE TraceIsWhole
    OBVIOUS
  <2>1. TreeInv(segments) /\ UntouchedInv(segments, touched, calling)
    BY DEF TracingInv
  <2>2. \A s \in Tracing!Segment : segments[s].hangs \/ segments[s].streamed
    BY <2>1 DEF TreeInv, Tracing!Segment
  <2> QED
    BY <2>1, <2>2 DEF UntouchedInv, Tracing!Segment, TraceIsWhole, Tracing!TraceIsWhole
<1> QED
  BY <1>1, TracingHolds, PTL
=============================================================================
