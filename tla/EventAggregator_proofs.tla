----------------------- MODULE EventAggregator_proofs -----------------------
(***************************************************************************)
(* Proofs about EventAggregator, for any number of aggregators, events,    *)
(* limits and forced harvests.                                             *)
(***************************************************************************)
EXTENDS EventAggregator, FiniteSetTheorems, TLAPS

-----------------------------------------------------------------------------
(* Operators *)

LEMMA TopType ==
    ASSUME NEW k, NEW S, NEW K \in Top(k, S)
    PROVE  K \subseteq S
BY DEF Top

LEMMA AfterAddType ==
    ASSUME NEW k, NEW D \in SUBSET Event, NEW e \in Event, NEW K \in AfterAdd(k, D, e)
    PROVE  K \in SUBSET Event /\ K \subseteq D \cup {e}
BY DEF AfterAdd, Minima

(* An add costs the queue one event at most. *)
LEMMA AfterAddCost ==
    ASSUME NEW k, NEW D, NEW e, e \notin D, NEW K \in AfterAdd(k, D, e)
    PROVE  \/ (D \cup {e}) \ K = {}
           \/ \E x \in D \cup {e} : (D \cup {e}) \ K = {x}
BY DEF AfterAdd, Minima

LEMMA CountType ==
    ASSUME NEW D \in SUBSET Event
    PROVE  IsFiniteSet(D) /\ Cardinality(D) \in Nat
BY FS_Subset, FS_CardinalityType, EventAggregatorAssumption

(* The payloads of a send are disjoint and hold exactly what was queued. *)
LEMMA PayloadsPartition ==
    ASSUME NEW m \in Method, NEW P \in Payloads(m)
    PROVE  /\ UNION P = qData[m]
           /\ \A D, E \in P : D \cap E # {} => D = E
<1>1. CASE P \in Halves(qData[m])
  <2>1. PICK h \in SUBSET qData[m] : P = {h, qData[m] \ h}
    BY <1>1 DEF Halves
  <2>2. QED  BY <2>1
<1>2. CASE P = {} /\ qData[m] = {}
  BY <1>2
<1>3. CASE P = {qData[m]}
  BY <1>3
<1>4. QED  BY <1>1, <1>2, <1>3 DEF Payloads

-----------------------------------------------------------------------------
(* Types *)

LEMMA TypeInit == Init => TypeOK
<1> SUFFICES ASSUME Init
             PROVE  TypeOK
  OBVIOUS
<1> USE EventAggregatorAssumption DEF Init, TypeOK
<1>1. metric \in [Method -> [seen : Nat, sent : Int, dropped : Nat]]
  OBVIOUS
<1>2. retained \in 0..MaxRetained
  OBVIOUS
<1>3. QED  BY <1>1, <1>2

LEMMA SendType ==
    ASSUME TypeOK, NEW M \in SUBSET Method, NEW a \in [Caller -> SUBSET Method],
           Send(M, a)
    PROVE  /\ sends' \subseteq SendRecord
           /\ qData' \in [Method -> SUBSET Event]
           /\ qSeen' \in [Method -> Nat]
           /\ handed' \in [Method -> Nat]
           /\ awaits' \in [Caller -> SUBSET Method]
<1> DEFINE empty == {m \in M : qData[m] = {}}
<1>1. PICK P \in [M -> UNION {Payloads(m) : m \in M}] :
        /\ \A m \in M : P[m] \in Payloads(m)
        /\ sends' = sends \cup
              {[method |-> m, payloads |-> P[m]] : m \in M \ empty}
  BY DEF Send
<1>2. \A m \in M : P[m] \in SUBSET (SUBSET Event)
  <2> SUFFICES ASSUME NEW m \in M
               PROVE  P[m] \in SUBSET (SUBSET Event)
    OBVIOUS
  <2>1. UNION P[m] = qData[m]
    BY <1>1, PayloadsPartition
  <2>2. qData[m] \in SUBSET Event
    BY DEF TypeOK
  <2>3. QED  BY <2>1, <2>2
<1>3. sends' \subseteq SendRecord
  BY <1>1, <1>2 DEF TypeOK, SendRecord
<1>4. \A m \in Method : Cardinality(qData[m]) \in Nat
  BY CountType DEF TypeOK
<1>5. handed' \in [Method -> Nat]
  <2>1. handed' = [m \in Method |->
            IF m \in M THEN handed[m] + Cardinality(qData[m]) ELSE handed[m]]
    BY DEF Send
  <2>2. \A m \in Method : handed[m] \in Nat
    BY DEF TypeOK
  <2>3. QED  BY <1>4, <2>1, <2>2
<1>6. qData' \in [Method -> SUBSET Event] /\ qSeen' \in [Method -> Nat]
  BY DEF Send, TypeOK
<1>7. awaits' \in [Caller -> SUBSET Method]
  BY DEF Send, Finished
<1>8. QED  BY <1>3, <1>5, <1>6, <1>7

LEMMA AnsweredType ==
    ASSUME TypeOK, NEW s \in sends, NEW D \in s.payloads, Answered(s, D)
    PROVE  /\ sends' \subseteq SendRecord
           /\ awaits' \in [Caller -> SUBSET Method]
           /\ owed' \in [Caller -> SUBSET Event]
           /\ D \in SUBSET Event
           /\ s.method \in Method
<1>1. s \in SendRecord
  BY DEF TypeOK
<1>2. [s EXCEPT !.payloads = @ \ {D}] \in SendRecord
  BY <1>1 DEF SendRecord
<1>3. sends' \subseteq SendRecord
  BY <1>2 DEF Answered, TypeOK
<1>4. QED  BY <1>1, <1>3 DEF Answered, Finished, TypeOK, SendRecord

LEMMA CountedType ==
    ASSUME NEW r \in [seen : Nat, sent : Int, dropped : Nat],
           NEW a \in Nat, NEW b \in Int, NEW c \in Nat
    PROVE  Counted(r, a, b, c) \in [seen : Nat, sent : Int, dropped : Nat]
BY DEF Counted

LEMMA MergeType ==
    ASSUME TypeOK, NEW m \in Method, NEW D \in SUBSET Event, Merge(m, D)
    PROVE  /\ qData' \in [Method -> SUBSET Event]
           /\ qSeen' \in [Method -> Nat]
           /\ metric' \in [Method -> [seen : Nat, sent : Int, dropped : Nat]]
           /\ dropped' \subseteq Event
<1> DEFINE room == limit[m] - Cardinality(qData[m])
           toMerge == IF Cardinality(D) <= room THEN Cardinality(D) ELSE room
<1>1. /\ Cardinality(D) \in Nat
      /\ Cardinality(qData[m]) \in Nat
      /\ limit[m] \in Nat
      /\ qData[m] \in SUBSET Event
  BY CountType DEF TypeOK
<1>2. toMerge \in Int /\ Cardinality(D) - toMerge \in Nat
  BY <1>1
<1>3. metric' = [metric EXCEPT ![m] =
          Counted(@, Cardinality(D), toMerge, Cardinality(D) - toMerge)]
  BY DEF Merge
<1>4. metric' \in [Method -> [seen : Nat, sent : Int, dropped : Nat]]
  <2> HIDE DEF toMerge
  <2>1. Counted(metric[m], Cardinality(D), toMerge, Cardinality(D) - toMerge)
          \in [seen : Nat, sent : Int, dropped : Nat]
    BY <1>1, <1>2, CountedType DEF TypeOK
  <2>2. QED  BY <1>3, <2>1 DEF TypeOK
<1>5. PICK K \in Top(qLimit[m], qData[m] \cup D) :
          /\ qData' = [qData EXCEPT ![m] = K]
          /\ dropped' = dropped \cup ((qData[m] \cup D) \ K)
  BY DEF Merge
<1>6. K \in SUBSET Event
  BY <1>1, TopType
<1>7. qSeen' \in [Method -> Nat]
  BY <1>1 DEF Merge, TypeOK
<1>8. QED  BY <1>1, <1>4, <1>5, <1>6, <1>7 DEF TypeOK

LEMMA TypeStep == TypeOK /\ [Next]_vars => TypeOK'
<1> SUFFICES ASSUME TypeOK, [Next]_vars
             PROVE  TypeOK'
  OBVIOUS
<1>1. ASSUME NEW e \in Event, Add(e)
      PROVE  TypeOK'
  <2> DEFINE m == MethodOf[e]
  <2>1. m \in Method
    BY EventAggregatorAssumption
  <2>2. PICK D \in AfterAdd(qLimit[m], qData[m], e) :
          /\ qData' = [qData EXCEPT ![m] = D]
          /\ dropped' = dropped \cup ((qData[m] \cup {e}) \ D)
          /\ metric' = [metric EXCEPT ![m] =
                IF e \in D /\ OverflowOf(qLimit[m], qSeen[m] + 1) = 0
                THEN Counted(@, 1, 1, 0)
                ELSE Counted(@, 1, 0, 1)]
    BY <1>1 DEF Add
  <2>3. D \in SUBSET Event /\ qData[m] \in SUBSET Event
    BY <2>1, AfterAddType DEF TypeOK
  <2>4. metric' \in [Method -> [seen : Nat, sent : Int, dropped : Nat]]
    <3>1. metric[m] \in [seen : Nat, sent : Int, dropped : Nat]
      BY <2>1 DEF TypeOK
    <3>2. /\ Counted(metric[m], 1, 1, 0) \in [seen : Nat, sent : Int, dropped : Nat]
          /\ Counted(metric[m], 1, 0, 1) \in [seen : Nat, sent : Int, dropped : Nat]
      BY <3>1, CountedType
    <3>3. QED  BY <2>2, <3>2 DEF TypeOK
  <2>5. qSeen' \in [Method -> Nat] /\ fresh' \subseteq Event
    <3>1. qSeen' = [qSeen EXCEPT ![m] = @ + 1] /\ fresh' = fresh \ {e}
      BY <1>1 DEF Add
    <3>2. QED  BY <2>1, <3>1 DEF TypeOK
  <2>6. qData' \in [Method -> SUBSET Event] /\ dropped' \subseteq Event
    BY <2>1, <2>2, <2>3 DEF TypeOK
  <2>7. QED  BY <1>1, <2>4, <2>5, <2>6 DEF Add, TypeOK
<1>2. ASSUME NEW m \in Method, Tick(m)
      PROVE  TypeOK'
  <2>1. {m} \in SUBSET Method /\ awaits \in [Caller -> SUBSET Method]
    BY DEF TypeOK
  <2>2. alone' \in [Caller -> BOOLEAN]
    BY <1>2 DEF Tick
  <2>3. QED  BY <1>2, <2>1, <2>2, SendType DEF Tick, TypeOK
<1>3. ASSUME NEW s \in sends, NEW D \in s.payloads, Answer(s, D)
      PROVE  TypeOK'
  <2>1. PICK answer \in Answers : \/ Accepted(s, D, answer)
                                  \/ Discarded(s, D, answer)
                                  \/ Retained(s, D, answer)
    BY <1>3 DEF Answer
  <2>2. Answered(s, D)
    BY <2>1 DEF Accepted, Discarded, Retained
  <2>3. CASE Accepted(s, D, answer)
    BY <2>2, <2>3, AnsweredType DEF Accepted, Answered, TypeOK
  <2>4. CASE Discarded(s, D, answer)
    BY <2>2, <2>4, AnsweredType DEF Discarded, Answered, TypeOK
  <2>5. CASE Retained(s, D, answer)
    <3>1. retained' \in 0..MaxRetained
      BY <2>5, EventAggregatorAssumption DEF Retained, TypeOK
    <3>2. /\ s.method \in Method
          /\ D \in SUBSET Event
          /\ sends' \subseteq SendRecord
          /\ awaits' \in [Caller -> SUBSET Method]
          /\ owed' \in [Caller -> SUBSET Event]
      BY <2>2, AnsweredType
    <3>3. /\ qData' \in [Method -> SUBSET Event]
          /\ qSeen' \in [Method -> Nat]
          /\ metric' \in [Method -> [seen : Nat, sent : Int, dropped : Nat]]
          /\ dropped' \subseteq Event
      BY <2>5, <3>2, MergeType DEF Retained
    <3>4. delivered' \subseteq Event
      BY <2>5, <3>2 DEF Retained, TypeOK
    <3>5. QED  BY <2>2, <3>1, <3>2, <3>3, <3>4 DEF Answered, TypeOK
  <2>6. QED  BY <2>1, <2>3, <2>4, <2>5
<1>4. ASSUME NEW c \in Caller, Clear(c)
      PROVE  TypeOK'
  <2> DEFINE M == {m \in Method : enabled[m]}
             a == [awaits EXCEPT ![c] = M]
  <2>1. M \in SUBSET Method /\ a \in [Caller -> SUBSET Method] /\ Send(M, a)
    BY <1>4 DEF Clear, TypeOK
  <2>2. /\ clearing' \in [Caller -> BOOLEAN]
        /\ owed' \in [Caller -> SUBSET Event]
        /\ alone' \in [Caller -> BOOLEAN]
    <3>1. clearing' \in [Caller -> BOOLEAN]
      BY <1>4 DEF Clear, TypeOK
    <3>2. owed' \in [Caller -> SUBSET Event]
      BY <1>4 DEF Clear, TypeOK
    <3>3. alone' = [d \in Caller |->
             IF d = c THEN \A s \in sends : s.method \notin M
             ELSE alone[d] /\ awaits[d] \cap M = {}]
      BY <1>4 DEF Clear
    <3>4. alone' \in [Caller -> BOOLEAN]
      <4> HIDE DEF M
      <4>1. QED  BY <3>3
    <3>5. QED  BY <3>1, <3>2, <3>4
  <2>3. /\ sends' \subseteq SendRecord
        /\ qData' \in [Method -> SUBSET Event]
        /\ qSeen' \in [Method -> Nat]
        /\ handed' \in [Method -> Nat]
        /\ awaits' \in [Caller -> SUBSET Method]
    <3> HIDE DEF M, a
    <3>1. QED  BY <2>1, SendType
  <2>4. QED  BY <1>4, <2>2, <2>3 DEF Clear, TypeOK
<1>5. ASSUME NEW c \in Caller, Cleared(c)
      PROVE  TypeOK'
  BY <1>5 DEF Cleared, queues, ghosts, TypeOK
<1>6. CASE Start \/ Stop
  BY <1>6 DEF Start, Stop, queues, ghosts, TypeOK
<1>7. ASSUME NEW newLimit \in [Method -> Limits \cup {NoLimit}],
             NEW newEnabled \in [Method -> BOOLEAN],
             Update(newLimit, newEnabled)
      PROVE  TypeOK'
  <2>1. /\ limit' \in [Method -> Nat]
        /\ qLimit' \in [Method -> Nat]
    BY <1>7, EventAggregatorAssumption DEF Update, TypeOK
  <2>2. Buffered \subseteq Event
    BY DEF Buffered, TypeOK
  <2>3. qData' \in [Method -> SUBSET Event] /\ dropped' \subseteq Event
    BY <1>7, <2>2 DEF Update, TypeOK
  <2>4. qSeen' \in [Method -> Nat] /\ resized' \subseteq Method
    BY <1>7 DEF Update, TypeOK
  <2>5. ticking' \in [Method -> BOOLEAN]
    BY <1>7 DEF Update, StillTicking, TypeOK
  <2>6. QED  BY <1>7, <2>1, <2>3, <2>4, <2>5 DEF Update, TypeOK
<1>8. CASE UNCHANGED vars
  BY <1>8 DEF vars, TypeOK
<1>9. QED  BY <1>1, <1>2, <1>3, <1>4, <1>5, <1>6, <1>7, <1>8 DEF Next

(* The types hold of every behaviour; the SENT count alone may go below    *)
(* zero, when a limit that was lowered leaves a merge no room.             *)
THEOREM TypeCorrect == Spec => []TypeOK
BY TypeInit, TypeStep, PTL DEF Spec

-----------------------------------------------------------------------------
(* Where the events are *)

LEMMA InBuffered ==
    ASSUME NEW e
    PROVE  e \in Buffered <=> \E m \in Method : e \in qData[m]
BY DEF Buffered

LEMMA InFlightMember ==
    ASSUME NEW e
    PROVE  e \in InFlight <=> \E s \in sends : \E D \in s.payloads : e \in D
BY DEF InFlight

LEMMA InBufferedNext ==
    ASSUME NEW e
    PROVE  e \in Buffered' <=> \E m \in Method : e \in qData'[m]
BY DEF Buffered

LEMMA InFlightMemberNext ==
    ASSUME NEW e
    PROVE  e \in InFlight' <=> \E s \in sends' : \E D \in s.payloads : e \in D
BY DEF InFlight

(* A send moves the events of its queues into payloads, each into one.     *)
LEMMA SendMoves ==
    ASSUME TypeOK, OnePlace, NEW M \in SUBSET Method, NEW a, Send(M, a),
           UNCHANGED fresh
    PROVE  /\ OnePlace'
           /\ (Buffered \cup InFlight)' = Buffered \cup InFlight
<1> DEFINE empty == {m \in M : qData[m] = {}}
           New(P) == {[method |-> m, payloads |-> P[m]] : m \in M \ empty}
<1>1. PICK P \in [M -> UNION {Payloads(m) : m \in M}] :
        /\ \A m \in M : P[m] \in Payloads(m)
        /\ sends' = sends \cup New(P)
  BY DEF Send
<1>2. \A m \in Method : qData'[m] = IF m \in M THEN {} ELSE qData[m]
  BY DEF Send
<1>3. \A m \in M : /\ UNION P[m] = qData[m]
                    /\ \A D, E \in P[m] : D \cap E # {} => D = E
  BY <1>1, PayloadsPartition
<1>4. \A t \in New(P) : /\ t.method \in M
                         /\ t.payloads = P[t.method]
                         /\ t = [method |-> t.method, payloads |-> P[t.method]]
  OBVIOUS
<1>5. \A t \in New(P) : \A D \in t.payloads : D \subseteq qData[t.method]
  BY <1>3, <1>4
<1> HIDE DEF New
<1>6. \A m \in Method : \A e \in qData'[m] : MethodOf[e] = m
  BY <1>2 DEF OnePlace
<1>7. \A s \in sends' : \A D \in s.payloads : \A e \in D : MethodOf[e] = s.method
  BY <1>1, <1>4, <1>5 DEF OnePlace
<1>8. \A s, t \in sends' : \A D \in s.payloads, E \in t.payloads :
        D \cap E # {} => s = t /\ D = E
  <2> SUFFICES ASSUME NEW s \in sends', NEW t \in sends',
                      NEW D \in s.payloads, NEW E \in t.payloads,
                      NEW e \in D \cap E
               PROVE  s = t /\ D = E
    OBVIOUS
  <2>1. CASE s \in sends /\ t \in sends
    BY <2>1 DEF OnePlace
  <2>2. ASSUME NEW u \in sends, NEW v \in New(P), NEW F \in u.payloads,
               NEW G \in v.payloads, e \in F, e \in G
        PROVE  FALSE
    <3>1. e \in qData[v.method] /\ v.method \in Method
      BY <1>4, <1>5, <2>2
    <3>2. e \in Buffered /\ e \in InFlight
      BY <2>2, <3>1, InBuffered, InFlightMember
    <3>3. QED  BY <3>2 DEF OnePlace
  <2>3. CASE s \in New(P) /\ t \in New(P)
    <3>1. e \in qData[s.method] /\ e \in qData[t.method]
      BY <1>5, <2>3
    <3>2. s.method = t.method
      BY <1>4, <2>3, <3>1 DEF OnePlace
    <3>3. s = t
      BY <1>4, <2>3, <3>2
    <3>4. QED  BY <1>3, <1>4, <2>3, <3>3
  <2>4. QED  BY <1>1, <2>1, <2>2, <2>3
<1>9. ASSUME NEW e
      PROVE  e \in (Buffered \cup InFlight)' <=> e \in Buffered \cup InFlight
  <2>1. ASSUME e \in Buffered
        PROVE  e \in Buffered' \cup InFlight'
    <3>1. PICK m \in Method : e \in qData[m]
      BY <2>1, InBuffered
    <3>2. CASE m \notin M
      BY <1>2, <3>1, <3>2, InBufferedNext
    <3>3. CASE m \in M
      <4>1. PICK D \in P[m] : e \in D
        BY <1>3, <3>1, <3>3
      <4>2. [method |-> m, payloads |-> P[m]] \in sends'
        BY <1>1, <3>1, <3>3 DEF New
      <4>3. QED  BY <4>1, <4>2, InFlightMemberNext
    <3>4. QED  BY <3>2, <3>3
  <2>2. ASSUME e \in InFlight
        PROVE  e \in InFlight'
    BY <1>1, <2>2, InFlightMember, InFlightMemberNext
  <2>3. ASSUME e \in Buffered'
        PROVE  e \in Buffered
    BY <1>2, <2>3, InBuffered, InBufferedNext
  <2>4. ASSUME e \in InFlight'
        PROVE  e \in Buffered \cup InFlight
    BY <1>1, <1>4, <1>5, <2>4, InBuffered, InFlightMember, InFlightMemberNext
  <2>5. QED  BY <2>1, <2>2, <2>3, <2>4
<1>10. Buffered' \cap InFlight' = {}
  <2> SUFFICES ASSUME NEW e, e \in Buffered', e \in InFlight'
               PROVE  FALSE
    OBVIOUS
  <2>1. PICK m \in Method \ M : e \in qData[m]
    BY <1>2, InBufferedNext
  <2>2. PICK t \in sends' : \E D \in t.payloads : e \in D
    BY InFlightMemberNext
  <2>3. CASE t \in sends
    BY <2>1, <2>2, <2>3, InBuffered, InFlightMember DEF OnePlace
  <2>4. CASE t \in New(P)
    <3>1. t.method \in M /\ e \in qData[t.method]
      BY <1>4, <1>5, <2>2, <2>4
    <3>2. QED  BY <2>1, <3>1 DEF OnePlace
  <2>5. QED  BY <1>1, <2>3, <2>4
<1>11. (Buffered \cup InFlight)' = Buffered \cup InFlight
  BY <1>9
<1>12. fresh' \cap (Buffered \cup InFlight)' = {}
  BY <1>11 DEF OnePlace
<1>13. QED  BY <1>6, <1>7, <1>8, <1>10, <1>11, <1>12 DEF OnePlace

(* The answer to a payload takes its events out of flight, and nothing     *)
(* else.                                                                   *)
LEMMA AnsweredMoves ==
    ASSUME OnePlace, NEW s \in sends, NEW D \in s.payloads, TypeOK, Answered(s, D)
    PROVE  /\ InFlight' = InFlight \ D
           /\ D \subseteq InFlight
           /\ D \cap Buffered = {}
           /\ \A t \in sends' : \A E \in t.payloads : \A e \in E : MethodOf[e] = t.method
           /\ \A t, u \in sends' : \A E \in t.payloads, F \in u.payloads :
                 E \cap F # {} => t = u /\ E = F
<1> DEFINE rest == [s EXCEPT !.payloads = @ \ {D}]
<1>1. /\ s \in SendRecord
      /\ rest.method = s.method
      /\ rest.payloads = s.payloads \ {D}
  BY DEF TypeOK, SendRecord
<1>2. sends' = (sends \ {s}) \cup (IF s.payloads = {D} THEN {} ELSE {rest})
  BY DEF Answered
<1> HIDE DEF rest
<1>3. D \subseteq InFlight /\ D \cap Buffered = {}
  BY InFlightMember DEF OnePlace
<1>4. ASSUME NEW e
      PROVE  e \in InFlight' <=> e \in InFlight /\ e \notin D
  <2>1. ASSUME e \in InFlight'
        PROVE  e \in InFlight /\ e \notin D
    <3>1. PICK t \in sends' : \E E \in t.payloads : e \in E
      BY <2>1, InFlightMemberNext
    <3>2. CASE t \in sends \ {s}
      BY <3>1, <3>2, InFlightMember DEF OnePlace
    <3>3. CASE t = rest
      <4>1. PICK E \in s.payloads \ {D} : e \in E
        BY <1>1, <3>1, <3>3
      <4>2. QED  BY <4>1, InFlightMember DEF OnePlace
    <3>4. QED  BY <1>2, <3>1, <3>2, <3>3
  <2>2. ASSUME e \in InFlight, e \notin D
        PROVE  e \in InFlight'
    <3>1. PICK t \in sends : \E E \in t.payloads : e \in E
      BY <2>2, InFlightMember
    <3>2. CASE t # s
      BY <1>2, <3>1, <3>2, InFlightMemberNext
    <3>3. CASE t = s
      <4>1. PICK E \in s.payloads \ {D} : e \in E
        BY <2>2, <3>1, <3>3
      <4>2. rest \in sends'
        BY <1>2, <4>1
      <4>3. QED  BY <1>1, <4>1, <4>2, InFlightMemberNext
    <3>4. QED  BY <3>2, <3>3
  <2>3. QED  BY <2>1, <2>2
<1>5. \A t \in sends' : \/ t \in sends \ {s}
                         \/ t = rest
  BY <1>2
<1>6. \A t \in sends' : \A E \in t.payloads : \A e \in E : MethodOf[e] = t.method
  BY <1>1, <1>5 DEF OnePlace
<1>7. \A t, u \in sends' : \A E \in t.payloads, F \in u.payloads :
        E \cap F # {} => t = u /\ E = F
  BY <1>1, <1>5 DEF OnePlace
<1>8. QED  BY <1>3, <1>4, <1>6, <1>7

(* What comes back goes into the queue it came from, or is dropped.        *)
LEMMA MergeMoves ==
    ASSUME TypeOK, NEW m \in Method, NEW D \in SUBSET Event, Merge(m, D)
    PROVE  \E x \in SUBSET (qData[m] \cup D) :
              /\ dropped' = dropped \cup x
              /\ qData'[m] = (qData[m] \cup D) \ x
              /\ \A n \in Method \ {m} : qData'[n] = qData[n]
<1>1. PICK K \in Top(qLimit[m], qData[m] \cup D) :
          /\ qData' = [qData EXCEPT ![m] = K]
          /\ dropped' = dropped \cup ((qData[m] \cup D) \ K)
  BY DEF Merge
<1>2. K \subseteq qData[m] \cup D
  BY TopType
<1>3. K = (qData[m] \cup D) \ ((qData[m] \cup D) \ K)
  BY <1>2
<1>4. /\ qData'[m] = K
      /\ \A n \in Method \ {m} : qData'[n] = qData[n]
  BY <1>1 DEF TypeOK
<1>5. QED  BY <1>1, <1>3, <1>4

(* The events EventDelivery calls held. *)
held == Buffered \cup InFlight

LEMMA AddRefines ==
    ASSUME TypeOK, OnePlace, NEW e \in Event, Add(e)
    PROVE  OnePlace' /\ Delivery!Record(e)
<1> DEFINE m == MethodOf[e]
<1>0. m \in Method /\ qData[m] \in SUBSET Event
  BY EventAggregatorAssumption DEF TypeOK
<1>1. PICK D \in AfterAdd(qLimit[m], qData[m], e) :
        /\ qData' = [qData EXCEPT ![m] = D]
        /\ dropped' = dropped \cup ((qData[m] \cup {e}) \ D)
  BY DEF Add
<1>2. /\ e \in fresh /\ fresh' = fresh \ {e}
      /\ sends' = sends /\ delivered' = delivered
  BY DEF Add
<1> HIDE DEF m
<1>3. e \notin Buffered /\ e \notin InFlight /\ e \notin qData[m]
  BY <1>0, <1>2, InBuffered DEF OnePlace
<1>4. D \subseteq qData[m] \cup {e}
  BY <1>0, AfterAddType
<1>5. InFlight' = InFlight
  BY <1>2 DEF InFlight
<1>6. /\ qData'[m] = D
      /\ \A n \in Method \ {m} : qData'[n] = qData[n]
  BY <1>0, <1>1 DEF TypeOK
<1> DEFINE x == (qData[m] \cup {e}) \ D
<1>7. x \subseteq held \cup {e} /\ x \cap InFlight = {}
  BY <1>0, <1>3, InBuffered DEF held, OnePlace
<1>8. x \in {{}} \cup {{d} : d \in held \cup {e}}
  <2>1. x = {} \/ \E y \in qData[m] \cup {e} : x = {y}
    BY <1>3, AfterAddCost
  <2> HIDE DEF x
  <2>2. QED  BY <1>7, <2>1
<1>9. \A n \in Method \ {m} : qData[n] \cap x = {}
  BY <1>0, <1>3, InBuffered DEF OnePlace
<1>10. Buffered' = (Buffered \cup {e}) \ x
  <2> SUFFICES ASSUME NEW y
               PROVE  y \in Buffered' <=> y \in (Buffered \cup {e}) \ x
    OBVIOUS
  <2>1. y \in D <=> y \in (qData[m] \cup {e}) \ x
    BY <1>4
  <2> HIDE DEF x
  <2>2. QED
    BY <1>0, <1>3, <1>6, <1>9, <2>1, InBuffered, InBufferedNext
<1>11. held' = (held \cup {e}) \ x
  BY <1>3, <1>5, <1>7, <1>10 DEF held
<1>12. OnePlace'
  <2>1. \A n \in Method : \A y \in qData'[n] : MethodOf[y] = n
    BY <1>0, <1>4, <1>6 DEF OnePlace, m
  <2>2. Buffered' \cap InFlight' = {}
    BY <1>3, <1>5, <1>10 DEF OnePlace
  <2>3. fresh' \cap (Buffered' \cup InFlight') = {}
    BY <1>2, <1>5, <1>10 DEF OnePlace
  <2>4. QED  BY <1>2, <2>1, <2>2, <2>3 DEF OnePlace
<1>13. dropped' = dropped \cup x
  BY <1>1
<1> HIDE DEF x
<1>14. QED
  BY <1>2, <1>7, <1>8, <1>11, <1>12, <1>13 DEF Delivery!Record, held

(* What an answer does is Deliver or Keep. *)
LEMMA AnswerRefines ==
    ASSUME TypeOK, OnePlace, NEW s \in sends, NEW D \in s.payloads, Answer(s, D)
    PROVE  OnePlace' /\ Delivery!Next
<1>1. PICK answer \in Answers : \/ Accepted(s, D, answer)
                                \/ Discarded(s, D, answer)
                                \/ Retained(s, D, answer)
  BY DEF Answer
<1>2. Answered(s, D)
  BY <1>1 DEF Accepted, Discarded, Retained
<1>3. fresh' = fresh
  BY <1>2 DEF Answered
<1>4. /\ InFlight' = InFlight \ D
      /\ D \subseteq InFlight
      /\ D \cap Buffered = {}
      /\ D \subseteq held
  BY <1>2, AnsweredMoves DEF held
<1>5. D \in SUBSET Event /\ s.method \in Method
  BY <1>2, AnsweredType
<1>6. ASSUME qData' = qData
      PROVE  held' = held \ D /\ OnePlace'
  <2>1. Buffered' = Buffered
    BY <1>6 DEF Buffered
  <2>2. held' = held \ D
    BY <1>4, <2>1 DEF held
  <2>3. OnePlace'
    BY <1>2, <1>3, <1>4, <1>6, <2>1, AnsweredMoves DEF OnePlace
  <2>4. QED  BY <2>2, <2>3
<1>7. CASE Accepted(s, D, answer)
  <2>1. held' = held \ D /\ OnePlace'
    BY <1>6, <1>7 DEF Accepted
  <2>2. Delivery!Deliver(D)
    BY <1>3, <1>7, <2>1 DEF Accepted, Delivery!Deliver, held
  <2>3. QED  BY <1>4, <2>1, <2>2 DEF Delivery!Next, held
<1>8. CASE Discarded(s, D, answer)
  <2>1. held' = held \ D /\ OnePlace'
    BY <1>6, <1>8 DEF Discarded
  <2>2. Delivery!Keep({}, D)
    BY <1>3, <1>8, <2>1 DEF Discarded, Delivery!Keep, held
  <2>3. {} \in SUBSET held /\ D \in SUBSET held
    BY <1>4
  <2>4. QED  BY <2>1, <2>2, <2>3 DEF Delivery!Next, held
<1>9. CASE Retained(s, D, answer)
  <2> DEFINE m == s.method
  <2>0. m \in Method
    BY <1>5
  <2>1. PICK x \in SUBSET (qData[m] \cup D) :
            /\ dropped' = dropped \cup x
            /\ qData'[m] = (qData[m] \cup D) \ x
            /\ \A n \in Method \ {m} : qData'[n] = qData[n]
    BY <1>5, <1>9, MergeMoves DEF Retained
  <2> HIDE DEF m
  <2>2. x \subseteq Buffered \cup D
    BY <2>0, <2>1, InBuffered
  <2>3. \A n \in Method \ {m} : qData[n] \cap x = {}
    BY <1>4, <2>0, <2>1, InBuffered DEF OnePlace
  <2>4. Buffered' = (Buffered \cup D) \ x
    <3> SUFFICES ASSUME NEW y
                 PROVE  y \in Buffered' <=> y \in (Buffered \cup D) \ x
      OBVIOUS
    <3>1. QED  BY <2>0, <2>1, <2>3, InBuffered, InBufferedNext
  <2>5. x \cap InFlight' = {}
    BY <1>4, <2>2 DEF OnePlace
  <2>6. held' = held \ x
    BY <1>4, <2>4, <2>5 DEF held
  <2>7. OnePlace'
    <3>1. \A e \in D : MethodOf[e] = m
      BY DEF OnePlace, m
    <3>2. \A n \in Method : \A y \in qData'[n] : MethodOf[y] = n
      BY <2>0, <2>1, <3>1 DEF OnePlace
    <3>3. Buffered' \cap InFlight' = {}
      BY <1>4, <2>4 DEF OnePlace
    <3>4. fresh' \cap (Buffered' \cup InFlight') = {}
      BY <1>3, <1>4, <2>4 DEF OnePlace
    <3>5. QED  BY <1>2, <3>2, <3>3, <3>4, AnsweredMoves DEF OnePlace
  <2>8. PICK d \in {{}, D} : delivered' = delivered \cup d
    BY <1>9 DEF Retained
  <2>9. Delivery!Keep(d, x)
    BY <1>3, <2>1, <2>6, <2>8 DEF Delivery!Keep, held
  <2>10. d \in SUBSET held /\ x \in SUBSET held
    BY <1>4, <2>2, <2>8 DEF held
  <2>11. QED  BY <2>7, <2>9, <2>10 DEF Delivery!Next, held
<1>10. QED  BY <1>1, <1>7, <1>8, <1>9

(* A reconfiguration drops what the new limits have no room for. *)
LEMMA UpdateRefines ==
    ASSUME TypeOK, OnePlace, NEW newLimit, NEW newEnabled,
           Update(newLimit, newEnabled)
    PROVE  OnePlace' /\ Delivery!Next
<1> DEFINE x == Buffered \ Buffered'
<1>1. \A m \in Method : qData'[m] \subseteq qData[m]
  BY TopType DEF Update
<1>2. Buffered' \subseteq Buffered
  BY <1>1, InBuffered, InBufferedNext
<1>3. /\ UNCHANGED <<sends, fresh, delivered>>
      /\ dropped' = dropped \cup x
  BY DEF Update, Buffered
<1>4. InFlight' = InFlight
  BY <1>3 DEF InFlight
<1>5. held' = held \ x
  BY <1>2, <1>4 DEF held, OnePlace
<1>6. OnePlace'
  BY <1>1, <1>2, <1>3, <1>4 DEF OnePlace
<1>7. Delivery!Keep({}, x)
  BY <1>3, <1>5 DEF Delivery!Keep, held
<1>8. {} \in SUBSET held /\ x \in SUBSET held
  BY DEF held
<1>9. QED  BY <1>6, <1>7, <1>8 DEF Delivery!Next, held

LEMMA Refines ==
    TypeOK /\ OnePlace /\ [Next]_vars =>
        OnePlace' /\ [Delivery!Next]_(Delivery!vars)
<1> SUFFICES ASSUME TypeOK, OnePlace, [Next]_vars
             PROVE  OnePlace' /\ [Delivery!Next]_(Delivery!vars)
  OBVIOUS
<1> USE DEF Delivery!vars
<1>1. ASSUME NEW e \in Event, Add(e)
      PROVE  OnePlace' /\ Delivery!Next
  BY <1>1, AddRefines DEF Delivery!Next
<1>2. ASSUME NEW m \in Method, Tick(m)
      PROVE  OnePlace' /\ UNCHANGED Delivery!vars
  BY <1>2, SendMoves DEF Tick
<1>3. ASSUME NEW s \in sends, NEW D \in s.payloads, Answer(s, D)
      PROVE  OnePlace' /\ Delivery!Next
  BY <1>3, AnswerRefines
<1>4. ASSUME NEW c \in Caller, Clear(c)
      PROVE  OnePlace' /\ UNCHANGED Delivery!vars
  <2> DEFINE M == {m \in Method : enabled[m]}
             a == [awaits EXCEPT ![c] = M]
  <2>1. M \in SUBSET Method /\ Send(M, a) /\ UNCHANGED <<fresh, delivered, dropped>>
    BY <1>4 DEF Clear
  <2> HIDE DEF M, a
  <2>2. QED  BY <2>1, SendMoves
<1>5. CASE UNCHANGED <<qData, sends, fresh, delivered, dropped>>
  <2>1. Buffered' = Buffered /\ InFlight' = InFlight
    BY <1>5 DEF Buffered, InFlight
  <2>2. QED  BY <1>5, <2>1 DEF OnePlace
<1>6. ASSUME NEW newLimit, NEW newEnabled, Update(newLimit, newEnabled)
      PROVE  OnePlace' /\ Delivery!Next
  BY <1>6, UpdateRefines
<1>7. (Start \/ Stop \/ (\E c \in Caller : Cleared(c)) \/ UNCHANGED vars) =>
        UNCHANGED <<qData, sends, fresh, delivered, dropped>>
  BY DEF Start, Stop, Cleared, queues, ghosts, vars
<1>8. QED  BY <1>1, <1>2, <1>3, <1>4, <1>5, <1>6, <1>7 DEF Next

LEMMA InitPlaces == Init => OnePlace /\ Delivery!Init
<1> SUFFICES ASSUME Init
             PROVE  OnePlace /\ Delivery!Init
  OBVIOUS
<1>1. Buffered = {} /\ InFlight = {}
  BY DEF Init, Buffered, InFlight
<1>2. QED  BY <1>1 DEF Init, OnePlace, Delivery!Init

(* No harvest, split, answer, merge or reconfiguration ever copies an      *)
(* event, or puts it into the queue of another aggregator.                 *)
THEOREM PlacesAreOne == Spec => []OnePlace
BY TypeCorrect, InitPlaces, Refines, PTL DEF Spec

(* Together the aggregators deliver at least once: EventAggregator         *)
(* implements EventDelivery.                                               *)
THEOREM AtLeastOnce == Spec => DeliverySpec
BY TypeCorrect, PlacesAreOne, InitPlaces, Refines, PTL
   DEF Spec, DeliverySpec, Delivery!Spec

(* No event disappears; it follows from the abstract specification, whose  *)
(* every step accounts for the events it takes out of the agent.           *)
THEOREM NothingLost == Spec => []Accounted
<1>1. Delivery!Init => Accounted
  BY DEF Delivery!Init, Accounted
<1>2. ASSUME Accounted, [Delivery!Next]_(Delivery!vars)
      PROVE  Accounted'
  <2>1. ASSUME NEW e \in Event, Delivery!Record(e)
        PROVE  Accounted'
    BY <1>2, <2>1 DEF Delivery!Record, Accounted
  <2>2. ASSUME NEW d \in SUBSET (Buffered \cup InFlight), Delivery!Deliver(d)
        PROVE  Accounted'
    BY <1>2, <2>2 DEF Delivery!Deliver, Accounted
  <2>3. ASSUME NEW d \in SUBSET (Buffered \cup InFlight),
               NEW x \in SUBSET (Buffered \cup InFlight), Delivery!Keep(d, x)
        PROVE  Accounted'
    BY <1>2, <2>3 DEF Delivery!Keep, Accounted
  <2>4. CASE UNCHANGED Delivery!vars
    BY <1>2, <2>4 DEF Delivery!vars, Accounted
  <2>5. QED  BY <1>2, <2>1, <2>2, <2>3, <2>4 DEF Delivery!Next
<1>3. QED
  BY <1>1, <1>2, AtLeastOnce, PTL DEF DeliverySpec, Delivery!Spec

(* Neither copied nor lost, the two results together.                      *)
THEOREM Conservation == Spec => []Conserved
BY PlacesAreOne, NothingLost, PTL DEF Conserved

-----------------------------------------------------------------------------
(* What a forced harvest waits for *)

(* While a forced harvest is alone, whatever it still owes is in a payload *)
(* of an aggregator it still listens to, and that aggregator has no other  *)
(* send under way which could finish in its place.                         *)
Waits ==
    \A c \in Caller : clearing[c] /\ alone[c] =>
        /\ \A e \in owed[c] :
              \E s \in sends : s.method \in awaits[c] /\ \E D \in s.payloads : e \in D
        /\ \A s, t \in sends :
              s.method = t.method /\ s.method \in awaits[c] => s = t

LEMMA WaitsStep == TypeOK /\ Waits /\ [Next]_vars => Waits'
<1> SUFFICES ASSUME TypeOK, Waits, [Next]_vars, NEW c \in Caller,
                    clearing'[c], alone'[c]
             PROVE  /\ \A e \in owed'[c] :
                          \E s \in sends' : /\ s.method \in awaits'[c]
                                            /\ \E D \in s.payloads : e \in D
                    /\ \A s, t \in sends' :
                          s.method = t.method /\ s.method \in awaits'[c] => s = t
  BY DEF Waits
<1> DEFINE Goal ==
       /\ \A e \in owed'[c] :
             \E s \in sends' : s.method \in awaits'[c] /\ \E D \in s.payloads : e \in D
       /\ \A s, t \in sends' :
             s.method = t.method /\ s.method \in awaits'[c] => s = t
<1>1. CASE UNCHANGED <<clearing, alone, owed, sends, awaits>>
  BY <1>1 DEF Waits
<1>2. ASSUME NEW m \in Method, Tick(m)
      PROVE  Goal
  <2>1. /\ clearing[c] /\ alone[c] /\ m \notin awaits[c]
        /\ owed' = owed
    BY <1>2 DEF Tick
  <2>2. PICK New : /\ sends' = sends \cup New
                   /\ \A t \in New : t.method = m
    <3> DEFINE empty == {n \in {m} : qData[n] = {}}
    <3>1. PICK P : sends' = sends \cup
              {[method |-> n, payloads |-> P[n]] : n \in {m} \ empty}
      BY <1>2 DEF Tick, Send
    <3>2. \A t \in {[method |-> n, payloads |-> P[n]] : n \in {m} \ empty} : t.method = m
      OBVIOUS
    <3> HIDE DEF empty
    <3>3. QED  BY <3>1, <3>2
  <2>3. awaits'[c] \subseteq awaits[c] /\ \A n \in awaits[c] : n # m => n \in awaits'[c]
    BY <1>2 DEF Tick, Send, Finished
  <2>4. QED  BY <2>1, <2>2, <2>3 DEF Waits
<1>3. ASSUME NEW s \in sends, NEW D \in s.payloads, Answered(s, D)
      PROVE  Goal
  <2> DEFINE rest == [s EXCEPT !.payloads = @ \ {D}]
  <2>1. /\ s \in SendRecord
        /\ rest.method = s.method
        /\ rest.payloads = s.payloads \ {D}
    BY DEF TypeOK, SendRecord
  <2>2. sends' = (sends \ {s}) \cup (IF s.payloads = {D} THEN {} ELSE {rest})
    BY <1>3 DEF Answered
  <2> HIDE DEF rest
  <2>3. /\ clearing[c] /\ alone[c]
        /\ owed'[c] = owed[c] \ D
    BY <1>3 DEF Answered
  <2>4. awaits'[c] = IF s.payloads = {D} THEN awaits[c] \ {s.method} ELSE awaits[c]
    BY <1>3 DEF Answered, Finished
  <2>5. \A t, u \in sends :
          t.method = u.method /\ t.method \in awaits[c] => t = u
    BY <2>3 DEF Waits
  <2>6. ASSUME NEW e \in owed'[c]
        PROVE  \E t \in sends' : t.method \in awaits'[c] /\ \E E \in t.payloads : e \in E
    <3>1. PICK t \in sends : t.method \in awaits[c] /\ \E E \in t.payloads : e \in E
      BY <2>3, <2>6 DEF Waits
    <3>2. CASE t = s
      <4>1. PICK E \in s.payloads : e \in E /\ E # D
        BY <2>3, <2>6, <3>1, <3>2
      <4>2. rest \in sends' /\ E \in rest.payloads /\ awaits'[c] = awaits[c]
        BY <2>1, <2>2, <2>4, <4>1
      <4>3. QED  BY <2>1, <3>1, <3>2, <4>1, <4>2
    <3>3. CASE t # s
      <4>1. t.method # s.method
        BY <2>5, <3>1, <3>3
      <4>2. QED  BY <2>2, <2>4, <3>1, <3>3, <4>1
    <3>4. QED  BY <3>2, <3>3
  <2>7. ASSUME NEW t \in sends', NEW u \in sends', t.method = u.method,
               t.method \in awaits'[c]
        PROVE  t = u
    <3>1. t.method \in awaits[c]
      BY <2>4, <2>7
    <3>2. (t \in sends /\ t # s) \/ t = rest
      BY <2>2
    <3>3. (u \in sends /\ u # s) \/ u = rest
      BY <2>2
    <3>4. QED  BY <2>1, <2>5, <2>7, <3>1, <3>2, <3>3
  <2>8. QED  BY <2>6, <2>7
<1>4. ASSUME NEW d \in Caller, Clear(d)
      PROVE  Goal
  <2> DEFINE M == {m \in Method : enabled[m]}
             a == [awaits EXCEPT ![d] = M]
  <2>1. /\ Send(M, a)
        /\ owed' = [owed EXCEPT ![d] = UNION {qData[m] : m \in M}]
        /\ clearing' = [clearing EXCEPT ![d] = TRUE]
        /\ alone' = [b \in Caller |->
              IF b = d THEN \A s \in sends : s.method \notin M
              ELSE alone[b] /\ awaits[b] \cap M = {}]
        /\ M \in SUBSET Method
    BY <1>4 DEF Clear
  <2>2. a[c] = IF c = d THEN M ELSE awaits[c]
    BY DEF TypeOK
  <2> HIDE DEF M, a
  <2> DEFINE empty == {m \in M : qData[m] = {}}
  <2>3. PICK P \in [M -> UNION {Payloads(m) : m \in M}] :
          /\ \A m \in M : P[m] \in Payloads(m)
          /\ sends' = sends \cup
                {[method |-> m, payloads |-> P[m]] : m \in M \ empty}
    BY <2>1 DEF Send
  <2>4. awaits'[c] = a[c] \ empty
    BY <2>1 DEF Send, Finished
  <2>5. CASE c = d
    <3>1. \A s \in sends : s.method \notin M
      BY <2>1, <2>5
    <3>2. ASSUME NEW e \in owed'[c]
          PROVE  \E t \in sends' : t.method \in awaits'[c] /\ \E E \in t.payloads : e \in E
      <4>1. PICK m \in M : e \in qData[m]
        BY <2>1, <2>5, <3>2 DEF TypeOK
      <4>2. PICK E \in P[m] : e \in E
        BY <2>1, <2>3, <4>1, PayloadsPartition
      <4>3. [method |-> m, payloads |-> P[m]] \in sends' /\ m \in awaits'[c]
        BY <2>2, <2>3, <2>4, <2>5, <4>1
      <4>4. QED  BY <4>2, <4>3
    <3>3. ASSUME NEW s \in sends', NEW t \in sends', s.method = t.method,
                 s.method \in awaits'[c]
          PROVE  s = t
      <4>1. s.method \in M
        BY <2>2, <2>4, <2>5, <3>3
      <4>2. s \notin sends /\ t \notin sends
        BY <3>1, <3>3, <4>1
      <4>3. QED  BY <2>3, <3>3, <4>2
    <3>4. QED  BY <3>2, <3>3
  <2>6. CASE c # d
    <3>1. /\ clearing[c] /\ alone[c] /\ awaits[c] \cap M = {}
          /\ owed'[c] = owed[c]
      BY <2>1, <2>6 DEF TypeOK
    <3>2. awaits'[c] = awaits[c]
      BY <2>2, <2>4, <2>6, <3>1
    <3>3. \A t \in sends' : t.method \in awaits[c] => t \in sends
      BY <2>3, <3>1
    <3>4. sends \subseteq sends'
      BY <2>3
    <3>5. QED  BY <3>1, <3>2, <3>3, <3>4 DEF Waits
  <2>7. QED  BY <2>5, <2>6
<1>5. ASSUME NEW d \in Caller, Cleared(d)
      PROVE  Goal
  <2>1. clearing[c] /\ UNCHANGED <<alone, owed, sends, awaits>>
    BY <1>5 DEF Cleared, ghosts, TypeOK
  <2>2. QED  BY <2>1 DEF Waits
<1>6. \A s \in sends : \A D \in s.payloads : Answer(s, D) => Answered(s, D)
  BY DEF Answer, Accepted, Discarded, Retained
<1>7. ((\E e \in Event : Add(e)) \/ Start \/ Stop \/ UNCHANGED vars
         \/ \E newLimit \in [Method -> Limits \cup {NoLimit}],
               newEnabled \in [Method -> BOOLEAN] : Update(newLimit, newEnabled))
      => UNCHANGED <<clearing, alone, owed, sends, awaits>>
  BY DEF Add, Start, Stop, Update, ghosts, vars
<1>8. QED  BY <1>1, <1>2, <1>3, <1>4, <1>5, <1>6, <1>7 DEF Next

(* A forced harvest that no other send overlaps calls back only when the   *)
(* collector has answered for everything it flushed.                       *)
THEOREM AloneWaits == Spec => []AloneHarvestWaits
<1>1. Init => Waits
  BY DEF Init, Waits
<1>2. Waits => AloneHarvestWaits
  BY DEF Waits, AloneHarvestWaits
<1>3. QED  BY <1>1, <1>2, TypeCorrect, WaitsStep, PTL DEF Spec

-----------------------------------------------------------------------------
(* What a forced harvest can wait for *)

(* Each aggregator a forced harvest still listens to has a send that has   *)
(* not been answered for.                                                  *)
AwaitsAnswers == \A c \in Caller : \A m \in awaits[c] : \E s \in sends : s.method = m

LEMMA SendAwaits ==
    ASSUME NEW M \in SUBSET Method, NEW a, Send(M, a),
           \A c \in Caller : \A m \in a[c] : m \in M \/ \E s \in sends : s.method = m
    PROVE  AwaitsAnswers'
<1> DEFINE empty == {m \in M : qData[m] = {}}
           New(P) == {[method |-> m, payloads |-> P[m]] : m \in M \ empty}
<1>1. PICK P \in [M -> UNION {Payloads(m) : m \in M}] : sends' = sends \cup New(P)
  BY DEF Send
<1>2. awaits' = Finished(empty, a)
  BY DEF Send
<1> SUFFICES ASSUME NEW c \in Caller, NEW m \in awaits'[c]
             PROVE  \E s \in sends' : s.method = m
  BY DEF AwaitsAnswers
<1>3. m \in a[c] /\ m \notin empty
  BY <1>2 DEF Finished
<1>4. CASE m \in M
  <2>1. [method |-> m, payloads |-> P[m]] \in sends'
    BY <1>1, <1>3, <1>4
  <2>2. QED  BY <2>1
<1>5. CASE m \notin M
  BY <1>1, <1>3, <1>5
<1>6. QED  BY <1>4, <1>5

LEMMA AwaitsStep == TypeOK /\ AwaitsAnswers /\ [Next]_vars => AwaitsAnswers'
<1> SUFFICES ASSUME TypeOK, AwaitsAnswers, [Next]_vars
             PROVE  AwaitsAnswers'
  OBVIOUS
<1>1. ASSUME NEW m \in Method, Tick(m)
      PROVE  AwaitsAnswers'
  <2>1. Send({m}, awaits)
    BY <1>1 DEF Tick
  <2>2. QED  BY <2>1, SendAwaits DEF AwaitsAnswers
<1>2. ASSUME NEW c \in Caller, Clear(c)
      PROVE  AwaitsAnswers'
  <2> DEFINE M == {m \in Method : enabled[m]}
             a == [awaits EXCEPT ![c] = M]
  <2>1. Send(M, a)
    BY <1>2 DEF Clear
  <2>2. \A d \in Caller : \A m \in a[d] : m \in M \/ \E s \in sends : s.method = m
    BY DEF AwaitsAnswers, TypeOK
  <2> HIDE DEF M, a
  <2>3. M \in SUBSET Method
    BY DEF M
  <2>4. QED  BY <2>1, <2>2, <2>3, SendAwaits
<1>3. ASSUME NEW s \in sends, NEW D \in s.payloads, Answered(s, D)
      PROVE  AwaitsAnswers'
  <2> SUFFICES ASSUME NEW c \in Caller, NEW m \in awaits'[c]
               PROVE  \E t \in sends' : t.method = m
    BY DEF AwaitsAnswers
  <2> DEFINE rest == [s EXCEPT !.payloads = @ \ {D}]
  <2>1. rest.method = s.method
    BY DEF TypeOK, SendRecord
  <2>2. sends' = (sends \ {s}) \cup (IF s.payloads = {D} THEN {} ELSE {rest})
    BY <1>3 DEF Answered
  <2> HIDE DEF rest
  <2>3. m \in awaits[c]
    BY <1>3 DEF Answered, Finished
  <2>4. PICK t \in sends : t.method = m
    BY <2>3 DEF AwaitsAnswers
  <2>5. CASE t # s
    BY <2>2, <2>4, <2>5
  <2>6. CASE t = s
    <3>1. s.payloads # {D}
      BY <1>3, <2>4, <2>6 DEF Answered, Finished
    <3>2. QED  BY <2>1, <2>2, <2>4, <2>6, <3>1
  <2>7. QED  BY <2>5, <2>6
<1>4. \A s \in sends : \A D \in s.payloads : Answer(s, D) => Answered(s, D)
  BY DEF Answer, Accepted, Discarded, Retained
<1>5. ((\E e \in Event : Add(e)) \/ (\E c \in Caller : Cleared(c)) \/ Start \/ Stop
         \/ UNCHANGED vars
         \/ \E newLimit \in [Method -> Limits \cup {NoLimit}],
               newEnabled \in [Method -> BOOLEAN] : Update(newLimit, newEnabled))
      => UNCHANGED <<sends, awaits>>
  BY DEF Add, Cleared, Start, Stop, Update, vars
<1>6. UNCHANGED <<sends, awaits>> => AwaitsAnswers'
  BY DEF AwaitsAnswers
<1>7. QED  BY <1>1, <1>2, <1>3, <1>4, <1>5, <1>6 DEF Next

(* The promises of Harvester.clear: whatever is sent, disabled, emptied or *)
(* stopped meanwhile, a forced harvest that has not called back waits for  *)
(* answers of the collector and for nothing else.                          *)
THEOREM WaitsForAnswers == Spec => []AwaitsAnswers
<1>1. Init => AwaitsAnswers
  BY DEF Init, AwaitsAnswers
<1>2. QED  BY <1>1, TypeCorrect, AwaitsStep, PTL DEF Spec

-----------------------------------------------------------------------------
(* What the metrics count *)

(* Until its limit changes, the queue of an aggregator holds what it has   *)
(* seen or is full.                                                        *)
Fills(m) ==
    /\ limit[m] = qLimit[m]
    /\ Cardinality(qData[m]) = IF qSeen[m] <= qLimit[m] THEN qSeen[m] ELSE qLimit[m]

CountsAgree(m) ==
    /\ metric[m].seen = metric[m].sent + metric[m].dropped
    /\ m \notin resized => metric[m].sent = handed[m] + Cardinality(qData[m]) /\ Fills(m)

Counts == \A m \in Method : CountsAgree(m)

LEMMA AfterAddCount ==
    ASSUME NEW k \in Nat, NEW D \in SUBSET Event, NEW e \in Event, e \notin D,
           Cardinality(D) <= k, NEW K \in AfterAdd(k, D, e)
    PROVE  /\ Cardinality(D) < k => e \in K /\ Cardinality(K) = Cardinality(D) + 1
           /\ Cardinality(D) = k => Cardinality(K) = k
<1>1. IsFiniteSet(D) /\ Cardinality(D) \in Nat
  BY CountType
<1>2. IsFiniteSet(D \cup {e}) /\ Cardinality(D \cup {e}) = Cardinality(D) + 1
  BY <1>1, FS_AddElement
<1>3. ASSUME NEW x \in D
      PROVE  Cardinality((D \cup {e}) \ {x}) = Cardinality(D)
  <2>1. Cardinality((D \cup {e}) \ {x}) = Cardinality(D \cup {e}) - 1
    BY <1>2, FS_RemoveElement
  <2>2. QED  BY <1>1, <1>2, <2>1
<1>4. Cardinality(D) < k => K = D \cup {e}
  BY <1>1 DEF AfterAdd
<1>5. Cardinality(D) = k => K = D \/ \E x \in D : K = (D \cup {e}) \ {x}
  BY <1>1 DEF AfterAdd, Minima
<1>6. QED  BY <1>1, <1>2, <1>3, <1>4, <1>5

LEMMA TopCount ==
    ASSUME NEW k \in Nat, NEW S \in SUBSET Event, NEW K \in Top(k, S)
    PROVE  Cardinality(K) = IF Cardinality(S) <= k THEN Cardinality(S) ELSE k
BY DEF Top

LEMMA CountsAdd ==
    ASSUME TypeOK, OnePlace, Counts, NEW e \in Event, Add(e)
    PROVE  Counts'
<1> DEFINE m == MethodOf[e]
           over == OverflowOf(qLimit[m], qSeen[m] + 1)
<1>1. m \in Method /\ qData[m] \in SUBSET Event /\ qLimit[m] \in Nat /\ qSeen[m] \in Nat
  BY EventAggregatorAssumption DEF TypeOK
<1>2. PICK D \in AfterAdd(qLimit[m], qData[m], e) :
        /\ qData' = [qData EXCEPT ![m] = D]
        /\ metric' = [metric EXCEPT ![m] =
              IF e \in D /\ over = 0 THEN Counted(@, 1, 1, 0) ELSE Counted(@, 1, 0, 1)]
  BY DEF Add
<1>3. /\ qSeen' = [qSeen EXCEPT ![m] = @ + 1]
      /\ UNCHANGED <<limit, qLimit, handed, resized>>
      /\ e \in fresh
  BY DEF Add
<1>4. e \notin qData[m]
  BY <1>1, <1>3, InBuffered DEF OnePlace
<1>5. \A n \in Method \ {m} :
        /\ qData'[n] = qData[n] /\ metric'[n] = metric[n] /\ qSeen'[n] = qSeen[n]
  BY <1>1, <1>2, <1>3 DEF TypeOK
<1>6. /\ qData'[m] = D
      /\ qSeen'[m] = qSeen[m] + 1
      /\ metric'[m] = IF e \in D /\ over = 0 THEN Counted(metric[m], 1, 1, 0)
                      ELSE Counted(metric[m], 1, 0, 1)
  BY <1>1, <1>2, <1>3 DEF TypeOK
<1>7. over = IF qSeen[m] + 1 >= qLimit[m] THEN (qSeen[m] + 1) - qLimit[m] ELSE 0
  BY DEF OverflowOf
<1>8. metric[m] \in [seen : Nat, sent : Int, dropped : Nat] /\ handed[m] \in Nat
  BY <1>1 DEF TypeOK
<1> HIDE DEF m, over
<1>9. CountsAgree(m)'
  <2>1. metric'[m].seen = metric'[m].sent + metric'[m].dropped
    BY <1>1, <1>6, <1>8 DEF Counts, CountsAgree, Counted
  <2>2. ASSUME m \notin resized
        PROVE  metric'[m].sent = handed[m] + Cardinality(D) /\ Fills(m)'
    <3>1. /\ metric[m].sent = handed[m] + Cardinality(qData[m])
          /\ limit[m] = qLimit[m]
          /\ Cardinality(qData[m]) = IF qSeen[m] <= qLimit[m] THEN qSeen[m] ELSE qLimit[m]
      BY <1>1, <2>2 DEF Counts, CountsAgree, Fills
    <3>2. Cardinality(qData[m]) \in Nat /\ Cardinality(qData[m]) <= qLimit[m]
      BY <1>1, <3>1
    <3>3. CASE qSeen[m] < qLimit[m]
      <4>1. e \in D /\ Cardinality(D) = Cardinality(qData[m]) + 1
        BY <1>1, <1>4, <3>1, <3>2, <3>3, AfterAddCount
      <4>2. over = 0
        BY <1>1, <1>7, <3>3
      <4>3. metric'[m].sent = metric[m].sent + 1
        BY <1>6, <1>8, <4>1, <4>2 DEF Counted
      <4>4. QED
        BY <1>1, <1>3, <1>6, <1>8, <3>1, <3>2, <3>3, <4>1, <4>3 DEF Fills
    <3>4. CASE qSeen[m] >= qLimit[m]
      <4>1. Cardinality(D) = qLimit[m] /\ Cardinality(qData[m]) = qLimit[m]
        BY <1>1, <1>4, <3>1, <3>2, <3>4, AfterAddCount
      <4>2. over # 0
        BY <1>1, <1>7, <3>4
      <4>3. metric'[m].sent = metric[m].sent
        BY <1>6, <1>8, <4>2 DEF Counted
      <4>4. QED
        BY <1>1, <1>3, <1>6, <3>1, <3>4, <4>1, <4>3 DEF Fills
    <3>5. QED  BY <1>1, <3>3, <3>4
  <2>3. QED  BY <1>3, <1>6, <2>1, <2>2 DEF CountsAgree
<1>10. \A n \in Method \ {m} : CountsAgree(n)'
  BY <1>3, <1>5 DEF Counts, CountsAgree, Fills
<1>11. QED  BY <1>9, <1>10 DEF Counts

LEMMA CountsSend ==
    ASSUME TypeOK, Counts, NEW M \in SUBSET Method, NEW a, Send(M, a),
           UNCHANGED <<limit, qLimit, metric, resized>>
    PROVE  Counts'
<1> SUFFICES ASSUME NEW m \in Method
             PROVE  CountsAgree(m)'
  BY DEF Counts
<1>1. /\ qData'[m] = IF m \in M THEN {} ELSE qData[m]
      /\ qSeen'[m] = IF m \in M THEN 0 ELSE qSeen[m]
      /\ handed'[m] = IF m \in M THEN handed[m] + Cardinality(qData[m]) ELSE handed[m]
  BY DEF Send
<1>2. /\ Cardinality({}) = 0 /\ Cardinality(qData[m]) \in Nat
      /\ qLimit[m] \in Nat /\ handed[m] \in Nat
  BY FS_EmptySet, CountType DEF TypeOK
<1>3. QED  BY <1>1, <1>2 DEF Counts, CountsAgree, Fills

LEMMA CountsMerge ==
    ASSUME TypeOK, Counts, NEW m \in Method, NEW D \in SUBSET Event,
           D \cap qData[m] = {}, Merge(m, D),
           UNCHANGED <<limit, qLimit, handed, resized>>
    PROVE  Counts'
<1> DEFINE room == limit[m] - Cardinality(qData[m])
           toMerge == IF Cardinality(D) <= room THEN Cardinality(D) ELSE room
<1>1. /\ IsFiniteSet(D) /\ Cardinality(D) \in Nat
      /\ IsFiniteSet(qData[m]) /\ Cardinality(qData[m]) \in Nat
      /\ limit[m] \in Nat /\ qLimit[m] \in Nat /\ qSeen[m] \in Nat /\ handed[m] \in Nat
      /\ qData[m] \in SUBSET Event
      /\ metric[m] \in [seen : Nat, sent : Int, dropped : Nat]
  BY CountType DEF TypeOK
<1>2. Cardinality(qData[m] \cup D) = Cardinality(qData[m]) + Cardinality(D)
  BY <1>1, FS_Union, FS_EmptySet
<1>3. PICK K \in Top(qLimit[m], qData[m] \cup D) : qData' = [qData EXCEPT ![m] = K]
  BY DEF Merge
<1>4. Cardinality(K) = IF Cardinality(qData[m]) + Cardinality(D) <= qLimit[m]
                       THEN Cardinality(qData[m]) + Cardinality(D) ELSE qLimit[m]
  BY <1>1, <1>2, TopCount
<1>5. metric' = [metric EXCEPT ![m] =
          Counted(@, Cardinality(D), toMerge, Cardinality(D) - toMerge)]
  BY DEF Merge
<1>6. toMerge \in Int /\ (Cardinality(D) <= room => toMerge = Cardinality(D))
        /\ (Cardinality(D) > room => toMerge = limit[m] - Cardinality(qData[m]))
  BY <1>1
<1> HIDE DEF toMerge
<1>7. /\ metric'[m].seen = metric[m].seen + Cardinality(D)
      /\ metric'[m].sent = metric[m].sent + toMerge
      /\ metric'[m].dropped = metric[m].dropped + (Cardinality(D) - toMerge)
      /\ \A n \in Method \ {m} : metric'[n] = metric[n]
  BY <1>5 DEF Counted, TypeOK
<1>8. /\ qSeen'[m] = qSeen[m] + Cardinality(D)
      /\ \A n \in Method \ {m} : qSeen'[n] = qSeen[n]
  BY DEF Merge, TypeOK
<1>9. qData'[m] = K /\ \A n \in Method \ {m} : qData'[n] = qData[n]
  BY <1>3 DEF TypeOK
<1>10. CountsAgree(m)'
  <2>1. metric'[m].seen = metric'[m].sent + metric'[m].dropped
    BY <1>1, <1>6, <1>7 DEF Counts, CountsAgree
  <2>2. ASSUME m \notin resized
        PROVE  metric'[m].sent = handed[m] + Cardinality(K) /\ Fills(m)'
    <3>1. /\ metric[m].sent = handed[m] + Cardinality(qData[m])
          /\ limit[m] = qLimit[m]
          /\ Cardinality(qData[m]) = IF qSeen[m] <= qLimit[m] THEN qSeen[m] ELSE qLimit[m]
      BY <2>2 DEF Counts, CountsAgree, Fills
    <3>2. toMerge = Cardinality(K) - Cardinality(qData[m])
      BY <1>1, <1>4, <1>6, <3>1
    <3>3. Cardinality(K) = IF qSeen[m] + Cardinality(D) <= qLimit[m]
                           THEN qSeen[m] + Cardinality(D) ELSE qLimit[m]
      BY <1>1, <1>4, <3>1
    <3>4. Cardinality(K) \in Nat
      BY <1>1, <1>4
    <3>5. metric'[m].sent = handed[m] + Cardinality(K)
      BY <1>1, <1>7, <3>1, <3>2, <3>4
    <3>6. Fills(m)'
      BY <1>8, <1>9, <3>1, <3>3 DEF Fills
    <3>7. QED  BY <3>5, <3>6
  <2>3. QED  BY <1>9, <2>1, <2>2 DEF CountsAgree
<1>11. \A n \in Method \ {m} : CountsAgree(n)'
  BY <1>7, <1>8, <1>9 DEF Counts, CountsAgree, Fills
<1>12. QED  BY <1>10, <1>11 DEF Counts

LEMMA CountsUpdate ==
    ASSUME TypeOK, Counts, NEW newLimit, NEW newEnabled, Update(newLimit, newEnabled)
    PROVE  Counts'
<1> SUFFICES ASSUME NEW m \in Method
             PROVE  CountsAgree(m)'
  BY DEF Counts
<1>1. UNCHANGED <<metric, handed>>
  BY DEF Update
<1>2. ASSUME m \notin resized'
      PROVE  metric'[m].sent = handed'[m] + Cardinality(qData'[m]) /\ Fills(m)'
  <2>1. m \notin resized /\ limit'[m] = limit[m] /\ qLimit'[m] = qLimit[m]
    BY <1>2 DEF Update
  <2>2. /\ metric[m].sent = handed[m] + Cardinality(qData[m])
        /\ limit[m] = qLimit[m]
        /\ Cardinality(qData[m]) = IF qSeen[m] <= qLimit[m] THEN qSeen[m] ELSE qLimit[m]
    BY <2>1 DEF Counts, CountsAgree, Fills
  <2>3. m \notin Emptied(limit')
    BY <2>1 DEF Emptied
  <2>4. qData'[m] \in Top(qLimit'[m], qData[m]) /\ qSeen'[m] = qSeen[m]
    BY <2>3 DEF Update
  <2>5. qLimit[m] \in Nat /\ qSeen[m] \in Nat /\ qData[m] \in SUBSET Event
    BY DEF TypeOK
  <2>6. Cardinality(qData'[m]) = Cardinality(qData[m])
    BY <2>1, <2>2, <2>4, <2>5, TopCount
  <2>7. QED  BY <1>1, <2>1, <2>2, <2>4, <2>6 DEF Fills
<1>3. QED  BY <1>1, <1>2 DEF Counts, CountsAgree

LEMMA CountsStep == TypeOK /\ OnePlace /\ Counts /\ [Next]_vars => Counts'
<1> SUFFICES ASSUME TypeOK, OnePlace, Counts, [Next]_vars
             PROVE  Counts'
  OBVIOUS
<1>1. CASE UNCHANGED <<metric, handed, resized, qData, qSeen, limit, qLimit>>
  BY <1>1 DEF Counts, CountsAgree, Fills
<1>2. ASSUME NEW e \in Event, Add(e)
      PROVE  Counts'
  BY <1>2, CountsAdd
<1>3. ASSUME NEW m \in Method, Tick(m)
      PROVE  Counts'
  <2>1. {m} \in SUBSET Method /\ Send({m}, awaits)
          /\ UNCHANGED <<limit, qLimit, metric, resized>>
    BY <1>3 DEF Tick
  <2>2. QED  BY <2>1, CountsSend
<1>4. ASSUME NEW c \in Caller, Clear(c)
      PROVE  Counts'
  <2> DEFINE M == {m \in Method : enabled[m]}
             a == [awaits EXCEPT ![c] = M]
  <2>1. M \in SUBSET Method /\ Send(M, a) /\ UNCHANGED <<limit, qLimit, metric, resized>>
    BY <1>4 DEF Clear
  <2> HIDE DEF M, a
  <2>2. QED  BY <2>1, CountsSend
<1>5. ASSUME NEW s \in sends, NEW D \in s.payloads, NEW answer \in Answers,
             Accepted(s, D, answer) \/ Discarded(s, D, answer)
      PROVE  Counts'
  BY <1>1, <1>5 DEF Accepted, Discarded, Answered
<1>6. ASSUME NEW s \in sends, NEW D \in s.payloads, NEW answer \in Answers,
             Retained(s, D, answer)
      PROVE  Counts'
  <2>1. Answered(s, D) /\ Merge(s.method, D)
    BY <1>6 DEF Retained
  <2>2. /\ s.method \in Method
        /\ D \in SUBSET Event
        /\ D \cap Buffered = {}
    BY <2>1, AnsweredType, AnsweredMoves
  <2>3. UNCHANGED <<limit, qLimit, handed, resized>>
    BY <2>1 DEF Answered
  <2>4. D \cap qData[s.method] = {}
    BY <2>2, InBuffered
  <2>5. QED  BY <2>1, <2>2, <2>3, <2>4, CountsMerge
<1>7. ASSUME NEW newLimit, NEW newEnabled, Update(newLimit, newEnabled)
      PROVE  Counts'
  BY <1>7, CountsUpdate
<1>8. ((\E c \in Caller : Cleared(c)) \/ Start \/ Stop \/ UNCHANGED vars)
        => UNCHANGED <<metric, handed, resized, qData, qSeen, limit, qLimit>>
  BY DEF Cleared, Start, Stop, queues, ghosts, vars
<1>9. QED
  BY <1>1, <1>2, <1>3, <1>4, <1>5, <1>6, <1>7, <1>8 DEF Next, Answer

LEMMA CountsInit == Init => Counts
<1> SUFFICES ASSUME Init, NEW m \in Method
             PROVE  CountsAgree(m)
  BY DEF Counts
<1>1. /\ metric[m] = [seen |-> 0, sent |-> 0, dropped |-> 0]
      /\ handed[m] = 0 /\ qSeen[m] = 0 /\ qData[m] = {}
      /\ limit[m] = DefaultLimit[m] /\ qLimit[m] = DefaultLimit[m]
  BY DEF Init
<1>2. Cardinality({}) = 0 /\ DefaultLimit[m] \in Nat
  BY FS_EmptySet, EventAggregatorAssumption
<1>3. QED  BY <1>1, <1>2 DEF CountsAgree, Fills

(* The SEEN, SENT and DROPPED metrics agree with each other and, until the *)
(* limit of their aggregator changes, with what was handed to the API.     *)
THEOREM MetricsTrue == Spec => []MetricsAgree
<1>1. Counts => MetricsAgree
  BY DEF Counts, CountsAgree, MetricsAgree
<1>2. QED
  BY <1>1, TypeCorrect, PlacesAreOne, CountsInit, CountsStep, PTL DEF Spec
=============================================================================
