--------------------------- MODULE ExclusiveTime ---------------------------
(***************************************************************************)
(* The part of a segment's duration in which none of the segments below it *)
(* ran (lib/transaction/trace/exclusive-time-calculator.js): a depth-first *)
(* walk over the tree of segments that hands the ranges of finished        *)
(* segments up through a stack of parents.  A segment may end after its    *)
(* parent, and overlap its siblings.                                       *)
(***************************************************************************)
EXTENDS Integers, Sequences, FiniteSets

CONSTANTS
    Size,       \* the number of segments
    End         \* bound on the time, counted from the start of the root

Segment == 1..Size      \* in the order in which they were added to the tree
Root == 1
Interval == {r \in (0..End) \X (0..End) : r[1] <= r[2]}

VARIABLES
    parentOf,       \* the tree: of each segment but the root
    range,          \* timer.toRange() of each segment
    left,           \* the nodes process has still to be called with
    parentStack,    \* this.parentStack
    exclusive       \* _exclusiveDuration, or -1 where it is not set

vars == <<parentOf, range, left, parentStack, exclusive>>

Children(s) == {c \in Segment \ {Root} : parentOf[c] = s}

(* A segment starts in the function its parent times, and the root lasts   *)
(* as long as any segment.                                                 *)
Init ==
    /\ parentOf \in {p \in [Segment -> 0..Size] :
                        p[Root] = 0 /\ \A s \in Segment \ {Root} : p[s] \in 1..(s - 1)}
    /\ range \in {r \in [Segment -> Interval] :
                     /\ r[Root] = <<0, End>>
                     /\ \A s \in Segment \ {Root} : r[s][1] >= r[parentOf[s]][1]}
    /\ left = <<Root>>
    /\ parentStack = <<>>
    /\ exclusive = [s \in Segment |-> -1]

Later(a, b) == IF a < b THEN b ELSE a
Earlier(a, b) == IF a < b THEN a ELSE b
DurationOf(s) == range[s][2] - range[s][1]

(* A range that begins before the last one has ended extends it.           *)
Extended(res, next) ==
    IF res # <<>> /\ next[1] <= res[Len(res)][2]
    THEN [res EXCEPT ![Len(res)] = <<@[1], Later(next[2], @[2])>>]
    ELSE Append(res, next)

(* The next range of both lists is the one that begins first.              *)
Taken(m, first, second) ==
    IF m.firstIdx <= Len(first)
       /\ (m.secondIdx <= Len(second) => first[m.firstIdx][1] < second[m.secondIdx][1])
    THEN [m EXCEPT !.firstIdx = @ + 1, !.res = Extended(@, first[m.firstIdx])]
    ELSE [m EXCEPT !.secondIdx = @ + 1, !.res = Extended(@, second[m.secondIdx])]

(* merge: both lists are ordered and without overlaps, and so is this.     *)
Merge(first, second) ==
    LET merged[n \in 0..(Len(first) + Len(second))] ==
            IF n = 0 THEN [firstIdx |-> 1, secondIdx |-> 1, res |-> <<>>]
            ELSE Taken(merged[n - 1], first, second)
    IN  merged[Len(first) + Len(second)].res

(* What is left of the duration of s outside the ranges of its children,   *)
(* up to the first of them that begins when s has ended.                   *)
Remaining(s, childPairs) ==
    LET duration[n \in 0..Len(childPairs)] ==
            IF n = 0 THEN DurationOf(s)
            ELSE IF \E i \in 1..n : childPairs[i][1] >= range[s][2] THEN duration[n - 1]
            ELSE duration[n - 1] - (Earlier(childPairs[n][2], range[s][2]) - childPairs[n][1])
    IN  duration[Len(childPairs)]

(* The ranges that come together at each parent of the stack when leaf s   *)
(* has finished, and all parents above.                                    *)
Handed(s) ==
    LET top == Len(parentStack)
        pairs[i \in 1..top] ==
            Merge(parentStack[i].childPairs,
                  IF i = top THEN <<range[s]>>
                  ELSE Merge(pairs[i + 1], <<range[parentStack[i + 1].segment]>>))
    IN  pairs

(* finishLeaf: the parents without a child left are finished, down to one  *)
(* that has another, or to the root.                                       *)
FinishLeaf(s) ==
    \E open \in 0..Len(parentStack) :
        /\ \A i \in (open + 1)..Len(parentStack) : parentStack[i].childrenLeft = 1
        /\ open > 0 => parentStack[open].childrenLeft # 1
        /\ parentStack' = [i \in 1..open |->
              IF i < open THEN parentStack[i]
              ELSE [parentStack[i] EXCEPT !.childrenLeft = @ - 1, !.childPairs = Handed(s)[i]]]
        /\ exclusive' = [p \in Segment |->
              IF p = s THEN DurationOf(s)
              ELSE IF \E i \in (open + 1)..Len(parentStack) : parentStack[i].segment = p
              THEN Remaining(p, Handed(s)[CHOOSE i \in 1..Len(parentStack) : parentStack[i].segment = p])
              ELSE exclusive[p]]

(* process of a node without children. *)
ProcessLeaf ==
    /\ left # <<>> /\ Children(Head(left)) = {}
    /\ FinishLeaf(Head(left))
    /\ left' = Tail(left)
    /\ UNCHANGED <<parentOf, range>>

(* process of a node with children, the last one first. *)
ProcessParent ==
    /\ left # <<>> /\ Children(Head(left)) # {}
    /\ LET s == Head(left)
           count == Cardinality(Children(s))
       IN  /\ parentStack' = Append(parentStack,
                  [childrenLeft |-> count, segment |-> s, childPairs |-> <<>>])
           /\ \E children \in [1..count -> Children(s)] :
                 /\ \A i, j \in 1..count : i < j => children[i] > children[j]
                 /\ left' = children \o Tail(left)
    /\ UNCHANGED <<parentOf, range, exclusive>>

Next == ProcessLeaf \/ ProcessParent

Spec == Init /\ [][Next]_vars

-----------------------------------------------------------------------------
(* Properties *)

(* The segments below s are in every set that has its children and the     *)
(* children of its members.                                                *)
Below(s) ==
    {d \in Segment : \A S \in SUBSET Segment :
        (\A c \in Segment \ {Root} : parentOf[c] \in S \cup {s} => c \in S) => d \in S}

During(s) == range[s][1]..(range[s][2] - 1)

(* When the walk is over, the exclusive duration of every segment is the   *)
(* time in which it ran and no segment below it did, however those overlap *)
(* each other and outlast it, and no parent is left on the stack.          *)
TimeIsExclusive ==
    left = <<>> =>
        /\ parentStack = <<>>
        /\ \A s \in Segment :
              exclusive[s] = Cardinality({t \in During(s) : \A d \in Below(s) : t \notin During(d)})
=============================================================================
