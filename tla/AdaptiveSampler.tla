-------------------------- MODULE AdaptiveSampler --------------------------
(***************************************************************************)
(* The sampler that decides which transactions are traced                  *)
(* (lib/adaptive-sampler.js): about `samplingTarget' of them per period.   *)
(*                                                                         *)
(* The threshold 1 - min(T / seen, 1), for some T, is compared with a      *)
(* number drawn from [0, 1).  Three cases matter: every draw passes        *)
(* (T >= seen), some do, or none does (T <= 0).                            *)
(***************************************************************************)
EXTENDS Naturals

CONSTANTS
    Target,     \* the targets the server may ask for, all positive
    MaxSeen,    \* bound on the transactions of a period
    MaxChanges  \* bound on the settings of the target in a period

VARIABLES
    samplingTarget, \* this._samplingTarget
    seen,           \* this._seen
    sampled,        \* this._sampled
    first,          \* this._resetCount = 0
    passes          \* the draws that pass the threshold: all, some or none

(* Variables only the properties read. *)
VARIABLES
    largest,    \* the largest target of this period
    changes     \* how often the target was set in this period

vars == <<samplingTarget, seen, sampled, first, passes, largest, changes>>

Larger(a, b) == IF a < b THEN b ELSE a

Init ==
    /\ samplingTarget \in Target
    /\ seen = 0 /\ sampled = 0
    /\ first = TRUE
    /\ passes = "all"
    /\ largest = samplingTarget
    /\ changes = 0

(* _adjustStats: n transactions have been seen. *)
AdjustStats(target, n) ==
    passes' = IF n = 0 THEN passes
              ELSE IF target >= n THEN "all" ELSE "some"

(* Mutant: the limit is passed before it is noticed. *)
ExhaustedAfter(n) == n > (IF first THEN samplingTarget ELSE 2 * samplingTarget)

(* The target that _incrementSampled adjusts to when n are sampled, which  *)
(* is target ^ (target / n) - target ^ (1/2): none is left from twice the  *)
(* target on, for a target of one at once, and it never reaches the        *)
(* number of transactions seen.  The first period stops at the target.     *)
Exhausted(n) == first \/ samplingTarget = 1 \/ n >= 2 * samplingTarget

IncrementSampled ==
    /\ sampled' = sampled + 1
    /\ passes' = IF sampled' < samplingTarget THEN passes
                 ELSE IF Exhausted(sampled') THEN "none" ELSE "some"

ShouldSample ==
    /\ seen < MaxSeen
    /\ seen' = seen + 1
    /\ \/ passes # "none" /\ IncrementSampled
       \/ passes # "all" /\ UNCHANGED <<sampled, passes>>
    /\ UNCHANGED <<samplingTarget, first, largest, changes>>

(* The server sets another target. *)
SetTarget(target) ==
    /\ target # samplingTarget
    /\ changes < MaxChanges
    /\ samplingTarget' = target
    /\ AdjustStats(target, seen)
    /\ largest' = Larger(largest, target)
    /\ changes' = changes + 1
    /\ UNCHANGED <<seen, sampled, first>>

(* _reset: the interval has passed, or, in serverless mode, a transaction  *)
(* starts after it has (maybeUpdateWindow).                                *)
Reset ==
    /\ AdjustStats(samplingTarget, seen)
    /\ first' = FALSE
    /\ seen' = 0 /\ sampled' = 0
    /\ largest' = samplingTarget
    /\ changes' = 0
    /\ UNCHANGED samplingTarget

Next ==
    \/ ShouldSample
    \/ \E target \in Target : SetTarget(target)
    \/ Reset

Spec == Init /\ [][Next]_vars

-----------------------------------------------------------------------------
(* Properties *)

TypeOK ==
    /\ samplingTarget \in Nat /\ seen \in Nat /\ sampled \in Nat
    /\ first \in BOOLEAN
    /\ passes \in {"all", "some", "none"}
    /\ largest \in Nat \ {0} /\ changes \in Nat

(* However the draws fall and whenever targets and periods change, a       *)
(* period samples no more than twice its target, the first one no more     *)
(* than the target, plus one for each time the target is set in it, and    *)
(* the sampler refuses every draw only when the target has been reached.   *)
StaysNearTarget ==
    /\ sampled <= (IF first THEN largest ELSE 2 * largest) + changes
    /\ passes = "none" => sampled >= samplingTarget
=============================================================================
