----------------------- MODULE InstrumentationTracker -----------------------
(***************************************************************************)
(* The hooks that are registered for the modules of one name, and the      *)
(* copies of such a module that an application loads, each from a path of  *)
(* its own (lib/instrumentation-tracker.js and the parts of lib/shimmer.js *)
(* that use it).  An item of the tracker stands for a hook and the copy it *)
(* was last meant for.  A copy may be loaded again: by import after        *)
(* require, by instrumentLoadedModule, by a second hook of the loader.     *)
(***************************************************************************)
EXTENDS Naturals, Sequences, SequencesExt, FiniteSets

CONSTANTS
    Hook, Copy,
    Picky,      \* the hooks that may decline a copy
    None,       \* no copy
    MaxTries    \* bound

VARIABLES
    items,      \* what is tracked: [hook, resolvedName, meta]
    loaded,     \* the copies that have been loaded
    late,       \* the hooks that were registered after a load
    tries       \* how often each hook has run on each copy

vars == <<items, loaded, late, tries>>

Init ==
    /\ items = <<>>
    /\ loaded = {} /\ late = {}
    /\ tries = [h \in Hook |-> [c \in Copy |-> 0]]

-----------------------------------------------------------------------------
Item(h, c) == [hook |-> h, resolvedName |-> c, meta |-> "new"]

(* registerInstrumentation: each descriptor has an id of its own, so that  *)
(* track always takes it.                                                  *)
Register(h) ==
    /\ \A i \in DOMAIN items : items[i].hook # h
    /\ items' = Append(items, Item(h, None))
    /\ late' = IF loaded = {} THEN late ELSE late \cup {h}
    /\ UNCHANGED <<loaded, tries>>

(* Mutant: an instance that is tracked is not recognised. *)
SetResolvedNameAgain(its, c) ==
    IF \A i \in DOMAIN its : its[i].resolvedName # None
    THEN Append(its, Item(Head(its).hook, c))
    ELSE [i \in DOMAIN its |-> IF its[i].resolvedName = None
                               THEN [its[i] EXCEPT !.resolvedName = c] ELSE its[i]]

(* setResolvedName: nothing is to do for a copy that is tracked; a new one *)
(* takes the items that are meant for none yet, or else a new item for the *)
(* hook of the first.                                                      *)
SetResolvedName(its, c) ==
    IF \E i \in DOMAIN its : its[i].resolvedName = c THEN its
    ELSE IF \A i \in DOMAIN its : its[i].resolvedName # None
    THEN Append(its, Item(Head(its).hook, c))
    ELSE [i \in DOMAIN its |-> IF its[i].resolvedName = None
                               THEN [its[i] EXCEPT !.resolvedName = c] ELSE its[i]]

(* The items whose hook is to run, and those of one hook. *)
Pending(its) == {i \in DOMAIN its : its[i].meta = "new"}
PendingOf(its, h) == {i \in Pending(its) : its[i].hook = h}

(* Copy c is loaded (_postLoad): all items run on it, whichever copy they  *)
(* are meant for, but those whose hook has succeeded or failed.  A hook    *)
(* succeeds, throws, or declines by returning false, which leaves its item *)
(* as it was.                                                              *)
Load(c) ==
    LET its == SetResolvedName(items, c) IN
        /\ items # <<>>
        /\ \E outcome \in [Pending(its) -> {"success", "failure", "new"}] :
              /\ \A i \in Pending(its) : outcome[i] = "new" => its[i].hook \in Picky
              /\ items' = [i \in DOMAIN its |->
                     IF i \in Pending(its) THEN [its[i] EXCEPT !.meta = outcome[i]] ELSE its[i]]
        /\ tries' = [h \in Hook |->
               [tries[h] EXCEPT ![c] = @ + Cardinality(PendingOf(its, h))]]
        /\ \A h \in Hook : tries'[h][c] <= MaxTries
        /\ loaded' = loaded \cup {c}
        /\ UNCHANGED late

Next == (\E h \in Hook : Register(h)) \/ (\E c \in Copy : Load(c))

Spec == Init /\ [][Next]_vars

-----------------------------------------------------------------------------
(* Properties *)

TypeOK ==
    /\ items \in Seq([hook : Hook, resolvedName : Copy \cup {None},
                      meta : {"new", "success", "failure"}])
    /\ loaded \subseteq Copy /\ late \subseteq Hook
    /\ tries \in [Hook -> [Copy -> 0..MaxTries]]

(* However many copies of a module are loaded, and in whatever order, again*)
(* and between registrations, no hook wraps a copy twice, nor is tried     *)
(* again on one it has failed on, unless it may decline.  And the first    *)
(* hook reaches every copy if all were registered before any load.         *)
WrappedOnce ==
    /\ \A h \in Hook \ Picky, c \in Copy : tries[h][c] <= 1
    /\ late = {} => \A c \in loaded : tries[items[1].hook][c] >= 1
=============================================================================
