---------------------------- MODULE TrackedPool ----------------------------
(***************************************************************************)
(* What a pool of tracked resources promises, whoever fills and empties it *)
(* and whatever fails: the clone pool (_clone_pool with _inflight_creates  *)
(* and their lock) implements it.                                          *)
(*                                                                         *)
(* A maker takes a slot before it makes a resource.  The slot becomes an   *)
(* entry for a resource that exists, or is given back.  An entry is        *)
(* forgotten only after its resource is gone.  Once closed, nothing is     *)
(* made or tracked any more, and resources only disappear.                 *)
(***************************************************************************)
EXTENDS Integers, FiniteSets

CONSTANTS
    Items,      \* resources
    Makers,     \* who may hold a slot
    Limit       \* entries and slots there may be

VARIABLES
    tracked,    \* resources with an entry
    holders,    \* makers that hold a slot
    existing,   \* resources that exist
    closed      \* the pool was cleaned up

vars == <<tracked, holders, existing, closed>>

Init == tracked = {} /\ holders = {} /\ existing = {} /\ closed = FALSE

Take(m) ==
    /\ ~closed /\ m \notin holders
    /\ Cardinality(tracked) + Cardinality(holders) < Limit
    /\ holders' = holders \cup {m}
    /\ UNCHANGED <<tracked, existing, closed>>

\* Resources are only made while somebody holds a slot, and under names that are
\* in use nowhere.
Make(i) ==
    /\ holders # {} /\ i \notin existing \cup tracked
    /\ existing' = existing \cup {i}
    /\ UNCHANGED <<tracked, holders, closed>>

\* A slot becomes the entry of a resource that exists and has none.
Enter(m, i) ==
    /\ m \in holders /\ i \in existing \ tracked
    /\ tracked' = tracked \cup {i} /\ holders' = holders \ {m}
    /\ UNCHANGED <<existing, closed>>

GiveBack(m) ==
    /\ m \in holders
    /\ holders' = holders \ {m}
    /\ UNCHANGED <<tracked, existing, closed>>

Forget(i) ==
    /\ ~closed /\ i \in tracked \ existing
    /\ tracked' = tracked \ {i}
    /\ UNCHANGED <<holders, existing, closed>>

Disappear(i) ==
    /\ i \in existing
    /\ existing' = existing \ {i}
    /\ UNCHANGED <<tracked, holders, closed>>

Close ==
    /\ ~closed /\ holders = {}
    /\ closed' = TRUE
    /\ UNCHANGED <<tracked, holders, existing>>

Next ==
    \/ \E m \in Makers : Take(m) \/ GiveBack(m)
    \/ \E m \in Makers, i \in Items : Enter(m, i)
    \/ \E i \in Items : Make(i) \/ Forget(i) \/ Disappear(i)
    \/ Close

Spec == Init /\ [][Next]_vars
=============================================================================
