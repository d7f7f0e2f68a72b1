------------------------------ MODULE OwnerLock ------------------------------
(***************************************************************************)
(* What a reader of hotdog expects of the lock that guards a window's Goja *)
(* runtime: at any time at most one goroutine holds it, that goroutine may *)
(* take it again, and it becomes free when every acquisition was released. *)
(* ReentrantMutex implements this with a condition variable; the models of *)
(* windows rely on this specification alone.                               *)
(***************************************************************************)
EXTENDS Naturals

CONSTANTS Goroutines, Free

VARIABLES holder, count

lockVars == <<holder, count>>

LockInit == holder = Free /\ count = 0

Acquire(g) ==
    /\ holder \in {Free, g}
    /\ holder' = g
    /\ count' = count + 1

Release(g) ==
    /\ holder = g
    /\ count' = count - 1
    /\ holder' = IF count = 1 THEN Free ELSE g

LockNext == \E g \in Goroutines : Acquire(g) \/ Release(g)

LockSpec == LockInit /\ [][LockNext]_lockVars
=============================================================================
