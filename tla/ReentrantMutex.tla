--------------------------- MODULE ReentrantMutex ---------------------------
(***************************************************************************)
(* The reentrant mutex of hotdog/window_context.go that serializes access  *)
(* to a window's Goja runtime.  The fields owner and depth are protected   *)
(* by an inner sync.Mutex, so each of its critical sections is one action; *)
(* sync.Cond.Wait releases the inner mutex and parks the goroutine in one  *)
(* step, and a woken goroutine evaluates the loop condition again.         *)
(*                                                                         *)
(* held is the callers' view: how many of a goroutine's acquisitions it    *)
(* has not released yet.  It is history that no guard of the code reads,   *)
(* apart from MaxDepth, the bound on nested acquisitions.                  *)
(***************************************************************************)
EXTENDS Naturals

CONSTANTS Goroutines,  \* goroutines that use the window
          Free,        \* the owner field's zero value
          MaxDepth     \* bound on the acquisitions of one goroutine

ASSUME MutexAssumption ==
    /\ Free \notin Goroutines
    /\ MaxDepth \in Nat \ {0}

VARIABLES owner,  \* the goroutine that owns the mutex, or Free
          depth,  \* how often the owner acquired it
          pc,     \* "running", "parked" in cond.Wait, or "woken" by a broadcast
          held    \* outstanding acquisitions of each goroutine

vars == <<owner, depth, pc, held>>

Init ==
    /\ owner = Free
    /\ depth = 0
    /\ pc = [g \in Goroutines |-> "running"]
    /\ held = [g \in Goroutines |-> 0]

Available(g) == owner \in {Free, g}

Blocked(g) == pc[g] \in {"parked", "woken"}

Take(g) ==
    /\ owner' = g
    /\ depth' = depth + 1
    /\ held' = [held EXCEPT ![g] = @ + 1]

-----------------------------------------------------------------------------
(* lock() called by a running goroutine: it takes the mutex or parks.      *)
Lock(g) ==
    /\ pc[g] = "running" /\ held[g] < MaxDepth
    /\ \/ Available(g) /\ Take(g) /\ UNCHANGED pc
       \/ /\ ~Available(g)
          /\ pc' = [pc EXCEPT ![g] = "parked"]
          /\ UNCHANGED <<owner, depth, held>>

\* Faulty form of the next definition: the loop condition is not tested again.
WakeTakesAlways(g) ==
    /\ pc[g] = "woken"
    /\ Take(g)
    /\ pc' = [pc EXCEPT ![g] = "running"]

(* A woken goroutine returns from cond.Wait and tests the loop condition.  *)
Wake(g) ==
    /\ pc[g] = "woken"
    /\ \/ Available(g) /\ Take(g) /\ pc' = [pc EXCEPT ![g] = "running"]
       \/ /\ ~Available(g)
          /\ pc' = [pc EXCEPT ![g] = "parked"]
          /\ UNCHANGED <<owner, depth, held>>

\* Faulty form of the next definition: the owner is not looked at.
TryLockIgnoringOwner(g) ==
    /\ pc[g] = "running" /\ held[g] < MaxDepth
    /\ Take(g) /\ UNCHANGED pc

(* tryLock(): never parks; it reports failure when another goroutine owns  *)
(* the mutex and then changes nothing.                                     *)
TryLock(g) ==
    /\ pc[g] = "running" /\ held[g] < MaxDepth
    /\ \/ Available(g) /\ Take(g) /\ UNCHANGED pc
       \/ ~Available(g) /\ UNCHANGED vars

(* cond.Broadcast(). *)
WakeAll == [g \in Goroutines |-> IF pc[g] = "parked" THEN "woken" ELSE pc[g]]

\* Faulty form of the next definition: nobody is woken.
UnlockWithoutBroadcast(g) ==
    /\ pc[g] = "running"
    /\ owner = g
    /\ depth' = depth - 1
    /\ held' = [held EXCEPT ![g] = @ - 1]
    /\ owner' = IF depth = 1 THEN Free ELSE g
    /\ UNCHANGED pc

\* Faulty form of the next definition: an inner unlock frees the mutex.
UnlockForgettingDepth(g) ==
    /\ pc[g] = "running"
    /\ owner = g
    /\ depth' = 0
    /\ held' = [held EXCEPT ![g] = @ - 1]
    /\ owner' = Free
    /\ pc' = WakeAll

\* Faulty form of the next definition: the owner is not looked at.
UnlockByAnyone(g) ==
    /\ pc[g] = "running"
    /\ depth > 0
    /\ depth' = depth - 1
    /\ held' = [held EXCEPT ![g] = @ - 1]
    /\ IF depth = 1
       THEN owner' = Free /\ pc' = WakeAll
       ELSE UNCHANGED <<owner, pc>>

(* unlock(): ignored when the caller is not the owner; the last release    *)
(* frees the mutex and wakes every parked goroutine.                       *)
Unlock(g) ==
    /\ pc[g] = "running"
    /\ \/ owner # g /\ UNCHANGED vars
       \/ /\ owner = g
          /\ depth' = IF depth > 0 THEN depth - 1 ELSE depth
          /\ held' = [held EXCEPT ![g] = @ - 1]
          /\ IF depth' = 0
             THEN owner' = Free /\ pc' = WakeAll
             ELSE UNCHANGED <<owner, pc>>

Step(g) == Lock(g) \/ Wake(g) \/ TryLock(g) \/ Unlock(g)

Next == \E g \in Goroutines : Step(g)

(* A woken goroutine is scheduled: sync.Cond makes it runnable.  Whether a *)
(* goroutine calls lock or unlock is up to the script it runs.             *)
Fairness == \A g \in Goroutines : WF_vars(Wake(g))

Spec == Init /\ [][Next]_vars

FairSpec == Spec /\ Fairness

-----------------------------------------------------------------------------
(* owner, depth and held hold values of their Go types.                    *)
TypeOK ==
    /\ owner \in Goroutines \cup {Free}
    /\ depth \in Nat
    /\ pc \in [Goroutines -> {"running", "parked", "woken"}]
    /\ held \in [Goroutines -> Nat]

(* Goja is not thread-safe: two goroutines never both have an acquisition  *)
(* of the mutex outstanding.                                               *)
ExclusiveRuntime ==
    \A g, h \in Goroutines : held[g] > 0 /\ held[h] > 0 => g = h

(* The mutex counts exactly the acquisitions its callers have not          *)
(* released: a nested unlock never frees a runtime that an outer RunJS of  *)
(* the same goroutine still uses, and the last unlock always frees it.     *)
DepthMatchesCallers ==
    /\ owner = Free => depth = 0 /\ \A g \in Goroutines : held[g] = 0
    /\ owner # Free => depth > 0 /\ held[owner] = depth

(* No wakeup is lost: while a goroutine is parked in cond.Wait somebody    *)
(* owns the mutex, whose last unlock will wake it.                         *)
NoLostWakeup == \A g \in Goroutines : pc[g] = "parked" => owner # Free

(* A mutex that is free while goroutines wait for it is taken again.       *)
FreeMutexIsTaken ==
    (owner = Free /\ \E g \in Goroutines : Blocked(g)) ~> (owner # Free)

(* The mutex implements the abstract reentrant lock.                       *)
Abstract == INSTANCE OwnerLock WITH holder <- owner, count <- depth

ImplementsOwnerLock == Abstract!LockSpec
=============================================================================
