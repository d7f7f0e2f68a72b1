------------------------ MODULE ReentrantMutexProofs ------------------------
(***************************************************************************)
(* Proofs about the reentrant mutex for any set of goroutines and any      *)
(* nesting bound.  The inductive invariant joins the type invariant, the   *)
(* account of acquisitions and the two facts about waiting goroutines:     *)
(* whoever waits holds nothing, and whoever is parked waits for an owner.  *)
(***************************************************************************)
EXTENDS ReentrantMutex, TLAPS

(* Only the owner has acquisitions outstanding. *)
OnlyOwnerHolds == \A g \in Goroutines : held[g] > 0 => owner = g

(* A waiting goroutine called lock() without owning the mutex. *)
WaiterHoldsNothing == \A g \in Goroutines : Blocked(g) => held[g] = 0

IInv ==
    /\ TypeOK
    /\ DepthMatchesCallers
    /\ OnlyOwnerHolds
    /\ WaiterHoldsNothing
    /\ NoLostWakeup

-----------------------------------------------------------------------------
(* The initial state satisfies the inductive invariant. *)
LEMMA InitEstablishes == Init => IInv
  BY MutexAssumption
  DEF Init, IInv, TypeOK, DepthMatchesCallers, OnlyOwnerHolds,
      WaiterHoldsNothing, NoLostWakeup, Blocked

(* An acquisition by a goroutine that finds the mutex available keeps the  *)
(* account, whether the goroutine was running or just woken.               *)
LEMMA TakePreserves ==
  ASSUME IInv, NEW g \in Goroutines, Available(g), Take(g),
         pc' = [pc EXCEPT ![g] = "running"]
  PROVE  IInv'
<1> USE MutexAssumption
<1>1. TypeOK'
  BY DEF IInv, TypeOK, Take
<1>2. owner' = g /\ owner' # Free /\ depth' = depth + 1 /\ depth \in Nat
  BY DEF IInv, TypeOK, Take
<1>3. held'[g] = held[g] + 1 /\ \A h \in Goroutines \ {g} : held'[h] = held[h]
  BY DEF IInv, TypeOK, Take
<1>4. held[g] = depth /\ \A h \in Goroutines \ {g} : held[h] = 0
  BY DEF IInv, TypeOK, Available, DepthMatchesCallers, OnlyOwnerHolds
<1>5. DepthMatchesCallers'
  BY <1>2, <1>3, <1>4 DEF DepthMatchesCallers
<1>6. OnlyOwnerHolds'
  BY <1>2, <1>3, <1>4 DEF OnlyOwnerHolds
<1>7. WaiterHoldsNothing'
  <2> SUFFICES ASSUME NEW h \in Goroutines, Blocked(h)'
               PROVE  held'[h] = 0
    BY DEF WaiterHoldsNothing
  <2>1. h # g
    BY DEF Blocked, IInv, TypeOK
  <2> QED BY <2>1, <1>3, <1>4
<1>8. NoLostWakeup'
  BY <1>2 DEF NoLostWakeup
<1> QED
  BY <1>1, <1>5, <1>6, <1>7, <1>8 DEF IInv

(* A goroutine that finds the mutex owned by another parks.                *)
LEMMA ParkPreserves ==
  ASSUME IInv, NEW g \in Goroutines, ~Available(g), held[g] = 0,
         pc' = [pc EXCEPT ![g] = "parked"], UNCHANGED <<owner, depth, held>>
  PROVE  IInv'
  BY MutexAssumption
  DEF IInv, TypeOK, DepthMatchesCallers, OnlyOwnerHolds, WaiterHoldsNothing,
      NoLostWakeup, Blocked, Available

(* An owner's unlock keeps the account: it frees the mutex exactly when    *)
(* the owner's last acquisition is returned, and then nobody stays parked. *)
LEMMA ReleasePreserves ==
  ASSUME IInv, NEW g \in Goroutines, owner = g, Unlock(g)
  PROVE  IInv'
<1> USE MutexAssumption
<1>1. /\ depth \in Nat \ {0} /\ held[g] = depth /\ owner # Free
      /\ pc[g] = "running"
  BY DEF IInv, TypeOK, DepthMatchesCallers, Unlock
<1>2. \A h \in Goroutines \ {g} : held[h] = 0
  BY DEF IInv, TypeOK, OnlyOwnerHolds
<1>3. CASE UNCHANGED vars
  BY <1>3 DEF IInv, TypeOK, DepthMatchesCallers, OnlyOwnerHolds,
              WaiterHoldsNothing, NoLostWakeup, Blocked, vars
<1>4. CASE /\ depth' = depth - 1
           /\ held' = [held EXCEPT ![g] = @ - 1]
           /\ IF depth' = 0
              THEN owner' = Free /\ pc' = WakeAll
              ELSE UNCHANGED <<owner, pc>>
  <2>1. held'[g] = depth - 1 /\ \A h \in Goroutines \ {g} : held'[h] = 0
    BY <1>1, <1>2, <1>4 DEF IInv, TypeOK
  <2>2. held' \in [Goroutines -> Nat] /\ depth' \in Nat
    BY <1>1, <1>4, <2>1 DEF IInv, TypeOK
  <2>3. CASE depth' = 0
    <3>1. owner' = Free /\ pc' = WakeAll /\ \A h \in Goroutines : held'[h] = 0
      BY <1>1, <1>4, <2>1, <2>3
    <3>2. /\ pc' \in [Goroutines -> {"running", "parked", "woken"}]
          /\ \A h \in Goroutines : pc'[h] # "parked"
      BY <3>1 DEF WakeAll, IInv, TypeOK
    <3> QED
      BY <2>2, <2>3, <3>1, <3>2
      DEF IInv, TypeOK, DepthMatchesCallers, OnlyOwnerHolds,
          WaiterHoldsNothing, NoLostWakeup
  <2>4. CASE depth' # 0
    <3>1. UNCHANGED <<owner, pc>>
      BY <1>4, <2>4
    <3> QED
      BY <1>1, <1>4, <2>1, <2>2, <2>4, <3>1
      DEF IInv, TypeOK, DepthMatchesCallers, OnlyOwnerHolds,
          WaiterHoldsNothing, NoLostWakeup, Blocked
  <2> QED BY <2>3, <2>4
<1> QED
  BY <1>1, <1>3, <1>4 DEF Unlock

(* Every step keeps the inductive invariant. *)
LEMMA NextPreserves == IInv /\ [Next]_vars => IInv'
<1> SUFFICES ASSUME IInv, [Next]_vars
             PROVE  IInv'
  OBVIOUS
<1> USE MutexAssumption
<1>1. CASE UNCHANGED vars
  BY <1>1 DEF IInv, TypeOK, DepthMatchesCallers, OnlyOwnerHolds,
              WaiterHoldsNothing, NoLostWakeup, Blocked, vars
<1>2. ASSUME NEW g \in Goroutines, Lock(g)
      PROVE  IInv'
  <2>1. CASE Available(g)
    <3>1. pc' = [pc EXCEPT ![g] = "running"] /\ Take(g)
      BY <1>2, <2>1 DEF Lock, IInv, TypeOK
    <3> QED BY <2>1, <3>1, TakePreserves
  <2>2. CASE ~Available(g)
    <3>1. held[g] = 0
      BY <2>2 DEF Available, IInv, TypeOK, OnlyOwnerHolds
    <3> QED BY <1>2, <2>2, <3>1, ParkPreserves DEF Lock
  <2> QED BY <2>1, <2>2
<1>3. ASSUME NEW g \in Goroutines, Wake(g)
      PROVE  IInv'
  <2>1. CASE Available(g)
    BY <1>3, <2>1, TakePreserves DEF Wake
  <2>2. CASE ~Available(g)
    <3>1. held[g] = 0
      BY <2>2 DEF Available, IInv, TypeOK, OnlyOwnerHolds
    <3> QED BY <1>3, <2>2, <3>1, ParkPreserves DEF Wake
  <2> QED BY <2>1, <2>2
<1>4. ASSUME NEW g \in Goroutines, TryLock(g)
      PROVE  IInv'
  <2>1. CASE Available(g)
    <3>1. pc' = [pc EXCEPT ![g] = "running"] /\ Take(g)
      BY <1>4, <2>1 DEF TryLock, IInv, TypeOK
    <3> QED BY <2>1, <3>1, TakePreserves
  <2>2. CASE ~Available(g)
    BY <1>1, <1>4, <2>2 DEF TryLock
  <2> QED BY <2>1, <2>2
<1>5. ASSUME NEW g \in Goroutines, Unlock(g)
      PROVE  IInv'
  <2>1. CASE owner = g
    BY <1>5, <2>1, ReleasePreserves
  <2>2. CASE owner # g
    BY <1>1, <1>5, <2>2 DEF Unlock
  <2> QED BY <2>1, <2>2
<1> QED
  BY <1>1, <1>2, <1>3, <1>4, <1>5 DEF Next, Step

(* The inductive invariant holds in every reachable state. *)
THEOREM Invariance == Spec => []IInv
<1> QED BY InitEstablishes, NextPreserves, PTL DEF Spec

-----------------------------------------------------------------------------
(* The fields of the mutex always hold values of their types. *)
THEOREM TypeCorrect == Spec => []TypeOK
<1>1. IInv => TypeOK
  BY DEF IInv
<1> QED BY <1>1, Invariance, PTL

(* Two goroutines never use one window's Goja runtime at the same time,    *)
(* whatever mix of lock, tryLock and unlock calls they make.               *)
THEOREM Exclusion == Spec => []ExclusiveRuntime
<1>1. IInv => ExclusiveRuntime
  BY DEF IInv, OnlyOwnerHolds, ExclusiveRuntime
<1> QED BY <1>1, Invariance, PTL

(* The depth field is the owner's number of outstanding acquisitions. *)
THEOREM DepthCorrect == Spec => []DepthMatchesCallers
<1>1. IInv => DepthMatchesCallers
  BY DEF IInv
<1> QED BY <1>1, Invariance, PTL

(* A goroutine never stays parked on a mutex that nobody owns. *)
THEOREM WakeupsKept == Spec => []NoLostWakeup
<1>1. IInv => NoLostWakeup
  BY DEF IInv
<1> QED BY <1>1, Invariance, PTL

-----------------------------------------------------------------------------
(* The condition variable is invisible to users of the mutex: each step is *)
(* an acquisition, a release, or changes nothing of the abstract lock.     *)
THEOREM Refinement == Spec => ImplementsOwnerLock
<1> USE MutexAssumption
<1>1. Init => Abstract!LockInit
  BY DEF Init, Abstract!LockInit
<1>2. IInv /\ [Next]_vars => [Abstract!LockNext]_(Abstract!lockVars)
  <2> SUFFICES ASSUME IInv, [Next]_vars
               PROVE  [Abstract!LockNext]_(Abstract!lockVars)
    OBVIOUS
  <2>1. CASE UNCHANGED vars
    BY <2>1 DEF vars, Abstract!lockVars
  <2>2. ASSUME NEW g \in Goroutines, Lock(g) \/ Wake(g) \/ TryLock(g)
        PROVE  Abstract!Acquire(g) \/ UNCHANGED Abstract!lockVars
    BY <2>2 DEF Lock, Wake, TryLock, Take, Available, vars,
                Abstract!Acquire, Abstract!lockVars
  <2>3. ASSUME NEW g \in Goroutines, Unlock(g)
        PROVE  Abstract!Release(g) \/ UNCHANGED Abstract!lockVars
    <3>1. depth \in Nat
      BY DEF IInv, TypeOK
    <3>2. CASE owner = g
      <4>1. depth > 0
        BY <3>2 DEF IInv, DepthMatchesCallers
      <4> QED
        BY <2>3, <3>1, <3>2, <4>1
        DEF Unlock, vars, Abstract!Release, Abstract!lockVars
    <3>3. CASE owner # g
      BY <2>3, <3>3 DEF Unlock, vars, Abstract!lockVars
    <3> QED BY <3>2, <3>3
  <2> QED
    BY <2>1, <2>2, <2>3 DEF Next, Step, Abstract!LockNext
<1> QED
  BY <1>1, <1>2, Invariance, PTL DEF Spec, ImplementsOwnerLock, Abstract!LockSpec
=============================================================================
