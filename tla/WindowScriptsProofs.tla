------------------------- MODULE WindowScriptsProofs -------------------------
(***************************************************************************)
(* Proofs about the scripts of a window for any number of timers, frames,  *)
(* documents and commands.                                                 *)
(*                                                                         *)
(* None of the four invariants is inductive.  The order of callbacks rests *)
(* on what a goroutine that drains the queue knows: its snapshot is        *)
(* ascending and names every queued frame up to the last one handed out    *)
(* when it was taken.  That no frame is stranded rests on the handle: it   *)
(* names a timer that is armed or has just fired, even though a goroutine  *)
(* may clear the handle of a timer that is not its own.  That a destroyed  *)
(* window stays quiet rests on who holds the runtime.                      *)
(***************************************************************************)
EXTENDS WindowScripts, FiniteSetTheorems, TLAPS

PumpRecords ==
    [at : PumpStates, todo : Seq(Nat), id : Nat, doc : Documents, limit : Nat]

PumpsTyped == pump \in [Pumps -> PumpRecords]

(* Who holds the runtime is running, and the other way round.              *)
HolderIsKnown ==
    /\ \A p \in Pumps : vm = p <=> pump[p].at \in {"running", "calling"}
    /\ vm = UI <=> ui \in {"script", "marking", "releasing"}

(* The handle is of a timer that will still look at the queue.             *)
TimerIsPending == timer # NoPump => pump[timer].at \in {"armed", "fired"}

Strictly(s) == \A i, j \in DOMAIN s : i < j => s[i] < s[j]

(* What a goroutine with a snapshot knows of the queue.                    *)
SnapshotKnows(ids, last, slot) ==
    /\ slot.limit <= last
    /\ Strictly(slot.todo)
    /\ \A i \in DOMAIN slot.todo : slot.todo[i] <= slot.limit
    /\ \A id \in ids : id <= slot.limit => \E i \in DOMAIN slot.todo : slot.todo[i] = id
    /\ slot.at = "calling" =>
          slot.id <= slot.limit /\ \A i \in DOMAIN slot.todo : slot.id < slot.todo[i]

Draining(slot) == slot.at \in {"drained", "running", "calling"}

SnapshotsAreComplete ==
    \A p \in Pumps : Draining(pump[p]) => SnapshotKnows(Queued, counter, pump[p])

DestroyedStaysQuiet ==
    /\ ~runtime \/ ui = "releasing" => destroyed
    /\ destroyed =>
          /\ ~active /\ Queued = {} /\ ui \in {"idle", "locking", "releasing"}
          /\ ui = "releasing" \/ handlers = {}
          /\ \A p \in Pumps : ~Calling(p)

RetiredHaveLeft == Queued \cap retired = {}

IInv ==
    /\ TypeOK /\ PumpsTyped
    /\ HolderIsKnown /\ TimerIsPending /\ SnapshotsAreComplete
    /\ DestroyedStaysQuiet /\ RetiredHaveLeft /\ NoStrandedFrame

-----------------------------------------------------------------------------
(* Ascending enumerations exist, by induction over the largest element.    *)

(* A set of naturals has a least element: induction, told of sets.         *)
LEMMA LeastElement ==
    ASSUME NEW S \in SUBSET Nat, S # {}
    PROVE  \E m \in S : \A n \in S : m <= n
<1> DEFINE R == {ss \in Nat \X Nat : ss[1] < ss[2]}
<1>1. IsWellFoundedOn(R, Nat)
  BY NatLessThanWellFounded DEF OpToRel
<1>2. \A m, n \in S : /\ <<n, m>> \in R <=> n < m
                      /\ n < m \/ m <= n
  OBVIOUS
<1> HIDE DEF R
<1>3. \E m \in S : \A n \in S : ~ (<<n, m>> \in R)
  BY <1>1, WFMin
<1> QED BY <1>2, <1>3

(* A set of naturals that holds 0 and each successor holds them all.       *)
LEMMA NaturalsBySet ==
    ASSUME NEW P, 0 \in P, \A n \in Nat : n \in P => n + 1 \in P
    PROVE  Nat \subseteq P
<1> DEFINE missing == {k \in Nat : k \notin P}
<1>1. SUFFICES ASSUME missing # {} PROVE FALSE
  OBVIOUS
<1>2. PICK m \in missing : \A k \in missing : m <= k
  <2>1. missing \in SUBSET Nat
    OBVIOUS
  <2> HIDE DEF missing
  <2> QED BY <1>1, <2>1, LeastElement
<1>3. m # 0 /\ m - 1 \in Nat /\ m - 1 \notin missing
  BY <1>2
<1> QED BY <1>2, <1>3

Enumerates(s, ids) == s \in [1..Cardinality(ids) -> ids] /\ Strictly(s)

LEMMA EnumerationExists ==
    ASSUME NEW n \in Nat, NEW ids \in SUBSET (1..n)
    PROVE  \E s : Enumerates(s, ids)
<1> DEFINE P == {m \in Nat : \A S \in SUBSET (1..m) : \E s : Enumerates(s, S)}
<1>1. 0 \in P
  <2> SUFFICES ASSUME NEW S \in SUBSET (1..0) PROVE \E s : Enumerates(s, S)
    OBVIOUS
  <2>1. S = {}
    OBVIOUS
  <2>a. Cardinality(S) = 0
    BY <2>1, FS_EmptySet
  <2>2. Enumerates([i \in 1..0 |-> 0], S)
    BY <2>1, <2>a DEF Enumerates, Strictly
  <2> QED BY <2>2
<1>2. ASSUME NEW m \in Nat, m \in P PROVE m + 1 \in P
  <2> SUFFICES ASSUME NEW S \in SUBSET (1..(m + 1)) PROVE \E s : Enumerates(s, S)
    OBVIOUS
  <2> DEFINE T == S \ {m + 1}
  <2>1. T \in SUBSET (1..m) /\ IsFiniteSet(T)
    <3>1. T \in SUBSET (1..m)
      OBVIOUS
    <3> QED BY <3>1, FS_Interval, FS_Subset, 1 \in Int, m \in Int
  <2>2. PICK t : Enumerates(t, T)
    BY <1>2, <2>1
  <2>3. CASE m + 1 \notin S
    BY <2>2, <2>3, T = S
  <2>4. CASE m + 1 \in S
    <3> DEFINE c == Cardinality(T)
               s == [i \in 1..(c + 1) |-> IF i = c + 1 THEN m + 1 ELSE t[i]]
    <3>1. c \in Nat /\ Cardinality(S) = c + 1
      <4>1. S = T \cup {m + 1} /\ m + 1 \notin T
        BY <2>4
      <4> HIDE DEF T
      <4> QED BY <4>1, <2>1, FS_AddElement, FS_CardinalityType
    <3>a. t \in [1..c -> T] /\ T \subseteq 1..m /\ T \subseteq S
      BY <2>1, <2>2 DEF Enumerates
    <3>3. \A i, j \in 1..c : i < j => t[i] < t[j]
      BY <2>2 DEF Enumerates, Strictly
    <3>b. \A x \in 1..m : x < m + 1
      OBVIOUS
    <3> HIDE DEF c, T
    <3>2. \A i \in 1..c : t[i] \in S /\ t[i] < m + 1
      <4> TAKE i \in 1..c
      <4>1. t[i] \in T
        BY <3>a
      <4>2. t[i] \in 1..m /\ t[i] \in S
        BY <4>1, <3>a
      <4> QED BY <4>2, <3>b
    <3>4. s \in [1..(c + 1) -> S]
      BY <3>1, <3>2, <2>4
    <3>5. Strictly(s)
      <4> SUFFICES ASSUME NEW i \in 1..(c + 1), NEW j \in 1..(c + 1), i < j
                   PROVE  s[i] < s[j]
        BY DEF Strictly
      <4>1. i \in 1..c
        BY <3>1
      <4> QED BY <4>1, <3>1, <3>2, <3>3
    <3> HIDE DEF s
    <3> QED BY <3>1, <3>4, <3>5 DEF Enumerates
  <2> QED BY <2>3, <2>4
<1>3. n \in P
  <2> HIDE DEF P
  <2> QED BY <1>1, <1>2, NaturalsBySet
<1> QED BY <1>3

(* The snapshot that the code sorts holds each id of the queue.            *)
LEMMA AscendingEnumerates ==
    ASSUME NEW n \in Nat, NEW ids \in SUBSET (1..n)
    PROVE  /\ Ascending(ids) \in Seq(Nat)
           /\ Strictly(Ascending(ids))
           /\ \A i \in DOMAIN Ascending(ids) : Ascending(ids)[i] \in ids
           /\ \A id \in ids : \E i \in DOMAIN Ascending(ids) : Ascending(ids)[i] = id
<1> DEFINE c == Cardinality(ids)
           s == Ascending(ids)
<1>0. \A x \in ids : x \in Nat
  OBVIOUS
<1>1. IsFiniteSet(ids) /\ c \in Nat
  BY FS_Interval, FS_Subset, FS_CardinalityType, 1 \in Int, n \in Int
<1>2. s \in [1..c -> ids] /\ \A i, j \in 1..c : i < j => s[i] < s[j]
  <2>1. \E e \in [1..c -> ids] : \A i, j \in 1..c : i < j => e[i] < e[j]
    BY EnumerationExists DEF Enumerates, Strictly
  <2> QED BY <2>1 DEF Ascending
<1> HIDE DEF s, c
<1>a. \A i \in 1..c : s[i] \in Nat
  <2> TAKE i \in 1..c
  <2>1. s[i] \in ids
    BY <1>2
  <2> QED BY <2>1, <1>0
<1>3. s \in Seq(Nat)
  <2>1. s \in [1..c -> Nat]
    BY <1>2, <1>a
  <2> QED BY <1>1, <2>1
<1>4. s \in Injection(1..c, ids)
  <2>1. \A i, j \in 1..c : s[i] = s[j] => i = j
    <3> SUFFICES ASSUME NEW i \in 1..c, NEW j \in 1..c, s[i] = s[j], i # j PROVE FALSE
      OBVIOUS
    <3>1. s[i] \in Nat /\ s[j] \in Nat
      BY <1>a
    <3>2. i < j \/ j < i
      BY <1>1
    <3> QED BY <1>2, <3>1, <3>2
  <2> QED BY <1>2, <2>1 DEF Injection, IsInjective
<1>5. s \in Surjection(1..c, ids)
  <2>1. IsFiniteSet(1..c) /\ Cardinality(1..c) = c
    BY <1>1, FS_Interval, 1 \in Int, c \in Int
  <2> QED BY <1>1, <1>4, <2>1, FS_Injection DEF c
<1>6. \A id \in ids : \E i \in 1..c : s[i] = id
  BY <1>5 DEF Surjection
<1> QED BY <1>2, <1>3, <1>6 DEF Strictly, s

-----------------------------------------------------------------------------
(* What arming and stopping do to the slots.                               *)

IdleStates == {"free", "armed"}

(* Timers are armed and stopped, and no goroutine moves.                   *)
OnlyTimersMove ==
    /\ pump' \in [Pumps -> PumpRecords]
    /\ \A p \in Pumps : \/ pump'[p] = pump[p]
                        \/ pump[p].at \in IdleStates /\ pump'[p].at \in IdleStates

LEMMA IdleIsPump ==
    /\ IdlePump \in PumpRecords /\ IdlePump.at = "free"
    /\ [IdlePump EXCEPT !.at = "armed"] \in PumpRecords
    /\ [IdlePump EXCEPT !.at = "armed"].at = "armed"
    /\ [IdlePump EXCEPT !.at = "rearming"] \in PumpRecords
    /\ [IdlePump EXCEPT !.at = "rearming"].at = "rearming"
<1>1. <<>> \in Seq(Nat) /\ 0 \in Documents
  BY WindowAssumption DEF Documents
<1> QED BY <1>1 DEF IdlePump, PumpRecords, PumpStates

(* Arm leaves a non-empty queue of an active window to somebody.           *)
LEMMA ArmProperties ==
    ASSUME NEW slots \in [Pumps -> PumpRecords], NEW on, NEW handle \in Pumps \cup {NoPump},
           NEW ids, Arm(slots, on, handle, ids),
           handle # NoPump => slots[handle].at \in {"armed", "fired"}
    PROVE  /\ pump' \in [Pumps -> PumpRecords]
           /\ \A p \in Pumps : \/ pump'[p] = slots[p]
                               \/ slots[p].at = "free" /\ pump'[p].at = "armed"
           /\ timer' \in Pumps \cup {NoPump}
           /\ timer' # NoPump => pump'[timer'].at \in {"armed", "fired"}
           /\ on /\ ids # {} => \E p \in Pumps : pump'[p].at # "free"
<1>1. CASE on /\ handle = NoPump /\ ids # {}
  <2>1. PICK p \in Pumps :
            /\ slots[p].at = "free" /\ timer' = p
            /\ pump' = [slots EXCEPT ![p] = [IdlePump EXCEPT !.at = "armed"]]
    BY <1>1 DEF Arm
  <2>2. /\ pump' \in [Pumps -> PumpRecords] /\ pump'[p].at = "armed"
        /\ \A q \in Pumps \ {p} : pump'[q] = slots[q]
    BY <2>1, IdleIsPump
  <2> QED BY <2>1, <2>2
<1>2. CASE ~(on /\ handle = NoPump /\ ids # {})
  <2>1. pump' = slots /\ timer' = handle
    BY <1>2 DEF Arm
  <2> QED BY <1>2, <2>1
<1> QED BY <1>1, <1>2

LEMMA StopProperties ==
    ASSUME PumpsTyped, timer \in Pumps \cup {NoPump}, StopTimer
    PROVE  OnlyTimersMove /\ timer' = NoPump
<1>1. CASE timer # NoPump /\ pump[timer].at = "armed"
  <2>1. timer \in Pumps /\ pump' = [pump EXCEPT ![timer] = IdlePump] /\ timer' = NoPump
    BY <1>1 DEF StopTimer, Stopped
  <2> QED BY <1>1, <2>1, IdleIsPump DEF OnlyTimersMove, PumpsTyped, IdleStates
<1>2. CASE ~(timer # NoPump /\ pump[timer].at = "armed")
  BY <1>2 DEF StopTimer, Stopped, OnlyTimersMove, PumpsTyped
<1> QED BY <1>1, <1>2

-----------------------------------------------------------------------------
(* What steps have in common.                                              *)

LEMMA InitEstablishes == Init => IInv
<1> SUFFICES ASSUME Init PROVE IInv
  OBVIOUS
<1>1. PumpsTyped /\ \A p \in Pumps : pump[p].at = "free"
  BY IdleIsPump DEF Init, PumpsTyped
<1>2. Queued = {}
  BY DEF Init, Queued
<1>3. TypeOK
  <2>1. 0 \in Documents /\ 0 \in 0..MaxFrames /\ 0 \in 0..MaxCommands /\ retired = {}
    BY WindowAssumption DEF Init, Documents
  <2>2. {active, destroyed, runtime} \subseteq BOOLEAN
    BY DEF Init
  <2> QED
    BY <1>1, <1>2, <2>1, <2>2 DEF Init, TypeOK, PumpStates, UIStates
<1> QED
  BY <1>1, <1>2, <1>3, WindowAssumption
  DEF Init, IInv, HolderIsKnown, TimerIsPending, SnapshotsAreComplete, Draining,
      DestroyedStaysQuiet, RetiredHaveLeft, NoStrandedFrame, NoPump, Calling

(* A step that only moves timers, queues only new ids and leaves the       *)
(* runtime alone, keeps what goroutines know.                              *)
LEMMA TimersKeepSnapshots ==
    ASSUME IInv, OnlyTimersMove, counter' \in Nat, counter <= counter',
           \A id \in Queued' : id \in Queued \/ (id \in Nat /\ id > counter)
    PROVE  SnapshotsAreComplete'
<1> SUFFICES ASSUME NEW p \in Pumps, Draining(pump'[p])
             PROVE  SnapshotKnows(Queued', counter', pump'[p])
  BY DEF SnapshotsAreComplete
<1>1. pump'[p] = pump[p] /\ SnapshotKnows(Queued, counter, pump[p])
  BY DEF OnlyTimersMove, IdleStates, Draining, IInv, SnapshotsAreComplete
<1>2. counter \in Nat /\ pump[p].limit \in Nat
  BY DEF IInv, TypeOK, PumpsTyped, PumpRecords
<1> QED BY <1>1, <1>2 DEF SnapshotKnows

LEMMA TimersKeepHolder ==
    ASSUME IInv, OnlyTimersMove, vm' = vm,
           ui \in {"script", "marking", "releasing"} <=> ui' \in {"script", "marking", "releasing"}
    PROVE  HolderIsKnown'
  BY DEF IInv, HolderIsKnown, OnlyTimersMove, IdleStates

(* A frame is scheduled by a script or for the answer of a request.        *)
LEMMA SchedulePreserves ==
    ASSUME IInv, NEW doc \in Documents, ScheduleAnimationFrame(doc), inflight' \subseteq Documents,
           UNCHANGED <<flags, page, vm, ui, commands, retired>>
    PROVE  IInv'
<1> USE DEF flags, page
<1>1. CASE destroyed
  <2>1. UNCHANGED <<flags, page, queue, vm, ui, commands>>
    BY <1>1 DEF ScheduleAnimationFrame, queue
  <2> QED
    BY <2>1 DEF queue, IInv, TypeOK, PumpsTyped, HolderIsKnown, TimerIsPending, SnapshotsAreComplete,
        DestroyedStaysQuiet, RetiredHaveLeft, NoStrandedFrame, Queued, Calling
<1>2. CASE ~destroyed
  <2>1. /\ counter < MaxFrames /\ counter' = counter + 1
        /\ Queued' = Queued \cup {counter'}
        /\ \A id \in Queued' : frames'[id] = IF id = counter' THEN doc ELSE frames[id]
        /\ Arm(pump, active, timer, Queued \cup {counter'})
    BY <1>2 DEF ScheduleAnimationFrame, Queued
  <2>2. /\ counter \in Nat /\ MaxFrames \in Nat /\ Queued \subseteq 1..counter /\ retired \subseteq 1..counter
        /\ timer \in Pumps \cup {NoPump} /\ pump \in [Pumps -> PumpRecords]
        /\ timer # NoPump => pump[timer].at \in {"armed", "fired"}
    BY WindowAssumption DEF IInv, TypeOK, PumpsTyped, TimerIsPending
  <2>3. /\ pump' \in [Pumps -> PumpRecords]
        /\ \A p \in Pumps : \/ pump'[p] = pump[p]
                            \/ pump[p].at = "free" /\ pump'[p].at = "armed"
        /\ timer' \in Pumps \cup {NoPump}
        /\ timer' # NoPump => pump'[timer'].at \in {"armed", "fired"}
        /\ active => \E p \in Pumps : pump'[p].at # "free"
    BY <2>1, <2>2, ArmProperties
  <2>4. OnlyTimersMove
    BY <2>3 DEF OnlyTimersMove, IdleStates
  <2>5. Queued' \subseteq 1..counter' /\ retired' \subseteq 1..counter' /\ counter' \in 0..MaxFrames
    BY <2>1, <2>2
  <2>6. TypeOK'
    <3>1. \A p \in Pumps : pump'[p].at \in PumpStates
      BY <2>3 DEF PumpRecords
    <3>2. \A id \in Queued' : frames'[id] \in Documents
      BY <2>1 DEF IInv, TypeOK
    <3> QED BY <2>3, <2>5, <3>1, <3>2 DEF IInv, TypeOK, Documents
  <2>7. SnapshotsAreComplete'
    BY <2>1, <2>2, <2>4, TimersKeepSnapshots
  <2>8. HolderIsKnown'
    BY <2>4, TimersKeepHolder
  <2>9. RetiredHaveLeft'
    BY <2>1, <2>2 DEF IInv, RetiredHaveLeft
  <2>10. DestroyedStaysQuiet'
    BY <1>2 DEF IInv, DestroyedStaysQuiet
  <2> QED
    BY <2>3, <2>6, <2>7, <2>8, <2>9, <2>10 DEF IInv, PumpsTyped, TimerIsPending, NoStrandedFrame
<1> QED BY <1>1, <1>2

(* The queue is emptied, and its timer stopped.                            *)
LEMMA DropProperties ==
    ASSUME IInv, DropFrames, counter' = counter
    PROVE  /\ OnlyTimersMove /\ timer' = NoPump /\ Queued' = {}
           /\ retired' \subseteq 1..counter /\ RetiredHaveLeft' /\ TimerIsPending'
           /\ SnapshotsAreComplete' /\ NoStrandedFrame'
<1>1. OnlyTimersMove /\ timer' = NoPump
  BY StopProperties DEF DropFrames, IInv, TypeOK
<1>2. Queued' = {}
  BY DEF DropFrames, Queued
<1>3. retired' \subseteq 1..counter
  BY DEF DropFrames, IInv, TypeOK
<1>4. counter \in Nat
  BY DEF IInv, TypeOK
<1>5. SnapshotsAreComplete'
  BY <1>1, <1>2, <1>4, TimersKeepSnapshots
<1> QED BY <1>1, <1>2, <1>3, <1>5 DEF RetiredHaveLeft, TimerIsPending, NoStrandedFrame

-----------------------------------------------------------------------------
(* Scripts and requests.                                                   *)

(* A frame that leaves the queue, and may take the timer with it.          *)
LEMMA ScriptCancelsFramePreserves == IInv /\ ScriptCancelsFrame => IInv'
<1> SUFFICES ASSUME IInv, ScriptCancelsFrame PROVE IInv'
  OBVIOUS
<1>1. PICK id \in Queued :
         /\ CancelAnimationFrame(id)
         /\ UNCHANGED <<flags, page, counter, vm, ui, commands, inflight>>
  BY DEF ScriptCancelsFrame
<1>2. /\ Queued' = Queued \ {id} /\ retired' = retired \cup {id}
      /\ \A i \in Queued' : frames'[i] = frames[i]
  BY <1>1 DEF CancelAnimationFrame, Without, Queued
<1>3. OnlyTimersMove /\ ((timer' = timer /\ pump' = pump) \/ (timer' = NoPump /\ Queued' = {}))
  <2>1. CASE Queued = {id} /\ timer # NoPump
    BY <1>1, <1>2, <2>1, StopProperties DEF CancelAnimationFrame, IInv, TypeOK
  <2>2. CASE ~(Queued = {id} /\ timer # NoPump)
    BY <1>1, <2>2 DEF CancelAnimationFrame, IInv, PumpsTyped, OnlyTimersMove
  <2> QED BY <2>1, <2>2
<1>4. PumpsTyped' /\ TimerIsPending' /\ NoStrandedFrame'
  BY <1>1, <1>2, <1>3
  DEF OnlyTimersMove, PumpsTyped, IInv, TimerIsPending, NoStrandedFrame, flags
<1>5. SnapshotsAreComplete' /\ HolderIsKnown'
  BY <1>1, <1>2, <1>3, TimersKeepSnapshots, TimersKeepHolder DEF IInv, TypeOK
<1>6. TypeOK'
  BY <1>1, <1>2, <1>3, <1>4 DEF IInv, TypeOK, PumpsTyped, PumpRecords, flags, page
<1>7. RetiredHaveLeft' /\ DestroyedStaysQuiet'
  BY <1>1, <1>2, <1>3
  DEF IInv, RetiredHaveLeft, DestroyedStaysQuiet, flags, page, OnlyTimersMove, IdleStates, Calling
<1> QED BY <1>4, <1>5, <1>6, <1>7 DEF IInv

(* The conjuncts of the invariant that read the queue and the slots.       *)
QueueInv ==
    /\ PumpsTyped /\ TimerIsPending /\ SnapshotsAreComplete /\ RetiredHaveLeft

LEMMA QueueKeeps ==
    ASSUME IInv, UNCHANGED queue
    PROVE  QueueInv' /\ Queued' = Queued /\ UNCHANGED <<frames, counter, timer, pump, retired>>
  BY DEF queue, IInv, QueueInv, PumpsTyped, TimerIsPending, SnapshotsAreComplete, RetiredHaveLeft,
         Queued

LEMMA ScriptStepPreserves == IInv /\ ScriptStep => IInv'
<1> SUFFICES ASSUME IInv, ScriptStep PROVE IInv'
  OBVIOUS
<1>1. CASE ScriptRequestsFrame
  BY <1>1, SchedulePreserves DEF ScriptRequestsFrame, IInv, TypeOK
<1>2. CASE ScriptCancelsFrame
  BY <1>2, ScriptCancelsFramePreserves
<1>3. CASE ScriptSendsRequest
  <2>1. UNCHANGED <<flags, page, queue, vm, ui, commands>> /\ inflight' \subseteq Documents
    BY <1>3 DEF ScriptSendsRequest, IInv, TypeOK
  <2> QED
    BY <2>1, QueueKeeps
    DEF IInv, QueueInv, flags, page, TypeOK, HolderIsKnown, DestroyedStaysQuiet, NoStrandedFrame,
        Calling
<1>4. CASE ScriptAddsListener
  <2>1. PICK doc \in Documents :
           /\ Running(doc) /\ handlers' = handlers \cup {doc}
           /\ UNCHANGED <<flags, queue, document, realm, vm, ui, commands, inflight>>
    BY <1>4 DEF ScriptAddsListener
  <2>2. ~destroyed
    BY <2>1 DEF Running, IInv, DestroyedStaysQuiet, Calling
  <2> QED
    BY <2>1, <2>2, QueueKeeps
    DEF IInv, QueueInv, flags, TypeOK, HolderIsKnown, DestroyedStaysQuiet, NoStrandedFrame, Calling
<1> QED BY <1>1, <1>2, <1>3, <1>4 DEF ScriptStep

LEMMA RequestAnsweredPreserves == IInv /\ RequestAnswered => IInv'
  BY SchedulePreserves DEF RequestAnswered, IInv, TypeOK

-----------------------------------------------------------------------------
(* The commands of the UI goroutine.                                       *)

LEMMA SetActivePreserves == IInv /\ SetActive => IInv'
<1> SUFFICES ASSUME IInv, SetActive PROVE IInv'
  OBVIOUS
<1>1. PICK on \in BOOLEAN :
         /\ Command
         /\ IF destroyed \/ active = on
            THEN UNCHANGED <<active, timer, pump>>
            ELSE /\ active' = on
                 /\ IF on THEN Arm(pump, on, timer, Queued) ELSE StopTimer
         /\ UNCHANGED <<page, destroyed, runtime, frames, counter, vm, ui, inflight, retired>>
  BY DEF SetActive
<1>2. Queued' = Queued /\ counter' = counter /\ counter \in Nat
  BY <1>1 DEF Queued, IInv, TypeOK
<1>3. /\ OnlyTimersMove /\ TimerIsPending' /\ NoStrandedFrame'
      /\ timer' \in Pumps \cup {NoPump} /\ active' \in BOOLEAN /\ (destroyed => active' = active)
  <2>1. CASE destroyed \/ active = on
    BY <1>1, <1>2, <2>1
    DEF IInv, TypeOK, PumpsTyped, OnlyTimersMove, TimerIsPending, NoStrandedFrame
  <2>2. CASE ~(destroyed \/ active = on) /\ on
    <3>1. active' = TRUE /\ Arm(pump, on, timer, Queued)
      BY <1>1, <2>2
    <3>2. /\ timer \in Pumps \cup {NoPump} /\ pump \in [Pumps -> PumpRecords]
          /\ timer # NoPump => pump[timer].at \in {"armed", "fired"}
      BY DEF IInv, TypeOK, PumpsTyped, TimerIsPending
    <3>3. /\ pump' \in [Pumps -> PumpRecords]
          /\ \A p \in Pumps : \/ pump'[p] = pump[p]
                              \/ pump[p].at = "free" /\ pump'[p].at = "armed"
          /\ timer' \in Pumps \cup {NoPump}
          /\ timer' # NoPump => pump'[timer'].at \in {"armed", "fired"}
          /\ on /\ Queued # {} => \E p \in Pumps : pump'[p].at # "free"
      BY <3>1, <3>2, ArmProperties
    <3> QED
      BY <3>1, <3>3, <1>2, <2>2 DEF OnlyTimersMove, IdleStates, TimerIsPending, NoStrandedFrame
  <2>3. CASE ~(destroyed \/ active = on) /\ ~on
    BY <1>1, <2>3, StopProperties
    DEF IInv, TypeOK, TimerIsPending, NoStrandedFrame
  <2> QED BY <2>1, <2>2, <2>3
<1>4. SnapshotsAreComplete' /\ HolderIsKnown'
  BY <1>1, <1>2, <1>3, TimersKeepSnapshots, TimersKeepHolder
<1>5. TypeOK'
  <2>1. \A p \in Pumps : pump'[p].at \in PumpStates
    BY <1>3 DEF OnlyTimersMove, PumpRecords
  <2>2. commands' \in 0..MaxCommands
    BY <1>1, WindowAssumption DEF Command, IInv, TypeOK
  <2> QED BY <1>1, <1>2, <1>3, <2>1, <2>2 DEF IInv, TypeOK, page
<1>6. RetiredHaveLeft' /\ DestroyedStaysQuiet' /\ PumpsTyped'
  BY <1>1, <1>2, <1>3
  DEF IInv, RetiredHaveLeft, DestroyedStaysQuiet, page, PumpsTyped, OnlyTimersMove, IdleStates, Calling
<1> QED BY <1>3, <1>4, <1>5, <1>6 DEF IInv

(* The commands that leave the queue as it is. *)
LEMMA QuietCommandsPreserve ==
    ASSUME IInv,
           \/ ScriptCalled \/ ScriptStarts \/ ScriptReturns \/ LoadHTML \/ InitJSRuntime
           \/ DestroyCalled \/ DestroyLocksRuntime \/ DestroyReleases
    PROVE  IInv'
<1>1. /\ QueueInv' /\ Queued' = Queued /\ UNCHANGED <<frames, counter, timer, pump, retired>>
  BY QueueKeeps
  DEF ScriptCalled, ScriptStarts, ScriptReturns, LoadHTML, InitJSRuntime, DestroyCalled,
      DestroyLocksRuntime, DestroyReleases
<1>2. UNCHANGED <<destroyed, inflight>> /\ active' = active
  BY DEF ScriptCalled, ScriptStarts, ScriptReturns, LoadHTML, InitJSRuntime, DestroyCalled,
      DestroyLocksRuntime, DestroyReleases, flags
<1>3. NoStrandedFrame'
  BY <1>1, <1>2 DEF IInv, NoStrandedFrame
<1>4. HolderIsKnown'
  <2>1. UI \notin Pumps /\ NoHolder \notin Pumps /\ UI # NoHolder
    BY WindowAssumption
  <2> QED
    BY <1>1, <2>1
    DEF ScriptCalled, ScriptStarts, ScriptReturns, LoadHTML, InitJSRuntime, DestroyCalled,
        DestroyLocksRuntime, DestroyReleases, Command, IInv, HolderIsKnown
<1>5. DestroyedStaysQuiet'
  BY <1>1, <1>2
  DEF ScriptCalled, ScriptStarts, ScriptReturns, LoadHTML, InitJSRuntime, DestroyCalled,
      DestroyLocksRuntime, DestroyReleases, Command, IInv, DestroyedStaysQuiet, Calling, flags, page
<1>6. TypeOK'
  <2>1. /\ MaxDocuments \in Nat /\ MaxCommands \in Nat
        /\ document \in 0..MaxDocuments /\ commands \in 0..MaxCommands
    BY WindowAssumption DEF IInv, TypeOK, Documents
  <2>2. document' \in 0..MaxDocuments /\ commands' \in 0..MaxCommands
    BY <2>1
    DEF ScriptCalled, ScriptStarts, ScriptReturns, LoadHTML, InitJSRuntime, DestroyCalled,
        DestroyLocksRuntime, DestroyReleases, Command, page
  <2>3. /\ realm' \in Documents /\ handlers' \subseteq Documents /\ ui' \in UIStates
        /\ vm' \in Pumps \cup {UI, NoHolder}
        /\ runtime' \in BOOLEAN
    BY DEF ScriptCalled, ScriptStarts, ScriptReturns, LoadHTML, InitJSRuntime, DestroyCalled,
        DestroyLocksRuntime, DestroyReleases, Command, page, flags, IInv, TypeOK, UIStates
  <2> QED BY <1>1, <1>2, <2>2, <2>3 DEF IInv, TypeOK, Documents
<1> QED BY <1>1, <1>3, <1>4, <1>5, <1>6 DEF IInv, QueueInv

LEMMA LoadDropsFramesPreserves == IInv /\ LoadDropsFrames => IInv'
<1> SUFFICES ASSUME IInv, LoadDropsFrames PROVE IInv'
  OBVIOUS
<1>1. /\ OnlyTimersMove /\ timer' = NoPump /\ Queued' = {}
      /\ retired' \subseteq 1..counter /\ RetiredHaveLeft' /\ TimerIsPending'
      /\ SnapshotsAreComplete' /\ NoStrandedFrame'
  BY DropProperties DEF LoadDropsFrames
<1>2. HolderIsKnown' /\ PumpsTyped'
  BY <1>1, TimersKeepHolder DEF LoadDropsFrames, PumpsTyped, OnlyTimersMove
<1>3. TypeOK'
  BY <1>1 DEF LoadDropsFrames, IInv, TypeOK, flags, page, OnlyTimersMove, PumpRecords, UIStates
<1>4. DestroyedStaysQuiet'
  BY DEF LoadDropsFrames, IInv, DestroyedStaysQuiet, flags
<1> QED BY <1>1, <1>2, <1>3, <1>4 DEF IInv

LEMMA DestroyMarksPreserves == IInv /\ DestroyMarks => IInv'
<1> SUFFICES ASSUME IInv, DestroyMarks PROVE IInv'
  OBVIOUS
<1>1. /\ OnlyTimersMove /\ timer' = NoPump /\ Queued' = {}
      /\ retired' \subseteq 1..counter /\ RetiredHaveLeft' /\ TimerIsPending'
      /\ SnapshotsAreComplete' /\ NoStrandedFrame'
  BY DropProperties DEF DestroyMarks
<1>2. HolderIsKnown' /\ PumpsTyped'
  BY <1>1, TimersKeepHolder DEF DestroyMarks, PumpsTyped, OnlyTimersMove
<1>3. TypeOK'
  BY <1>1 DEF DestroyMarks, IInv, TypeOK, page, OnlyTimersMove, PumpRecords, UIStates
<1>4. \A p \in Pumps : ~Calling(p)'
  BY <1>1, WindowAssumption
  DEF DestroyMarks, IInv, HolderIsKnown, OnlyTimersMove, IdleStates, Calling
<1>5. DestroyedStaysQuiet'
  <2>1. destroyed' = TRUE /\ active' = FALSE /\ ui' = "releasing"
    BY DEF DestroyMarks
  <2> QED BY <1>1, <1>4, <2>1 DEF DestroyedStaysQuiet
<1> QED BY <1>1, <1>2, <1>3, <1>5 DEF IInv

LEMMA UIStepPreserves == IInv /\ UIStep => IInv'
  BY SetActivePreserves, QuietCommandsPreserve, LoadDropsFramesPreserves, DestroyMarksPreserves
  DEF UIStep

-----------------------------------------------------------------------------
(* The goroutines of timers.                                               *)

(* A step of the goroutine in slot p that leaves the window's fields, the  *)
(* queue and the UI goroutine alone.                                       *)
OnlySlotMoves(p) ==
    UNCHANGED <<flags, page, frames, counter, ui, commands, inflight, retired>>

LEMMA SlotStepKeeps ==
    ASSUME IInv, NEW p \in Pumps, OnlySlotMoves(p), NEW slot \in PumpRecords,
           pump' = [pump EXCEPT ![p] = slot], slot.at # "calling",
           Draining(slot) => SnapshotKnows(Queued, counter, slot),
           slot.at # "free" \/ ~active \/ Queued = {},
           timer' \in {timer, NoPump},
           timer' = p => slot.at \in {"armed", "fired"},
           vm' \in Pumps \cup {UI, NoHolder}, HolderIsKnown'
    PROVE  IInv'
<1>1. /\ UNCHANGED <<flags, page, frames, counter, ui, commands, inflight, retired>>
      /\ Queued' = Queued
  BY DEF OnlySlotMoves, Queued
<1>2. /\ pump' \in [Pumps -> PumpRecords] /\ pump'[p] = slot
      /\ \A q \in Pumps \ {p} : pump'[q] = pump[q]
  BY DEF IInv, PumpsTyped
<1>3. TypeOK'
  BY <1>1, <1>2 DEF IInv, TypeOK, PumpRecords, flags, page
<1>4. TimerIsPending'
  BY <1>2 DEF IInv, TimerIsPending, TypeOK
<1>5. SnapshotsAreComplete'
  BY <1>1, <1>2 DEF IInv, SnapshotsAreComplete
<1>6. DestroyedStaysQuiet'
  BY <1>1, <1>2 DEF IInv, DestroyedStaysQuiet, flags, page, Calling
<1>7. RetiredHaveLeft' /\ NoStrandedFrame'
  BY <1>1, <1>2 DEF IInv, RetiredHaveLeft, NoStrandedFrame, flags
<1> QED BY <1>2, <1>3, <1>4, <1>5, <1>6, <1>7 DEF IInv, PumpsTyped

LEMMA TimerFiresPreserves ==
    ASSUME IInv, NEW p \in Pumps, TimerFires(p)
    PROVE  IInv'
<1> DEFINE slot == [pump[p] EXCEPT !.at = "fired"]
<1>1. pump[p] \in PumpRecords /\ pump[p].at = "armed"
  BY DEF TimerFires, IInv, PumpsTyped
<1>2. slot \in PumpRecords /\ slot.at = "fired"
  BY <1>1 DEF PumpRecords, PumpStates
<1>3. pump' = [pump EXCEPT ![p] = slot] /\ OnlySlotMoves(p) /\ timer' = timer /\ vm' = vm
  BY DEF TimerFires, OnlySlotMoves
<1> HIDE DEF slot
<1>4. HolderIsKnown'
  BY <1>1, <1>2, <1>3 DEF IInv, HolderIsKnown, PumpsTyped, OnlySlotMoves
<1>5. vm' \in Pumps \cup {UI, NoHolder}
  BY <1>3 DEF IInv, TypeOK
<1> QED BY <1>2, <1>3, <1>4, <1>5, SlotStepKeeps DEF Draining

LEMMA SnapshotPreserves ==
    ASSUME IInv, NEW p \in Pumps, Snapshot(p)
    PROVE  IInv'
<1> DEFINE todo == Ascending(Queued)
           slot == IF active /\ runtime
                   THEN [pump[p] EXCEPT !.at = "drained", !.todo = todo, !.limit = counter]
                   ELSE IdlePump
<1>1. pump[p] \in PumpRecords /\ pump[p].at = "fired"
  BY DEF Snapshot, IInv, PumpsTyped
<1>2. counter \in Nat /\ Queued \in SUBSET (1..counter)
  BY DEF IInv, TypeOK
<1>3. /\ todo \in Seq(Nat) /\ Strictly(todo)
      /\ \A i \in DOMAIN todo : todo[i] \in Queued
      /\ \A id \in Queued : \E i \in DOMAIN todo : todo[i] = id
  BY <1>2, AscendingEnumerates
<1>4. pump' = [pump EXCEPT ![p] = slot] /\ OnlySlotMoves(p) /\ timer' = NoPump /\ vm' = vm
  BY DEF Snapshot, OnlySlotMoves
<1> HIDE DEF todo
<1>5. CASE active /\ runtime
  <2>1. /\ slot \in PumpRecords /\ slot.at = "drained" /\ slot.todo = todo
        /\ slot.limit = counter
    BY <1>1, <1>2, <1>3, <1>5 DEF PumpRecords, PumpStates
  <2>2. \A i \in DOMAIN todo : todo[i] <= counter
    BY <1>2, <1>3
  <2> HIDE DEF slot
  <2>3. SnapshotKnows(Queued, counter, slot)
    <3>1. /\ slot.limit <= counter /\ Strictly(slot.todo)
          /\ \A i \in DOMAIN slot.todo : slot.todo[i] <= slot.limit
          /\ slot.at # "calling"
      BY <1>2, <1>3, <2>1, <2>2
    <3>2. \A id \in Queued : \E i \in DOMAIN slot.todo : slot.todo[i] = id
      BY <1>3, <2>1
    <3> QED BY <3>1, <3>2 DEF SnapshotKnows
  <2>4. HolderIsKnown'
    BY <1>1, <1>4, <2>1 DEF IInv, HolderIsKnown, PumpsTyped, OnlySlotMoves
  <2>5. vm' \in Pumps \cup {UI, NoHolder} /\ NoPump \notin Pumps
    BY <1>4, WindowAssumption DEF IInv, TypeOK, NoPump
  <2> QED BY <1>4, <2>1, <2>3, <2>4, <2>5, SlotStepKeeps
<1>6. CASE ~(active /\ runtime)
  <2>1. slot = IdlePump
    BY <1>6
  <2> HIDE DEF slot
  <2>2. HolderIsKnown'
    BY <1>1, <1>4, <2>1, IdleIsPump DEF IInv, HolderIsKnown, PumpsTyped, OnlySlotMoves
  <2>3. vm' \in Pumps \cup {UI, NoHolder} /\ NoPump \notin Pumps
    BY <1>4, WindowAssumption DEF IInv, TypeOK, NoPump
  <2>4. ~active
    BY <1>6 DEF IInv, DestroyedStaysQuiet
  <2> QED BY <1>4, <2>1, <2>2, <2>3, <2>4, IdleIsPump, SlotStepKeeps DEF Draining
<1> QED BY <1>5, <1>6

LEMMA PumpLocksPreserves ==
    ASSUME IInv, NEW p \in Pumps, PumpLocks(p)
    PROVE  IInv'
<1> DEFINE slot == [pump[p] EXCEPT !.at = "running"]
<1>1. pump[p] \in PumpRecords /\ pump[p].at = "drained"
  BY DEF PumpLocks, IInv, PumpsTyped
<1>2. /\ slot \in PumpRecords /\ slot.at = "running"
      /\ slot.todo = pump[p].todo /\ slot.limit = pump[p].limit
  BY <1>1 DEF PumpRecords, PumpStates
<1>3. pump' = [pump EXCEPT ![p] = slot] /\ OnlySlotMoves(p) /\ timer' = timer /\ vm = NoHolder /\ vm' = p
  BY DEF PumpLocks, OnlySlotMoves
<1> HIDE DEF slot
<1>4. HolderIsKnown'
  BY <1>1, <1>2, <1>3, WindowAssumption DEF IInv, HolderIsKnown, PumpsTyped, OnlySlotMoves
<1>5. SnapshotKnows(Queued, counter, slot)
  BY <1>1, <1>2 DEF IInv, SnapshotsAreComplete, Draining, SnapshotKnows
<1>6. timer' # p
  BY <1>1, <1>3, WindowAssumption DEF IInv, TimerIsPending, NoPump
<1> QED BY <1>2, <1>3, <1>4, <1>5, <1>6, SlotStepKeeps

LEMMA CallbackReturnsPreserves ==
    ASSUME IInv, NEW p \in Pumps, CallbackReturns(p)
    PROVE  IInv'
<1> DEFINE slot == [pump[p] EXCEPT !.at = "running", !.id = 0, !.doc = 0]
<1>1. pump[p] \in PumpRecords /\ pump[p].at = "calling" /\ 0 \in Documents
  BY WindowAssumption DEF CallbackReturns, IInv, PumpsTyped, Documents
<1>2. /\ slot \in PumpRecords /\ slot.at = "running"
      /\ slot.todo = pump[p].todo /\ slot.limit = pump[p].limit
  BY <1>1 DEF PumpRecords, PumpStates
<1>3. pump' = [pump EXCEPT ![p] = slot] /\ OnlySlotMoves(p) /\ timer' = timer /\ vm' = vm
  BY DEF CallbackReturns, OnlySlotMoves
<1> HIDE DEF slot
<1>4. HolderIsKnown'
  BY <1>1, <1>2, <1>3 DEF IInv, HolderIsKnown, PumpsTyped, OnlySlotMoves
<1>5. SnapshotKnows(Queued, counter, slot)
  <2>1. SnapshotKnows(Queued, counter, pump[p])
    BY <1>1 DEF IInv, SnapshotsAreComplete, Draining
  <2> QED BY <1>2, <2>1 DEF SnapshotKnows
<1>6. timer' # p /\ vm' \in Pumps \cup {UI, NoHolder}
  BY <1>1, <1>3, WindowAssumption DEF IInv, TypeOK, TimerIsPending, NoPump
<1> QED BY <1>2, <1>3, <1>4, <1>5, <1>6, SlotStepKeeps

LEMMA PumpUnlocksPreserves ==
    ASSUME IInv, NEW p \in Pumps, PumpUnlocks(p)
    PROVE  IInv'
<1> DEFINE slot == [IdlePump EXCEPT !.at = "rearming"]
<1>1. pump[p].at = "running" /\ slot \in PumpRecords /\ slot.at = "rearming"
  BY IdleIsPump DEF PumpUnlocks
<1>2. pump' = [pump EXCEPT ![p] = slot] /\ OnlySlotMoves(p) /\ timer' = timer /\ vm' = NoHolder
  BY DEF PumpUnlocks, OnlySlotMoves
<1> HIDE DEF slot
<1>3. vm = p
  BY <1>1 DEF IInv, HolderIsKnown
<1>4. HolderIsKnown'
  BY <1>1, <1>2, <1>3, WindowAssumption DEF IInv, HolderIsKnown, PumpsTyped, OnlySlotMoves
<1>5. timer' # p /\ vm' \in Pumps \cup {UI, NoHolder}
  BY <1>1, <1>2, WindowAssumption DEF IInv, TimerIsPending, NoPump
<1> QED BY <1>1, <1>2, <1>4, <1>5, SlotStepKeeps DEF Draining

LEMMA RearmPreserves ==
    ASSUME IInv, NEW p \in Pumps, Rearm(p)
    PROVE  IInv'
<1> DEFINE slots == [pump EXCEPT ![p] = IdlePump]
<1>1. /\ pump \in [Pumps -> PumpRecords] /\ pump[p].at = "rearming"
      /\ timer \in Pumps \cup {NoPump}
      /\ timer # NoPump => timer # p /\ pump[timer].at \in {"armed", "fired"}
  BY DEF Rearm, IInv, PumpsTyped, TypeOK, TimerIsPending
<1>2. /\ slots \in [Pumps -> PumpRecords] /\ slots[p] = IdlePump
      /\ \A q \in Pumps \ {p} : slots[q] = pump[q]
  BY <1>1, IdleIsPump
<1>3. /\ Arm(slots, active, timer, Queued)
      /\ UNCHANGED <<flags, page, frames, counter, vm, ui, commands, inflight, retired>>
      /\ Queued' = Queued
  BY DEF Rearm, Queued
<1> HIDE DEF slots
<1>4. /\ pump' \in [Pumps -> PumpRecords]
      /\ \A q \in Pumps : \/ pump'[q] = slots[q]
                          \/ slots[q].at = "free" /\ pump'[q].at = "armed"
      /\ timer' \in Pumps \cup {NoPump}
      /\ timer' # NoPump => pump'[timer'].at \in {"armed", "fired"}
      /\ active /\ Queued # {} => \E q \in Pumps : pump'[q].at # "free"
  BY <1>1, <1>2, <1>3, ArmProperties
<1>5. /\ pump'[p].at \in IdleStates
      /\ \A q \in Pumps \ {p} : \/ pump'[q] = pump[q]
                                \/ pump[q].at \in IdleStates /\ pump'[q].at \in IdleStates
  BY <1>2, <1>4, IdleIsPump DEF IdleStates
<1>6. TypeOK'
  BY <1>3, <1>4 DEF IInv, TypeOK, PumpRecords, flags, page
<1>7. HolderIsKnown'
  BY <1>1, <1>3, <1>5 DEF IInv, HolderIsKnown, IdleStates
<1>8. SnapshotsAreComplete'
  BY <1>3, <1>5 DEF IInv, SnapshotsAreComplete, Draining, IdleStates
<1>9. DestroyedStaysQuiet' /\ RetiredHaveLeft' /\ NoStrandedFrame' /\ TimerIsPending'
  BY <1>3, <1>4, <1>5
  DEF IInv, DestroyedStaysQuiet, RetiredHaveLeft, NoStrandedFrame, TimerIsPending, Calling,
      IdleStates, flags, page
<1> QED BY <1>4, <1>6, <1>7, <1>8, <1>9 DEF IInv, PumpsTyped

(* The next callback of a snapshot: taken off the queue and called, or     *)
(* skipped when it has left the queue.                                     *)
LEMMA TakePreserves ==
    ASSUME IInv, NEW p \in Pumps, Take(p)
    PROVE  IInv'
<1> DEFINE id == Head(pump[p].todo)
           todo == pump[p].todo
           rest == Tail(pump[p].todo)
<1>1. /\ pump[p] \in PumpRecords /\ pump[p].at = "running" /\ todo # <<>> /\ active /\ runtime
      /\ todo \in Seq(Nat)
      /\ UNCHANGED <<flags, page, counter, timer, vm, ui, commands, inflight>>
      /\ timer # p
  BY WindowAssumption DEF Take, IInv, PumpsTyped, PumpRecords, TimerIsPending, NoPump
<1>2. /\ SnapshotKnows(Queued, counter, pump[p]) /\ counter \in Nat /\ pump[p].limit \in Nat
      /\ Queued \subseteq 1..counter
  BY <1>1 DEF IInv, SnapshotsAreComplete, Draining, PumpRecords, TypeOK
<1>3. /\ id \in Nat /\ rest \in Seq(Nat) /\ Len(todo) \in Nat \ {0}
      /\ Len(rest) = Len(todo) - 1 /\ id = todo[1] /\ DOMAIN todo = 1..Len(todo)
      /\ DOMAIN rest = 1..(Len(todo) - 1)
      /\ \A i \in 1..(Len(todo) - 1) : rest[i] = todo[i + 1] /\ i + 1 \in 1..Len(todo)
  BY <1>1
<1>a. id \in Queued =>
      /\ frames' = Without(id)
      /\ retired' = retired \cup {id}
      /\ pump' = [pump EXCEPT ![p] = [pump[p] EXCEPT !.todo = rest, !.at = "calling",
                                        !.id = id, !.doc = frames[id]]]
  BY DEF Take
<1>b. id \notin Queued =>
      /\ pump' = [pump EXCEPT ![p] = [pump[p] EXCEPT !.todo = rest]]
      /\ UNCHANGED <<frames, retired>>
  BY DEF Take, IInv, PumpsTyped, PumpRecords
<1> HIDE DEF id, todo, rest
<1>4. Strictly(todo) /\ \A i \in DOMAIN todo : todo[i] <= pump[p].limit
  BY <1>2 DEF SnapshotKnows, todo
<1>5. /\ Strictly(rest) /\ \A i \in DOMAIN rest : rest[i] <= pump[p].limit /\ id < rest[i]
      /\ id <= pump[p].limit
  <2>1. \A i, j \in 1..Len(todo) : i < j => todo[i] < todo[j]
    BY <1>3, <1>4 DEF Strictly
  <2>2. \A i \in 1..Len(todo) : todo[i] <= pump[p].limit
    BY <1>3, <1>4
  <2>3. \A i, j \in 1..(Len(todo) - 1) : i < j => rest[i] < rest[j]
    <3> TAKE i, j \in 1..(Len(todo) - 1)
    <3>1. /\ rest[i] = todo[i + 1] /\ i + 1 \in 1..Len(todo)
          /\ rest[j] = todo[j + 1] /\ j + 1 \in 1..Len(todo)
          /\ i < j => i + 1 < j + 1
      BY <1>3
    <3> QED BY <2>1, <3>1
  <2>4. \A i \in 1..(Len(todo) - 1) : rest[i] <= pump[p].limit
    BY <1>3, <2>2
  <2>5. \A i \in 1..(Len(todo) - 1) : id < rest[i]
    <3> TAKE i \in 1..(Len(todo) - 1)
    <3>1. rest[i] = todo[i + 1] /\ i + 1 \in 1..Len(todo) /\ 1 < i + 1 /\ 1 \in 1..Len(todo)
      BY <1>3
    <3> QED BY <1>3, <2>1, <3>1
  <2>6. Strictly(rest)
    BY <1>3, <2>3 DEF Strictly
  <2>7. \A i \in DOMAIN rest : rest[i] <= pump[p].limit /\ id < rest[i]
    BY <1>3, <2>4, <2>5
  <2>8. id <= pump[p].limit
    BY <1>3, <2>2
  <2> QED BY <2>6, <2>7, <2>8
<1>6. \A q \in Queued : q <= pump[p].limit => q = id \/ \E i \in DOMAIN rest : rest[i] = q
  <2> SUFFICES ASSUME NEW q \in Queued, q <= pump[p].limit, q # id
               PROVE  \E i \in DOMAIN rest : rest[i] = q
    OBVIOUS
  <2>1. PICK i \in DOMAIN todo : todo[i] = q
    BY <1>2 DEF SnapshotKnows, todo
  <2>2. i - 1 \in 1..(Len(todo) - 1) /\ (i - 1) + 1 = i
    BY <1>3, <2>1
  <2>3. rest[i - 1] = q
    BY <1>3, <2>1, <2>2
  <2> QED BY <1>3, <2>2, <2>3
<1>7. CASE id \in Queued
  <2> DEFINE slot == [pump[p] EXCEPT !.todo = rest, !.at = "calling", !.id = id, !.doc = frames[id]]
  <2>1. /\ frames' = Without(id) /\ retired' = retired \cup {id}
        /\ pump' = [pump EXCEPT ![p] = slot]
    BY <1>7, <1>a
  <2>2. /\ slot \in PumpRecords /\ slot.at = "calling" /\ slot.todo = rest /\ slot.id = id
        /\ slot.limit = pump[p].limit
    BY <1>1, <1>3, <1>7 DEF PumpRecords, PumpStates, IInv, TypeOK
  <2>3. Queued' = Queued \ {id} /\ \A i \in Queued' : frames'[i] = frames[i]
    BY <2>1 DEF Without, Queued
  <2> HIDE DEF slot
  <2>4. /\ pump' \in [Pumps -> PumpRecords] /\ pump'[p] = slot
        /\ \A q \in Pumps \ {p} : pump'[q] = pump[q]
    BY <2>1, <2>2 DEF IInv, PumpsTyped
  <2>5. TypeOK'
    BY <1>1, <1>7, <2>1, <2>3, <2>4 DEF IInv, TypeOK, PumpRecords, flags, page
  <2>6. HolderIsKnown'
    BY <1>1, <2>2, <2>4 DEF IInv, HolderIsKnown
  <2>7. TimerIsPending' /\ RetiredHaveLeft'
    BY <1>1, <2>1, <2>3, <2>4 DEF IInv, TimerIsPending, RetiredHaveLeft, TypeOK
  <2>8. SnapshotsAreComplete'
    <3> SUFFICES ASSUME NEW q \in Pumps, Draining(pump'[q])
                 PROVE  SnapshotKnows(Queued', counter', pump'[q])
      BY DEF SnapshotsAreComplete
    <3>1. CASE q = p
      <4>1. slot.limit <= counter /\ Strictly(slot.todo)
        BY <1>2, <1>5, <2>2 DEF SnapshotKnows
      <4>2. \A i \in DOMAIN slot.todo : slot.todo[i] <= slot.limit /\ slot.id < slot.todo[i]
        BY <1>5, <2>2
      <4>3. \A i \in Queued' : i <= slot.limit => \E k \in DOMAIN slot.todo : slot.todo[k] = i
        BY <1>6, <2>2, <2>3
      <4> QED BY <1>1, <1>5, <2>2, <2>4, <3>1, <4>1, <4>2, <4>3 DEF SnapshotKnows
    <3>2. CASE q # p
      <4>1. pump'[q] = pump[q] /\ SnapshotKnows(Queued, counter, pump[q])
        BY <2>4, <3>2 DEF IInv, SnapshotsAreComplete
      <4> QED BY <1>1, <2>3, <4>1 DEF SnapshotKnows
    <3> QED BY <3>1, <3>2
  <2>9. DestroyedStaysQuiet'
    BY <1>1, <2>3 DEF IInv, DestroyedStaysQuiet, flags, page
  <2>10. NoStrandedFrame'
    BY <2>2, <2>4 DEF NoStrandedFrame
  <2> QED BY <2>4, <2>5, <2>6, <2>7, <2>8, <2>9, <2>10 DEF IInv, PumpsTyped
<1>8. CASE id \notin Queued
  <2> DEFINE slot == [pump[p] EXCEPT !.todo = rest]
  <2>1. pump' = [pump EXCEPT ![p] = slot] /\ UNCHANGED <<frames, retired>>
    BY <1>8, <1>b
  <2>2. /\ slot \in PumpRecords /\ slot.at = "running" /\ slot.todo = rest
        /\ slot.limit = pump[p].limit
    BY <1>1, <1>3 DEF PumpRecords
  <2> HIDE DEF slot
  <2>3. SnapshotKnows(Queued, counter, slot)
    <3>1. slot.limit <= counter
      BY <1>2, <2>2 DEF SnapshotKnows
    <3>2. \A q \in Queued : q <= slot.limit => \E i \in DOMAIN slot.todo : slot.todo[i] = q
      BY <1>6, <1>8, <2>2
    <3> QED BY <1>5, <2>2, <3>1, <3>2 DEF SnapshotKnows
  <2>4. OnlySlotMoves(p)
    BY <1>1, <2>1 DEF OnlySlotMoves
  <2>5. HolderIsKnown'
    BY <1>1, <2>1, <2>2 DEF IInv, HolderIsKnown, PumpsTyped
  <2>6. timer' = timer /\ timer' # p /\ vm' \in Pumps \cup {UI, NoHolder}
    BY <1>1 DEF IInv, TypeOK
  <2> QED BY <2>1, <2>2, <2>3, <2>4, <2>5, <2>6, SlotStepKeeps
<1> QED BY <1>7, <1>8

-----------------------------------------------------------------------------
(* The theorems.                                                           *)

LEMMA NextPreserves == IInv /\ [Next]_vars => IInv'
<1> SUFFICES ASSUME IInv, [Next]_vars PROVE IInv'
  OBVIOUS
<1>1. CASE UNCHANGED vars
  <2>1. UNCHANGED <<flags, page, queue, vm, ui, commands, inflight>>
    BY <1>1 DEF vars
  <2> QED
    BY <2>1, QueueKeeps
    DEF IInv, QueueInv, flags, page, TypeOK, HolderIsKnown, DestroyedStaysQuiet, NoStrandedFrame,
        Calling
<1>2. CASE \E p \in Pumps : PumpStep(p)
  BY <1>2, TimerFiresPreserves, SnapshotPreserves, PumpLocksPreserves, TakePreserves,
     CallbackReturnsPreserves, PumpUnlocksPreserves, RearmPreserves
  DEF PumpStep
<1> QED
  BY <1>1, <1>2, UIStepPreserves, ScriptStepPreserves, RequestAnsweredPreserves DEF Next

(* The inductive invariant of a window's scripts: the goroutines that      *)
(* drain the frame queue know what is in it, the timer's handle is of one  *)
(* that is pending, and the holder of the runtime is the one who runs.     *)
THEOREM WindowInvariant == Spec => []IInv
<1>1. IInv /\ [Next]_vars => IInv'
  BY NextPreserves
<1> QED BY InitEstablishes, <1>1, PTL DEF Spec

(* The fields of the window keep their types. *)
THEOREM TypeCorrect == Spec => []TypeOK
<1>1. IInv => TypeOK
  BY DEF IInv
<1> QED BY <1>1, WindowInvariant, PTL

(* Callbacks run in the order they were scheduled, whichever goroutine     *)
(* drains the queue (runAnimationFrame), and a frame runs none that was    *)
(* scheduled after it began.                                               *)
THEOREM CallbackOrder == Spec => []CallbacksInOrder
<1>1. IInv => CallbacksInOrder
  <2> SUFFICES ASSUME IInv, NEW p \in Pumps, Calling(p)
               PROVE  /\ \A id \in Queued : id > pump[p].id
                      /\ pump[p].id <= pump[p].limit
    BY DEF CallbacksInOrder
  <2>1. SnapshotKnows(Queued, counter, pump[p]) /\ pump[p].at = "calling"
    BY DEF IInv, SnapshotsAreComplete, Draining, Calling
  <2>2. pump[p].id \in Nat /\ pump[p].limit \in Nat /\ Queued \subseteq Nat
    BY DEF IInv, PumpsTyped, PumpRecords, TypeOK
  <2>3. pump[p].id <= pump[p].limit
    BY <2>1 DEF SnapshotKnows
  <2>4. ASSUME NEW id \in Queued PROVE id > pump[p].id
    <3>1. CASE id <= pump[p].limit
      <4>1. PICK i \in DOMAIN pump[p].todo : pump[p].todo[i] = id
        BY <2>1, <3>1 DEF SnapshotKnows
      <4> QED BY <2>1, <2>2, <4>1 DEF SnapshotKnows
    <3>2. CASE ~(id <= pump[p].limit)
      BY <2>2, <2>3, <3>2
    <3> QED BY <3>1, <3>2
  <2> QED BY <2>3, <2>4
<1> QED BY <1>1, WindowInvariant, PTL

(* While an active window has a frame queued, a timer or a goroutine is on *)
(* its way to it: scheduleAnimationFrameLocked, the handle that every      *)
(* goroutine clears, and SetActive never leave the queue to nobody.        *)
THEOREM FramesAreNotStranded == Spec => []NoStrandedFrame
<1>1. IInv => NoStrandedFrame
  BY DEF IInv
<1> QED BY <1>1, WindowInvariant, PTL

(* After Destroy no script of the window runs and nothing is left to run.  *)
THEOREM QuietAfterDestroy == Spec => []DestroyedIsQuiet
<1>1. IInv => DestroyedIsQuiet
  BY DEF IInv, DestroyedStaysQuiet, DestroyedIsQuiet
<1> QED BY <1>1, WindowInvariant, PTL

(* Only Take starts a call. *)
LEMMA OthersStartNoCall ==
    ASSUME IInv, Next, NEW p \in Pumps, ~Take(p)
    PROVE  ~StartsCall(p)
<1> DEFINE Still == pump'[p].at = pump[p].at \/ pump'[p].at \in IdleStates
<1>1. SUFFICES Still \/ pump'[p].at # "calling"
  BY DEF StartsCall, Calling, IdleStates
<1>2. pump \in [Pumps -> PumpRecords] /\ timer \in Pumps \cup {NoPump} /\ counter \in Nat
      /\ (timer # NoPump => pump[timer].at \in {"armed", "fired"})
  BY DEF IInv, PumpsTyped, TypeOK, TimerIsPending
<1>3. ASSUME OnlyTimersMove PROVE Still
  BY <1>3 DEF OnlyTimersMove
<1>4. ASSUME UNCHANGED pump PROVE Still
  BY <1>4
<1>5. ASSUME NEW doc, ScheduleAnimationFrame(doc) PROVE Still
  <2>1. UNCHANGED pump \/ Arm(pump, active, timer, Queued \cup {counter'})
    BY <1>5 DEF ScheduleAnimationFrame
  <2> QED BY <1>2, <2>1, ArmProperties DEF IdleStates
<1>6. ASSUME StopTimer PROVE Still
  BY <1>3, <1>6, StopProperties DEF IInv, TypeOK
<1>7. CASE ScriptStep \/ RequestAnswered
  BY <1>4, <1>5, <1>6, <1>7
  DEF ScriptStep, RequestAnswered, ScriptRequestsFrame, ScriptCancelsFrame, ScriptSendsRequest,
      ScriptAddsListener, CancelAnimationFrame, queue
<1>8. CASE UIStep /\ ~SetActive
  BY <1>4, <1>6, <1>8
  DEF UIStep, ScriptCalled, ScriptStarts, ScriptReturns, LoadHTML, LoadDropsFrames, InitJSRuntime,
      DestroyCalled, DestroyLocksRuntime, DestroyMarks, DestroyReleases, DropFrames, queue
<1>9. CASE SetActive
  <2>1. UNCHANGED pump \/ StopTimer \/ \E on \in BOOLEAN : Arm(pump, on, timer, Queued)
    BY <1>9 DEF SetActive
  <2> QED BY <1>2, <1>4, <1>6, <2>1, ArmProperties DEF IdleStates
<1>10. ASSUME NEW q \in Pumps, PumpStep(q) PROVE Still \/ pump'[p].at # "calling"
  <2>1. CASE q = p /\ ~Rearm(q)
    <3>0. p \in DOMAIN pump /\ pump[p] \in PumpRecords
      BY <1>2
    <3>1. CASE TimerFires(p)
      BY <3>0, <3>1 DEF TimerFires, PumpRecords
    <3>2. CASE Snapshot(p)
      <4>1. pump'[p].at = "drained" \/ pump'[p] = IdlePump
        BY <3>0, <3>2 DEF Snapshot, PumpRecords
      <4> QED BY <4>1, IdleIsPump
    <3>3. CASE PumpLocks(p)
      BY <3>0, <3>3 DEF PumpLocks, PumpRecords
    <3>4. CASE CallbackReturns(p)
      BY <3>0, <3>4 DEF CallbackReturns, PumpRecords
    <3>5. CASE PumpUnlocks(p)
      <4>1. pump'[p] = [IdlePump EXCEPT !.at = "rearming"]
        BY <3>0, <3>5 DEF PumpUnlocks
      <4> QED BY <4>1, IdleIsPump
    <3>6. ~Take(p) /\ PumpStep(p) /\ ~Rearm(p)
      BY <1>10, <2>1
    <3> QED BY <3>1, <3>2, <3>3, <3>4, <3>5, <3>6 DEF PumpStep
  <2>2. CASE q # p /\ ~Rearm(q)
    <3>1. \E slot : pump' = [pump EXCEPT ![q] = slot]
      BY <1>10, <2>2
      DEF PumpStep, TimerFires, Snapshot, PumpLocks, Take, CallbackReturns, PumpUnlocks
    <3> QED BY <1>2, <2>2, <3>1
  <2>3. CASE Rearm(q)
    <3> DEFINE slots == [pump EXCEPT ![q] = IdlePump]
    <3>1. /\ slots \in [Pumps -> PumpRecords]
          /\ timer # NoPump => slots[timer].at \in {"armed", "fired"}
          /\ slots[p].at = pump[p].at \/ slots[p].at \in IdleStates
      BY <1>2, <2>3, IdleIsPump DEF Rearm, IdleStates
    <3>2. Arm(slots, active, timer, Queued)
      BY <2>3 DEF Rearm
    <3> HIDE DEF slots
    <3> QED BY <1>2, <3>1, <3>2, ArmProperties DEF IdleStates
  <2> QED BY <2>1, <2>2, <2>3
<1> QED BY <1>7, <1>8, <1>9, <1>10 DEF Next

(* A callback that ran, was cancelled or was dropped does not run again.   *)
THEOREM CallbacksRunOnce == Spec => RetiredNeverRuns
<1>1. IInv /\ [Next]_vars => [\A p \in Pumps : StartsCall(p) => pump'[p].id \notin retired]_vars
  <2> SUFFICES ASSUME IInv, Next, NEW p \in Pumps, StartsCall(p)
               PROVE  pump'[p].id \notin retired
    OBVIOUS
  <2>1. Take(p)
    BY OthersStartNoCall
  <2>2. Head(pump[p].todo) \in Queued /\ pump'[p].id = Head(pump[p].todo)
    BY <2>1 DEF Take, StartsCall, Calling, IInv, PumpsTyped, PumpRecords
  <2> QED BY <2>2 DEF IInv, RetiredHaveLeft
<1> QED BY <1>1, WindowInvariant, PTL DEF Spec, RetiredNeverRuns
=============================================================================
