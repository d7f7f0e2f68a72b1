---------------------------- MODULE WindowScripts ----------------------------
(***************************************************************************)
(* When the scripts of one hotdog WindowContext run: navigation            *)
(* (LoadHTML), scripts and input handlers run by the UI goroutine, the     *)
(* animation-frame queue with the time.AfterFunc goroutines that drain it, *)
(* answers of network requests, pausing (SetActive) and Destroy.           *)
(*                                                                         *)
(* Each critical section under animationFrameMu is one action.  vm is the  *)
(* goroutine that holds jsRuntimeMu, an OwnerLock (see ReentrantMutex); a  *)
(* nested lock by the goroutine that holds it changes nothing here.  A     *)
(* closure is abstracted to the document whose script created it.          *)
(***************************************************************************)
EXTENDS Naturals, Sequences, FiniteSets

CONSTANTS Pumps,        \* slots for timers and the goroutines they start
          MaxFrames,    \* bound on the frame ids handed out
          MaxDocuments, \* bound on the navigations
          MaxCommands,  \* bound on the commands the UI goroutine issues
          UI, NoHolder  \* the UI goroutine and nobody, as holders of the runtime

ASSUME WindowAssumption ==
    /\ IsFiniteSet(Pumps) /\ Pumps \subseteq Nat \ {0}
    /\ UI \notin Pumps /\ NoHolder \notin Pumps \cup {UI}
    /\ MaxFrames \in Nat /\ MaxDocuments \in Nat /\ MaxCommands \in Nat

Documents == 0..MaxDocuments   \* 0: the empty window before its first load
FrameIds == 1..MaxFrames
NoPump == 0

VARIABLES
    active, destroyed,  \* the fields of these names
    runtime,    \* jsRuntime # nil
    document,   \* ActiveDocument
    realm,      \* the document InitJSRuntime last bound the runtime to
    handlers,   \* documents with listeners in the event registries
    frames,     \* animationFrames: queued id |-> document of its closure
    counter,    \* animationFrameCounter
    timer,      \* animationFrameTimer, or NoPump for nil
    pump,       \* the timers and the runAnimationFrame goroutines
    vm,         \* holder of jsRuntimeMu
    ui,         \* where the UI goroutine is
    commands,   \* how many commands it has issued
    inflight,   \* documents with an unanswered network request
    retired     \* history: ids that were run, cancelled or dropped

flags == <<active, destroyed, runtime>>
page == <<document, realm, handlers>>
queue == <<frames, counter, timer, pump, retired>>
vars == <<flags, page, queue, vm, ui, commands, inflight>>

Queued == DOMAIN frames

(* at: "free" -> "armed" -> "fired" -> "drained" -> "running" <-> "calling"
   and back to "free".  id and doc describe the callback being called, and
   limit the last id handed out when the frame's snapshot was taken. *)
IdlePump == [at |-> "free", todo |-> <<>>, id |-> 0, doc |-> 0, limit |-> 0]

Init ==
    /\ active = TRUE /\ destroyed = FALSE /\ runtime = TRUE
    /\ document = 0 /\ realm = 0 /\ handlers = {}
    /\ frames = <<>> /\ counter = 0
    /\ timer = NoPump /\ pump = [p \in Pumps |-> IdlePump]
    /\ vm = NoHolder /\ ui = "idle" /\ commands = 0
    /\ inflight = {} /\ retired = {}

-----------------------------------------------------------------------------
(* The frame queue, under animationFrameMu.                                *)

(* time.AfterFunc takes a slot; scheduleAnimationFrameLocked arms only one *)
(* timer at a time, and none for a paused window or an empty queue.        *)
Arm(slots, isActive, handle, ids) ==
    IF isActive /\ handle = NoPump /\ ids # {}
    THEN \E p \in Pumps :
            /\ slots[p].at = "free"
            /\ \A q \in Pumps : slots[q].at = "free" => p <= q
            /\ pump' = [slots EXCEPT ![p] = [IdlePump EXCEPT !.at = "armed"]]
            /\ timer' = p
    ELSE pump' = slots /\ timer' = handle

(* Timer.Stop() has no effect on a goroutine that the timer has started.   *)
Stopped == IF timer # NoPump /\ pump[timer].at = "armed"
           THEN [pump EXCEPT ![timer] = IdlePump] ELSE pump

StopTimer == timer' = NoPump /\ pump' = Stopped

\* Faulty form of the next definition: the id is read before the counter moves.
ScheduleBeforeIncrement(doc) ==
    IF destroyed
    THEN UNCHANGED <<counter, frames, timer, pump>>
    ELSE /\ counter < MaxFrames
         /\ counter' = counter + 1
         /\ frames' = [id \in Queued \cup {counter} |->
                          IF id = counter THEN doc ELSE frames[id]]
         /\ Arm(pump, active, timer, Queued \cup {counter})

ScheduleAnimationFrame(doc) ==
    IF destroyed
    THEN UNCHANGED <<counter, frames, timer, pump>>
    ELSE /\ counter < MaxFrames
         /\ counter' = counter + 1
         /\ frames' = [id \in Queued \cup {counter'} |->
                          IF id = counter' THEN doc ELSE frames[id]]
         /\ Arm(pump, active, timer, Queued \cup {counter'})

Without(id) == [i \in Queued \ {id} |-> frames[i]]

CancelAnimationFrame(id) ==
    /\ id \in Queued
    /\ frames' = Without(id)
    /\ retired' = retired \cup {id}
    /\ IF Queued = {id} /\ timer # NoPump THEN StopTimer ELSE UNCHANGED <<timer, pump>>

DropFrames ==
    /\ StopTimer
    /\ frames' = <<>>
    /\ retired' = retired \cup Queued

-----------------------------------------------------------------------------
(* What a running script of document doc can do to its window.             *)
Running(doc) ==
    \/ ui = "script" /\ doc = realm
    \/ \E p \in Pumps : pump[p].at = "calling" /\ pump[p].doc = doc

(* Every request in flight will need a frame id for its answer. *)
FramesLeft == counter + Cardinality(inflight) < MaxFrames

ScriptRequestsFrame == \E doc \in Documents :
    /\ Running(doc) /\ FramesLeft
    /\ ScheduleAnimationFrame(doc)
    /\ UNCHANGED <<flags, page, vm, ui, commands, inflight, retired>>

ScriptCancelsFrame == \E doc \in Documents, id \in Queued :
    /\ Running(doc)
    /\ CancelAnimationFrame(id)
    /\ UNCHANGED <<flags, page, counter, vm, ui, commands, inflight>>

(* fetch() and XMLHttpRequest.send() start a goroutine for the request. *)
ScriptSendsRequest == \E doc \in Documents :
    /\ Running(doc) /\ FramesLeft /\ doc \notin inflight
    /\ inflight' = inflight \cup {doc}
    /\ UNCHANGED <<flags, page, queue, vm, ui, commands>>

ScriptAddsListener == \E doc \in Documents :
    /\ Running(doc)
    /\ doc \notin handlers
    /\ handlers' = handlers \cup {doc}
    /\ UNCHANGED <<flags, queue, document, realm, vm, ui, commands, inflight>>

(* The request's goroutine queues the settling of its promise, or of its   *)
(* XMLHttpRequest, on the frame queue.                                     *)
RequestAnswered == \E doc \in inflight :
    /\ inflight' = inflight \ {doc}
    /\ ScheduleAnimationFrame(doc)
    /\ UNCHANGED <<flags, page, vm, ui, commands, retired>>

-----------------------------------------------------------------------------
(* runAnimationFrame, one goroutine per fired timer.                       *)
Ascending(ids) == CHOOSE s \in [1..Cardinality(ids) -> ids] :
                     \A i, j \in 1..Cardinality(ids) : i < j => s[i] < s[j]

\* One of the orders in which a Go map may be walked.
MapOrder(ids) == CHOOSE s \in [1..Cardinality(ids) -> ids] :
                    \A i, j \in 1..Cardinality(ids) : i < j => s[i] > s[j]

TimerFires(p) ==
    /\ pump[p].at = "armed"
    /\ pump' = [pump EXCEPT ![p].at = "fired"]
    /\ UNCHANGED <<flags, page, frames, counter, timer, vm, ui, commands, inflight, retired>>

\* Faulty form of the next definition: the ids are not sorted.
SnapshotInMapOrder(p) ==
    /\ pump[p].at = "fired"
    /\ timer' = NoPump
    /\ pump' = IF active /\ runtime
               THEN [pump EXCEPT ![p] = [@ EXCEPT !.at = "drained",
                        !.todo = MapOrder(Queued), !.limit = counter]]
               ELSE [pump EXCEPT ![p] = IdlePump]
    /\ UNCHANGED <<flags, page, frames, counter, vm, ui, commands, inflight, retired>>

\* Faulty form of the next definition: the handle is not cleared.
SnapshotKeepingTimer(p) ==
    /\ pump[p].at = "fired"
    /\ pump' = IF active /\ runtime
               THEN [pump EXCEPT ![p] = [@ EXCEPT !.at = "drained",
                        !.todo = Ascending(Queued), !.limit = counter]]
               ELSE [pump EXCEPT ![p] = IdlePump]
    /\ UNCHANGED <<flags, page, frames, counter, timer, vm, ui, commands, inflight, retired>>

(* The handle is cleared without a look at whose timer it is. *)
Snapshot(p) ==
    /\ pump[p].at = "fired"
    /\ timer' = NoPump
    /\ pump' = IF active /\ runtime
               THEN [pump EXCEPT ![p] = [@ EXCEPT !.at = "drained",
                        !.todo = Ascending(Queued), !.limit = counter]]
               ELSE [pump EXCEPT ![p] = IdlePump]
    /\ UNCHANGED <<flags, page, frames, counter, vm, ui, commands, inflight, retired>>

PumpLocks(p) ==
    /\ pump[p].at = "drained" /\ vm = NoHolder
    /\ vm' = p
    /\ pump' = [pump EXCEPT ![p].at = "running"]
    /\ UNCHANGED <<flags, page, frames, counter, timer, ui, commands, inflight, retired>>

\* Faulty form of the next definition: an id that left the queue is called all the same.
TakeStale(p) ==
    /\ pump[p].at = "running" /\ pump[p].todo # <<>> /\ active /\ runtime
    /\ LET id == Head(pump[p].todo) IN
       /\ frames' = Without(id)
       /\ retired' = retired \cup {id}
       /\ pump' = [pump EXCEPT ![p] = [@ EXCEPT !.todo = Tail(pump[p].todo), !.at = "calling",
                                         !.id = id, !.doc = document]]
    /\ UNCHANGED <<flags, page, counter, timer, vm, ui, commands, inflight>>

(* The next callback of the snapshot is taken off the queue and called; an *)
(* id that is no longer queued is skipped.                                 *)
Take(p) ==
    /\ pump[p].at = "running" /\ pump[p].todo # <<>> /\ active /\ runtime
    /\ LET id == Head(pump[p].todo) IN
       IF id \in Queued
       THEN /\ frames' = Without(id)
            /\ retired' = retired \cup {id}
            /\ pump' = [pump EXCEPT ![p] = [@ EXCEPT !.todo = Tail(pump[p].todo), !.at = "calling",
                                              !.id = id, !.doc = frames[id]]]
       ELSE /\ pump' = [pump EXCEPT ![p].todo = Tail(@)]
            /\ UNCHANGED <<frames, retired>>
    /\ UNCHANGED <<flags, page, counter, timer, vm, ui, commands, inflight>>

CallbackReturns(p) ==
    /\ pump[p].at = "calling"
    /\ pump' = [pump EXCEPT ![p] = [@ EXCEPT !.at = "running", !.id = 0, !.doc = 0]]
    /\ UNCHANGED <<flags, page, frames, counter, timer, vm, ui, commands, inflight, retired>>

\* Faulty form of the next definition: a break skips the unlock.
PumpBreaksLocked(p) ==
    /\ pump[p].at = "running"
    /\ pump[p].todo = <<>> \/ ~active \/ ~runtime
    /\ vm' = IF active /\ runtime THEN NoHolder ELSE vm
    /\ pump' = [pump EXCEPT ![p] = [IdlePump EXCEPT !.at = "rearming"]]
    /\ UNCHANGED <<flags, page, frames, counter, timer, ui, commands, inflight, retired>>

(* The snapshot is used up, or the window was paused or destroyed. *)
PumpUnlocks(p) ==
    /\ pump[p].at = "running"
    /\ pump[p].todo = <<>> \/ ~active \/ ~runtime
    /\ vm' = NoHolder
    /\ pump' = [pump EXCEPT ![p] = [IdlePump EXCEPT !.at = "rearming"]]
    /\ UNCHANGED <<flags, page, frames, counter, timer, ui, commands, inflight, retired>>

(* The queue is armed already when a callback scheduled a frame, for the   *)
(* snapshot cleared the handle, and when the window was resumed.           *)
Rearm(p) ==
    /\ pump[p].at = "rearming"
    /\ Arm([pump EXCEPT ![p] = IdlePump], active, timer, Queued)
    /\ UNCHANGED <<flags, page, frames, counter, vm, ui, commands, inflight, retired>>

PumpStep(p) ==
    \/ TimerFires(p) \/ Snapshot(p) \/ PumpLocks(p) \/ Take(p)
    \/ CallbackReturns(p) \/ PumpUnlocks(p) \/ Rearm(p)

-----------------------------------------------------------------------------
(* The UI goroutine.                                                       *)
Command == ui = "idle" /\ commands < MaxCommands /\ commands' = commands + 1

(* RunJS, SetJSValue and the input dispatchers wait for the runtime, then  *)
(* check that the window may run scripts.                                  *)
ScriptCalled ==
    /\ Command
    /\ ui' = "locking"
    /\ UNCHANGED <<flags, page, queue, vm, inflight>>

ScriptStarts ==
    /\ ui = "locking" /\ vm = NoHolder
    /\ IF active /\ runtime THEN ui' = "script" /\ vm' = UI
                            ELSE ui' = "idle" /\ UNCHANGED vm
    /\ UNCHANGED <<flags, page, queue, commands, inflight>>

ScriptReturns ==
    /\ ui = "script"
    /\ ui' = "idle" /\ vm' = NoHolder
    /\ UNCHANGED <<flags, page, queue, commands, inflight>>

\* Faulty form of the next definition: resuming does not arm.
SetActiveLosingTimer == \E on \in BOOLEAN :
    /\ Command
    /\ IF destroyed \/ active = on
       THEN UNCHANGED <<active, timer, pump>>
       ELSE /\ active' = on
            /\ IF on THEN UNCHANGED <<timer, pump>> ELSE StopTimer
    /\ UNCHANGED <<page, destroyed, runtime, frames, counter, vm, ui, inflight, retired>>

SetActive == \E on \in BOOLEAN :
    /\ Command
    /\ IF destroyed \/ active = on
       THEN UNCHANGED <<active, timer, pump>>
       ELSE /\ active' = on
            /\ IF on THEN Arm(pump, on, timer, Queued) ELSE StopTimer
    /\ UNCHANGED <<page, destroyed, runtime, frames, counter, vm, ui, inflight, retired>>

(* LoadHTML: the parsed document becomes active and the registries start   *)
(* empty; then the frames of the previous document are dropped; then the   *)
(* runtime is bound to the new document; then content scripts run.         *)
LoadHTML ==
    /\ Command /\ ~destroyed /\ document < MaxDocuments
    /\ document' = document + 1
    /\ handlers' = {}
    /\ ui' = "loading"
    /\ UNCHANGED <<flags, queue, realm, vm, inflight>>

LoadDropsFrames ==
    /\ ui = "loading"
    /\ DropFrames
    /\ ui' = "binding"
    /\ UNCHANGED <<flags, page, counter, vm, commands, inflight>>

InitJSRuntime ==
    /\ ui = "binding" /\ vm = NoHolder
    /\ realm' = document
    /\ ui' \in {"idle", "locking"}
    /\ UNCHANGED <<flags, queue, document, handlers, vm, commands, inflight>>

(* Destroy waits for the runtime; marks the window destroyed and empties   *)
(* the queue under animationFrameMu; then releases everything else.        *)
DestroyCalled ==
    /\ Command /\ ~destroyed
    /\ ui' = "closing"
    /\ UNCHANGED <<flags, page, queue, vm, inflight>>

\* Faulty form of the next definition: the runtime is not waited for.
DestroySkipsLock ==
    /\ ui = "closing"
    /\ ui' = "marking"
    /\ UNCHANGED <<flags, page, queue, vm, commands, inflight>>

DestroyLocksRuntime ==
    /\ ui = "closing" /\ vm = NoHolder
    /\ vm' = UI
    /\ ui' = "marking"
    /\ UNCHANGED <<flags, page, queue, commands, inflight>>

DestroyMarks ==
    /\ ui = "marking"
    /\ destroyed' = TRUE /\ active' = FALSE
    /\ DropFrames
    /\ ui' = "releasing"
    /\ UNCHANGED <<page, runtime, counter, vm, commands, inflight>>

DestroyReleases ==
    /\ ui = "releasing"
    /\ handlers' = {} /\ document' = 0 /\ runtime' = FALSE
    /\ vm' = NoHolder /\ ui' = "idle"
    /\ UNCHANGED <<queue, active, destroyed, realm, commands, inflight>>

UIStep ==
    \/ ScriptCalled \/ ScriptStarts \/ ScriptReturns
    \/ SetActive
    \/ LoadHTML \/ LoadDropsFrames \/ InitJSRuntime
    \/ DestroyCalled \/ DestroyLocksRuntime \/ DestroyMarks \/ DestroyReleases

ScriptStep ==
    \/ ScriptRequestsFrame \/ ScriptCancelsFrame \/ ScriptSendsRequest
    \/ ScriptAddsListener

Next ==
    \/ UIStep \/ ScriptStep \/ RequestAnswered
    \/ \E p \in Pumps : PumpStep(p)

Spec == Init /\ [][Next]_vars

(* A timer fires, a runnable goroutine runs, a script returns and the      *)
(* mutex is handed over.  The UI goroutine issues commands as the user     *)
(* pleases but finishes each one.                                          *)
UIFinishes ==
    \/ ScriptStarts \/ ScriptReturns \/ LoadDropsFrames \/ InitJSRuntime
    \/ DestroyLocksRuntime \/ DestroyMarks \/ DestroyReleases

Fairness ==
    /\ \A p \in Pumps : WF_vars(PumpStep(p))
    /\ WF_vars(UIFinishes)

FairSpec == Spec /\ Fairness

-----------------------------------------------------------------------------
PumpStates == {"free", "armed", "fired", "drained", "running", "calling", "rearming"}

UIStates == {"idle", "locking", "script", "loading", "binding", "closing", "marking",
             "releasing"}

TypeOK ==
    /\ {active, destroyed, runtime} \subseteq BOOLEAN
    /\ document \in Documents /\ realm \in Documents /\ handlers \subseteq Documents
    /\ Queued \subseteq 1..counter /\ \A id \in Queued : frames[id] \in Documents
    /\ counter \in 0..MaxFrames
    /\ timer \in Pumps \cup {NoPump}
    /\ \A p \in Pumps : pump[p].at \in PumpStates
    /\ vm \in Pumps \cup {UI, NoHolder}
    /\ ui \in UIStates /\ commands \in 0..MaxCommands
    /\ inflight \subseteq Documents /\ retired \subseteq 1..counter

Calling(p) == pump[p].at = "calling"

StartsCall(p) == ~Calling(p) /\ Calling(p)'

(* A callback that ran, was cancelled or was dropped never runs (again),   *)
(* although drains of overlapping timers hold snapshots that name it.      *)
RetiredNeverRuns ==
    [][\A p \in Pumps : StartsCall(p) => pump'[p].id \notin retired]_vars

(* Callbacks, and with them the answers of requests and queued messages,   *)
(* run in the order they were scheduled: when one runs, nothing scheduled  *)
(* before it is still queued, whichever goroutine drains.  And a goroutine *)
(* that holds the runtime for a frame runs only callbacks scheduled before *)
(* the frame began, so that a callback that re-arms itself cannot keep     *)
(* RunJS and Destroy waiting for ever.                                     *)
CallbacksInOrder ==
    \A p \in Pumps : Calling(p) =>
        /\ \A id \in Queued : id > pump[p].id
        /\ pump[p].id <= pump[p].limit

(* While an active window has a frame queued, some timer or goroutine is   *)
(* on its way to run it.                                                   *)
NoStrandedFrame ==
    active /\ Queued # {} => \E p \in Pumps : pump[p].at # "free"

(* Once Destroy has returned, no goroutine runs a script of the window and *)
(* no closure, listener or frame of it is left to run later.               *)
DestroyedIsQuiet ==
    destroyed /\ ui = "idle" =>
        Queued = {} /\ handlers = {} /\ \A p \in Pumps : ~Calling(p)

(* A queued callback leaves the queue or the window is paused. *)
FrameIsServed ==
    \A id \in FrameIds : id \in Queued ~> (id \notin Queued \/ ~active)

(* Destroy ends, whatever timers, frames and requests it finds under way. *)
DestroyEnds == (ui = "closing") ~> destroyed

(* "Drop pending animation-frame callbacks scheduled by the previous       *)
(* document ... letting them fire after the realm is rebound drives stale  *)
(* values on the new VM": callbacks of a bound window belong to the        *)
(* document it is bound to.                                                *)
NoStaleCallback == \A p \in Pumps : Calling(p) => pump[p].doc = realm
=============================================================================
