---------------------------- MODULE ExtensionEvents ----------------------------
(***************************************************************************)
(* The events of chrome.*: which listeners an extension has, who calls     *)
(* them, and which mutexes are held meanwhile.  A listener is a script and *)
(* may call the API again, on the goroutine that called it: that of the    *)
(* shell, of an alarm, of a download or of a request of some page.  The    *)
(* machine of an extension has no lock of its own.                         *)
(*                                                                         *)
(* Two mutexes are held while listeners run: the message router's and that *)
(* of the permissions.  Every other one is released before, and is not     *)
(* modelled.                                                               *)
(***************************************************************************)
EXTENDS Naturals, Sequences, FiniteSets, Functions

CONSTANTS Exts, Goroutines,  \* extensions, and goroutines that call listeners
          MaxListeners,      \* bound on the listeners of one event
          MaxCalls           \* bound on the API calls of the scripts

ASSUME EventsAssumption == MaxListeners \in Nat /\ MaxCalls \in Nat /\ IsFiniteSet(Exts)

VARIABLES
    started,   \* the extensions with an entry in chromeAPIs
    listeners, \* the tables of a ChromeAPI: number of listeners of an event
    handlers,  \* MessageRouter.handlers: number of handlers of an extension
    entries,   \* webRequestListeners: number of entries of an extension
    granted,   \* the extensions that were granted the optional permission
    calling,   \* calls of a goroutine, the innermost last
    wanted,    \* the mutex a goroutine waits for
    observing, \* entries that a request's observer has still to go through
    spent,     \* number of API calls made
    announced, \* history: how often onAdded announced the permission
    shared     \* history: extensions whose machine two goroutines were in

tables == <<started, listeners, handlers, entries, granted>>
eventVars == <<tables, calling, wanted, observing, spent, announced, shared>>

(* onMessage listeners are the router's.  "own" events go to the extension *)
(* whose call causes them (tabs, notifications, runtime); "all" ones to    *)
(* every extension (containers, cookies).                                  *)
Events == {"own", "all", "added", "request"}
NoListeners == [k \in Events |-> 0]

EventsInit ==
    /\ started = {} /\ listeners = [e \in Exts |-> NoListeners]
    /\ handlers = [e \in Exts |-> 0] /\ entries = [e \in Exts |-> 0]
    /\ granted = {}
    /\ calling = [g \in Goroutines |-> <<>>] /\ wanted = [g \in Goroutines |-> "none"]
    /\ observing = [g \in Goroutines |-> [e \in Exts |-> 0]]
    /\ spent = 0 /\ announced = [e \in Exts |-> 0] /\ shared = {}

-----------------------------------------------------------------------------
(* A call: the extensions whose listeners are still to be called, the one  *)
(* whose listener runs, the listeners left of it, and the mutex it holds.  *)
Innermost(g) == calling[g][Len(calling[g])]
Inside(g, e) == \E i \in DOMAIN calling[g] : calling[g][i].ext = e
HeldBy(g, lock) == \E i \in DOMAIN calling[g] : calling[g][i].holds = lock
Free(lock) == \A g \in Goroutines : ~HeldBy(g, lock)

Frame(e, event, count, lock) == [ext |-> e, event |-> event, left |-> count, holds |-> lock]

(* The listeners are copied, so that later changes do not reach the round, *)
(* and there is no round for none.                                         *)
Round(e, event, count, lock) == IF count > 0 THEN <<Frame(e, event, count, lock)>> ELSE <<>>

Calling(g, called) ==
    /\ calling' = [calling EXCEPT ![g] = @ \o called]
    /\ shared' = shared \cup {called[i].ext : i \in
           {j \in DOMAIN called : \E h \in Goroutines \ {g} : Inside(h, called[j].ext)}}

Idle(g) == calling[g] = <<>> /\ observing[g] = [e \in Exts |-> 0]

(* A script of g makes a call; one that finds its mutex taken waits.       *)
Scripting(g) == calling[g] # <<>> /\ Innermost(g).event \notin {"adding", "removing"}
Caller(g) == Innermost(g).ext
Calls(g) == Scripting(g) /\ wanted[g] = "none" /\ spent < MaxCalls /\ spent' = spent + 1

Locks(g, lock) ==
    /\ Scripting(g) /\ Free(lock)
    /\ IF wanted[g] = lock THEN spent' = spent ELSE Calls(g)
    /\ wanted' = [wanted EXCEPT ![g] = "none"]

-----------------------------------------------------------------------------
(* Start and stop of the extension: a new ChromeAPI and a new machine, and *)
(* the background script.  The router's handlers and the entries of the    *)
(* observer stay.                                                          *)
StartExtension == \E g \in Goroutines, e \in Exts \ started :
    /\ Idle(g)
    /\ started' = started \cup {e}
    /\ listeners' = [listeners EXCEPT ![e] = NoListeners]
    /\ Calling(g, <<Frame(e, "script", 1, "none")>>)
    /\ UNCHANGED <<handlers, entries, granted, wanted, observing, spent, announced>>

StopExtension == \E g \in Goroutines, e \in started :
    /\ Idle(g)
    /\ started' = started \ {e}
    /\ UNCHANGED <<listeners, handlers, entries, granted, calling, wanted,
                   observing, spent, announced, shared>>

(* An alarm, the end of a download or a click calls the listeners.         *)
Occurs == \E g \in Goroutines, e \in started :
    /\ Idle(g)
    /\ listeners[e]["own"] > 0
    /\ Calling(g, <<Frame(e, "own", listeners[e]["own"], "none")>>)
    /\ UNCHANGED <<tables, wanted, observing, spent, announced>>

(* A call that fires an event to the caller: tabs.create, tabs.remove,     *)
(* notifications.create (which fires onClicked) and clear.                 *)
OwnEvent == \E g \in Goroutines :
    /\ Calls(g)
    /\ Calling(g, IF Caller(g) \in started
               THEN Round(Caller(g), "own", listeners[Caller(g)]["own"], "none") ELSE <<>>)
    /\ UNCHANGED <<tables, wanted, observing, announced>>

Orders(set) == {f \in [1..Cardinality(set) -> set] : IsInjective(f)}

(* contextualIdentities.create and the others fire to all, in any order.   *)
EventForAll == \E g \in Goroutines :
    /\ Calls(g)
    /\ \E order \in Orders({e \in started : listeners[e]["all"] > 0}) :
          Calling(g, [i \in DOMAIN order |-> Frame(order[i], "all", listeners[order[i]]["all"], "none")])
    /\ UNCHANGED <<tables, wanted, observing, announced>>

AddListener == \E g \in Goroutines, k \in Events \ {"request"} :
    /\ Calls(g) /\ Caller(g) \in started
    /\ listeners[Caller(g)][k] < MaxListeners
    /\ listeners' = [listeners EXCEPT ![Caller(g)][k] = @ + 1]
    /\ UNCHANGED <<started, handlers, entries, granted, calling, wanted, observing, announced, shared>>

-----------------------------------------------------------------------------
(* RegisterHandler and Route lock the router.                              *)
AddMessageListener == \E g \in Goroutines :
    /\ Locks(g, "router")
    /\ handlers[Caller(g)] < MaxListeners
    /\ handlers' = [handlers EXCEPT ![Caller(g)] = @ + 1]
    /\ UNCHANGED <<started, listeners, entries, granted, calling, observing, announced, shared>>

(* Only handlers of the sender's own extension are called. *)
SendMessage == \E g \in Goroutines :
    /\ Locks(g, "router")
    /\ Calling(g, Round(Caller(g), "message", handlers[Caller(g)], "router"))
    /\ UNCHANGED <<tables, observing, announced>>

RequestPermission(g) ==
    LET e == Caller(g) IN
    /\ granted' = granted \cup {e}
    /\ announced' = IF e \in granted THEN announced ELSE [announced EXCEPT ![e] = @ + 1]
    /\ Calling(g, IF e \in started \ granted
               THEN Round(e, "added", listeners[e]["added"], "permissions") ELSE <<>>)

(* A permission that the manifest does not declare is refused.             *)
AskPermission == \E g \in Goroutines, declared \in BOOLEAN :
    /\ Locks(g, "permissions")
    /\ IF declared THEN RequestPermission(g) ELSE UNCHANGED <<granted, calling, announced, shared>>
    /\ UNCHANGED <<started, listeners, handlers, entries, observing>>

Blocks == \E g \in Goroutines, lock \in {"router", "permissions"} :
    /\ Calls(g)
    /\ ~Free(lock)
    /\ wanted' = [wanted EXCEPT ![g] = lock]
    /\ UNCHANGED <<tables, calling, observing, announced, shared>>

-----------------------------------------------------------------------------
(* webRequest listeners are in two tables, changed one after the other.    *)
AddRequestListener == \E g \in Goroutines :
    /\ Calls(g)
    /\ entries[Caller(g)] < MaxListeners
    /\ entries' = [entries EXCEPT ![Caller(g)] = @ + 1]
    /\ Calling(g, <<Frame(Caller(g), "adding", 1, "none")>>)
    /\ UNCHANGED <<started, listeners, handlers, granted, wanted, observing, announced>>

RemoveRequestListeners == \E g \in Goroutines :
    /\ Calls(g)
    /\ entries' = [entries EXCEPT ![Caller(g)] = 0]
    /\ Calling(g, <<Frame(Caller(g), "removing", 1, "none")>>)
    /\ UNCHANGED <<started, listeners, handlers, granted, wanted, observing, announced>>

\* Faulty form of the next definition: removing leaves the callbacks.
TableFollowsAdding(g) ==
    /\ calling[g] # <<>> /\ ~Scripting(g)
    /\ listeners' = [listeners EXCEPT ![Caller(g)]["request"] =
           IF Innermost(g).event = "adding" THEN @ + 1 ELSE @]

TableFollows(g) ==
    /\ calling[g] # <<>> /\ ~Scripting(g)
    /\ listeners' = [listeners EXCEPT ![Caller(g)]["request"] =
           IF Innermost(g).event = "adding" THEN @ + 1 ELSE 0]

SecondTable == \E g \in Goroutines :
    /\ TableFollows(g)
    /\ calling' = [calling EXCEPT ![g] = SubSeq(@, 1, Len(@) - 1)]
    /\ UNCHANGED <<started, handlers, entries, granted, wanted, observing, spent, announced, shared>>

(* A request of any page: the observer copies the entries, and calls all   *)
(* listeners of the extension once for each.                               *)
RequestObserved == \E g \in Goroutines :
    /\ Idle(g) /\ spent < MaxCalls
    /\ spent' = spent + 1
    /\ observing' = [observing EXCEPT ![g] = entries]
    /\ UNCHANGED <<tables, calling, wanted, announced, shared>>

ObserverCalls == \E g \in Goroutines, e \in Exts :
    /\ calling[g] = <<>> /\ observing[g][e] > 0
    /\ observing' = [observing EXCEPT ![g][e] = @ - 1]
    /\ Calling(g, IF e \in started THEN Round(e, "request", listeners[e]["request"], "none") ELSE <<>>)
    /\ UNCHANGED <<tables, wanted, spent, announced>>

\* One that throws ends the round of the router, and no other round.
ListenerReturns == \E g \in Goroutines, throws \in BOOLEAN :
    /\ Scripting(g) /\ wanted[g] = "none"
    /\ throws => Innermost(g).event = "message"
    /\ LET rounds == calling[g]  last == Len(rounds) IN
       calling' = [calling EXCEPT ![g] =
           IF Innermost(g).left > 1 /\ ~throws THEN [rounds EXCEPT ![last].left = @ - 1]
           ELSE SubSeq(rounds, 1, last - 1)]
    /\ UNCHANGED <<tables, wanted, observing, spent, announced, shared>>

EventsNext ==
    \/ StartExtension \/ StopExtension \/ Occurs \/ OwnEvent \/ EventForAll \/ AddListener
    \/ AddMessageListener \/ SendMessage \/ AskPermission \/ Blocks
    \/ AddRequestListener \/ RemoveRequestListeners \/ SecondTable
    \/ RequestObserved \/ ObserverCalls \/ ListenerReturns

EventsSpec == EventsInit /\ [][EventsNext]_eventVars

-----------------------------------------------------------------------------
EventsTypeOK ==
    /\ started \subseteq Exts /\ granted \subseteq Exts /\ shared \subseteq Exts
    /\ \A e \in Exts : {handlers[e], entries[e]} \subseteq 0..MaxListeners
    /\ \A g \in Goroutines : wanted[g] \in {"none", "router", "permissions"}

Settled(e) == \A g \in Goroutines : \A i \in DOMAIN calling[g] :
    calling[g][i].ext = e => calling[g][i].event \notin {"adding", "removing"}

(* Whatever scripts and calls interleave, an extension that has a          *)
(* webRequest listener is in the table the observer goes through, so that  *)
(* its requests are not passed by, unless two goroutines were in the       *)
(* extension's machine at once (`shared`): nothing in the code keeps them  *)
(* apart, and then the two tables may differ.  A permission is announced   *)
(* once, and no mutex is held by two goroutines while listeners run.  That *)
(* a mutex is got in the end is not promised: a listener that calls again  *)
(* waits for itself (Blocks).                                              *)
ListenersAreKnown ==
    /\ \A e \in started \ shared :
           Settled(e) /\ listeners[e]["request"] > 0 => entries[e] > 0
    /\ \A e \in Exts : announced[e] <= 1
    /\ \A g, h \in Goroutines, lock \in {"router", "permissions"} :
           HeldBy(g, lock) /\ HeldBy(h, lock) => g = h
=============================================================================
