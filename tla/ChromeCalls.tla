------------------------------ MODULE ChromeCalls ------------------------------
(***************************************************************************)
(* What a script of an extension meets when it calls chrome.*: how few     *)
(* arguments a method takes, where it looks for a callback, what it does   *)
(* with an error, which event it fires, and in which order it does so.     *)
(*                                                                         *)
(* The tables give every method its shape; the machine runs one call after *)
(* the other, and those its listeners and callbacks make.  What a method   *)
(* does is the subject of other modules.  Arguments are of the kinds the   *)
(* method wants: an explicit undefined makes most of them throw.           *)
(***************************************************************************)
EXTENDS Naturals, Sequences

CONSTANTS MaxArguments, \* arguments of a call
          MaxDepth      \* calls within the listeners and callbacks of a call

ASSUME CallsAssumption == {MaxArguments, MaxDepth} \subseteq Nat

VARIABLES frames, \* the calls that have not returned, the innermost last
          ended    \* how the process ended: "alive", or "panic"

stackVars == <<frames, ended>>

-----------------------------------------------------------------------------
(* least: fewer arguments are too few; a call with too few throws or is    *)
(* ignored.  looks: the argument that is tried as the callback, "any" is   *)
(* the last if there is one, "first" a lone one or else the second.        *)
(* error: the callback is told undefined, told as if nothing had happened, *)
(* or not asked since the method throws.  fires: an event follows always,  *)
(* after a success, perhaps after one, or never.                           *)
Shape(least, few, looks, error, fires) ==
    [least |-> least, few |-> few, looks |-> looks, error |-> error, fires |-> fires]

Plain == Shape(0, "ignored", "last", "tells", "never")
Quiet == Shape(0, "ignored", "none", "hides", "never")
Needs(n, few, shape) == [shape EXCEPT !.least = n, !.few = few]
Careful(shape) == [shape EXCEPT !.looks = "any"]
Hides(shape) == [shape EXCEPT !.error = "hides"]
Fires(shape) == [shape EXCEPT !.fires = "success"]
MayFire(shape) == [shape EXCEPT !.fires = "perhaps"]
At(place, shape) == [shape EXCEPT !.looks = place]

(* A table: pairs of a method and its shape.                               *)
All(names, shape) == names \X {shape}
Throwing(names) == All(names, Needs(1, "throws", Plain))
Lax(names) == All(names, Needs(1, "ignored", Plain))

bindRuntime ==
    All({"sendMessage"}, Shape(1, "throws", "none", "throws", "always"))
    \cup All({"getManifest", "getURL", "getPlatformInfo"}, Quiet)

bindStorage ==
    All({"get", "getBytesInUse"}, At("first", Plain)) \cup All({"set", "remove", "clear"}, Quiet)

readTabs ==
    All({"query"}, Plain) \cup All({"get"}, Needs(1, "ignored", At("second", Plain)))
    \cup All({"update"}, Needs(1, "ignored", MayFire(Plain)))

bindTabs ==
    readTabs \cup All({"create"}, Fires(Plain))
    \cup All({"remove"}, Shape(1, "ignored", "second", "hides", "always"))
    \cup All({"sendMessage"}, Shape(2, "throws", "none", "throws", "always"))

bindWindows ==
    All({"getCurrent", "create"}, Plain) \cup All({"getAll"}, Hides(Plain))
    \cup All({"remove"}, Shape(1, "ignored", "second", "hides", "never"))

bindContextualIdentities ==
    All({"query"}, Plain) \cup All({"create"}, Fires(Plain))
    \cup All({"get"}, Needs(1, "ignored", At("second", Plain)))
    \cup All({"update"}, Needs(1, "ignored", Fires(Plain)))
    \cup All({"remove"}, Fires(Shape(1, "ignored", "second", "hides", "never")))

oneCookie == Lax({"get"}) \cup All({"set"}, Fires(Needs(1, "ignored", Plain)))

bindCookies ==
    oneCookie \cup All({"remove"}, Fires(Needs(1, "ignored", Plain)))
    \cup All({"getAll", "removeAll"}, Plain) \cup All({"getAllCookieStores"}, Careful(Plain))

inject ==
    All({"executeScriptFile"}, Needs(3, "throws", Plain)) \cup All({"removeCSS"}, Careful(Plain))
    \cup Throwing({"executeScript", "insertCSS"})

bindScripting == inject \cup Throwing({"registerContentScripts", "unregisterContentScripts"})

bindContextMenus ==
    Throwing({"create", "remove"}) \cup All({"update"}, Needs(2, "throws", Plain)) \cup All({"removeAll"}, Plain)

bindPermissions ==
    All({"request"}, MayFire(Needs(1, "throws", Plain))) \cup Throwing({"contains"}) \cup All({"getAll"}, Plain)

bindAlarms ==
    Throwing({"create", "get"}) \cup All({"clear"}, Hides(Needs(1, "throws", Plain)))
    \cup All({"getAll"}, Plain) \cup All({"clearAll"}, Hides(Plain))

bindI18n == Throwing({"getMessage"}) \cup All({"getAcceptLanguages"}, Plain)

bindNotifications ==
    All({"create"}, Fires(Plain)) \cup All({"clear"}, MayFire(Plain)) \cup All({"getAll"}, Careful(Plain))

oneDownload == All({"cancel", "pause", "resume"}, MayFire(Plain)) \cup All({"download", "get"}, Plain)

bindDownloads ==
    oneDownload \cup All({"erase"}, MayFire(Plain)) \cup All({"getAll"}, Careful(Plain)) \cup Lax({"search"})

(* move takes its second argument unseen: without one, it throws as well.  *)
placeBookmarks ==
    Throwing({"create", "get"}) \cup All({"move"}, Needs(2, "throws", Plain)) \cup All({"getChildren"}, Plain)

bindBookmarks ==
    placeBookmarks \cup Throwing({"update"}) \cup All({"remove"}, Hides(Needs(1, "throws", Plain)))

bindHistory == Throwing({"addUrl", "deleteUrl", "search"})

bindAction ==
    All({"setBadgeText", "setBadgeColor", "setIcon", "setPopup"}, Needs(1, "throws", Quiet))
    \cup All({"getPopup"}, Hides(Plain))

Namespaces ==
    {bindRuntime, bindStorage, bindTabs, bindWindows, bindContextualIdentities, bindCookies,
     bindScripting, bindContextMenus, bindPermissions, bindAlarms, bindI18n, bindNotifications,
     bindDownloads, bindBookmarks, bindHistory, bindAction}

Shapes == {method[2] : method \in UNION Namespaces}

-----------------------------------------------------------------------------
(* The place of the callback, 0 if none is tried.  The last of no argument *)
(* is argument -1, an index out of range that no script can catch.         *)
Tried(shape, count) ==
    CASE shape.looks = "none" -> 0
      [] shape.looks \in {"last", "any"} -> count
      [] shape.looks = "second" -> 2
      [] shape.looks = "first" -> IF count < 2 THEN 1 ELSE 2

Panics(shape, count) == shape.looks = "last" /\ count = 0

CallsInit == frames = <<>> /\ ended = "alive"

Inner == frames[Len(frames)]
Becomes(call) == frames' = [frames EXCEPT ![Len(frames)] = call]

\* A script runs: that of the extension, a listener's or a callback's.
ScriptRuns == ended = "alive" /\ (frames # <<>> => Inner.at \in {"event", "callback"})

(* A call with its count of arguments, of which one may be a function.     *)
Begin == \E shape \in Shapes, count \in 0..MaxArguments, function \in 0..MaxArguments :
    /\ ScriptRuns /\ Len(frames) <= MaxDepth
    /\ function <= count
    /\ IF count >= shape.least /\ Panics(shape, count)
       THEN ended' = "panic" /\ UNCHANGED frames
       ELSE /\ frames' = Append(frames,
                   [shape |-> shape, enough |-> count >= shape.least,
                    callback |-> function # 0 /\ function = Tried(shape, count),
                    at |-> IF count >= shape.least THEN "asked" ELSE "done",
                    how |-> IF count < shape.least /\ shape.few = "throws" THEN "throws" ELSE "returns",
                    worked |-> FALSE, told |-> 0, heard |-> 0])
            /\ UNCHANGED ended

After(call) == IF call.callback THEN [call EXCEPT !.at = "callback", !.told = @ + 1]
               ELSE [call EXCEPT !.at = "done"]

Announced(call) == [call EXCEPT !.at = "event", !.heard = @ + 1]

\* Faulty form of the next definition: an error ends the call at once.
FailsEarly(call) ==
    IF ~call.worked THEN {[call EXCEPT !.at = "done"]}
    ELSE CASE call.shape.fires \in {"always", "success"} -> {Announced(call)}
           [] call.shape.fires = "perhaps" -> {Announced(call), After(call)}
           [] call.shape.fires = "never" -> {After(call)}

(* The operation worked or failed; listeners are called before a callback. *)
Performed(call) ==
    CASE call.shape.fires = "always" \/ (call.shape.fires = "success" /\ call.worked) -> {Announced(call)}
      [] call.shape.fires = "perhaps" /\ call.worked -> {Announced(call), After(call)}
      [] OTHER -> {After(call)}

Perform == \E works \in BOOLEAN :
    /\ ended = "alive" /\ frames # <<>> /\ Inner.at = "asked"
    /\ \E call \in Performed([Inner EXCEPT !.worked = works]) : Becomes(call)
    /\ UNCHANGED ended

(* A listener or a callback ends, well or by an exception.  Only messages  *)
(* look at the exception of a listener, and throw it on.                   *)
ListenersEnd == \E throws \in BOOLEAN :
    /\ ScriptRuns /\ frames # <<>> /\ Inner.at = "event"
    /\ Becomes(IF throws /\ Inner.shape.error = "throws"
               THEN [Inner EXCEPT !.at = "done", !.how = "throws"] ELSE After(Inner))
    /\ UNCHANGED ended

CallbackEnds ==
    /\ ScriptRuns /\ frames # <<>> /\ Inner.at = "callback"
    /\ Becomes([Inner EXCEPT !.at = "done"])
    /\ UNCHANGED ended

(* An exception that the script does not catch ends that script.           *)
Finish == \E caught \in BOOLEAN :
    LET n == Len(frames) - 1
        caller == frames[n] IN
    /\ ended = "alive" /\ frames # <<>> /\ Inner.at = "done"
    /\ Inner.how = "returns" => caught
    /\ frames' =
           IF caught \/ n = 0 THEN SubSeq(frames, 1, n)
           ELSE Append(SubSeq(frames, 1, n - 1),
                    IF caller.at = "callback" THEN [caller EXCEPT !.at = "done"]
                    ELSE IF caller.shape.error = "throws" THEN [caller EXCEPT !.at = "done", !.how = "throws"]
                    ELSE After(caller))
    /\ UNCHANGED ended

CallsNext == Begin \/ Perform \/ ListenersEnd \/ CallbackEnds \/ Finish

-----------------------------------------------------------------------------
CallsTypeOK ==
    /\ ended \in {"alive", "panic"} /\ Len(frames) <= MaxDepth + 1
    /\ \A i \in DOMAIN frames : frames[i].at \in {"asked", "event", "callback", "done"}

(* A call that had its arguments has, when it is done, called its callback *)
(* exactly once whether it worked or not, after the listeners of its event *)
(* and whatever they and the callback threw; a call that had too few called *)
(* nobody.  Only the methods of messages throw once they have begun.  That *)
(* a callback is called is all that is said: the code passes the answer as *)
(* `this`, not as an argument (chrome_api.go:799), and a call of a method  *)
(* that finds its callback at place -1 may end the process (Panics).       *)
CallbacksAreTold ==
    \A i \in DOMAIN frames : LET c == frames[i] IN
        /\ c.told = 1 => c.callback
        /\ c.told = 1 /\ c.shape.fires = "success" => (c.heard = 1 <=> c.worked)
        /\ c.told = 1 /\ c.shape.fires = "always" => c.heard = 1
        /\ c.at = "done" /\ c.enough /\ c.callback => c.told = 1
        /\ ~c.enough => c.told = 0 /\ c.heard = 0
        /\ c.how = "throws" => c.shape.error = "throws" \/ ~c.enough
        /\ {c.told, c.heard} \subseteq {0, 1}
=============================================================================
