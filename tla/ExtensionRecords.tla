--------------------------- MODULE ExtensionRecords ---------------------------
(***************************************************************************)
(* What the shell remembers for extensions (browser/shell/extension_ops):  *)
(* the items of context menus, the permissions granted and the             *)
(* notifications shown.  Scripts of several extensions call it on several  *)
(* goroutines.  Each table has a lock, and the event that a change causes  *)
(* is fired after the lock is released, except that of permissions (see    *)
(* ExtensionEvents).  Nothing clears a table when an extension goes.       *)
(***************************************************************************)
EXTENDS Naturals, FiniteSets

CONSTANTS MenuIDs,      \* IDs that scripts give to menu items; "" for none
          Grants,       \* permissions
          NoteIDs,
          Callers,      \* goroutines that create and clear notifications
          MaxNotes      \* bound on the notifications created under one ID

ASSUME RecordsAssumption == MaxNotes \in Nat /\ IsFiniteSet(Callers)

VARIABLES menuItems,    \* contextMenus: the items under the two keys of each
          missed,       \* history: the ID that the last operation did not find
          declares,     \* the permissions of the manifest, if installed
          given,        \* permissions: those granted to the extension
          onceDeclared, \* history: all that some manifest declared, or was granted without one
          notes,        \* the notifications shown
          toFire,       \* the event that a caller has still to fire
          made, fired   \* history: notifications created, onClosed events fired

menuVars == <<menuItems, missed>>
grantVars == <<declares, given, onceDeclared>>
noteVars == <<notes, toFire, made, fired>>
recordVars == <<menuVars, grantVars, noteVars>>

Uninstalled == [installed |-> FALSE, permissions |-> {}]
NoEvent == [fires |-> "nothing", id |-> ""]

RecordsInit ==
    /\ menuItems = {} /\ missed = {}
    /\ declares = Uninstalled /\ given = {} /\ onceDeclared = {}
    /\ notes = {} /\ toFire = [c \in Callers |-> NoEvent]
    /\ made = [n \in NoteIDs |-> 0] /\ fired = [n \in NoteIDs |-> 0]

-----------------------------------------------------------------------------
(* Context menus.  The outer key is the ID as the script gave it and not   *)
(* the extension; the items of all extensions are in one table.            *)

KeptAs(id) == IF id = "" THEN "menu-1" ELSE id
UnderKey(id) == {m \in menuItems : m.id = id}

CreateContextMenu == \E id \in MenuIDs :
    /\ menuItems' = {m \in menuItems : m.key # id \/ m.id # KeptAs(id)}
                    \cup {[key |-> id, id |-> KeptAs(id), named |-> TRUE]}
    /\ missed' = {}
    /\ UNCHANGED <<grantVars, noteVars>>

(* The item that replaces the old one has no ID and no parent.  Of two     *)
(* items of one ID it is the one that the walk over the map meets first.   *)
UpdateContextMenu == \E id \in {KeptAs(i) : i \in MenuIDs} :
    /\ IF UnderKey(id) = {} THEN missed' = {id} /\ UNCHANGED menuItems
       ELSE \E m \in UnderKey(id) :
            menuItems' = (menuItems \ {m}) \cup {[m EXCEPT !.named = FALSE]} /\ missed' = {}
    /\ UNCHANGED <<grantVars, noteVars>>

\* Faulty form of the next definition: an item is found by the ID it carries.
RemoveNamed == \E id \in {KeptAs(i) : i \in MenuIDs} :
    /\ IF {m \in UnderKey(id) : m.named} = {} THEN missed' = {id} /\ UNCHANGED menuItems
       ELSE \E m \in UnderKey(id) : m.named /\ menuItems' = menuItems \ {m} /\ missed' = {}
    /\ UNCHANGED <<grantVars, noteVars>>

RemoveContextMenu == \E id \in {KeptAs(i) : i \in MenuIDs} :
    /\ IF UnderKey(id) = {} THEN missed' = {id} /\ UNCHANGED menuItems
       ELSE \E m \in UnderKey(id) : menuItems' = menuItems \ {m} /\ missed' = {}
    /\ UNCHANGED <<grantVars, noteVars>>

\* One extension removes the items of all.
RemoveAllContextMenus ==
    /\ menuItems' = {} /\ missed' = {}
    /\ UNCHANGED <<grantVars, noteVars>>

-----------------------------------------------------------------------------
(* Permissions of one extension, which is installed, updated to another    *)
(* manifest, and removed.                                                  *)

ManifestChanges == \E installed \in BOOLEAN : \E some \in SUBSET Grants :
    /\ installed \/ some = {}
    /\ declares' = [installed |-> installed, permissions |-> some]
    /\ onceDeclared' = onceDeclared \cup some
    /\ UNCHANGED <<menuVars, given, noteVars>>

\* Faulty form of the next definition: what is declared is granted before the error.
RequestPartly == \E asked \in SUBSET Grants :
    /\ given' = given \cup (IF declares.installed /\ ~(asked \subseteq declares.permissions)
                            THEN {CHOOSE p \in asked : TRUE} ELSE asked)
    /\ onceDeclared' = onceDeclared \cup (IF declares.installed THEN {} ELSE asked)
    /\ UNCHANGED <<menuVars, declares, noteVars>>

(* All or none of what is asked for.  A script that still runs when its    *)
(* extension is no longer in the manager gets whatever it asks for.        *)
RequestPermissions == \E asked \in SUBSET Grants :
    /\ declares.installed => asked \subseteq declares.permissions
    /\ given' = given \cup asked
    /\ onceDeclared' = onceDeclared \cup (IF declares.installed THEN {} ELSE asked)
    /\ UNCHANGED <<menuVars, declares, noteVars>>

RemovePermissions == \E dropped \in SUBSET Grants :
    /\ given' = given \ dropped
    /\ UNCHANGED <<menuVars, declares, onceDeclared, noteVars>>

\* getAll, and contains for those asked for.
ContainsPermissions(asked) == given \cap asked

-----------------------------------------------------------------------------
(* Notifications of one extension.                                         *)

CreateNotification == \E c \in Callers, n \in NoteIDs :
    /\ toFire[c] = NoEvent /\ made[n] < MaxNotes
    /\ notes' = notes \cup {n} /\ made' = [made EXCEPT ![n] = @ + 1]
    /\ toFire' = [toFire EXCEPT ![c] = [fires |-> "onClicked", id |-> n]]
    /\ UNCHANGED <<menuVars, grantVars, fired>>

\* Faulty form of the next definition: whether it was shown is not looked at.
ClearAlways == \E c \in Callers, n \in NoteIDs :
    /\ toFire[c] = NoEvent /\ fired[n] < MaxNotes + 1
    /\ notes' = notes \ {n}
    /\ toFire' = [toFire EXCEPT ![c] = [fires |-> "onClosed", id |-> n]]
    /\ UNCHANGED <<menuVars, grantVars, made, fired>>

ClearNotification == \E c \in Callers : \E n \in notes :
    /\ toFire[c] = NoEvent
    /\ notes' = notes \ {n}
    /\ toFire' = [toFire EXCEPT ![c] = [fires |-> "onClosed", id |-> n]]
    /\ UNCHANGED <<menuVars, grantVars, made, fired>>

(* The event is fired without the lock, if the extension still has its API.*)
FireNotification == \E c \in Callers, runs \in BOOLEAN :
    /\ toFire[c] # NoEvent
    /\ toFire' = [toFire EXCEPT ![c] = NoEvent]
    /\ fired' = IF runs /\ toFire[c].fires = "onClosed" THEN [fired EXCEPT ![toFire[c].id] = @ + 1] ELSE fired
    /\ UNCHANGED <<menuVars, grantVars, notes, made>>

MenusNext == CreateContextMenu \/ UpdateContextMenu \/ RemoveContextMenu \/ RemoveAllContextMenus
GrantsNext == ManifestChanges \/ RequestPermissions \/ RemovePermissions
NotesNext == CreateNotification \/ ClearNotification \/ FireNotification
RecordsNext == MenusNext \/ GrantsNext \/ NotesNext

-----------------------------------------------------------------------------
RecordsTypeOK ==
    /\ given \subseteq Grants /\ notes \subseteq NoteIDs
    /\ missed \subseteq {KeptAs(id) : id \in MenuIDs}

Closing(n) == Cardinality({c \in Callers : toFire[c] = [fires |-> "onClosed", id |-> n]})

(* A menu item can always be removed by the ID it was created with, also   *)
(* after an update took its own: items under one ID are two at most, and   *)
(* only under the ID of items without one.  A permission is granted only   *)
(* if some manifest of the extension declared it, unless it was asked for  *)
(* when the extension was gone.  A notification is closed at most as often *)
(* as it was created, whoever clears it and when.                          *)
RecordsAreKept ==
    /\ \A m \in menuItems : m.id = KeptAs(m.key) /\ Cardinality(UnderKey(m.id)) <= IF m.id = "menu-1" THEN 2 ELSE 1
    /\ \A id \in missed : UnderKey(id) = {}
    /\ ContainsPermissions(Grants) \subseteq onceDeclared
    /\ \A n \in NoteIDs : fired[n] + Closing(n) + (IF n \in notes THEN 1 ELSE 0) <= made[n]
=============================================================================
