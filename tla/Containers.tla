------------------------------ MODULE Containers ------------------------------
(***************************************************************************)
(* The container manager with its file, and the two kinds of cookie jars   *)
(* that are partitioned by container and origin: the one extensions read   *)
(* and write, and the one of each window, which its network client fills   *)
(* under the default container, whatever container its tab is in.          *)
(*                                                                         *)
(* Each call holds the mutex of the manager or of the jar and is one       *)
(* action.  Cookies are numbered as they are set; all have one identity    *)
(* (name, domain, path), so a partition holds at most one.                 *)
(***************************************************************************)
EXTENDS Integers, FiniteSets, FiniteSetsExt

CONSTANTS BoxNames,  \* names of containers
          Sites,     \* origins
          MaxBoxes,  \* bound on the container numbers given out
          MaxCookies \* bound on the cookies set

ASSUME ContainersAssumption == MaxBoxes \in Nat /\ MaxCookies \in Nat /\ IsFiniteSet(Sites)

VARIABLES
    containers, \* name of container c1, c2, ..., or NoBox
    nextID,     \* the field of this name
    onDisk,     \* the containers in the file
    unsaved,    \* history: the last save failed
    extJar,     \* extensionOps.cookieJar: the cookie of a partition, or 0
    windowJar,  \* the cookies of the tab's window, by origin
    cookies,    \* number of cookies set
    siteOf,     \* the origin a cookie was set for
    gone,       \* history: cookies that were replaced, removed or cleared
    tab         \* the tab: its container, origin, and whether it has a window

boxVars == <<containers, nextID, onDisk, unsaved>>
jarVars == <<extJar, windowJar, cookies, siteOf, gone>>
containerVars == <<boxVars, jarVars, tab>>

NoBox == "none"
BoxIDs == 1..MaxBoxes
NoContainer == 0     \* the tab's ContainerID is ""
DefaultStore == -1   \* the key "default"
Window == -2         \* stands for the jar of the window
Stores == BoxIDs \cup {NoContainer, DefaultStore}

Known == {c \in BoxIDs : containers[c] # NoBox}

ContainersInit ==
    /\ containers = [c \in BoxIDs |-> NoBox] /\ onDisk = containers
    /\ nextID = 1 /\ unsaved = FALSE
    /\ extJar = [b \in Stores |-> [s \in Sites |-> 0]]
    /\ windowJar = [s \in Sites |-> 0]
    /\ cookies = 0 /\ siteOf = [n \in 1..MaxCookies |-> CHOOSE s \in Sites : TRUE]
    /\ gone = {}
    /\ \E s \in Sites : tab = [box |-> NoContainer, site |-> s, window |-> FALSE]

-----------------------------------------------------------------------------
\* Faulty form of the next definition: a failed save reports success.
SavedSilently(boxes, saved) ==
    /\ containers' = boxes
    /\ onDisk' = IF saved THEN boxes ELSE onDisk
    /\ unsaved' = FALSE

(* The file is written beside the old one and renamed, so a failed save    *)
(* leaves the old containers in it; the memory keeps the new ones, and the *)
(* caller gets an error.                                                   *)
Saved(boxes, saved) ==
    /\ containers' = boxes
    /\ onDisk' = IF saved THEN boxes ELSE onDisk
    /\ unsaved' = ~saved

Create == \E name \in BoxNames, saved \in BOOLEAN :
    /\ nextID <= MaxBoxes
    /\ \A c \in Known : containers[c] # name
    /\ nextID' = nextID + 1
    /\ Saved([containers EXCEPT ![nextID] = name], saved)
    /\ UNCHANGED <<jarVars, tab>>

Update == \E c \in Known, name \in BoxNames, saved \in BOOLEAN :
    /\ Saved([containers EXCEPT ![c] = name], saved)
    /\ UNCHANGED <<nextID, jarVars, tab>>

(* Neither tabs nor cookies of the container are touched. *)
RemoveBox == \E c \in Known, saved \in BOOLEAN :
    /\ Saved([containers EXCEPT ![c] = NoBox], saved)
    /\ UNCHANGED <<nextID, jarVars, tab>>

(* The next number is one more than the largest that is left.              *)
RestartContainers ==
    /\ containers' = onDisk /\ UNCHANGED onDisk
    /\ nextID' = Max({0} \cup {c \in BoxIDs : onDisk[c] # NoBox}) + 1
    /\ unsaved' = FALSE
    /\ extJar' = [b \in Stores |-> [s \in Sites |-> 0]] /\ windowJar' = [s \in Sites |-> 0]
    /\ gone' = 1..cookies
    /\ tab' = [tab EXCEPT !.window = FALSE]
    /\ UNCHANGED <<cookies, siteOf>>

-----------------------------------------------------------------------------
(* SetCookies for one cookie: it takes the place of the one before it.     *)
NewCookie(site, old) ==
    /\ cookies < MaxCookies
    /\ cookies' = cookies + 1
    /\ siteOf' = [siteOf EXCEPT ![cookies + 1] = site]
    /\ gone' = gone \cup ({old} \ {0})

(* chrome.cookies.set; the cookies it makes never expire.                  *)
SetCookie == \E b \in Stores \ {NoContainer}, s \in Sites :
    /\ NewCookie(s, extJar[b][s])
    /\ extJar' = [extJar EXCEPT ![b][s] = cookies + 1]
    /\ UNCHANGED <<boxVars, windowJar, tab>>

(* chrome.cookies.removeAll *)
ClearCookies == \E b \in Stores \ {NoContainer} :
    /\ extJar' = [extJar EXCEPT ![b] = [s \in Sites |-> 0]]
    /\ gone' = gone \cup ({extJar[b][s] : s \in Sites} \ {0})
    /\ UNCHANGED <<boxVars, windowJar, cookies, siteOf, tab>>

(* A cookie that expires later stays in the jar and is not sent.           *)
ResponseSetsCookie ==
    /\ tab.window
    /\ NewCookie(tab.site, windowJar[tab.site])
    /\ windowJar' = [windowJar EXCEPT ![tab.site] = cookies + 1]
    /\ UNCHANGED <<boxVars, extJar, tab>>

(* A cookie set in the past takes the stored one with it.                  *)
ResponseRemovesCookie ==
    /\ tab.window /\ windowJar[tab.site] # 0
    /\ windowJar' = [windowJar EXCEPT ![tab.site] = 0]
    /\ gone' = gone \cup {windowJar[tab.site]}
    /\ UNCHANGED <<boxVars, extJar, cookies, siteOf, tab>>

-----------------------------------------------------------------------------
\* Faulty form of the next definition: the source keeps its cookie.
CopyOrigin(from, to, s) ==
    LET moved == extJar[from][s] IN
    IF moved = 0 THEN UNCHANGED <<extJar, gone>>
    ELSE /\ extJar' = [extJar EXCEPT ![to][s] = moved]
         /\ gone' = gone \cup ({extJar[to][s]} \ {0})

TransferOrigin(from, to, s) ==
    LET moved == extJar[from][s] IN
    IF moved = 0 THEN UNCHANGED <<extJar, gone>>
    ELSE /\ extJar' = [extJar EXCEPT ![to][s] = moved, ![from][s] = 0]
         /\ gone' = gone \cup ({extJar[to][s]} \ {0})

(* chrome.tabs.update with a containerId, which may name any container:    *)
(* the cookies of the jar of the extensions move, under the tab's id for   *)
(* the default container, and those of the window stay.                    *)
MoveTab == \E to \in BoxIDs :
    /\ to # tab.box
    /\ TransferOrigin(tab.box, to, tab.site)
    /\ tab' = [tab EXCEPT !.box = to]
    /\ UNCHANGED <<boxVars, windowJar, cookies, siteOf>>

(* A navigation keeps the window and its jar; its end loses the jar.       *)
VisitSite == \E s \in Sites :
    /\ tab' = [tab EXCEPT !.site = s, !.window = TRUE]
    /\ tab' # tab
    /\ UNCHANGED <<boxVars, jarVars>>

WindowEnds ==
    /\ tab.window
    /\ tab' = [tab EXCEPT !.window = FALSE]
    /\ windowJar' = [s \in Sites |-> 0]
    /\ gone' = gone \cup ({windowJar[s] : s \in Sites} \ {0})
    /\ UNCHANGED <<boxVars, extJar, cookies, siteOf>>

ContainersNext ==
    \/ Create \/ Update \/ RemoveBox \/ RestartContainers
    \/ SetCookie \/ ClearCookies \/ ResponseSetsCookie \/ ResponseRemovesCookie
    \/ MoveTab \/ VisitSite \/ WindowEnds

ContainersSpec == ContainersInit /\ [][ContainersNext]_containerVars

-----------------------------------------------------------------------------
ContainersTypeOK ==
    /\ \A c \in BoxIDs : {containers[c], onDisk[c]} \subseteq BoxNames \cup {NoBox}
    /\ nextID \in 1..(MaxBoxes + 1) /\ unsaved \in BOOLEAN
    /\ \A b \in Stores : \A s \in Sites : extJar[b][s] \in 0..cookies
    /\ gone \subseteq 1..cookies

(* What the manager lists is what the next start finds, unless the last    *)
(* change was refused with an error, and a new container never gets the    *)
(* number, and with it the tabs and cookies, of one that is listed.        *)
ContainersAreOnDisk ==
    /\ ~unsaved => onDisk = containers
    /\ \A c \in Known : c < nextID

(* A cookie is in one partition, of the origin it was set for, from the    *)
(* time it is set until it is replaced, removed or cleared, however tabs   *)
(* move between containers and windows end.                                *)
CookiesInOnePlace ==
    LET Places(n) == {p \in Stores \X Sites : extJar[p[1]][p[2]] = n}
                     \cup {<<Window, s>> : s \in {s \in Sites : windowJar[s] = n}}
    IN \A n \in 1..cookies :
           IF n \in gone THEN Places(n) = {}
           ELSE Cardinality(Places(n)) = 1 /\ \A p \in Places(n) : p[2] = siteOf[n]
=============================================================================
