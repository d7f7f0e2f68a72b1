------------------------------ MODULE MCServices ------------------------------
(***************************************************************************)
(* The services around the pages and the extensions.  They share no state, *)
(* so that one run checks each by itself: an initial choice says which     *)
(* part moves, and the states add up and are not multiplied.               *)
(***************************************************************************)
EXTENDS Containers, CertificatePins, Downloads, WindowMessages, XMLHttpRequests,
        ExtensionEvents, CookieRules, NetworkClient, ChromeCalls, Gallery, ProgramUpdates,
        ExtensionRecords, Telemetry, FaultLogs, TLC

(* Hosts are sequences of labels, paths sequences of characters.           *)
Shop == <<"shop", "com">>
Pay == <<"pay", "shop", "com">>

CookiePages ==
    {[scheme |-> "https", host |-> Pay, path |-> p] : p \in {<<"/", "a">>, <<"/", "a", "/", "b">>, <<"/", "a", "b">>}}
    \cup {[scheme |-> "http", host |-> Pay, path |-> <<"/", "a", "/">>], [scheme |-> "https", host |-> Shop, path |-> Root]}

SomeLines ==
    [domain : {<<>>}, path : {<<>>}, secure : BOOLEAN, site : SitePolicies, until : {"never", "later"}]
    \cup [domain : {Shop}, path : {<<"/", "a">>, <<"/", "a", "/">>}, secure : {TRUE}, site : {"lax"}, until : {"never", "past"}]
    \cup [domain : {<<"com">>}, path : {Root}, secure : {TRUE}, site : {"none"}, until : {"never"}]

(* A package that is safe, one with a finding of a rule of the program and *)
(* a directory, and one that writes onto the package of another listing    *)
(* and into its directory.                                                 *)
Unstaged == <<>>
Entry(name, under, finds) == [name |-> name, under |-> under, finds |-> finds, leads |-> "in", holds |-> Unstaged]
SafeOne == <<Entry("a.js", "", "nothing")>>
RemoteOne == <<Entry("c.js", "lib", "remote")>>
WritingOne == <<[Entry("x", "", "nothing") EXCEPT !.leads = "beside", !.holds = RemoteOne],
                [Entry("lib", "", "eval") EXCEPT !.leads = "ad"]>>
SomeArchives == {SafeOne, RemoteOne, WritingOne}
SomeDeliveries ==
    {[file |-> "x", package |-> SafeOne], [file |-> "x", package |-> RemoteOne], [file |-> "y", package |-> WritingOne]}
SomeOffers ==
    [ad |-> {[file |-> "x", sum |-> Unstaged, category |-> "privacy", downloads |-> 2],
             [file |-> "x", sum |-> SafeOne, category |-> "other", downloads |-> 1]},
     dark |-> {[file |-> "y", sum |-> Unstaged, category |-> "privacy", downloads |-> 1]}]

Manifest(version, min, channel, rollout, sum) ==
    [version |-> version, min |-> min, channel |-> channel, rollout |-> rollout, sum |-> sum]
ThisVersion == <<1, 2>>
SomeManifests ==
    {Manifest(<<1, 10>>, <<1, 2>>, "stable", 100, "good"), Manifest(<<1, 2, 0>>, <<>>, "", 50, "nothing"),
     Manifest(<<2>>, <<1, 3>>, "stable", 0, "good"), Manifest(<<1, 1, 9>>, <<>>, "", 100, "good"),
     Manifest(<<3>>, <<>>, "beta", 100, "good")}

VARIABLE part

Parts == {"containers", "pins", "downloads", "messages", "requests", "events", "cookies", "network",
          "calls", "gallery", "updates",
          "menus", "grants", "notes", "telemetry", "crashes", "errors"}

Still(p) ==
    /\ UNCHANGED part
    /\ IF p = "containers" THEN TRUE ELSE UNCHANGED containerVars
    /\ IF p = "pins" THEN TRUE ELSE UNCHANGED pinVars
    /\ IF p = "downloads" THEN TRUE ELSE UNCHANGED downloadVars
    /\ IF p = "messages" THEN TRUE ELSE UNCHANGED messageVars
    /\ IF p = "requests" THEN TRUE ELSE UNCHANGED requestVars
    /\ IF p = "events" THEN TRUE ELSE UNCHANGED eventVars
    /\ IF p = "cookies" THEN TRUE ELSE UNCHANGED cookieVars
    /\ IF p = "network" THEN TRUE ELSE UNCHANGED networkVars
    /\ IF p = "calls" THEN TRUE ELSE UNCHANGED stackVars
    /\ IF p = "gallery" THEN TRUE ELSE UNCHANGED galleryVars
    /\ IF p = "updates" THEN TRUE ELSE UNCHANGED updateVars
    /\ IF p \in {"menus", "grants", "notes"} THEN TRUE ELSE UNCHANGED recordVars
    /\ IF p = "telemetry" THEN TRUE ELSE UNCHANGED telemetryVars
    /\ IF p \in {"crashes", "errors"} THEN TRUE ELSE UNCHANGED faultVars

(* A part that stays as it is starts in one state only.                    *)
Init ==
    /\ part \in Parts
    /\ ContainersInit /\ PinsInit /\ DownloadsInit /\ MessagesInit /\ RequestsInit /\ EventsInit
    /\ CookiesInit /\ NetworkInit /\ CallsInit
    /\ GalleryInit
    /\ UpdatesInit
    /\ RecordsInit
    /\ TelemetryInit
    /\ FaultsInit
    /\ part = "pins" \/ fileIs = "missing"
    /\ part = "updates" \/ bucket = CHOOSE n \in Percentages : TRUE
    /\ part = "containers" \/ tab.site = CHOOSE s \in Sites : TRUE

Next ==
    \/ part = "containers" /\ ContainersNext /\ Still("containers")
    \/ part = "pins" /\ PinsNext /\ Still("pins")
    \/ part = "downloads" /\ DownloadsNext /\ Still("downloads")
    \/ part = "messages" /\ MessagesNext /\ Still("messages")
    \/ part = "requests" /\ RequestsNext /\ Still("requests")
    \/ part = "events" /\ EventsNext /\ Still("events")
    \/ part = "cookies" /\ CookiesNext /\ Still("cookies")
    \/ part = "network" /\ NetworkNext /\ Still("network")
    \/ part = "calls" /\ CallsNext /\ Still("calls")
    \/ part = "gallery" /\ GalleryNext /\ Still("gallery")
    \/ part = "updates" /\ UpdatesNext /\ Still("updates")
    \/ part = "menus" /\ MenusNext /\ Still("menus")
    \/ part = "grants" /\ GrantsNext /\ Still("grants")
    \/ part = "notes" /\ NotesNext /\ Still("notes")
    \/ part = "telemetry" /\ TelemetryNext /\ Still("telemetry")
    \/ part = "crashes" /\ CrashesNext /\ Still("crashes")
    \/ part = "errors" /\ ErrorsNext /\ Still("errors")

vars == <<part, containerVars, pinVars, downloadVars, messageVars, requestVars, eventVars, cookieVars,
          networkVars, stackVars, galleryVars, updateVars, recordVars, telemetryVars, faultVars>>

Spec == Init /\ [][Next]_vars

\* The cfg gives Windows and Exts, and Workers and Goroutines, the same values.
Symmetry == Permutations(Windows) \cup Permutations(Workers)

TypeOK ==
    /\ part \in Parts
    /\ part = "containers" => ContainersTypeOK
    /\ part = "pins" => PinsTypeOK
    /\ part = "downloads" => DownloadsTypeOK
    /\ part = "messages" => MessagesTypeOK
    /\ part = "requests" => RequestsTypeOK
    /\ part = "events" => EventsTypeOK
    /\ part = "cookies" => CookiesTypeOK
    /\ part = "network" => NetworkTypeOK
    /\ part = "calls" => CallsTypeOK
    /\ part = "gallery" => GalleryTypeOK
    /\ part = "updates" => UpdatesTypeOK
    /\ part \in {"menus", "grants", "notes"} => RecordsTypeOK
    /\ part = "telemetry" => TelemetryTypeOK
    /\ part \in {"crashes", "errors"} => FaultsTypeOK

(* Every store that outlives the process agrees with its file.             *)
StoresAreOnDisk ==
    /\ part = "containers" => ContainersAreOnDisk
    /\ part = "pins" => PinsAreOnDisk

(* What is kept for somebody is kept once and can be taken back: a cookie  *)
(* in one store, what the shell remembers for extensions, and a resource    *)
(* in its cache, which does not grow over its bound.                       *)
OnePlaceEach ==
    /\ part = "containers" => CookiesInOnePlace
    /\ part \in {"menus", "grants", "notes"} => RecordsAreKept
    /\ part = "network" => CachesAreBounded

(* What is shown or handed out as the result of some work is what the work *)
(* came to: a download, a request of a page, a fetch, which is encrypted,  *)
(* an update, a batch of metrics, the logs of faults.  (All of it safety:  *)
(* that the work ends is not claimed.)                                     *)
ResultsAreTrue ==
    /\ part = "downloads" => DownloadsAreTrue
    /\ part = "requests" => RequestsAreAnswered
    /\ part = "network" => NothingPlain
    /\ part = "updates" => UpdatesAreChecked
    /\ part = "telemetry" => MetricsAreSentOnce
    /\ part \in {"crashes", "errors"} => FaultsAreKept

(* A message between windows is not lost or run twice, an extension's      *)
(* listeners are known to those who call them, and a chrome.* call that is *)
(* over has called its callback.  (All of it safety, as above.)            *)
NothingSaidIsLost ==
    /\ part = "messages" => MessagesAreNotLost
    /\ part = "events" => ListenersAreKnown
    /\ part = "calls" => CallbacksAreTold

(* What comes from outside is taken as it was meant: a cookie, by the page  *)
(* it is for, and a package, as it was scanned.                            *)
TakenAsMeant ==
    /\ part = "cookies" => CookiesAreMeant
    /\ part = "gallery" => InstalledWasScanned
=============================================================================
