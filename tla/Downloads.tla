------------------------------- MODULE Downloads -------------------------------
(***************************************************************************)
(* chrome.downloads: the table of downloads, the calls that start one, and *)
(* the goroutine downloadFile of each.                                     *)
(*                                                                         *)
(* A call comes from a script on the UI goroutine or on that of an alarm,  *)
(* also from a listener of another call's event, so that calls interleave; *)
(* each section under downloadsMu is one action.                           *)
(***************************************************************************)
EXTENDS Naturals

CONSTANTS MaxDownloads  \* bound on the downloads started

ASSUME DownloadsAssumption == MaxDownloads \in Nat

VARIABLES
    nextDownloadID, \* the number given out last
    downloads,      \* State of an entry, or Erased
    paused,         \* Paused of an entry
    owned,          \* the keys of downloadExtIDs
    calls,          \* a call of Download, by the number it was given
    fetching,       \* the goroutine a call started: where it is
    target,         \* the download it works on
    local,          \* its copy of the entry: state and Paused
    fetched,        \* history: downloads whose goroutine got the whole file
    mixedUp         \* history: downloads whose goroutine works on another one

callVars == <<nextDownloadID, calls, mixedUp>>
fetchVars == <<fetching, target, local, fetched>>
downloadVars == <<callVars, fetchVars, downloads, paused, owned>>

DownloadIDs == 1..MaxDownloads
Erased == "erased"
NoCopy == [state |-> Erased, paused |-> FALSE]
Copy(d) == [state |-> downloads[d], paused |-> paused[d]]

DownloadsInit ==
    /\ nextDownloadID = 0
    /\ downloads = [d \in DownloadIDs |-> Erased] /\ paused = [d \in DownloadIDs |-> FALSE]
    /\ owned = {}
    /\ calls = [d \in DownloadIDs |-> "not made"]
    /\ fetching = [d \in DownloadIDs |-> "no"] /\ target = [d \in DownloadIDs |-> 0]
    /\ local = [d \in DownloadIDs |-> NoCopy]
    /\ fetched = {} /\ mixedUp = {}

-----------------------------------------------------------------------------
(* Download makes the entry and calls the listeners of onCreated.          *)
Download ==
    /\ nextDownloadID < MaxDownloads
    /\ nextDownloadID' = nextDownloadID + 1
    /\ downloads' = [downloads EXCEPT ![nextDownloadID + 1] = "in_progress"]
    /\ owned' = owned \cup {nextDownloadID + 1}
    /\ calls' = [calls EXCEPT ![nextDownloadID + 1] = "announcing"]
    /\ UNCHANGED <<fetchVars, paused, mixedUp>>

\* Faulty form of the next definition: the counter is taken for the next number.
LaunchNext == \E d \in DownloadIDs :
    /\ calls[d] = "announcing"
    /\ calls' = [calls EXCEPT ![d] = "returned"]
    /\ fetching' = [fetching EXCEPT ![d] = "started"]
    /\ target' = [target EXCEPT ![d] = nextDownloadID + 1]
    /\ mixedUp' = IF d = nextDownloadID THEN mixedUp
                  ELSE mixedUp \cup {d, nextDownloadID}
    /\ UNCHANGED <<nextDownloadID, local, fetched, downloads, paused, owned>>

(* The goroutine is given the number the counter has by now, and the       *)
(* caller too, without the mutex.                                          *)
Launch == \E d \in DownloadIDs :
    /\ calls[d] = "announcing"
    /\ calls' = [calls EXCEPT ![d] = "returned"]
    /\ fetching' = [fetching EXCEPT ![d] = "started"]
    /\ target' = [target EXCEPT ![d] = nextDownloadID]
    /\ mixedUp' = IF d = nextDownloadID THEN mixedUp
                  ELSE mixedUp \cup {d, nextDownloadID}
    /\ UNCHANGED <<nextDownloadID, local, fetched, downloads, paused, owned>>

-----------------------------------------------------------------------------
(* downloadFile copies the entry once ...                                  *)
Begins == \E w \in DownloadIDs :
    /\ fetching[w] = "started"
    /\ fetching' = [fetching EXCEPT ![w] =
           IF downloads[target[w]] = Erased THEN "over" ELSE "transferring"]
    /\ local' = [local EXCEPT ![w] = Copy(target[w])]
    /\ UNCHANGED <<callVars, target, fetched, downloads, paused, owned>>

(* ... and writes that copy back with every block, also over an entry that *)
(* was cancelled, paused or erased meanwhile.                              *)
updateDownload == \E w \in DownloadIDs :
    /\ fetching[w] = "transferring"
    /\ downloads' = [downloads EXCEPT ![target[w]] = local[w].state]
    /\ paused' = [paused EXCEPT ![target[w]] = local[w].paused]
    /\ UNCHANGED <<callVars, fetchVars, owned>>

\* Faulty form of the next definition: the goroutine returns on an error.
ReturnOnError == \E w \in DownloadIDs :
    /\ fetching[w] = "transferring"
    /\ fetching' = [fetching EXCEPT ![w] = "over"]
    /\ UNCHANGED <<callVars, target, local, fetched, downloads, paused, owned>>

(* No directory, no answer, a bad status, a read or a write that fails.    *)
failDownload == \E w \in DownloadIDs :
    /\ fetching[w] = "transferring"
    /\ fetching' = [fetching EXCEPT ![w] = "over"]
    /\ downloads' = [downloads EXCEPT ![target[w]] = IF @ = Erased THEN @ ELSE "interrupted"]
    /\ UNCHANGED <<callVars, target, local, fetched, paused, owned>>

Completes == \E w \in DownloadIDs :
    /\ fetching[w] = "transferring"
    /\ fetching' = [fetching EXCEPT ![w] = "over"]
    /\ fetched' = fetched \cup {target[w]}
    /\ downloads' = [downloads EXCEPT ![target[w]] = IF @ = Erased THEN @ ELSE "complete"]
    /\ UNCHANGED <<callVars, target, local, paused, owned>>

-----------------------------------------------------------------------------
(* The other calls change the entry and leave the goroutine alone.         *)
Cancel == \E d \in DownloadIDs :
    /\ downloads[d] # Erased
    /\ downloads' = [downloads EXCEPT ![d] = "interrupted"]
    /\ UNCHANGED <<callVars, fetchVars, paused, owned>>

Pause == \E d \in DownloadIDs :
    /\ downloads[d] # Erased
    /\ paused' = [paused EXCEPT ![d] = TRUE]
    /\ UNCHANGED <<callVars, fetchVars, downloads, owned>>

Resume == \E d \in DownloadIDs :
    /\ downloads[d] # Erased
    /\ paused' = [paused EXCEPT ![d] = FALSE]
    /\ UNCHANGED <<callVars, fetchVars, downloads, owned>>

Erase == \E d \in DownloadIDs :
    /\ downloads[d] # Erased
    /\ downloads' = [downloads EXCEPT ![d] = Erased]
    /\ paused' = [paused EXCEPT ![d] = FALSE]
    /\ owned' = owned \ {d}
    /\ UNCHANGED <<callVars, fetchVars>>

DownloadsNext ==
    \/ Download \/ Launch
    \/ Begins \/ updateDownload \/ failDownload \/ Completes
    \/ Cancel \/ Pause \/ Resume \/ Erase

DownloadsSpec == DownloadsInit /\ [][DownloadsNext]_downloadVars

-----------------------------------------------------------------------------
States == {Erased, "in_progress", "interrupted", "complete"}

DownloadsTypeOK ==
    /\ nextDownloadID \in 0..MaxDownloads
    /\ \A d \in DownloadIDs :
           /\ downloads[d] \in States /\ local[d].state \in States
           /\ {paused[d], local[d].paused} \subseteq BOOLEAN
           /\ target[d] \in 0..nextDownloadID
           /\ calls[d] \in {"not made", "announcing", "returned"}
           /\ fetching[d] \in {"no", "started", "transferring", "over"}
    /\ owned \subseteq 1..nextDownloadID

(* However calls, goroutines and the extension's cancelling, pausing and   *)
(* erasing overlap, a download is shown as in progress only while          *)
(* something works on it, and as complete only if its file is; an erased   *)
(* one comes back only with a goroutine that had begun.  Excepted are the  *)
(* downloads of two calls that overlap, whose goroutines both work on the  *)
(* later one.                                                              *)
DownloadsAreTrue ==
    \A d \in (1..nextDownloadID) \ mixedUp :
        /\ downloads[d] = "in_progress"
               => calls[d] = "announcing" \/ fetching[d] \in {"started", "transferring"}
        /\ downloads[d] = "complete" => d \in fetched
        /\ d \notin owned /\ downloads[d] # Erased => local[d] # NoCopy
=============================================================================
