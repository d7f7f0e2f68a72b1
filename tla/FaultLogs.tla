------------------------------- MODULE FaultLogs -------------------------------
(***************************************************************************)
(* The logs of what went wrong: the crashes of extensions with their       *)
(* recovery (browser/extensions/crash) and the errors (browser/errors).    *)
(* Each keeps its newest entries.  A recovery reads the callback under the *)
(* lock, restarts the extension without it, and marks the newest crash of  *)
(* the extension afterwards, whichever that is by then.                    *)
(***************************************************************************)
EXTENDS Integers, Sequences, SequencesExt, FiniteSets

CONSTANTS Crashers,     \* extensions
          Menders,      \* goroutines in Recover
          MostEvents,   \* the size of each log
          MaxFaults     \* bound on the crashes and the errors

ASSUME FaultsAssumption == MostEvents \in Nat \ {0} /\ MaxFaults \in Nat

VARIABLES crashes,      \* RecoveryManager.events
          crashed,      \* the number of crashes recorded, that of the last
          mending,      \* goroutine -> the extension it restarts, and since which crash
          hasRestart,   \* whether the restart callback is set
          errorLog,     \* Logger.entries, by their number
          logged        \* the number of errors logged

faultVars == <<crashes, crashed, mending, hasRestart, errorLog, logged>>

NotMending == [at |-> "idle", ext |-> "", since |-> 0, alone |-> TRUE]

FaultsInit ==
    /\ crashes = <<>> /\ crashed = 0 /\ hasRestart = FALSE
    /\ mending = [g \in Menders |-> NotMending]
    /\ errorLog = <<>> /\ logged = 0

\* Faulty form of the next definition: a full log keeps its oldest entries.
OldestOf(log) == IF Len(log) > MostEvents THEN SubSeq(log, 1, MostEvents) ELSE log

Newest(log) ==
    IF Len(log) > MostEvents THEN SubSeq(log, Len(log) - MostEvents + 1, Len(log)) ELSE log

Crash(ext, why) ==
    /\ crashed < MaxFaults
    /\ crashed' = crashed + 1
    /\ crashes' = Newest(Append(crashes, [number |-> crashed + 1, ext |-> ext, reason |-> why,
                                          recovered |-> FALSE, by |-> NotMending]))

(* A crash of an extension that is being restarted ends the certainty that *)
(* the restart is for its newest crash.                                    *)
Disturbed(jobs, ext) ==
    [g \in Menders |-> IF jobs[g].at # "idle" /\ jobs[g].ext = ext THEN [jobs[g] EXCEPT !.alone = FALSE] ELSE jobs[g]]

SetRestartCallback ==
    /\ hasRestart' = TRUE
    /\ UNCHANGED <<crashes, crashed, mending, errorLog, logged>>

(* SafeRun and SafeRunVM when what they run panics.  The panic is recorded,*)
(* and the caller is told of no error.                                     *)
SafeRun == \E ext \in Crashers :
    /\ Crash(ext, "panic") /\ mending' = Disturbed(mending, ext)
    /\ UNCHANGED <<hasRestart, errorLog, logged>>

BeginRecover == \E g \in Menders, ext \in Crashers :
    /\ mending[g].at = "idle" /\ hasRestart
    /\ mending' = [mending EXCEPT ![g] = [at |-> "restart", ext |-> ext, since |-> crashed, alone |-> TRUE]]
    /\ UNCHANGED <<crashes, crashed, hasRestart, errorLog, logged>>

Restarted == \E g \in Menders :
    /\ mending[g].at = "restart"
    /\ mending' = [mending EXCEPT ![g].at = "mark"]
    /\ UNCHANGED <<crashes, crashed, hasRestart, errorLog, logged>>

RestartFails == \E g \in Menders :
    /\ mending[g].at = "restart"
    /\ Crash(mending[g].ext, "recovery_failed")
    /\ mending' = Disturbed([mending EXCEPT ![g] = NotMending], mending[g].ext)
    /\ UNCHANGED <<hasRestart, errorLog, logged>>

Of(ext) == {i \in DOMAIN crashes : crashes[i].ext = ext}

\* Faulty form of the next definition: the last crash is marked, whose it may be.
Marks(g) == {Len(crashes)} \ {0}

\* MarkRecovered: the place of the newest crash of the extension, if there is one.
Marked(g) == {i \in Of(mending[g].ext) : \A j \in Of(mending[g].ext) : j <= i}

MarkRecovered == \E g \in Menders :
    /\ mending[g].at = "mark"
    /\ crashes' = [i \in DOMAIN crashes |->
           IF i \in Marked(g)
           THEN [crashes[i] EXCEPT !.recovered = TRUE, !.by = mending[g]]
           ELSE crashes[i]]
    /\ mending' = [mending EXCEPT ![g] = NotMending]
    /\ UNCHANGED <<crashed, hasRestart, errorLog, logged>>

ClearCrashes ==
    /\ crashes' = <<>>
    /\ UNCHANGED <<crashed, mending, hasRestart, errorLog, logged>>

Log ==
    /\ logged < MaxFaults
    /\ logged' = logged + 1 /\ errorLog' = Newest(Append(errorLog, logged + 1))
    /\ UNCHANGED <<crashes, crashed, mending, hasRestart>>

ClearErrors ==
    /\ errorLog' = <<>>
    /\ UNCHANGED <<crashes, crashed, mending, hasRestart, logged>>

CrashesNext ==
    \/ SetRestartCallback \/ SafeRun \/ BeginRecover \/ Restarted \/ RestartFails
    \/ MarkRecovered \/ ClearCrashes
ErrorsNext == Log \/ ClearErrors
FaultsNext == CrashesNext \/ ErrorsNext

-----------------------------------------------------------------------------
FaultsTypeOK ==
    /\ Len(crashes) <= MostEvents /\ Len(errorLog) <= MostEvents
    /\ crashed \in 0..MaxFaults /\ logged \in 0..MaxFaults
    /\ \A g \in Menders : mending[g].at \in {"idle", "restart", "mark"}

(* A log has the newest of what was recorded, without a gap.  A crash that *)
(* is marked as recovered by a recovery that no crash disturbed is of the  *)
(* extension that was restarted, came before the restart, and was then the *)
(* newest of its extension.                                                *)
FaultsAreKept ==
    /\ \A i \in DOMAIN crashes : crashes[i].number = crashed - Len(crashes) + i
    /\ \A i \in DOMAIN errorLog : errorLog[i] = logged - Len(errorLog) + i
    /\ \A e \in Range(crashes) : e.recovered /\ e.by.alone =>
           /\ e.ext = e.by.ext /\ e.number <= e.by.since
           /\ \A d \in Range(crashes) : d.ext = e.ext => d.number <= e.number \/ d.number > e.by.since
=============================================================================
