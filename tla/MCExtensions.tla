----------------------------- MODULE MCExtensions -----------------------------
(***************************************************************************)
(* The parts of the extension system that share no state, each checked by  *)
(* itself in one run: an initial choice says which part moves, so that the *)
(* states add up and are not multiplied.                                   *)
(***************************************************************************)
EXTENDS ExtensionManager, IPCConnection, ExtensionStorage, ExtensionAlarms,
        ContentScripts, TLC

VARIABLE part

Parts == {"manager", "connection", "storage", "sync", "alarms", "scripts"}

Init ==
    /\ part \in Parts
    /\ ManagerInit /\ ConnInit /\ StorageInit /\ SyncInit /\ AlarmsInit
    /\ ScriptsInit

Next ==
    \/ part = "manager" /\ ManagerNext
       /\ UNCHANGED <<part, connVars, storageVars, syncing, alarmVars, scriptVars>>
    \/ part = "connection" /\ ConnNext
       /\ UNCHANGED <<part, managerVars, storageVars, syncing, alarmVars, scriptVars>>
    \/ part = "storage" /\ StorageNext
       /\ UNCHANGED <<part, managerVars, connVars, syncing, alarmVars, scriptVars>>
    \/ part = "sync" /\ SyncNext
       /\ UNCHANGED <<part, managerVars, connVars, storageVars, alarmVars, scriptVars>>
    \/ part = "alarms" /\ AlarmsNext
       /\ UNCHANGED <<part, managerVars, connVars, storageVars, syncing, scriptVars>>
    \/ part = "scripts" /\ ScriptsNext
       /\ UNCHANGED <<part, managerVars, connVars, storageVars, syncing, alarmVars>>

Spec == Init /\ [][Next]_<<part, managerVars, connVars, storageVars, syncing, alarmVars,
                            scriptVars>>

TypeOK == part \in Parts /\ ManagerTypeOK /\ ConnTypeOK /\ StorageTypeOK /\ AlarmsTypeOK
          /\ ScriptsTypeOK

MCAreas == <<"local", "sync">>
(* Extension "a" registers two scripts that share their first file, and so *)
(* their id.                                                               *)
Script(e, n, urls, phase) ==
    [ID |-> <<e, n>>, ExtID |-> e, Matches |-> {urls}, ExcludeMatches |-> {},
     IncludeGlobs |-> {}, ExcludeGlobs |-> {}, RunAt |-> phase]
MCManifest ==
    [a |-> <<Script("a", 1, Addresses, "document_idle"), Script("a", 1, {"u"}, "document_start")>>,
     b |-> <<Script("b", 2, Addresses, "document_end")>>]

ExtSymmetry == Permutations(Exts)
=============================================================================
