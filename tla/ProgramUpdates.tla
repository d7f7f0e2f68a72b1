---------------------------- MODULE ProgramUpdates ----------------------------
(***************************************************************************)
(* Updates of the program itself (browser/autoupdate): the manifest of the *)
(* latest release is judged against the version that runs, and a release   *)
(* is downloaded to a file named by its URL and checked there.  The lock   *)
(* of the updater guards its configuration only, so that two goroutines    *)
(* may download to the same file.                                          *)
(*                                                                         *)
(* A release is downloaded in two halves; the sum of a body is the body.   *)
(***************************************************************************)
EXTENDS Integers, Sequences, FiniteSets

CONSTANTS Running,          \* the version that runs, a sequence of numbers
          Channel,
          Manifests,        \* what the server may say
          Percentages,      \* the share of clients that isInRollout puts this one in
          Bodies, NoBody,
          Updaters          \* goroutines

ASSUME UpdatesAssumption ==
    /\ NoBody \notin Bodies /\ Percentages \subseteq 0..99
    /\ Running \in Seq(Int) /\ IsFiniteSet(Updaters)
    /\ \A m \in Manifests : /\ m.sum \in Bodies \cup {NoBody}
                            /\ m.version \in Seq(Int) /\ m.min \in Seq(Int)

VARIABLES bucket,      \* the hash of seed and version, modulo 100
          verdict,     \* goroutine -> the result of CheckForUpdates
          checked,     \* whether lastCheck has been set
          release,     \* what the goroutine downloads, and where it is
          disk, named  \* the files by number, and the one that has the name (0: none)

updateVars == <<bucket, verdict, checked, release, disk, named>>

Empty2 == <<NoBody, NoBody>>   \* a file with nothing in it
Whole(body) == <<body, body>>
Refusal == [available |-> FALSE, eligible |-> FALSE, manifest |-> CHOOSE m \in Manifests : TRUE]
Rest == [at |-> "idle", sum |-> NoBody, body |-> NoBody, file |-> 0, alone |-> TRUE]

UpdatesInit ==
    /\ bucket \in Percentages /\ checked = FALSE
    /\ verdict = [g \in Updaters |-> Refusal] /\ release = [g \in Updaters |-> Rest]
    /\ disk = [f \in 1..Cardinality(Updaters) + 1 |-> Empty2] /\ named = 0

-----------------------------------------------------------------------------
\* Faulty form of the next definition: the longer version is newer.
LongerIsNewer(a, b) ==
    Len(a) > Len(b) \/ (Len(a) = Len(b) /\ \E i \in DOMAIN a : a[i] > b[i])

(* compareVersionParts: the first number that differs decides, and if none *)
(* does the number of parts.                                               *)
isNewerVersion(a, b) ==
    LET differ == {i \in DOMAIN a \cap DOMAIN b : a[i] # b[i]} IN
    IF differ = {} THEN Len(a) > Len(b)
    ELSE \E i \in differ : (\A j \in differ : i <= j) /\ a[i] > b[i]

(* Of a manifest for another channel, an older release, or one that is not *)
(* for the version that runs, nothing is offered.  A release that is       *)
(* rolled out to no one or not yet to this client is offered, and said not *)
(* to be for it.                                                           *)
Judged(m) ==
    [available |-> /\ m.channel \in {"", Channel}
                   /\ isNewerVersion(m.version, Running)
                   /\ m.min = <<>> \/ m.min = Running \/ isNewerVersion(Running, m.min),
     eligible |-> m.rollout >= 100 \/ (m.rollout > 0 /\ bucket < m.rollout),
     manifest |-> m]

(* The time of the check is kept only if an update is offered; an error    *)
(* leaves the caller without a result.                                     *)
CheckForUpdates == \E g \in Updaters : \E m \in Manifests :
    /\ release[g].at = "idle"
    /\ verdict' = [verdict EXCEPT ![g] = IF Judged(m).available THEN Judged(m) ELSE [Refusal EXCEPT !.manifest = m]]
    /\ checked' = (checked \/ Judged(m).available)
    /\ UNCHANGED <<bucket, release, disk, named>>

-----------------------------------------------------------------------------
Downloading(g) == release[g].at # "idle"

Files == 1..Cardinality(Updaters) + 1
Unused == CHOOSE f \in Files : f # named /\ \A g \in Updaters : release[g].file # f

(* The response arrives, for the sum of the verdict, and os.Create makes   *)
(* the file or empties the one that has the name.                          *)
BeginDownload == \E g \in Updaters, b \in Bodies :
    /\ ~Downloading(g) /\ verdict[g].available
    /\ LET file == IF named = 0 THEN Unused ELSE named IN
       /\ named' = file
       /\ disk' = [disk EXCEPT ![file] = Empty2]
       /\ release' = [h \in Updaters |->
             IF h = g THEN [at |-> "first", sum |-> verdict[g].manifest.sum, body |-> b, file |-> file,
                            alone |-> \A o \in Updaters \ {g} : ~Downloading(o)]
             ELSE IF Downloading(h) THEN [release[h] EXCEPT !.alone = FALSE] ELSE release[h]]
    /\ UNCHANGED <<bucket, verdict, checked>>

WriteHalf == \E g \in Updaters : \E half \in {1, 2} :
    /\ release[g].at = (IF half = 1 THEN "first" ELSE "second")
    /\ disk' = [disk EXCEPT ![release[g].file][half] = release[g].body]
    /\ release' = [release EXCEPT ![g].at = IF half = 1 THEN "second" ELSE "verify"]
    /\ UNCHANGED <<bucket, verdict, checked, named>>

\* Faulty form of the next definition: the error of io.Copy is not looked at.
WriteFailsUnseen == \E g \in Updaters :
    /\ release[g].at \in {"first", "second"}
    /\ release' = [release EXCEPT ![g].at = "verify"]
    /\ UNCHANGED <<bucket, verdict, checked, disk, named>>

\* What was written before an error stays.
WriteFails == \E g \in Updaters :
    /\ release[g].at \in {"first", "second"}
    /\ release' = [release EXCEPT ![g] = Rest]
    /\ UNCHANGED <<bucket, verdict, checked, disk, named>>

(* verifyChecksum reads the file that has the name now; a file with        *)
(* another sum is removed.                                                 *)
VerifyChecksumOf == \E g \in Updaters :
    /\ release[g].at = "verify"
    /\ IF release[g].sum = NoBody \/ (named # 0 /\ disk[named] = Whole(release[g].sum))
       THEN release' = [release EXCEPT ![g].at = "returned"] /\ UNCHANGED named
       ELSE release' = [release EXCEPT ![g] = Rest] /\ named' = 0
    /\ UNCHANGED <<bucket, verdict, checked, disk>>

\* The caller has used the file.
UpdateUsed == \E g \in Updaters :
    /\ release[g].at = "returned"
    /\ release' = [release EXCEPT ![g] = Rest]
    /\ UNCHANGED <<bucket, verdict, checked, disk, named>>

UpdatesNext ==
    \/ CheckForUpdates \/ BeginDownload \/ WriteHalf \/ WriteFails
    \/ VerifyChecksumOf \/ UpdateUsed

-----------------------------------------------------------------------------
UpdatesTypeOK ==
    /\ named \in Files \cup {0} /\ checked \in BOOLEAN
    /\ \A g \in Updaters : release[g].at \in {"idle", "first", "second", "verify", "returned"}

\* The order of versions: the first part in which one is ahead.
Ahead(a, b) == \E i \in DOMAIN a :
    /\ i <= Len(b) + 1 /\ SubSeq(a, 1, i - 1) = SubSeq(b, 1, i - 1)
    /\ i > Len(b) \/ a[i] > b[i]

(* What is offered is ahead of the version that runs and for it.  The path *)
(* that a download returns names a whole release with the sum of the       *)
(* manifest, as long as no other download was under way.                   *)
UpdatesAreChecked ==
    /\ \A g \in Updaters : verdict[g].available =>
           LET m == verdict[g].manifest IN
           /\ Ahead(m.version, Running) /\ ~Ahead(Running, m.version)
           /\ m.min # <<>> => ~Ahead(m.min, Running)
           /\ checked
    /\ \A g \in Updaters : release[g].at = "returned" /\ release[g].alone =>
           /\ named = release[g].file /\ disk[named] = Whole(release[g].body)
           /\ release[g].sum \in {NoBody, release[g].body}
=============================================================================
