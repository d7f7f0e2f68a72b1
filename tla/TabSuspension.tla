----------------------------- MODULE TabSuspension -----------------------------
(***************************************************************************)
(* The suspender of tabs (browser/shell/suspension) with the tabs of the   *)
(* shell it is given: a flag of each tab says that it is suspended, and a  *)
(* table of the suspender, which its limit counts, says the same again.    *)
(* Nothing in the shell tells the suspender of a tab that is closed,       *)
(* activated or re-opened.  A tab is named by its ID.                      *)
(***************************************************************************)
EXTENDS Integers, Sequences, SequencesExt, FiniteSets

CONSTANTS MostTabs,     \* bound on the tabs opened in one process
          Limits        \* values of MaxSuspendedTabs, 0 for no limit

ASSUME SuspensionAssumption == MostTabs \in Nat /\ Limits \subseteq Nat /\ Limits # {}

VARIABLES opened,          \* the number of tabs opened, the last ID
          strip, front,    \* the open tabs in order; the active one, 0 for none
          shut,           \* the tabs that RestoreClosed brings back
          asleep,          \* the tabs with Suspended set
          records,         \* the keys of TabSuspender.suspended
          lastActivity,    \* "none", or whether InactiveThreshold has passed since
          limit, protect,  \* MaxSuspendedTabs, ProtectActiveTab
          roomiest,        \* the largest number of records any limit so far allowed
          sweptLast        \* whether the last step was SuspendInactive

suspensionVars == <<opened, strip, front, shut, asleep, records, lastActivity, limit, protect, roomiest, sweptLast>>
stripVars == <<opened, strip, front, shut, lastActivity>>
policyVars == <<limit, protect, roomiest>>

Numbers == 1..MostTabs
InStrip == {strip[i] : i \in DOMAIN strip}
Allowed(n) == IF n = 0 THEN MostTabs ELSE n

\* The policy is whatever the program asks for.
SuspensionInit ==
    /\ opened = 0 /\ strip = <<>> /\ front = 0 /\ shut = <<>>
    /\ asleep = {} /\ records = {} /\ lastActivity = [t \in Numbers |-> "none"]
    /\ limit \in Limits /\ protect \in BOOLEAN /\ roomiest = Allowed(limit) /\ sweptLast = FALSE

-----------------------------------------------------------------------------
(* The shell.                                                              *)

OpenNext ==
    /\ opened < MostTabs
    /\ opened' = opened + 1 /\ strip' = Append(strip, opened + 1) /\ front' = opened + 1
    /\ sweptLast' = FALSE /\ UNCHANGED <<shut, asleep, records, lastActivity, policyVars>>

CloseOne == \E i \in DOMAIN strip :
    /\ strip' = RemoveAt(strip, i) /\ shut' = Append(shut, strip[i])
    /\ front' = IF front # strip[i] THEN front
                ELSE IF strip' = <<>> THEN 0 ELSE IF i > Len(strip') THEN Last(strip') ELSE strip'[i]
    /\ sweptLast' = FALSE /\ UNCHANGED <<opened, asleep, records, lastActivity, policyVars>>

ReOpen ==
    /\ shut # <<>>
    /\ strip' = Append(strip, Last(shut)) /\ front' = Last(shut) /\ shut' = Front(shut)
    /\ sweptLast' = FALSE /\ UNCHANGED <<opened, asleep, records, lastActivity, policyVars>>

GoTo == \E t \in InStrip :
    /\ front' = t
    /\ sweptLast' = FALSE /\ UNCHANGED <<opened, strip, shut, asleep, records, lastActivity, policyVars>>

(* The next process restores the tabs from the session: new tabs, with new *)
(* IDs, none of them suspended.                                            *)
NextSession ==
    /\ strip # <<>>
    /\ opened' = Len(strip) /\ strip' = [i \in DOMAIN strip |-> i] /\ front' \in DOMAIN strip
    /\ shut' = <<>> /\ asleep' = {} /\ records' = {} /\ lastActivity' = [t \in Numbers |-> "none"]
    /\ sweptLast' = FALSE /\ UNCHANGED policyVars

-----------------------------------------------------------------------------
(* The suspender; each operation holds its lock throughout.                *)

Full(table) == limit > 0 /\ Cardinality(table) >= limit

RecordActivity == \E t \in InStrip :
    /\ lastActivity' = [lastActivity EXCEPT ![t] = "recent"]
    /\ sweptLast' = FALSE /\ UNCHANGED <<opened, strip, front, shut, asleep, records, policyVars>>

ActivityAges ==
    /\ lastActivity' = [t \in Numbers |-> IF lastActivity[t] = "recent" THEN "past" ELSE lastActivity[t]]
    /\ sweptLast' = FALSE /\ UNCHANGED <<opened, strip, front, shut, asleep, records, policyVars>>

(* A tab that is protected, and any tab at the limit, is left as it is, and*)
(* no error says so.                                                       *)
Suspend == \E t \in InStrip :
    /\ t \notin asleep /\ ~(protect /\ t = front) /\ ~Full(records)
    /\ asleep' = asleep \cup {t} /\ records' = records \cup {t}
    /\ sweptLast' = FALSE /\ UNCHANGED <<stripVars, policyVars>>

RestoreTab == \E t \in InStrip \cap asleep :
    /\ asleep' = asleep \ {t} /\ records' = records \ {t}
    /\ sweptLast' = FALSE /\ UNCHANGED <<stripVars, policyVars>>

(* A tab without recorded activity is never inactive.                      *)
Inactive(t) == t \notin asleep /\ ~(protect /\ t = front) /\ lastActivity[t] = "past"

\* Faulty form of the next definition: the limit is read once, before the loop.
SweptAll ==
    IF Full(records) THEN records ELSE records \cup {t \in InStrip : Inactive(t)}

\* The table with every inactive tab that comes before the i-th.
Before(i) == records \cup {strip[j] : j \in {k \in 1..(i - 1) : Inactive(strip[k])}}

(* The table after the inactive tabs were suspended in order: as long as   *)
(* it is not full it has all those that came before.                       *)
Swept == records \cup {strip[i] : i \in {j \in DOMAIN strip : Inactive(strip[j]) /\ ~Full(Before(j))}}

SuspendInactive ==
    /\ records' = Swept /\ asleep' = asleep \cup (Swept \ records)
    /\ sweptLast' = TRUE /\ UNCHANGED <<stripVars, policyVars>>

RestoreAll ==
    /\ asleep' = asleep \ InStrip /\ records' = records \ (InStrip \cap asleep)
    /\ sweptLast' = FALSE /\ UNCHANGED <<stripVars, policyVars>>

\* A lower limit restores nothing.
SetPolicy == \E n \in Limits, p \in BOOLEAN :
    /\ limit' = n /\ protect' = p
    /\ roomiest' = IF Allowed(n) > roomiest THEN Allowed(n) ELSE roomiest
    /\ sweptLast' = FALSE /\ UNCHANGED <<stripVars, asleep, records>>

SuspensionNext ==
    \/ OpenNext \/ CloseOne \/ ReOpen \/ GoTo \/ NextSession
    \/ RecordActivity \/ ActivityAges \/ Suspend \/ RestoreTab
    \/ SuspendInactive \/ RestoreAll \/ SetPolicy

-----------------------------------------------------------------------------
SuspensionTypeOK ==
    /\ InStrip \subseteq Numbers /\ front \in InStrip \cup {0}
    /\ records \subseteq Numbers /\ asleep \subseteq Numbers
    /\ limit \in Limits /\ roomiest \in Nat

(* The table of the suspender has the suspended tabs, those that were      *)
(* closed while suspended too, whatever the shell did with them; there are *)
(* never more than a limit that held allowed; and a sweep leaves no        *)
(* inactive tab awake unless the table is full.                            *)
SuspensionIsKnown ==
    /\ records = asleep
    /\ Cardinality(records) <= roomiest
    /\ sweptLast => Full(records) \/ \A t \in InStrip : ~Inactive(t)
=============================================================================
