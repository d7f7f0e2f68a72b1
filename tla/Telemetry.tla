------------------------------- MODULE Telemetry -------------------------------
(***************************************************************************)
(* Usage metrics (browser/telemetry): they are recorded once the user has  *)
(* opted in, and sent in batches.  A submission copies the metrics, gives  *)
(* up the lock for the request, and takes it again to empty the list, so   *)
(* that other goroutines record, submit and opt out meanwhile.             *)
(*                                                                         *)
(* A metric is its number.                                                 *)
(***************************************************************************)
EXTENDS Naturals, Sequences, Functions

CONSTANTS Submitters,   \* goroutines in Submit
          MaxMetrics    \* bound on the metrics recorded

ASSUME TelemetryAssumption == MaxMetrics \in Nat

VARIABLES enabled,      \* Config.Enabled
          metrics,      \* those not yet sent
          savedMetrics, \* metrics.json
          submission,   \* the batch of each goroutine, and where it is
          recorded,     \* the number of metrics recorded, the last metric
          accepted,     \* history: metrics that the endpoint got, and got again
          excused       \* history: metrics recorded during a submission or by
                        \* an earlier process, and sent with no other certainty

telemetryVars == <<enabled, metrics, savedMetrics, submission, recorded, accepted, excused>>

OptInState == {"NotAsked", "Disabled", "OptedIn"}
NoBatch == [at |-> "idle", batch |-> <<>>]
Submitting == {g \in Submitters : submission[g].at # "idle"}

TelemetryInit ==
    /\ enabled = "NotAsked" /\ metrics = <<>> /\ savedMetrics = <<>>
    /\ submission = [g \in Submitters |-> NoBatch]
    /\ recorded = 0 /\ accepted = [once |-> {}, again |-> {}]
    /\ excused = [lost |-> {}, again |-> {}]

OptInOrOut ==
    /\ enabled' \in {"OptedIn", "Disabled"}
    /\ UNCHANGED <<metrics, savedMetrics, submission, recorded, accepted, excused>>

Record ==
    /\ recorded < MaxMetrics /\ enabled = "OptedIn"
    /\ recorded' = recorded + 1 /\ metrics' = Append(metrics, recorded + 1)
    /\ excused' = IF Submitting = {} THEN excused ELSE [excused EXCEPT !.lost = @ \cup {recorded + 1}]
    /\ UNCHANGED <<enabled, savedMetrics, submission, accepted>>

\* Whoever submits what another submission has may send it again.
BeginSubmit == \E g \in Submitters :
    /\ submission[g] = NoBatch /\ enabled = "OptedIn" /\ metrics # <<>>
    /\ submission' = [submission EXCEPT ![g] = [at |-> "request", batch |-> metrics]]
    /\ excused' = IF Submitting = {} THEN excused ELSE [excused EXCEPT !.again = @ \cup Range(metrics)]
    /\ UNCHANGED <<enabled, metrics, savedMetrics, recorded, accepted>>

Got(batch) ==
    [once |-> accepted.once \cup Range(batch), again |-> accepted.again \cup (accepted.once \cap Range(batch))]

\* The endpoint has the batch and says so.
Delivered == \E g \in Submitters :
    /\ submission[g].at = "request"
    /\ accepted' = Got(submission[g].batch)
    /\ submission' = [submission EXCEPT ![g].at = "sent"]
    /\ UNCHANGED <<enabled, metrics, savedMetrics, recorded, excused>>

\* Faulty form of the next definition: the list is emptied whatever came back.
SubmitForgets == \E g \in Submitters, got \in BOOLEAN :
    /\ submission[g].at = "request"
    /\ accepted' = IF got THEN Got(submission[g].batch) ELSE accepted
    /\ excused' = IF got THEN [excused EXCEPT !.again = @ \cup Range(submission[g].batch)] ELSE excused
    /\ submission' = [submission EXCEPT ![g] = NoBatch] /\ metrics' = <<>>
    /\ UNCHANGED <<enabled, savedMetrics, recorded>>

(* An error of the request or a bad status: the endpoint may have the batch*)
(* or not, and the metrics stay for a later try.                           *)
SubmitFails == \E g \in Submitters, got \in BOOLEAN :
    /\ submission[g].at = "request"
    /\ accepted' = IF got THEN Got(submission[g].batch) ELSE accepted
    /\ excused' = IF got THEN [excused EXCEPT !.again = @ \cup Range(submission[g].batch)] ELSE excused
    /\ submission' = [submission EXCEPT ![g] = NoBatch]
    /\ UNCHANGED <<enabled, metrics, savedMetrics, recorded>>

(* Everything is cleared, what was recorded during the request too; a file *)
(* that cannot be written is left as it was.                               *)
SubmitEnds == \E g \in Submitters, written \in BOOLEAN :
    /\ submission[g].at = "sent"
    /\ metrics' = <<>> /\ submission' = [submission EXCEPT ![g] = NoBatch]
    /\ savedMetrics' = IF written THEN metrics' ELSE savedMetrics
    /\ UNCHANGED <<enabled, recorded, accepted, excused>>

(* The next process reads the metrics, of which only an empty list is ever *)
(* saved, and takes its configuration for the user's choice.               *)
RestartTelemetry ==
    /\ enabled' \in OptInState
    /\ metrics' = savedMetrics /\ submission' = [g \in Submitters |-> NoBatch]
    /\ excused' = [excused EXCEPT !.lost = @ \cup 1..recorded]
    /\ UNCHANGED <<savedMetrics, recorded, accepted>>

TelemetryNext ==
    \/ OptInOrOut \/ Record \/ BeginSubmit \/ Delivered \/ SubmitFails
    \/ SubmitEnds \/ RestartTelemetry

-----------------------------------------------------------------------------
TelemetryTypeOK ==
    /\ enabled \in OptInState /\ recorded \in 0..MaxMetrics
    /\ Range(metrics) \subseteq 1..recorded /\ savedMetrics = <<>>

(* A metric that was recorded while nothing was submitted is pending until *)
(* the endpoint has it or the process ends, whatever fails; and it is sent *)
(* once, unless an answer was lost or two submissions overlapped.          *)
MetricsAreSentOnce ==
    /\ \A m \in 1..recorded \ excused.lost : m \in Range(metrics) \cup accepted.once
    /\ accepted.again \subseteq excused.again
=============================================================================
