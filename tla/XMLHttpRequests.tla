---------------------------- MODULE XMLHttpRequests ----------------------------
(***************************************************************************)
(* One XMLHttpRequest object: the page's calls on the goroutine that runs  *)
(* its script, the goroutine of each send, which reads the method, address *)
(* and headers while the page may change them, and the window's frame      *)
(* queue, which hands the answers to the page and can be paused.           *)
(*                                                                         *)
(* A request is named by the number of the open() that set it up.          *)
(***************************************************************************)
EXTENDS Naturals, Sequences

CONSTANTS MaxOpens, MaxSends  \* bounds on the calls of open and send

ASSUME RequestsAssumption == MaxOpens \in Nat /\ MaxSends \in Nat

VARIABLES
    awake,      \* the window's IsActive()
    readyState, \* the variable of this name
    request,    \* the open() whose method, address and headers are set
    kind,       \* what each open() asks for
    response,   \* the open() whose answer is shown, or 0
    network,    \* the goroutine of a send: where it is
    asked,      \* the open() whose address it read, and whose method
    answers,    \* the frames queued: the outcome of a send, and its number
    framing,    \* the frame that runs: the answer and its steps left
    loads,      \* history: "load" events since the last open
    unasked,    \* history: a request that needs a preflight went without
    disturbed   \* history: open was called with a request in flight, or the
                \* window was paused inside a script or a frame

pageSide == <<readyState, request, kind, response>>
netSide == <<network, asked, unasked>>
requestVars == <<awake, pageSide, netSide, answers, framing, loads, disturbed>>

(* To the page's own origin; across origins with a simple method and       *)
(* headers; or with others, which the server must allow first.             *)
Kinds == {"own", "simple", "complex"}

UNSENT == 0
OPENED == 1
HEADERS_RECEIVED == 2
LOADING == 3
DONE == 4
Sends == 1..MaxSends
NoFrame == [send |-> 0, steps |-> <<>>]

RequestsInit ==
    /\ awake = TRUE /\ readyState = UNSENT /\ request = 0 /\ response = 0
    /\ kind = [n \in 0..MaxOpens |-> "own"] /\ unasked = FALSE
    /\ network = [s \in Sends |-> "unused"]
    /\ asked = [s \in Sends |-> [address |-> 0, method |-> 0]]
    /\ answers = <<>> /\ framing = NoFrame /\ loads = 0 /\ disturbed = FALSE

InFlight == {s \in Sends : network[s] \notin {"unused", "over"}}
Busy == InFlight # {} \/ answers # <<>> \/ framing # NoFrame

-----------------------------------------------------------------------------
(* The page's calls, from a script or the handlers of a frame, which go on *)
(* running when the window is paused.                                      *)

Open ==
    /\ request < MaxOpens
    /\ readyState' = OPENED
    /\ request' = request + 1 /\ response' = 0 /\ loads' = 0
    /\ \E k \in Kinds : kind' = [kind EXCEPT ![request + 1] = k]
    /\ disturbed' = (disturbed \/ Busy)
    /\ UNCHANGED <<awake, netSide, answers, framing>>

\* Faulty form of the next definition: the state may go back.
StateSet(new) ==
    /\ readyState' = IF awake THEN new ELSE readyState
    /\ loads' = IF awake /\ new = DONE THEN loads + 1 ELSE loads

(* updateReadyState: a paused window's object keeps its state, and the     *)
(* events fire only when the state grows.                                  *)
StateGrows(new) ==
    /\ readyState' = IF awake /\ new > readyState THEN new ELSE readyState
    /\ loads' = IF awake /\ new = DONE /\ readyState < DONE THEN loads + 1 ELSE loads

Send == \E s \in Sends :
    /\ readyState = OPENED
    /\ network[s] = "unused" /\ \A t \in 1..(s - 1) : network[t] # "unused"
    /\ StateGrows(LOADING)
    /\ network' = [network EXCEPT ![s] = "started"]
    /\ disturbed' = (disturbed \/ ~awake)
    /\ UNCHANGED <<awake, request, kind, response, asked, unasked, answers, framing>>

-----------------------------------------------------------------------------
(* The goroutine of a send reads the shared variables as it goes.          *)

ReadsAddress == \E s \in Sends :
    /\ network[s] = "started"
    /\ network' = [network EXCEPT ![s] = "addressed"]
    /\ asked' = [asked EXCEPT ![s].address = request]
    /\ UNCHANGED <<awake, pageSide, unasked, answers, framing, loads, disturbed>>

isCrossOrigin(s) == kind[asked[s].address] # "own"
isSimpleRequest == kind[request] # "complex"

(* The Allow- headers of the answer to a preflight: origin holds for this  *)
(* origin or "*"; a list of methods or headers may be left out.            *)
Replies == [origin : BOOLEAN, methods : {"none", "this", "other"}, headers : {"none", "these", "other"}]

isCORSPreflightSuccessful(reply) ==
    reply.origin /\ reply.methods # "other" /\ reply.headers # "other"

Preflight == \E s \in Sends, reply \in Replies :
    /\ network[s] = "addressed"
    /\ LET successful == isCrossOrigin(s) /\ ~isSimpleRequest => isCORSPreflightSuccessful(reply)
       IN /\ network' = [network EXCEPT ![s] = IF successful THEN "asking" ELSE "over"]
          /\ answers' = IF successful THEN answers
                        ELSE Append(answers, [send |-> s, outcome |-> "failed"])
    /\ asked' = [asked EXCEPT ![s].method = request]
    /\ UNCHANGED <<awake, pageSide, unasked, framing, loads, disturbed>>

(* No answer, an answer the page may read, or an opaque one, when a server *)
(* of another origin does not allow this one to read it.                   *)
Outcomes(s) == {"failed", "readable"} \cup IF isCrossOrigin(s) THEN {"opaque"} ELSE {}

Answered == \E s \in Sends : \E outcome \in Outcomes(s) :
    /\ network[s] = "asking"
    /\ network' = [network EXCEPT ![s] = "over"]
    /\ unasked' = (unasked \/ (isCrossOrigin(s) /\ ~isSimpleRequest /\ asked[s].method # request))
    /\ answers' = Append(answers, [send |-> s, outcome |-> outcome])
    /\ UNCHANGED <<awake, pageSide, asked, framing, loads, disturbed>>

-----------------------------------------------------------------------------
(* The frame of an answer shows it and goes through the states; that of a  *)
(* failure ends the request, with "load" as well as "error".               *)
FrameStarts ==
    /\ awake /\ framing = NoFrame /\ answers # <<>>
    /\ LET answer == Head(answers) IN
       /\ framing' = [send |-> answer.send,
                      steps |-> IF answer.outcome = "failed" THEN <<DONE>>
                                ELSE <<HEADERS_RECEIVED, LOADING, DONE>>]
       /\ response' = CASE answer.outcome = "failed" -> response
                       [] answer.outcome = "opaque" -> 0
                       [] OTHER -> asked[answer.send].address
    /\ answers' = Tail(answers)
    /\ UNCHANGED <<awake, readyState, request, kind, netSide, loads, disturbed>>

FrameSteps ==
    /\ framing.steps # <<>>
    /\ StateGrows(Head(framing.steps))
    /\ framing' = IF Len(framing.steps) = 1 THEN NoFrame
                  ELSE [framing EXCEPT !.steps = Tail(@)]
    /\ UNCHANGED <<awake, request, kind, response, netSide, answers, disturbed>>

(* SetActive takes no notice of what runs. *)
PauseOrResume ==
    /\ awake' = ~awake
    /\ disturbed' = (disturbed \/ (awake /\ framing # NoFrame))
    /\ UNCHANGED <<pageSide, netSide, answers, framing, loads>>

RequestsNext ==
    \/ Open \/ Send \/ ReadsAddress \/ Preflight \/ Answered
    \/ FrameStarts \/ FrameSteps \/ PauseOrResume

RequestsSpec == RequestsInit /\ [][RequestsNext]_requestVars

-----------------------------------------------------------------------------
RequestsTypeOK ==
    /\ awake \in BOOLEAN /\ readyState \in UNSENT..DONE
    /\ request \in 0..MaxOpens /\ response \in 0..request
    /\ \A s \in Sends : {asked[s].address, asked[s].method} \subseteq 0..request

(* A request is announced as loaded at most once.  If open is never called *)
(* with a request in flight and the window is not paused inside a frame,   *)
(* the answer shown is that of the request that was set up, no request     *)
(* skips the preflight it needs, and a request that was sent is in flight, *)
(* waits for its frame, or is done.                                        *)
RequestsAreAnswered ==
    /\ loads <= 1
    /\ ~disturbed =>
           /\ response \in {0, request}
           /\ ~unasked
           /\ readyState = LOADING => Busy
           /\ readyState = DONE => loads = 1
=============================================================================
