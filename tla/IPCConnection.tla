---------------------------- MODULE IPCConnection ----------------------------
(***************************************************************************)
(* IPCConnection of extensions/multiprocess: goroutines that call Send and *)
(* wait, the goroutine of readLoop that hands out the answers, time-outs,  *)
(* Close, and the end of the process's output.  Each section under ipc.mu  *)
(* is one action.  A call has one channel with room for one answer; the    *)
(* process may answer late, twice, without a request, or not at all.       *)
(***************************************************************************)
EXTENDS Naturals, FiniteSets

CONSTANTS Calls,      \* the calls of Send, each by a goroutine of its own
          MaxReplies, \* bound on the messages the process writes
          NoCall

ASSUME ConnectionAssumption == IsFiniteSet(Calls) /\ NoCall \notin Calls /\ MaxReplies \in Nat

VARIABLES
    closed,   \* the field of this name
    seq,      \* ipc.seq, the last number given out
    pending,  \* the keys of ipc.pending
    number,   \* the number a call got, 0 before
    at,       \* where a call is
    answer,   \* what its channel holds: the number of an answer, or 0
    shut,     \* calls whose channel has been closed
    got,      \* the number of the answer the call returned, 0 for none
    reader,   \* where readLoop is; "delivering": it has let go of ipc.mu
    letter,   \* the call it delivers to
    message,  \* the number in the message it delivers
    readies,  \* how often the process has said that it is ready
    replies,  \* how many messages the process has written
    panicked, \* the browser died of a channel closed twice or used closed
    late      \* history: calls that gave up

reading == <<reader, letter, message, readies, replies>>
calling == <<number, at, got, late>>
connVars == <<closed, seq, pending, answer, shut, panicked, reading, calling>>

ConnInit ==
    /\ closed = FALSE /\ seq = 0 /\ pending = {} /\ panicked = FALSE
    /\ number = [c \in Calls |-> 0] /\ at = [c \in Calls |-> "idle"]
    /\ answer = [c \in Calls |-> 0] /\ shut = {} /\ got = [c \in Calls |-> 0]
    /\ reader = "reading" /\ letter = NoCall /\ message = 0 /\ readies = 0 /\ replies = 0
    /\ late = {}

Alive == ~panicked

(* close(ch) of a channel that is closed already is a panic. *)
CloseChannels(cs) ==
    /\ shut' = shut \cup cs
    /\ panicked' = (panicked \/ cs \cap shut # {})

Waiting == {c \in Calls : number[c] \in pending}

-----------------------------------------------------------------------------
(* Send *)
Register(c) ==
    /\ Alive /\ at[c] = "idle"
    /\ IF closed
       THEN at' = [at EXCEPT ![c] = "failed"] /\ UNCHANGED <<seq, number, pending>>
       ELSE \E encoded \in BOOLEAN :   \* a payload JSON cannot hold uses up a number
            /\ seq' = seq + 1
            /\ number' = [number EXCEPT ![c] = seq + 1]
            /\ pending' = IF encoded THEN pending \cup {seq + 1} ELSE pending
            /\ at' = [at EXCEPT ![c] = IF encoded THEN "writing" ELSE "failed"]
    /\ UNCHANGED <<closed, answer, shut, panicked, got, late, reading>>

Written(c) ==
    /\ Alive /\ at[c] = "writing"
    /\ at' = [at EXCEPT ![c] = "waiting"]
    /\ UNCHANGED <<closed, seq, pending, number, answer, shut, panicked, got, late, reading>>

(* The call gives up: the pipe is broken, or 30 seconds have passed. *)
GivesUp(c) ==
    /\ pending' = pending \ {number[c]}
    /\ CloseChannels({c})
    /\ at' = [at EXCEPT ![c] = "failed"]
    /\ late' = late \cup {c}
    /\ UNCHANGED <<closed, seq, number, answer, got, reading>>

WriteFails(c) == Alive /\ at[c] = "writing" /\ GivesUp(c)
TimesOut(c) == Alive /\ at[c] = "waiting" /\ GivesUp(c)

(* A closed channel yields an empty message, which is returned as one.     *)
Receives(c) ==
    /\ Alive /\ at[c] = "waiting"
    /\ answer[c] # 0 \/ c \in shut
    /\ got' = [got EXCEPT ![c] = answer[c]]
    /\ answer' = [answer EXCEPT ![c] = 0]
    /\ at' = [at EXCEPT ![c] = IF answer[c] # 0 THEN "answered" ELSE "empty"]
    /\ UNCHANGED <<closed, seq, pending, number, shut, panicked, late, reading>>

-----------------------------------------------------------------------------
(* readLoop *)
Heard == Alive /\ reader = "reading" /\ replies < MaxReplies /\ replies' = replies + 1

ReadsReady ==
    /\ Heard
    /\ readies' = readies + 1 /\ panicked' = (readies > 0)
    /\ UNCHANGED <<closed, seq, pending, answer, shut, calling, reader, letter, message>>

\* Faulty form of the next definition: an answer goes to the oldest request.
ReadsInTurn == \E n \in 1..seq :
    /\ Heard
    /\ IF n \in pending
       THEN LET m == CHOOSE m \in pending : \A k \in pending : m <= k IN
            /\ pending' = pending \ {m}
            /\ letter' = CHOOSE c \in Calls : number[c] = m
            /\ reader' = "delivering" /\ message' = n
       ELSE UNCHANGED <<pending, reader, letter, message>>
    /\ UNCHANGED <<closed, seq, answer, shut, panicked, calling, readies>>

(* The answer to a request that is not pending is ignored. *)
ReadsAnswer == \E n \in 1..seq :
    /\ Heard
    /\ IF n \in pending
       THEN /\ pending' = pending \ {n}
            /\ letter' = CHOOSE c \in Calls : number[c] = n
            /\ reader' = "delivering" /\ message' = n
       ELSE UNCHANGED <<pending, reader, letter, message>>
    /\ UNCHANGED <<closed, seq, answer, shut, panicked, calling, readies>>

(* ch <- msg outside the mutex: the channel may have been closed since.    *)
Delivers ==
    /\ Alive /\ reader = "delivering"
    /\ IF letter \in shut THEN panicked' = TRUE /\ UNCHANGED answer
       ELSE answer' = [answer EXCEPT ![letter] = message] /\ UNCHANGED panicked
    /\ reader' = "reading" /\ letter' = NoCall /\ message' = 0
    /\ UNCHANGED <<closed, seq, pending, shut, calling, readies, replies>>

CloseAll ==
    /\ closed' = TRUE
    /\ CloseChannels(Waiting)
    /\ pending' = {}

EndOfFile ==
    /\ Alive /\ reader = "reading"
    /\ CloseAll
    /\ reader' = "ended"
    /\ UNCHANGED <<seq, answer, calling, letter, message, readies, replies>>

Close ==
    /\ Alive /\ ~closed
    /\ CloseAll
    /\ UNCHANGED <<seq, answer, calling, reading>>

CallStep(c) == Register(c) \/ Written(c) \/ WriteFails(c) \/ TimesOut(c) \/ Receives(c)

ConnNext ==
    \/ \E c \in Calls : CallStep(c)
    \/ ReadsReady \/ ReadsAnswer \/ Delivers \/ EndOfFile \/ Close

ConnSpec == ConnInit /\ [][ConnNext]_connVars

-----------------------------------------------------------------------------
ConnTypeOK ==
    /\ {closed, panicked} \subseteq BOOLEAN
    /\ readies \in 0..MaxReplies /\ pending \subseteq 1..seq /\ seq \in 0..Cardinality(Calls)
    /\ \A c \in Calls : {number[c], answer[c], got[c]} \subseteq 0..seq
    /\ \A c \in Calls : at[c] \in {"idle", "writing", "waiting", "answered", "empty", "failed"}
    /\ shut \subseteq Calls /\ late \subseteq Calls
    /\ reader \in {"reading", "delivering", "ended"} /\ letter \in Calls \cup {NoCall}
    /\ message \in 0..seq

(* Answers may come in any order, late and twice: a call returns the       *)
(* answer to its own request, or none; a request is never left behind when *)
(* its call is over; and what brings the browser down is a request that    *)
(* gave up, a connection that closed, or a process that says twice that it *)
(* is ready, never the order or the number of the answers alone.           *)
CallsGetTheirAnswer ==
    /\ \A c \in Calls : answer[c] \in {0, number[c]} /\ got[c] \in {0, number[c]}
    /\ \A c \in Calls : at[c] \in {"answered", "empty", "failed"} => number[c] \notin pending
    /\ panicked => late # {} \/ closed \/ readies > 1
=============================================================================
