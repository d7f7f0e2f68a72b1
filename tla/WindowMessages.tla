---------------------------- MODULE WindowMessages ----------------------------
(***************************************************************************)
(* window.postMessage between the windows of the process, whose scripts    *)
(* run on several goroutines: on the sender's goroutine when the runtime   *)
(* of the target is free or already its own, and otherwise from the        *)
(* target's frame queue.                                                   *)
(*                                                                         *)
(* A goroutine holds the runtimes (OwnerLocks, see ReentrantMutex) of the  *)
(* windows on its call stack.  Every page listens to messages; the frame   *)
(* queue holds only messages here (see WindowScripts for the rest of it).  *)
(***************************************************************************)
EXTENDS Naturals, Sequences, FiniteSets, SequencesExt

CONSTANTS Windows, Workers,  \* windows, and goroutines that run scripts
          MaxMessages,       \* bound on the calls of postMessage
          MaxPages           \* bound on the pages of a window

ASSUME MessagesAssumption == MaxMessages \in Nat /\ MaxPages \in Nat /\ IsFiniteSet(Windows)

VARIABLES
    running,    \* IsActive()
    registered, \* the windows of globalWindowRegistry
    page,       \* the page a window shows
    bound,      \* the page its runtime was last bound to
    mailbox,    \* animationFrames: the messages queued, and for which page
    stack,      \* calls of a goroutine, the innermost last
    waits,      \* the windows a goroutine waits for inside its outermost call
    sent,       \* number of messages posted
    heard,      \* history: the messages a window has run, and which came twice or to a later page
    owed        \* history: the messages a window is still to run, or has run

windowVars == <<running, registered, page, bound>>
messageVars == <<windowVars, mailbox, stack, waits, sent, heard, owed>>

MessagesInit ==
    /\ running = [w \in Windows |-> TRUE] /\ registered = Windows
    /\ page = [w \in Windows |-> 0] /\ bound = page
    /\ mailbox = [w \in Windows |-> <<>>]
    /\ stack = [g \in Workers |-> <<>>] /\ waits = [g \in Workers |-> {}]
    /\ sent = 0 /\ heard = [w \in Windows |-> {}] /\ owed = [w \in Windows |-> {}]

-----------------------------------------------------------------------------
Top(g) == Last(stack[g])
Holds(g, w) == \E i \in DOMAIN stack[g] : stack[g][i].win = w
FreeFor(g, w) == \A other \in Workers \ {g} : ~Holds(other, w)

(* does: "script", "drain" of the frame queue (with the number of messages *)
(* of its snapshot left), "deliver" before deliverMessage has looked at    *)
(* the window, and "listen" in its handlers.                               *)
Call(w, does, message, left) ==
    [win |-> w, does |-> does, message |-> message, left |-> left,
     posting |-> 0, todo |-> {}]
Push(g, call) == stack' = [stack EXCEPT ![g] = Append(@, call)]
Instead(g, call) == Front(stack[g]) \o <<call>>
Return(g) == stack' = [stack EXCEPT ![g] = Front(@)]
InScript(g) == stack[g] # <<>> /\ Top(g).does \in {"script", "listen"}

(* RunJS and the input handlers wait for the runtime, holding no other.    *)
RunsScript == \E g \in Workers, w \in registered :
    /\ stack[g] = <<>> /\ FreeFor(g, w) /\ running[w]
    /\ Push(g, Call(w, "script", 0, 0))
    /\ UNCHANGED <<windowVars, mailbox, waits, sent, heard, owed>>

DrainStarts == \E g \in Workers, w \in registered :
    /\ stack[g] = <<>> /\ FreeFor(g, w) /\ running[w] /\ mailbox[w] # <<>>
    /\ Push(g, Call(w, "drain", 0, Len(mailbox[w])))
    /\ UNCHANGED <<windowVars, mailbox, waits, sent, heard, owed>>

DrainTakes == \E g \in Workers :
    /\ stack[g] # <<>> /\ Top(g).does = "drain"
    /\ LET w == Top(g).win IN
       IF Top(g).left > 0 /\ running[w] /\ mailbox[w] # <<>>
       THEN /\ stack' = [stack EXCEPT ![g] =
                   Append(Instead(g, [Top(g) EXCEPT !.left = @ - 1]),
                          Call(w, "deliver", Head(mailbox[w]).message, Head(mailbox[w]).page))]
            /\ mailbox' = [mailbox EXCEPT ![w] = Tail(@)]
       ELSE Return(g) /\ UNCHANGED mailbox
    /\ UNCHANGED <<windowVars, waits, sent, heard, owed>>

-----------------------------------------------------------------------------
(* Where a message for a window is: with a call that delivers it or has    *)
(* still to reach the window, in the queue, or run.                        *)
Brings(call, w, m) == \/ call.does = "deliver" /\ call.win = w /\ call.message = m
                      \/ call.posting = m /\ w \in call.todo
Brought(w, m) == \E g \in Workers : \E i \in DOMAIN stack[g] : Brings(stack[g][i], w, m)
Waiting(w, m) == \E i \in DOMAIN mailbox[w] : mailbox[w][i].message = m
WasHeard(w, m) == \E h \in heard[w] : h.message = m

(* The windows of one origin (here one window), or all, in the order of a  *)
(* Go map.                                                                 *)
Targets == {{w} : w \in registered} \cup {registered}

PostMessage == \E g \in Workers : \E targets \in Targets :
    /\ InScript(g) /\ Top(g).todo = {} /\ targets # {}
    /\ sent < MaxMessages
    /\ sent' = sent + 1
    /\ stack' = [stack EXCEPT ![g] =
           Instead(g, [Top(g) EXCEPT !.posting = sent + 1, !.todo = targets])]
    /\ owed' = [w \in Windows |-> IF w \in targets /\ running[w] THEN owed[w] \cup {sent + 1} ELSE owed[w]]
    /\ UNCHANGED <<windowVars, mailbox, waits, heard>>

Visited(g, t) == Instead(g, [Top(g) EXCEPT !.todo = @ \ {t}])

\* Faulty form of the next definition: the sender waits for a busy target.
ReachWaiting(g, t) ==
    IF ~running[t]
    THEN stack' = [stack EXCEPT ![g] = Visited(g, t)] /\ waits' = [waits EXCEPT ![g] = {}]
         /\ UNCHANGED mailbox
    ELSE IF FreeFor(g, t)
    THEN /\ stack' = [stack EXCEPT ![g] =
                Append(Visited(g, t), Call(t, "deliver", Top(g).posting, page[t]))]
         /\ waits' = [waits EXCEPT ![g] = {}]
         /\ UNCHANGED mailbox
    ELSE waits' = [waits EXCEPT ![g] = {t}] /\ UNCHANGED <<stack, mailbox>>

\* Faulty form of the next definition: a busy target gets nothing.
ReachIdle(g, t) ==
    /\ UNCHANGED <<mailbox, waits>>
    /\ stack' = [stack EXCEPT ![g] =
           IF running[t] /\ FreeFor(g, t)
           THEN Append(Visited(g, t), Call(t, "deliver", Top(g).posting, page[t]))
           ELSE Visited(g, t)]

(* tryLock, and the frame queue of a busy window; a paused one gets        *)
(* nothing.                                                                *)
Reach(g, t) ==
    /\ UNCHANGED waits
    /\ IF ~running[t]
       THEN stack' = [stack EXCEPT ![g] = Visited(g, t)] /\ UNCHANGED mailbox
       ELSE IF FreeFor(g, t)
       THEN /\ stack' = [stack EXCEPT ![g] =
                   Append(Visited(g, t), Call(t, "deliver", Top(g).posting, page[t]))]
            /\ UNCHANGED mailbox
       ELSE /\ stack' = [stack EXCEPT ![g] = Visited(g, t)]
            /\ mailbox' = [mailbox EXCEPT ![t] =
                   Append(@, [message |-> Top(g).posting, page |-> page[t]])]

ReachesTarget == \E g \in Workers :
    /\ InScript(g)
    /\ \E t \in Top(g).todo : Reach(g, t)
    /\ UNCHANGED <<windowVars, sent, heard, owed>>

Heard(w, call, queued) ==
    heard' = [heard EXCEPT ![w] = @ \cup
        {[message |-> call.message, again |-> \E h \in @ : h.message = call.message,
          late |-> queued /\ bound[w] > call.left]}]

(* deliverMessage looks again, with the runtime held.                      *)
Deliver == \E g \in Workers :
    /\ stack[g] # <<>> /\ Top(g).does = "deliver"
    /\ LET call == Top(g)  w == call.win
           queued == Len(stack[g]) > 1 /\ stack[g][Len(stack[g]) - 1].does = "drain" IN
       IF w \in registered /\ running[w]
       THEN /\ stack' = [stack EXCEPT ![g] = Instead(g, Call(w, "listen", call.message, 0))]
            /\ Heard(w, call, queued)
       ELSE Return(g) /\ UNCHANGED heard
    /\ UNCHANGED <<windowVars, mailbox, waits, sent, owed>>

ScriptEnds == \E g \in Workers :
    /\ InScript(g) /\ Top(g).todo = {}
    /\ Return(g)
    /\ UNCHANGED <<windowVars, mailbox, waits, sent, heard, owed>>

-----------------------------------------------------------------------------
(* SetActive; the queue of a paused window is kept, and what is on its way *)
(* will not be run.                                                        *)
Toggle == \E w \in registered :
    /\ running' = [running EXCEPT ![w] = ~@]
    /\ owed' = [owed EXCEPT ![w] = {m \in @ : Waiting(w, m)}]
    /\ UNCHANGED <<registered, page, bound, mailbox, stack, waits, sent, heard>>

\* Faulty form of the next definition: the queue is kept.
LoadKeepingFrames == \E w \in registered :
    /\ page[w] = bound[w] /\ page[w] < MaxPages
    /\ page' = [page EXCEPT ![w] = @ + 1]
    /\ owed' = [owed EXCEPT ![w] = {m \in @ : ~Waiting(w, m)}]
    /\ UNCHANGED <<running, registered, bound, mailbox, stack, waits, sent, heard>>

(* LoadHTML drops the frame queue while a script of the old page may still *)
(* run, ...                                                                *)
LoadPage == \E w \in registered :
    /\ page[w] = bound[w] /\ page[w] < MaxPages
    /\ page' = [page EXCEPT ![w] = @ + 1]
    /\ mailbox' = [mailbox EXCEPT ![w] = <<>>]
    /\ owed' = [owed EXCEPT ![w] = {m \in @ : ~Waiting(w, m)}]
    /\ UNCHANGED <<running, registered, bound, stack, waits, sent, heard>>

(* ... and waits for the runtime to bind it to the new one.                *)
BindPage == \E w \in registered :
    /\ bound[w] # page[w]
    /\ \A g \in Workers : ~Holds(g, w)
    /\ bound' = [bound EXCEPT ![w] = page[w]]
    /\ UNCHANGED <<running, registered, page, mailbox, stack, waits, sent, heard, owed>>

(* Destroy waits for the runtime and takes the window out of the registry. *)
Destroyed == \E g \in Workers, w \in registered :
    /\ stack[g] = <<>> /\ FreeFor(g, w)
    /\ registered' = registered \ {w}
    /\ running' = [running EXCEPT ![w] = FALSE]
    /\ mailbox' = [mailbox EXCEPT ![w] = <<>>]
    /\ owed' = [owed EXCEPT ![w] = {}]
    /\ UNCHANGED <<page, bound, stack, waits, sent, heard>>

MessagesNext ==
    \/ RunsScript \/ DrainStarts \/ DrainTakes
    \/ PostMessage \/ ReachesTarget \/ Deliver \/ ScriptEnds
    \/ Toggle \/ LoadPage \/ BindPage \/ Destroyed

MessagesSpec == MessagesInit /\ [][MessagesNext]_messageVars

-----------------------------------------------------------------------------
MessagesTypeOK ==
    /\ running \in [Windows -> BOOLEAN] /\ registered \subseteq Windows
    /\ \A w \in Windows : {page[w], bound[w]} \subseteq 0..MaxPages
    /\ sent \in 0..MaxMessages
    /\ \A w \in Windows : owed[w] \subseteq 1..sent
    /\ \A g \in Workers : \A i \in DOMAIN stack[g] :
           stack[g][i].message \in 0..sent /\ stack[g][i].todo \subseteq Windows

(* A message posted to a window that runs is with a call that is to bring  *)
(* it there, in the window's queue, or run there, for as long as the window *)
(* is not paused, navigated away or destroyed; what a paused window had in *)
(* its queue stays there.  It is run at most once, and when it had to be   *)
(* queued never in a page loaded after that.  Two windows that post to each *)
(* other never wait for each other, and no runtime is on the stacks of two *)
(* goroutines.  (No order among messages is promised, and that a queue is  *)
(* served in the end is WindowScripts.FrameIsServed.)                    *)
MessagesAreNotLost ==
    /\ \A w \in Windows : \A m \in owed[w] : Brought(w, m) \/ Waiting(w, m) \/ WasHeard(w, m)
    /\ \A w \in Windows : \A h \in heard[w] : ~h.again /\ ~h.late
    /\ \A w \in Windows : \A g, h \in Workers : Holds(g, w) /\ Holds(h, w) => g = h
    /\ ~\E g, h \in Workers : g # h /\ (\E w \in waits[g] : Holds(h, w))
                                    /\ (\E w \in waits[h] : Holds(g, w))
=============================================================================
