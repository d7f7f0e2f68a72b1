--------------------------- MODULE BrowsingHistory ---------------------------
(***************************************************************************)
(* What a user expects of the back and forward buttons: each open tab has  *)
(* one line of visited pages and a place in it.  Going back or forward     *)
(* moves the place and leaves the line alone; a visit cuts what lies ahead *)
(* and appends; a page can be exchanged where it stands.                   *)
(***************************************************************************)
EXTENDS Naturals, Sequences

CONSTANTS Tabs, Pages, NoPage   \* NoPage is the page of a fresh tab

VARIABLE history   \* tab -> its line of pages and its place in the line

NotOpen == [line |-> <<>>, place |-> 0]
At(line, place) == [line |-> line, place |-> place]

HistoryInit == history = [t \in Tabs |-> NotOpen]

(* What may happen to one tab: its history is h before and g after.        *)
Opened(h, g) == h = NotOpen /\ \E p \in Pages \cup {NoPage} : g = At(<<p>>, 1)

Closed(h, g) == g = NotOpen

(* A fresh tab's empty page is not remembered.                             *)
Visited(h, g) ==
    /\ h # NotOpen
    /\ LET before == IF h.line = <<NoPage>> THEN <<>>
                     ELSE SubSeq(h.line, 1, h.place)
       IN \E p \in Pages : g = At(Append(before, p), Len(before) + 1)

Went(h, g) ==
    /\ g.line = h.line
    /\ g.place \in 1 .. Len(h.line) /\ g.place \in {h.place - 1, h.place + 1}

Exchanged(h, g) ==
    h # NotOpen /\ \E p \in Pages : g = At([h.line EXCEPT ![h.place] = p], h.place)

(* One tab at a time.                                                      *)
HistoryNext ==
    \E t \in Tabs :
        /\ \A o \in Tabs \ {t} : history'[o] = history[o]
        /\ LET h == history[t] g == history'[t] IN
              \/ Opened(h, g) \/ Closed(h, g)
              \/ Visited(h, g) \/ Went(h, g) \/ Exchanged(h, g)

HistorySpec == HistoryInit /\ [][HistoryNext]_history
=============================================================================
