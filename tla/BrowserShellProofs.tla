-------------------------- MODULE BrowserShellProofs --------------------------
(***************************************************************************)
(* The tab bar has one active tab and holds each tab once; each tab walks  *)
(* one line of pages; what a closed tab leaves behind reaches no other     *)
(* tab; and a session that was saved comes back, for every bound on tabs,  *)
(* closed tabs and histories.                                              *)
(*                                                                         *)
(* OneActiveTab is not inductive by itself.  Close clears no flag: it is   *)
(* enough that the closed tab is gone from the bar, which needs that it    *)
(* was there once.  RestoreClosed appends a tab whose flag may still be    *)
(* set, which is harmless only when no other entry of the bar is that tab. *)
(* So the invariant adds that bar and closed stack hold each tab once      *)
(* between them, and that every ID they hold was given out before.         *)
(*                                                                         *)
(* The shell keeps the invariant of the tab manager, whose InPlace says    *)
(* that bar and stack hold only IDs that were given out.  To it come the   *)
(* promises themselves, that no flag waits for a tab that is not made yet, *)
(* and a bound on the session file, which holds no more URLs than the bar  *)
(* held tabs, so that every tab of it gets an ID.                          *)
(*                                                                         *)
(* The last part is about what stands beside the tabs: the suspender,      *)
(* the user's lists, the widgets and the windows, each with an invariant   *)
(* of its own.  What a loop over a list keeps is counted by an induction   *)
(* over the naturals that is told as the least element of a set of them.   *)
(***************************************************************************)
EXTENDS MCBrowserShell, SequenceTheorems, WellFoundedInduction, FiniteSetTheorems, TLAPS

Distinct(s) == \A i, j \in 1 .. Len(s) : s[i] = s[j] => i = j
Disjoint(s, r) == \A i \in 1 .. Len(s), j \in 1 .. Len(r) : s[i] # r[j]
Below(s, n) == \A i \in 1 .. Len(s) : s[i] < n

(* Each tab is in one place, and has an ID that was given out.             *)
InPlace ==
    /\ Distinct(tabs) /\ Distinct(closedStack) /\ Disjoint(tabs, closedStack)
    /\ Below(tabs, nextID) /\ Below(closedStack, nextID)
    /\ Len(tabs) + Len(closedStack) < nextID

TabsInv == TabsTypeOK /\ InPlace /\ OneActiveTab

-----------------------------------------------------------------------------
(* What the operations on lists do, element by element.                    *)

(* RemoveAt shifts what is behind the removed element by one.              *)
LEMMA RemoveAtProperties ==
    ASSUME NEW S, NEW s \in Seq(S), NEW i \in 1 .. Len(s)
    PROVE  /\ RemoveAt(s, i) \in Seq(S)
           /\ Len(RemoveAt(s, i)) = Len(s) - 1
           /\ \A k \in 1 .. Len(s) - 1 :
                 RemoveAt(s, i)[k] = IF k < i THEN s[k] ELSE s[k + 1]
<1> DEFINE before == SubSeq(s, 1, i - 1)
           after == SubSeq(s, i + 1, Len(s))
           r == RemoveAt(s, i)
<1>1. /\ before \in Seq(S) /\ Len(before) = i - 1
      /\ \A k \in 1 .. i - 1 : before[k] = s[k]
  BY SubSeqProperties
<1>2. /\ after \in Seq(S) /\ Len(after) = Len(s) - i
      /\ \A k \in 1 .. Len(s) - i : after[k] = s[i + k]
  BY SubSeqProperties
<1>3. /\ r \in Seq(S) /\ Len(r) = Len(before) + Len(after)
      /\ \A k \in 1 .. Len(before) + Len(after) :
            r[k] = IF k <= Len(before) THEN before[k] ELSE after[k - Len(before)]
  BY <1>1, <1>2, ConcatProperties DEF RemoveAt
<1>4. Len(s) \in Nat /\ i \in Int
  BY LenProperties
<1> HIDE DEF before, after, r
<1>5. Len(r) = Len(s) - 1
  BY <1>1, <1>2, <1>3, <1>4
<1>6. ASSUME NEW k \in 1 .. Len(s) - 1
      PROVE  r[k] = IF k < i THEN s[k] ELSE s[k + 1]
  <2> k \in 1 .. Len(before) + Len(after)
    BY <1>1, <1>2, <1>4
  <2>r. r[k] = IF k <= Len(before) THEN before[k] ELSE after[k - Len(before)]
    BY <1>3
  <2>1. CASE k < i
    BY <2>1, <2>r, <1>1, <1>4
  <2>2. CASE ~(k < i)
    <3>1. k - (i - 1) \in 1 .. Len(s) - i /\ i + (k - (i - 1)) = k + 1
      BY <2>2, <1>4
    <3>2. r[k] = after[k - (i - 1)]
      BY <2>2, <2>r, <1>1, <1>4
    <3> QED  BY <2>2, <3>1, <3>2, <1>2
  <2> QED  BY <2>1, <2>2
<1> QED  BY <1>3, <1>5, <1>6 DEF r

(* The elements of s around one inserted at i.                             *)
InsertAtElements(s, i, e) ==
    /\ InsertAt(s, i, e)[i] = e
    /\ \A k \in 1 .. Len(s) + 1 :
          /\ k < i => InsertAt(s, i, e)[k] = s[k]
          /\ k > i => InsertAt(s, i, e)[k] = s[k - 1]

(* InsertAt shifts what is behind the inserted element by one.             *)
LEMMA InsertAtProperties ==
    ASSUME NEW S, NEW s \in Seq(S), NEW i \in 1 .. Len(s) + 1, NEW e \in S
    PROVE  /\ InsertAt(s, i, e) \in Seq(S)
           /\ Len(InsertAt(s, i, e)) = Len(s) + 1
           /\ InsertAtElements(s, i, e)
<1> DEFINE before == SubSeq(s, 1, i - 1)
           after == SubSeq(s, i, Len(s))
           start == before \o <<e>>
           r == InsertAt(s, i, e)
<1>1. /\ before \in Seq(S) /\ Len(before) = i - 1
      /\ \A k \in 1 .. i - 1 : before[k] = s[k]
  BY SubSeqProperties
<1>2. /\ after \in Seq(S) /\ Len(after) = Len(s) - i + 1
      /\ \A k \in 1 .. Len(s) - i + 1 : after[k] = s[i - 1 + k]
  BY SubSeqProperties
<1>3. /\ start \in Seq(S) /\ Len(start) = i
      /\ \A k \in 1 .. i : start[k] = IF k < i THEN s[k] ELSE e
  BY <1>1, ConcatProperties
<1>4. /\ r \in Seq(S) /\ Len(r) = Len(start) + Len(after)
      /\ \A k \in 1 .. Len(start) + Len(after) :
            r[k] = IF k <= Len(start) THEN start[k] ELSE after[k - Len(start)]
  BY <1>2, <1>3, ConcatProperties DEF InsertAt
<1>5. Len(s) \in Nat /\ i \in Int
  BY LenProperties
<1> HIDE DEF before, after, start, r
<1>6. Len(r) = Len(s) + 1
  BY <1>2, <1>3, <1>4, <1>5
<1>7. /\ \A k \in 1 .. i - 1 : r[k] = s[k]
      /\ r[i] = e
  BY <1>2, <1>3, <1>4, <1>5
<1>8. ASSUME NEW k \in i + 1 .. Len(s) + 1
      PROVE  r[k] = s[k - 1]
  <2>1. k - i \in 1 .. Len(s) - i + 1 /\ i - 1 + (k - i) = k - 1
    BY <1>5
  <2>2. r[k] = after[k - i]
    BY <1>2, <1>3, <1>4, <1>5
  <2> QED  BY <2>1, <2>2, <1>2, <1>5
<1>9. \A k \in 1 .. Len(s) + 1 : (k < i => r[k] = s[k]) /\ (k > i => r[k] = s[k - 1])
  <2> SUFFICES ASSUME NEW k \in 1 .. Len(s) + 1
               PROVE  (k < i => r[k] = s[k]) /\ (k > i => r[k] = s[k - 1])
    OBVIOUS
  <2>1. CASE k < i
    <3>1. k \in 1 .. i - 1 /\ ~(k > i)
      BY <1>5, <2>1
    <3> QED  BY <1>7, <3>1
  <2>2. CASE k = i
    BY <1>5, <2>2
  <2>3. CASE k > i
    <3>1. k \in i + 1 .. Len(s) + 1 /\ ~(k < i)
      BY <1>5, <2>3
    <3> QED  BY <1>8, <3>1
  <2> QED  BY <1>5, <2>1, <2>2, <2>3
<1> QED  BY <1>4, <1>6, <1>7, <1>9 DEF InsertAtElements, r

(* Last and Front split a list that is not empty.                          *)
LEMMA LastFrontProperties ==
    ASSUME NEW S, NEW s \in Seq(S), s # <<>>
    PROVE  /\ Last(s) \in S /\ Last(s) = s[Len(s)] /\ Len(s) >= 1
           /\ Front(s) \in Seq(S) /\ Len(Front(s)) = Len(s) - 1
           /\ \A k \in 1 .. Len(s) - 1 : Front(s)[k] = s[k]
<1>1. Len(s) \in Nat /\ Len(s) >= 1
  BY EmptySeq, SeqEqual
<1>2. \A k \in 1 .. Len(s) : s[k] \in S
  BY ElementOfSeq
<1>3. PICK n \in Nat : n = Len(s) - 1
  BY <1>1
<1> DEFINE f == SubSeq(s, 1, n)
<1>4. f \in Seq(S) /\ Len(f) = n /\ \A k \in 1 .. n : f[k] = s[k]
  <2>1. 1 \in Int /\ n \in Int /\ \A i \in 1 .. n : s[i] \in S
    BY <1>1, <1>2, <1>3
  <2>2. f \in Seq(S)
    BY <2>1, SubSeqProperties
  <2>3. Len(f) = n
    BY <2>1, SubSeqProperties
  <2>4. \A k \in 1 .. n : f[k] = s[k]
    BY <2>1, SubSeqProperties
  <2> QED  BY <2>2, <2>3, <2>4
<1> HIDE DEF f
<1>5. Front(s) = f
  BY <1>3 DEF Front, f
<1> QED  BY <1>1, <1>2, <1>3, <1>4, <1>5 DEF Last

(* The closed stack never outgrows its limit and drops only its oldest.    *)
LEMMA RememberedProperties ==
    ASSUME NEW S, NEW s \in Seq(S), Len(s) <= MaxClosed + 1
    PROVE  /\ Remembered(s) \in Seq(S)
           /\ Len(Remembered(s)) <= MaxClosed
           /\ Len(Remembered(s)) <= Len(s)
           /\ \E d \in {0, 1} :
                 /\ Len(Remembered(s)) = Len(s) - d
                 /\ \A k \in 1 .. Len(s) - d : Remembered(s)[k] = s[k + d]
  BY TabAssumption DEF Remembered, TabAssumption

(* Domain and elements of a list; only the empty list has length 0.        *)
LEMMA ListProperties ==
    ASSUME NEW S, NEW s \in Seq(S)
    PROVE  /\ DOMAIN s = 1 .. Len(s) /\ Len(s) \in Nat
           /\ \A i \in 1 .. Len(s) : s[i] \in S
           /\ s = <<>> <=> Len(s) = 0
  BY LenProperties, ElementOfSeq, EmptySeq

-----------------------------------------------------------------------------
(* Each operation keeps the invariant.                                     *)

(* A new tab has an ID that neither the bar nor the stack holds.           *)
LEMMA AddInv ==
    ASSUME TabsInv, NEW u \in URLs, Add(u)
    PROVE  TabsInv'
<1>1. nextID \in TabIDs /\ nextID # NoTab /\ nextID \in Nat /\ MaxTabs \in Nat
  BY TabAssumption DEF TabAssumption, TabsTypeOK, Add, TabsInv, TabIDs
<1>2. /\ tabs \in Seq(TabIDs) /\ Len(tabs) \in Nat /\ DOMAIN tabs = 1 .. Len(tabs)
      /\ closedStack \in Seq(TabIDs) /\ Len(closedStack) \in Nat
  BY ListProperties DEF TabsInv, TabsTypeOK
<1>3. /\ tabs' \in Seq(TabIDs) /\ DOMAIN tabs' = 1 .. Len(tabs')
      /\ Len(tabs') = Len(tabs) + 1 /\ tabs'[Len(tabs) + 1] = nextID
      /\ \A i \in 1 .. Len(tabs) : tabs'[i] = tabs[i]
  BY <1>1, <1>2, AppendProperties, ListProperties DEF Add
<1>4. TabsTypeOK'
  <2>1. nextID' \in 1 .. MaxTabs + 1
    BY <1>1 DEF TabIDs, Add
  <2>2. isActive' \in [TabIDs -> BOOLEAN] /\ url' \in [TabIDs -> URLs]
    BY DEF TabsInv, TabsTypeOK, Add, HandOver
  <2> QED  BY <1>1, <1>3, <2>1, <2>2 DEF TabsInv, TabsTypeOK, Add, navs
<1>5. InPlace'
  <2> USE DEF TabsInv, InPlace
  <2>1. closedStack' = closedStack /\ nextID' = nextID + 1
    BY DEF Add
  <2>2. Below(tabs', nextID') /\ Below(closedStack', nextID')
    <3>1. /\ \A i \in 1 .. Len(tabs) : tabs[i] \in Nat
          /\ \A i \in 1 .. Len(closedStack) : closedStack[i] \in Nat
      BY <1>1, <1>2, ListProperties DEF TabIDs
    <3>2. \A i \in 1 .. Len(tabs') : tabs'[i] = nextID \/ i \in 1 .. Len(tabs)
      BY <1>2, <1>3
    <3>3. Below(tabs', nextID')
      BY <1>1, <1>2, <1>3, <2>1, <3>1, <3>2 DEF Below
    <3> QED  BY <1>1, <2>1, <3>1, <3>3 DEF Below
  <2>3. Distinct(tabs')
    BY <1>1, <1>2, <1>3 DEF Distinct, Below
  <2>4. Disjoint(tabs', closedStack')
    BY <1>1, <1>2, <1>3, <2>1 DEF Disjoint, Below
  <2> QED  BY <1>1, <1>2, <1>3, <2>1, <2>2, <2>3, <2>4
<1>6. OneActiveTab'
  <2>1. \A t : IsOpen(t)' <=> IsOpen(t) \/ t = nextID
    BY <1>2, <1>3 DEF IsOpen
  <2>2. tabs' # <<>>
    BY <1>2, <1>3, ListProperties
  <2> QED  BY <1>1, <2>1, <2>2 DEF TabsInv, OneActiveTab, Add, HandOver
<1> QED  BY <1>4, <1>5, <1>6 DEF TabsInv

(* The flag moves with the active tab.                                     *)
LEMMA ActivateInv ==
    ASSUME TabsInv, NEW t \in TabIDs, Activate(t)
    PROVE  TabsInv'
<1>1. TabsTypeOK'
  BY DEF TabsInv, TabsTypeOK, Activate, HandOver, navs
<1>2. InPlace'
  BY DEF TabsInv, InPlace, Activate
<1>3. tabs # <<>>
  BY EmptySeq DEF TabsInv, Activate, IsOpen
<1>4. OneActiveTab'
  BY <1>3, TabAssumption
     DEF TabsInv, OneActiveTab, Activate, IsOpen, HandOver, TabAssumption, TabIDs
<1> QED  BY <1>1, <1>2, <1>4 DEF TabsInv

(* What is left of the bar has every tab but the closed one, once.         *)
LEMMA CloseInv ==
    ASSUME TabsInv, NEW t \in TabIDs, Close(t)
    PROVE  TabsInv' /\ \A u : IsOpen(u)' <=> IsOpen(u) /\ u # t
<1>1. PICK i \in DOMAIN tabs :
        /\ tabs[i] = t
        /\ tabs' = RemoveAt(tabs, i)
        /\ active' = IF active = t THEN Neighbour(tabs', i) ELSE active
        /\ isActive' = [u \in TabIDs |-> isActive[u] \/ u = active']
  BY DEF Close
<1>2. /\ tabs \in Seq(TabIDs) /\ Len(tabs) \in Nat /\ DOMAIN tabs = 1 .. Len(tabs)
      /\ closedStack \in Seq(TabIDs) /\ Len(closedStack) \in Nat
      /\ i \in 1 .. Len(tabs) /\ nextID \in Nat /\ MaxTabs \in Nat
      /\ Len(closedStack) <= MaxClosed /\ MaxClosed \in Nat
  <2>1. tabs \in Seq(TabIDs) /\ closedStack \in Seq(TabIDs) /\ Len(closedStack) <= MaxClosed
    BY DEF TabsInv, TabsTypeOK
  <2>2. nextID \in Nat /\ MaxTabs \in Nat /\ MaxClosed \in Nat
    BY TabAssumption DEF TabsInv, TabsTypeOK, TabAssumption
  <2> QED  BY <2>1, <2>2, ListProperties
<1>3. /\ tabs' \in Seq(TabIDs) /\ Len(tabs') = Len(tabs) - 1
      /\ DOMAIN tabs' = 1 .. Len(tabs')
      /\ \A k \in 1 .. Len(tabs) - 1 :
            tabs'[k] = IF k < i THEN tabs[k] ELSE tabs[k + 1]
  BY <1>1, <1>2, RemoveAtProperties, ListProperties
<1> DEFINE pushed == Append(closedStack, t)
<1>4. /\ pushed \in Seq(TabIDs) /\ Len(pushed) = Len(closedStack) + 1
      /\ pushed[Len(closedStack) + 1] = t
      /\ \A k \in 1 .. Len(closedStack) : pushed[k] = closedStack[k]
  BY <1>2, AppendProperties
<1> HIDE DEF pushed
<1>5. /\ closedStack' = Remembered(pushed)
      /\ UNCHANGED <<nextID, url>>
      /\ back' = [back EXCEPT ![t] = <<>>]
      /\ forward' = [forward EXCEPT ![t] = <<>>]
  BY DEF Close, pushed
<1>6. /\ closedStack' \in Seq(TabIDs) /\ Len(closedStack') <= MaxClosed
      /\ Len(closedStack') <= Len(pushed)
      /\ \E d \in {0, 1} :
            /\ Len(closedStack') = Len(pushed) - d
            /\ \A k \in 1 .. Len(pushed) - d : closedStack'[k] = pushed[k + d]
  <2>1. Len(pushed) <= MaxClosed + 1
    BY <1>2, <1>4
  <2> QED  BY <2>1, <1>4, <1>5, RememberedProperties, Zenon
<1>7. PICK d \in {0, 1} :
        /\ Len(closedStack') = Len(pushed) - d
        /\ \A k \in 1 .. Len(pushed) - d : closedStack'[k] = pushed[k + d]
  BY <1>6
<1>8. ASSUME tabs' # <<>>
      PROVE  \E k \in 1 .. Len(tabs') : tabs'[k] = Neighbour(tabs', i)
  <2>1. Len(tabs') \in 1 .. Len(tabs') /\ Last(tabs') = tabs'[Len(tabs')]
    <3>1. Len(tabs') \in Nat /\ Len(tabs') # 0
      BY <1>3, <1>8, ListProperties
    <3> QED  BY <3>1 DEF Last
  <2>2. CASE i > Len(tabs')
    BY <2>1, <2>2, <1>8 DEF Neighbour
  <2>3. CASE ~(i > Len(tabs'))
    BY <2>3, <1>2, <1>3, <1>8 DEF Neighbour
  <2> QED  BY <2>2, <2>3
<1>9. Neighbour(tabs', i) = NoTab <=> tabs' = <<>>
  <2>1. CASE tabs' = <<>>
    BY <2>1 DEF Neighbour
  <2>2. CASE tabs' # <<>>
    <3>1. Neighbour(tabs', i) \in TabIDs
      BY <2>2, <1>3, <1>8, ListProperties
    <3> QED  BY <2>2, <3>1, TabAssumption DEF TabAssumption, TabIDs
  <2> QED  BY <2>1, <2>2
<1>10. TabsTypeOK'
  <2>1. active' \in TabIDs \cup {NoTab}
    BY <1>1, <1>3, <1>8, <1>9, ListProperties DEF TabsInv, TabsTypeOK
  <2>2. isActive' \in [TabIDs -> BOOLEAN]
    BY <1>1 DEF TabsInv, TabsTypeOK
  <2>3. back' \in [TabIDs -> Seq(URLs)] /\ forward' \in [TabIDs -> Seq(URLs)]
    BY <1>5, EmptySeq DEF TabsInv, TabsTypeOK
  <2> QED  BY <1>3, <1>5, <1>6, <2>1, <2>2, <2>3 DEF TabsInv, TabsTypeOK
<1>11. InPlace'
  <2> USE DEF TabsInv, InPlace
  <2>1. \A k \in 1 .. Len(tabs') : \E m \in 1 .. Len(tabs) : m # i /\ tabs'[k] = tabs[m]
    <3> SUFFICES ASSUME NEW k \in 1 .. Len(tabs')
                 PROVE  \E m \in 1 .. Len(tabs) : m # i /\ tabs'[k] = tabs[m]
      OBVIOUS
    <3>1. CASE k < i
      BY <3>1, <1>2, <1>3
    <3>2. CASE ~(k < i)
      <4>1. k + 1 \in 1 .. Len(tabs) /\ k + 1 # i
        BY <3>2, <1>2, <1>3
      <4> QED  BY <3>2, <4>1, <1>2, <1>3
    <3> QED  BY <3>1, <3>2
  <2>2. \A k \in 1 .. Len(tabs') : tabs'[k] # t /\ tabs'[k] < nextID
    BY <2>1, <1>1, <1>2 DEF Distinct, Below
  <2>3. Distinct(tabs')
    <3> SUFFICES ASSUME NEW k \in 1 .. Len(tabs'), NEW l \in 1 .. Len(tabs'),
                        tabs'[k] = tabs'[l]
                 PROVE  k = l
      BY DEF Distinct
    <3> DEFINE m(j) == IF j < i THEN j ELSE j + 1
    <3>1. m(k) \in 1 .. Len(tabs) /\ m(l) \in 1 .. Len(tabs)
      BY <1>2, <1>3
    <3>2. tabs'[k] = tabs[m(k)] /\ tabs'[l] = tabs[m(l)]
      BY <1>2, <1>3
    <3>3. m(k) = m(l)
      BY <3>1, <3>2 DEF Distinct
    <3> QED  BY <3>3, <1>2, <1>3
  <2>4. Distinct(pushed)
    <3>1. \A k \in 1 .. Len(closedStack) : pushed[k] # t
      BY <1>1, <1>2, <1>4 DEF Disjoint
    <3>2. \A k, l \in 1 .. Len(closedStack) : pushed[k] = pushed[l] => k = l
      BY <1>4 DEF Distinct
    <3>3. \A k \in 1 .. Len(pushed) : k \in 1 .. Len(closedStack) \/ k = Len(closedStack) + 1
      BY <1>2, <1>4
    <3> QED  BY <1>4, <3>1, <3>2, <3>3 DEF Distinct
  <2>5. \A k \in 1 .. Len(pushed) : pushed[k] < nextID /\
            \A l \in 1 .. Len(tabs') : pushed[k] # tabs'[l]
    <3> SUFFICES ASSUME NEW k \in 1 .. Len(pushed)
                 PROVE  pushed[k] < nextID /\
                        \A l \in 1 .. Len(tabs') : pushed[k] # tabs'[l]
      OBVIOUS
    <3>1. CASE k \in 1 .. Len(closedStack)
      BY <3>1, <1>4, <2>1 DEF Disjoint, Below
    <3>2. CASE k = Len(closedStack) + 1
      BY <3>2, <1>1, <1>2, <1>4, <2>2 DEF Below
    <3> QED  BY <3>1, <3>2, <1>2, <1>4
  <2>6. \A k \in 1 .. Len(closedStack') :
           k + d \in 1 .. Len(pushed) /\ closedStack'[k] = pushed[k + d]
    BY <1>2, <1>4, <1>6, <1>7
  <2>7. Distinct(closedStack')
    <3> SUFFICES ASSUME NEW k \in 1 .. Len(closedStack'), NEW l \in 1 .. Len(closedStack'),
                        closedStack'[k] = closedStack'[l]
                 PROVE  k = l
      BY DEF Distinct
    <3>1. k + d = l + d
      BY <2>4, <2>6 DEF Distinct
    <3> QED  BY <1>7, <3>1
  <2>8. Disjoint(tabs', closedStack') /\ Below(closedStack', nextID)
    BY <2>5, <2>6 DEF Disjoint, Below
  <2>9. Len(tabs') + Len(closedStack') < nextID
    BY <1>2, <1>3, <1>4, <1>6, ListProperties
  <2> QED  BY <1>5, <2>2, <2>3, <2>7, <2>8, <2>9 DEF Below
<1>13. \A u : IsOpen(u)' <=> IsOpen(u) /\ u # t
  <2>1. ASSUME NEW u, IsOpen(u)'
        PROVE  IsOpen(u) /\ u # t
    <3>1. PICK k \in 1 .. Len(tabs') : tabs'[k] = u
      BY <2>1, <1>3 DEF IsOpen
    <3>2. \E m \in 1 .. Len(tabs) : m # i /\ tabs[m] = u
      <4>1. CASE k < i
        BY <3>1, <4>1, <1>2, <1>3
      <4>2. CASE ~(k < i)
        <5>1. k + 1 \in 1 .. Len(tabs) /\ k + 1 # i
          BY <4>2, <1>2, <1>3
        <5> QED  BY <3>1, <4>2, <5>1, <1>2, <1>3
      <4> QED  BY <4>1, <4>2
    <3> QED  BY <3>2, <1>1, <1>2 DEF IsOpen, TabsInv, InPlace, Distinct
  <2>2. ASSUME NEW u, IsOpen(u), u # t
        PROVE  IsOpen(u)'
    <3>1. PICK m \in 1 .. Len(tabs) : tabs[m] = u /\ m # i
      BY <2>2, <1>1, <1>2 DEF IsOpen
    <3>2. CASE m < i
      BY <3>1, <3>2, <1>2, <1>3 DEF IsOpen
    <3>3. CASE ~(m < i)
      <4>1. m - 1 \in 1 .. Len(tabs') /\ ~(m - 1 < i) /\ m - 1 + 1 = m
        BY <3>1, <3>3, <1>2, <1>3
      <4> QED  BY <3>1, <4>1, <1>2, <1>3 DEF IsOpen
    <3> QED  BY <3>2, <3>3
  <2> QED  BY <2>1, <2>2
<1>12. OneActiveTab'
  <2>2. CASE active = t
    <3>1. active' = Neighbour(tabs', i)
      BY <2>2, <1>1
    <3>2. (active # NoTab => IsOpen(active))'
      BY <3>1, <1>3, <1>8, <1>9 DEF IsOpen
    <3> QED
      BY <1>13, <2>2, <3>1, <3>2, <1>1, <1>9 DEF TabsInv, OneActiveTab
  <2>3. CASE active # t
    <3>1. active' = active /\ active # NoTab /\ IsOpen(active)
      BY <2>3, <1>1, <1>2, EmptySeq DEF TabsInv, OneActiveTab
    <3>2. IsOpen(active)'
      <4>1. IsOpen(active) /\ active # t
        BY <2>3, <3>1
      <4>2. \E k \in DOMAIN tabs' : tabs'[k] = active
        BY <1>13, <4>1 DEF IsOpen
      <4> QED  BY <3>1, <4>2 DEF IsOpen
    <3>3. tabs' # <<>>
      BY <3>2, <1>3, ListProperties DEF IsOpen
    <3> QED  BY <1>13, <3>1, <3>2, <3>3, <1>1 DEF TabsInv, OneActiveTab
  <2> QED  BY <2>2, <2>3
<1> QED  BY <1>10, <1>11, <1>12, <1>13 DEF TabsInv

(* Taking a tab out of the bar and putting it in again loses no tab.       *)
LEMMA MoveTabInv ==
    ASSUME TabsInv, NEW from \in 1 .. Len(tabs), NEW to \in 1 .. Len(tabs),
           MoveTab(from, to)
    PROVE  TabsInv' /\ \A u : IsOpen(u)' <=> IsOpen(u)
<1>1. /\ tabs \in Seq(TabIDs) /\ Len(tabs) \in Nat /\ DOMAIN tabs = 1 .. Len(tabs)
      /\ from \in 1 .. Len(tabs) /\ to \in 1 .. Len(tabs) /\ tabs[from] \in TabIDs
  BY ListProperties DEF TabsInv, TabsTypeOK
<1>2. PICK rest \in Seq(TabIDs) :
        /\ rest = RemoveAt(tabs, from) /\ Len(rest) = Len(tabs) - 1
        /\ \A k \in 1 .. Len(tabs) - 1 :
              rest[k] = IF k < from THEN tabs[k] ELSE tabs[k + 1]
  <2>1. /\ RemoveAt(tabs, from) \in Seq(TabIDs)
        /\ Len(RemoveAt(tabs, from)) = Len(tabs) - 1
        /\ \A k \in 1 .. Len(tabs) - 1 :
              RemoveAt(tabs, from)[k] = IF k < from THEN tabs[k] ELSE tabs[k + 1]
    BY <1>1, RemoveAtProperties
  <2> QED  BY <2>1
<1>3. to \in 1 .. Len(rest) + 1 /\ Len(rest) + 1 = Len(tabs)
  BY <1>1, <1>2
<1>4. /\ tabs' = InsertAt(rest, to, tabs[from])
      /\ UNCHANGED <<nextID, active, isActive, url, closedStack, navs>>
  BY <1>2 DEF MoveTab
<1>5. /\ tabs' \in Seq(TabIDs) /\ Len(tabs') = Len(tabs)
      /\ DOMAIN tabs' = 1 .. Len(tabs)
      /\ tabs'[to] = tabs[from]
      /\ \A k \in 1 .. Len(tabs) : k < to => tabs'[k] = rest[k]
      /\ \A k \in 1 .. Len(tabs) : k > to => tabs'[k] = rest[k - 1]
  <2>1. /\ rest \in Seq(TabIDs) /\ to \in 1 .. Len(rest) + 1
        /\ tabs[from] \in TabIDs /\ tabs' = InsertAt(rest, to, tabs[from])
    BY <1>1, <1>2, <1>3, <1>4
  <2>2. /\ tabs' \in Seq(TabIDs) /\ Len(tabs') = Len(rest) + 1
        /\ InsertAtElements(rest, to, tabs[from])
    BY <2>1, InsertAtProperties
  <2>3. /\ tabs'[to] = tabs[from]
        /\ \A k \in 1 .. Len(rest) + 1 : k < to => tabs'[k] = rest[k]
        /\ \A k \in 1 .. Len(rest) + 1 : k > to => tabs'[k] = rest[k - 1]
    BY <2>1, <2>2 DEF InsertAtElements
  <2>4. DOMAIN tabs' = 1 .. Len(tabs')
    BY <2>2, ListProperties
  <2> QED  BY <2>2, <2>3, <2>4, <1>1, <1>3

(* The old index of the tab that is at k now.                              *)
<1> DEFINE skip(k) == IF k < from THEN k ELSE k + 1
           old == [k \in 1 .. Len(tabs) |->
                     IF k = to THEN from ELSE IF k < to THEN skip(k) ELSE skip(k - 1)]
<1>6. \A k \in 1 .. Len(tabs) : old[k] \in 1 .. Len(tabs) /\ tabs'[k] = tabs[old[k]]
  <2> SUFFICES ASSUME NEW k \in 1 .. Len(tabs)
               PROVE  old[k] \in 1 .. Len(tabs) /\ tabs'[k] = tabs[old[k]]
    OBVIOUS
  <2>1. CASE k = to
    BY <2>1, <1>1, <1>5
  <2>2. CASE k < to
    <3>1. k \in 1 .. Len(tabs) - 1
      BY <2>2, <1>1, <1>3
    <3>2. tabs'[k] = rest[k]
      BY <2>2, <1>5
    <3> QED  BY <2>2, <3>1, <3>2, <1>1, <1>2
  <2>3. CASE k > to
    <3>1. k - 1 \in 1 .. Len(tabs) - 1 /\ tabs'[k] = rest[k - 1]
      BY <2>3, <1>1, <1>5
    <3> QED  BY <2>3, <3>1, <1>1, <1>2
  <2> QED  BY <2>1, <2>2, <2>3, <1>1
<1>7. \A k, l \in 1 .. Len(tabs) : old[k] = old[l] => k = l
  BY <1>1
<1>8. \A m \in 1 .. Len(tabs) : \E k \in 1 .. Len(tabs) : old[k] = m
  <2> SUFFICES ASSUME NEW m \in 1 .. Len(tabs)
               PROVE  \E k \in 1 .. Len(tabs) : old[k] = m
    OBVIOUS
  <2>1. CASE m = from
    BY <2>1, <1>1
  <2> DEFINE j == IF m < from THEN m ELSE m - 1
             k == IF j < to THEN j ELSE j + 1
  <2>2. CASE m # from
    <3>1. k \in 1 .. Len(tabs)
      BY <2>2, <1>1
    <3>2. old[k] = m
      BY <2>2, <3>1, <1>1
    <3> QED  BY <3>1, <3>2
  <2> QED  BY <2>1, <2>2
<1> HIDE DEF old
<1>9. TabsTypeOK'
  BY <1>4, <1>5 DEF TabsInv, TabsTypeOK, navs
<1>10. InPlace'
  <2>1. Distinct(tabs')
    <3> SUFFICES ASSUME NEW k \in 1 .. Len(tabs), NEW l \in 1 .. Len(tabs),
                        tabs'[k] = tabs'[l]
                 PROVE  k = l
      BY <1>5 DEF Distinct
    <3>1. tabs[old[k]] = tabs[old[l]]
      BY <1>6
    <3>2. old[k] = old[l]
      BY <3>1, <1>6 DEF TabsInv, InPlace, Distinct
    <3> QED  BY <3>2, <1>7
  <2>2. Disjoint(tabs', closedStack') /\ Below(tabs', nextID')
    <3> SUFFICES ASSUME NEW k \in 1 .. Len(tabs)
                 PROVE  /\ \A l \in 1 .. Len(closedStack) : tabs'[k] # closedStack[l]
                        /\ tabs'[k] < nextID
      BY <1>4, <1>5 DEF Disjoint, Below
    <3> QED  BY <1>6 DEF TabsInv, InPlace, Disjoint, Below
  <2> QED  BY <1>4, <1>5, <2>1, <2>2 DEF TabsInv, InPlace
<1>12. \A u : IsOpen(u)' <=> IsOpen(u)
  <2>1. ASSUME NEW u, IsOpen(u)'
        PROVE  IsOpen(u)
    <3>1. PICK k \in 1 .. Len(tabs) : tabs'[k] = u
      BY <2>1, <1>5 DEF IsOpen
    <3> QED  BY <3>1, <1>1, <1>6 DEF IsOpen
  <2>2. ASSUME NEW u, IsOpen(u)
        PROVE  IsOpen(u)'
    <3>1. PICK m \in 1 .. Len(tabs) : tabs[m] = u
      BY <2>2, <1>1 DEF IsOpen
    <3>2. PICK k \in 1 .. Len(tabs) : old[k] = m
      BY <1>8
    <3> QED  BY <3>1, <3>2, <1>5, <1>6 DEF IsOpen
  <2> QED  BY <2>1, <2>2
<1>11. OneActiveTab'
  <2>2. tabs' = <<>> <=> tabs = <<>>
    BY <1>1, <1>5, ListProperties
  <2>3. active' = active /\ isActive' = isActive
    BY <1>4
  <2> QED  BY <1>12, <2>2, <2>3 DEF TabsInv, OneActiveTab, IsOpen
<1> QED  BY <1>9, <1>10, <1>11, <1>12 DEF TabsInv

(* The stack gives up its last tab to the end of the bar.                  *)
LEMMA RestoreClosedInv ==
    ASSUME TabsInv, RestoreClosed
    PROVE  TabsInv'
<1> DEFINE t == Last(closedStack)
<1>1. /\ tabs \in Seq(TabIDs) /\ Len(tabs) \in Nat /\ DOMAIN tabs = 1 .. Len(tabs)
      /\ closedStack \in Seq(TabIDs) /\ Len(closedStack) \in Nat
      /\ closedStack # <<>> /\ nextID \in Nat
      /\ Len(closedStack) <= MaxClosed /\ MaxClosed \in Nat
  BY ListProperties, TabAssumption
     DEF TabsInv, TabsTypeOK, RestoreClosed, TabAssumption
<1>2. /\ t \in TabIDs /\ t = closedStack[Len(closedStack)] /\ Len(closedStack) >= 1
      /\ Front(closedStack) \in Seq(TabIDs)
      /\ Len(Front(closedStack)) = Len(closedStack) - 1
      /\ \A k \in 1 .. Len(closedStack) - 1 : Front(closedStack)[k] = closedStack[k]
  BY <1>1, LastFrontProperties
<1> HIDE DEF t
<1>3. /\ tabs' = Append(tabs, t) /\ active' = t
      /\ isActive' = HandOver(isActive, active, t)
      /\ closedStack' = Front(closedStack)
      /\ UNCHANGED <<nextID, url, back, forward>>
  BY DEF RestoreClosed, t, navs
<1>4. /\ tabs' \in Seq(TabIDs) /\ DOMAIN tabs' = 1 .. Len(tabs')
      /\ Len(tabs') = Len(tabs) + 1 /\ tabs'[Len(tabs) + 1] = t
      /\ \A i \in 1 .. Len(tabs) : tabs'[i] = tabs[i]
  BY <1>1, <1>2, <1>3, AppendProperties, ListProperties
<1>5. /\ Len(closedStack') = Len(closedStack) - 1
      /\ \A k \in 1 .. Len(closedStack) - 1 : closedStack'[k] = closedStack[k]
  BY <1>2, <1>3
<1>6. TabsTypeOK'
  <2>1. isActive' \in [TabIDs -> BOOLEAN]
    BY <1>3 DEF TabsInv, TabsTypeOK, HandOver
  <2>2. Len(closedStack') <= MaxClosed
    BY <1>1, <1>5
  <2> QED  BY <1>2, <1>3, <1>4, <2>1, <2>2 DEF TabsInv, TabsTypeOK
<1>7. InPlace'
  <2> USE DEF TabsInv, InPlace
  <2>1. Distinct(tabs')
    <3>1. \A k \in 1 .. Len(tabs) : tabs'[k] # t
      BY <1>1, <1>2, <1>4 DEF Disjoint
    <3>2. \A k, l \in 1 .. Len(tabs) : tabs'[k] = tabs'[l] => k = l
      BY <1>4 DEF Distinct
    <3>3. \A k \in 1 .. Len(tabs') : k \in 1 .. Len(tabs) \/ k = Len(tabs) + 1
      BY <1>1, <1>4
    <3> QED  BY <1>4, <3>1, <3>2, <3>3 DEF Distinct
  <2>2. Distinct(closedStack')
    BY <1>1, <1>5 DEF Distinct
  <2>3. Disjoint(tabs', closedStack')
    <3> SUFFICES ASSUME NEW i \in 1 .. Len(tabs) + 1, NEW j \in 1 .. Len(closedStack) - 1
                 PROVE  tabs'[i] # closedStack'[j]
      BY <1>4, <1>5 DEF Disjoint
    <3>1. closedStack'[j] = closedStack[j] /\ j \in 1 .. Len(closedStack)
      BY <1>1, <1>5
    <3>2. CASE i \in 1 .. Len(tabs)
      BY <3>1, <3>2, <1>4 DEF Disjoint
    <3>3. CASE i = Len(tabs) + 1
      BY <3>1, <3>3, <1>1, <1>2, <1>4 DEF Distinct
    <3> QED  BY <3>2, <3>3, <1>1
  <2>4. Below(tabs', nextID) /\ Below(closedStack', nextID)
    <3>1. \A i \in 1 .. Len(tabs') : tabs'[i] = t \/ i \in 1 .. Len(tabs)
      BY <1>1, <1>4
    <3>2. t < nextID
      BY <1>1, <1>2 DEF Below
    <3>3. Below(tabs', nextID)
      BY <3>1, <3>2, <1>4 DEF Below
    <3> QED  BY <3>3, <1>1, <1>5 DEF Below
  <2>5. Len(tabs') + Len(closedStack') < nextID
    BY <1>1, <1>4, <1>5
  <2> QED  BY <1>3, <2>1, <2>2, <2>3, <2>4, <2>5
<1>8. OneActiveTab'
  <2>1. \A u : IsOpen(u)' <=> IsOpen(u) \/ u = t
    BY <1>1, <1>4 DEF IsOpen
  <2>2. tabs' # <<>> /\ t # NoTab
    BY <1>1, <1>2, <1>4, ListProperties, TabAssumption DEF TabAssumption, TabIDs
  <2> QED  BY <1>2, <1>3, <2>1, <2>2 DEF TabsInv, OneActiveTab, HandOver
<1> QED  BY <1>6, <1>7, <1>8 DEF TabsInv

(* Pages and histories change without the bar.                             *)
LEMMA SameBarInv ==
    ASSUME TabsInv, UNCHANGED <<nextID, tabs, active, isActive, closedStack>>,
           url' \in [TabIDs -> URLs],
           back' \in [TabIDs -> Seq(URLs)], forward' \in [TabIDs -> Seq(URLs)]
    PROVE  TabsInv'
<1>1. TabsTypeOK'
  BY DEF TabsInv, TabsTypeOK
<1>2. InPlace'
  BY DEF TabsInv, InPlace
<1>3. OneActiveTab'
  BY DEF TabsInv, OneActiveTab, IsOpen
<1> QED  BY <1>1, <1>2, <1>3 DEF TabsInv

(* Setting a URL and navigating write pages only.                          *)
LEMMA VisitInv ==
    ASSUME TabsInv, NEW t \in TabIDs, NEW u \in Pages, SetURL(t, u) \/ Navigate(t, u)
    PROVE  TabsInv'
<1>1. /\ url \in [TabIDs -> URLs] /\ u \in URLs
      /\ back \in [TabIDs -> Seq(URLs)] /\ forward \in [TabIDs -> Seq(URLs)]
  BY DEF TabsInv, TabsTypeOK, URLs
<1>2. /\ [url EXCEPT ![t] = u] \in [TabIDs -> URLs]
      /\ [back EXCEPT ![t] = Append(@, url[t])] \in [TabIDs -> Seq(URLs)]
      /\ [forward EXCEPT ![t] = <<>>] \in [TabIDs -> Seq(URLs)]
  BY <1>1, AppendProperties, EmptySeq
<1>3. CASE SetURL(t, u)
  BY <1>1, <1>2, <1>3, SameBarInv DEF SetURL, navs
<1>4. CASE Navigate(t, u)
  BY <1>1, <1>2, <1>4, SameBarInv DEF Navigate
<1> QED  BY <1>3, <1>4

(* Back and forward move pages between lists that stay lists of pages.     *)
LEMMA BackForwardInv ==
    ASSUME TabsInv, NEW t \in TabIDs, Back(t) \/ Forward(t)
    PROVE  TabsInv'
<1>1. /\ url \in [TabIDs -> URLs]
      /\ back \in [TabIDs -> Seq(URLs)] /\ forward \in [TabIDs -> Seq(URLs)]
  BY DEF TabsInv, TabsTypeOK
<1>2. ASSUME NEW lists \in [TabIDs -> Seq(URLs)], lists[t] # <<>>
      PROVE  /\ [url EXCEPT ![t] = Last(lists[t])] \in [TabIDs -> URLs]
             /\ [lists EXCEPT ![t] = Front(@)] \in [TabIDs -> Seq(URLs)]
  <2>1. Last(lists[t]) \in URLs /\ Front(lists[t]) \in Seq(URLs)
    BY <1>2, LastFrontProperties
  <2> QED  BY <1>1, <2>1
<1>3. ASSUME NEW lists \in [TabIDs -> Seq(URLs)]
      PROVE  [lists EXCEPT ![t] = Append(@, url[t])] \in [TabIDs -> Seq(URLs)]
  BY <1>1, AppendProperties
<1>4. CASE Back(t)
  BY <1>1, <1>2, <1>3, <1>4, SameBarInv DEF Back
<1>5. CASE Forward(t)
  BY <1>1, <1>2, <1>3, <1>5, SameBarInv DEF Forward
<1> QED  BY <1>4, <1>5

(* A new tab manager has no tabs.                                          *)
LEMMA TabsInvInit ==
    ASSUME NewTabManager
    PROVE  TabsInv
<1>1. tabs = <<>> /\ closedStack = <<>> /\ Len(tabs) = 0 /\ Len(closedStack) = 0
  BY EmptySeq DEF NewTabManager
<1>2. TabsTypeOK
  BY <1>1, EmptySeq, TabAssumption DEF NewTabManager, TabsTypeOK, TabAssumption, URLs
<1>3. InPlace
  BY <1>1 DEF NewTabManager, InPlace, Distinct, Disjoint, Below
<1>4. OneActiveTab
  BY <1>1, EmptySeq DEF NewTabManager, OneActiveTab, IsOpen
<1> QED  BY <1>2, <1>3, <1>4 DEF TabsInv

(* Every step of the tab manager keeps the invariant.                      *)
LEMMA TabsInvStep ==
    ASSUME TabsInv, [TabNext]_tabVars
    PROVE  TabsInv'
<1>1. CASE \E u \in URLs : Add(u)
  BY <1>1, AddInv
<1>2. ASSUME NEW t \in TabIDs,
             \/ Close(t) \/ Activate(t) \/ Back(t) \/ Forward(t)
             \/ \E u \in Pages : SetURL(t, u) \/ Navigate(t, u)
      PROVE  TabsInv'
  BY <1>2, CloseInv, ActivateInv, BackForwardInv, VisitInv
<1>3. CASE \E from, to \in DOMAIN tabs : MoveTab(from, to)
  <2>1. DOMAIN tabs = 1 .. Len(tabs)
    BY ListProperties DEF TabsInv, TabsTypeOK
  <2> QED  BY <1>3, <2>1, MoveTabInv
<1>4. CASE RestoreClosed
  BY <1>4, RestoreClosedInv
<1>5. CASE UNCHANGED tabVars
  <2>1. /\ url \in [TabIDs -> URLs]
        /\ back \in [TabIDs -> Seq(URLs)] /\ forward \in [TabIDs -> Seq(URLs)]
    BY DEF TabsInv, TabsTypeOK
  <2> QED  BY <1>5, <2>1, SameBarInv DEF tabVars, navs
<1> QED  BY <1>1, <1>2, <1>3, <1>4, <1>5 DEF TabNext

-----------------------------------------------------------------------------
(* The inductive invariant of the tab manager holds.                       *)
THEOREM TabsInvariant == TabSpec => []TabsInv
<1>1. NewTabManager => TabsInv
  BY TabsInvInit
<1>2. TabsInv /\ [TabNext]_tabVars => TabsInv'
  BY TabsInvStep
<1> QED  BY <1>1, <1>2, PTL DEF TabSpec

(* Every state of the tab manager is of the right type: no tab is open     *)
(* that was never made, and the closed stack keeps to its limit.           *)
THEOREM TabsTypeCorrect == TabSpec => []TabsTypeOK
<1>1. TabsInv => TabsTypeOK
  BY DEF TabsInv
<1> QED  BY <1>1, TabsInvariant, PTL

(* Exactly one tab of the bar is active and flagged, unless it is empty.   *)
THEOREM ActiveTabUnique == TabSpec => []OneActiveTab
<1>1. TabsInv => OneActiveTab
  BY DEF TabsInv
<1> QED  BY <1>1, TabsInvariant, PTL

(* No tab is in the bar or on the closed stack twice, or in both.          *)
THEOREM TabsInOnePlace == TabSpec => []NoTabInTwoPlaces
<1>1. ASSUME TabsInv
      PROVE  NoTabInTwoPlaces
  <2> DEFINE n == Len(tabs)
             both == tabs \o closedStack
  <2>1. /\ tabs \in Seq(TabIDs) /\ n \in Nat
        /\ closedStack \in Seq(TabIDs) /\ Len(closedStack) \in Nat
    BY <1>1, ListProperties DEF TabsInv, TabsTypeOK
  <2>2. /\ both \in Seq(TabIDs) /\ Len(both) = n + Len(closedStack)
        /\ \A k \in 1 .. n + Len(closedStack) :
              both[k] = IF k <= n THEN tabs[k] ELSE closedStack[k - n]
    BY <2>1, ConcatProperties
  <2>3. DOMAIN both = 1 .. n + Len(closedStack)
    BY <2>2, ListProperties
  <2> HIDE DEF both, n
  <2>4. ASSUME NEW k \in 1 .. n + Len(closedStack), NEW l \in 1 .. n + Len(closedStack),
               both[k] = both[l]
        PROVE  k = l
    <3>1. CASE k <= n /\ l <= n
      BY <3>1, <2>1, <2>2, <2>4, <1>1 DEF TabsInv, InPlace, Distinct, n
    <3>2. CASE ~(k <= n) /\ ~(l <= n)
      <4>1. k - n \in 1 .. Len(closedStack) /\ l - n \in 1 .. Len(closedStack)
        BY <3>2, <2>1
      <4>2. closedStack[k - n] = closedStack[l - n]
        BY <3>2, <2>2, <2>4
      <4>3. k - n = l - n
        BY <4>1, <4>2, <1>1 DEF TabsInv, InPlace, Distinct
      <4> QED  BY <4>3, <2>1
    <3>3. ASSUME NEW i \in 1 .. n + Len(closedStack), NEW j \in 1 .. n + Len(closedStack),
                 i <= n, ~(j <= n)
          PROVE  both[i] # both[j]
      <4>1. i \in 1 .. n /\ j - n \in 1 .. Len(closedStack)
        BY <3>3, <2>1
      <4>2. both[i] = tabs[i] /\ both[j] = closedStack[j - n]
        BY <3>3, <2>2
      <4> QED  BY <4>1, <4>2, <1>1 DEF TabsInv, InPlace, Disjoint, n
    <3> QED  BY <3>1, <3>2, <3>3, <2>4
  <2> QED  BY <2>3, <2>4 DEF NoTabInTwoPlaces, IsInjective, both
<1> QED  BY <1>1, TabsInvariant, PTL

-----------------------------------------------------------------------------
(* The lists behind and ahead of a tab, with its page between them, are    *)
(* one line of pages: what each operation does to the line.                *)

Line(b, u, f) == Append(b, u) \o Reverse(f)

(* The entries ahead are in the line in the order in which they come up.   *)
PageAt(b, u, f, i) ==
    IF i <= Len(b) THEN b[i] ELSE IF i = Len(b) + 1 THEN u ELSE f[(Len(b) + Len(f) + 2) - i]

LEMMA LineProperties ==
    ASSUME NEW b \in Seq(URLs), NEW u \in URLs, NEW f \in Seq(URLs)
    PROVE  /\ Line(b, u, f) \in Seq(URLs)
           /\ Len(b) \in Nat /\ Len(f) \in Nat /\ Len(Line(b, u, f)) = Len(b) + 1 + Len(f)
           /\ \A i \in 1 .. Len(b) + 1 + Len(f) : Line(b, u, f)[i] = PageAt(b, u, f, i)
<1>1. Len(b) \in Nat /\ Len(f) \in Nat /\ \A i \in 1 .. Len(f) : f[i] \in URLs
  BY ListProperties
<1>2. /\ Append(b, u) \in Seq(URLs) /\ Len(Append(b, u)) = Len(b) + 1
      /\ \A i \in 1 .. Len(b) : Append(b, u)[i] = b[i]
      /\ Append(b, u)[Len(b) + 1] = u
  BY AppendProperties
<1>3. /\ Reverse(f) \in Seq(URLs) /\ Len(Reverse(f)) = Len(f)
      /\ \A i \in 1 .. Len(f) : Reverse(f)[i] = f[(Len(f) - i) + 1]
  <2>1. \A i \in 1 .. Len(f) : f[(Len(f) - i) + 1] \in URLs
    BY <1>1
  <2>2. Reverse(f) = [i \in 1 .. Len(f) |-> f[(Len(f) - i) + 1]]
    BY DEF Reverse
  <2> QED  BY <1>1, <2>1, <2>2, IsASeq
<1>4. /\ Line(b, u, f) \in Seq(URLs) /\ Len(Line(b, u, f)) = Len(b) + 1 + Len(f)
      /\ \A i \in 1 .. Len(b) + 1 + Len(f) :
            Line(b, u, f)[i] = IF i <= Len(b) + 1 THEN Append(b, u)[i] ELSE Reverse(f)[i - (Len(b) + 1)]
  <2>1. PICK a \in Seq(URLs), r \in Seq(URLs) : a = Append(b, u) /\ r = Reverse(f)
    BY <1>2, <1>3
  <2>2. /\ a \o r \in Seq(URLs) /\ Len(a \o r) = Len(a) + Len(r)
        /\ \A i \in 1 .. Len(a) + Len(r) : (a \o r)[i] = IF i <= Len(a) THEN a[i] ELSE r[i - Len(a)]
    BY ConcatProperties
  <2>3. Line(b, u, f) = a \o r /\ Len(a) = Len(b) + 1 /\ Len(r) = Len(f)
    BY <1>2, <1>3, <2>1 DEF Line
  <2> QED  BY <2>1, <2>2, <2>3
<1>5. ASSUME NEW i \in 1 .. Len(b) + 1 + Len(f) PROVE Line(b, u, f)[i] = PageAt(b, u, f, i)
  <2>1. CASE i <= Len(b)
    BY <1>1, <1>2, <1>4, <2>1 DEF PageAt
  <2>2. CASE i = Len(b) + 1
    BY <1>1, <1>2, <1>4, <2>2 DEF PageAt
  <2>3. CASE i > Len(b) + 1
    <3>1. PICK j \in 1 .. Len(f) : j = i - (Len(b) + 1)
      <4>1. Len(b) \in Nat /\ Len(f) \in Nat /\ i \in 1 .. Len(b) + 1 + Len(f)
        BY <1>1
      <4>2. i - (Len(b) + 1) \in 1 .. Len(f)
        BY <2>3, <4>1
      <4> QED  BY <4>2
    <3>2. (Len(f) - j) + 1 = (Len(b) + Len(f) + 2) - i /\ ~(i <= Len(b) + 1) /\ ~(i <= Len(b)) /\ i # Len(b) + 1
      BY <1>1, <2>3, <3>1
    <3>3. Line(b, u, f)[i] = Reverse(f)[j]
      BY <1>4, <3>1, <3>2
    <3> QED  BY <1>3, <3>1, <3>2, <3>3 DEF PageAt
  <2> QED  BY <1>1, <2>1, <2>2, <2>3
<1> QED  BY <1>1, <1>4, <1>5

(* A list with the same pages at the same places is the line.              *)
LEMMA SameLine ==
    ASSUME NEW b \in Seq(URLs), NEW u \in URLs, NEW f \in Seq(URLs), NEW l \in Seq(URLs),
           Len(l) = Len(b) + 1 + Len(f),
           \A i \in 1 .. Len(b) + 1 + Len(f) : l[i] = PageAt(b, u, f, i)
    PROVE  l = Line(b, u, f)
<1>1. PICK k \in Seq(URLs) : /\ k = Line(b, u, f) /\ Len(k) = Len(b) + 1 + Len(f)
                             /\ \A i \in 1 .. Len(b) + 1 + Len(f) : k[i] = PageAt(b, u, f, i)
  BY LineProperties
<1>2. Len(l) = Len(k) /\ \A i \in 1 .. Len(l) : l[i] = k[i]
  BY <1>1
<1>3. l = k
  BY <1>2, SeqEqual
<1> QED  BY <1>1, <1>3

LEMMA EmptyLine == ASSUME NEW u \in URLs PROVE Line(<<>>, u, <<>>) = <<u>>
<1>1. PICK none \in Seq(URLs) : none = <<>> /\ Len(none) = 0
  BY EmptySeq
<1>2. <<u>> \in Seq(URLs) /\ Len(<<u>>) = 1 /\ <<u>>[1] = u
  OBVIOUS
<1>3. PICK l \in Seq(URLs) : l = <<u>> /\ Len(l) = 1 /\ l[1] = u
  BY <1>2
<1>4. \A i \in 1 .. 1 : l[i] = PageAt(none, u, none, i)
  BY <1>1, <1>3 DEF PageAt
<1>5. l = Line(none, u, none)
  <2>1. Len(l) = Len(none) + 1 + Len(none) /\ Len(none) + 1 + Len(none) = 1
    BY <1>1, <1>3
  <2>2. \A i \in 1 .. Len(none) + 1 + Len(none) : l[i] = PageAt(none, u, none, i)
    BY <1>4, <2>1
  <2> QED  BY <2>1, <2>2, SameLine
<1> QED  BY <1>1, <1>3, <1>5

(* Going back leaves the line alone.                                       *)
LEMMA LineAfterBack ==
    ASSUME NEW b \in Seq(URLs), NEW u \in URLs, NEW f \in Seq(URLs), b # <<>>
    PROVE  Line(Front(b), Last(b), Append(f, u)) = Line(b, u, f)
<1>1. /\ Last(b) \in URLs /\ Last(b) = b[Len(b)] /\ Front(b) \in Seq(URLs) /\ Len(b) >= 1
      /\ Len(Front(b)) = Len(b) - 1 /\ \A k \in 1 .. Len(b) - 1 : Front(b)[k] = b[k]
  BY LastFrontProperties
<1>2. /\ Append(f, u) \in Seq(URLs) /\ Len(Append(f, u)) = Len(f) + 1
      /\ \A i \in 1 .. Len(f) : Append(f, u)[i] = f[i]
      /\ Append(f, u)[Len(f) + 1] = u
  BY AppendProperties
<1>3. Len(b) \in Nat /\ Len(f) \in Nat
  BY ListProperties
<1>4. PICK c \in Seq(URLs), v \in URLs, g \in Seq(URLs) : c = Front(b) /\ v = Last(b) /\ g = Append(f, u)
  BY <1>1, <1>2
<1>5. /\ Len(c) \in Nat /\ Len(b) = Len(c) + 1 /\ v = b[Len(c) + 1]
      /\ \A k \in 1 .. Len(c) : c[k] = b[k]
      /\ Len(g) = Len(f) + 1 /\ (\A k \in 1 .. Len(f) : g[k] = f[k]) /\ g[Len(f) + 1] = u
  BY <1>1, <1>2, <1>3, <1>4
<1>6. ASSUME NEW i \in 1 .. Len(b) + 1 + Len(f) PROVE PageAt(b, u, f, i) = PageAt(c, v, g, i)
  <2>1. CASE i <= Len(c)
    <3>1. i <= Len(b) /\ i \in 1 .. Len(c)
      BY <1>3, <1>5, <2>1
    <3> QED  BY <1>5, <2>1, <3>1 DEF PageAt
  <2>2. CASE i = Len(c) + 1
    <3>1. i <= Len(b) /\ ~(i <= Len(c))
      BY <1>3, <1>5, <2>2
    <3> QED  BY <1>5, <2>2, <3>1 DEF PageAt
  <2>3. CASE i = Len(c) + 2
    <3>1. /\ ~(i <= Len(b)) /\ i = Len(b) + 1 /\ ~(i <= Len(c)) /\ i # Len(c) + 1
          /\ (Len(c) + Len(g) + 2) - i = Len(f) + 1
      BY <1>3, <1>5, <2>3
    <3> QED  BY <1>5, <3>1 DEF PageAt
  <2>4. CASE i > Len(c) + 2
    <3>1. PICK j \in 1 .. Len(f) : j = (Len(b) + Len(f) + 2) - i
      <4>1. (Len(b) + Len(f) + 2) - i \in 1 .. Len(f)
        BY <1>3, <1>5, <2>4
      <4> QED  BY <4>1
    <3>2. /\ ~(i <= Len(b)) /\ i # Len(b) + 1 /\ ~(i <= Len(c)) /\ i # Len(c) + 1
          /\ (Len(c) + Len(g) + 2) - i = j
      BY <1>3, <1>5, <2>4, <3>1
    <3>3. PageAt(b, u, f, i) = f[j] /\ PageAt(c, v, g, i) = g[j]
      BY <3>1, <3>2 DEF PageAt
    <3> QED  BY <1>5, <3>1, <3>3
  <2> QED  BY <1>3, <1>5, <2>1, <2>2, <2>3, <2>4
<1>7. PICK l \in Seq(URLs) : /\ l = Line(b, u, f) /\ Len(l) = Len(b) + 1 + Len(f)
                             /\ \A i \in 1 .. Len(b) + 1 + Len(f) : l[i] = PageAt(b, u, f, i)
  BY LineProperties
<1>8. Len(l) = Len(c) + 1 + Len(g) /\ \A i \in 1 .. Len(c) + 1 + Len(g) : l[i] = PageAt(c, v, g, i)
  <2>1. Len(c) + 1 + Len(g) = Len(b) + 1 + Len(f)
    BY <1>3, <1>5
  <2> QED  BY <1>6, <1>7, <2>1
<1>9. l = Line(c, v, g)
  BY <1>8, SameLine
<1> QED  BY <1>4, <1>7, <1>9

(* So does going forward.                                                  *)
LEMMA LineAfterForward ==
    ASSUME NEW b \in Seq(URLs), NEW u \in URLs, NEW f \in Seq(URLs), f # <<>>
    PROVE  Line(Append(b, u), Last(f), Front(f)) = Line(b, u, f)
<1>1. /\ Append(b, u) \in Seq(URLs) /\ Append(b, u) # <<>>
      /\ Last(f) \in URLs /\ Front(f) \in Seq(URLs)
  BY LastFrontProperties, AppendProperties
<1>2. PICK a \in Seq(URLs), v \in URLs, g \in Seq(URLs) :
         a = Append(b, u) /\ a # <<>> /\ v = Last(f) /\ g = Front(f)
  BY <1>1
<1>3. Front(a) = b /\ Last(a) = u
  <2>1. Len(b) \in Nat /\ Len(a) = Len(b) + 1 /\ (\A i \in 1 .. Len(b) : a[i] = b[i]) /\ a[Len(b) + 1] = u
    BY <1>2, AppendProperties, ListProperties
  <2>2. /\ Front(a) \in Seq(URLs) /\ Len(Front(a)) = Len(b) /\ Last(a) = a[Len(a)]
        /\ \A i \in 1 .. Len(a) - 1 : Front(a)[i] = a[i]
    <3>1. /\ Front(a) \in Seq(URLs) /\ Len(Front(a)) = Len(a) - 1 /\ Last(a) = a[Len(a)]
          /\ \A i \in 1 .. Len(a) - 1 : Front(a)[i] = a[i]
      BY <1>2, LastFrontProperties
    <3> QED  BY <2>1, <3>1
  <2>3. \A i \in 1 .. Len(b) : Front(a)[i] = b[i]
    BY <2>1, <2>2
  <2>4. Front(a) = b
    BY <2>2, <2>3, SeqEqual
  <2> QED  BY <2>1, <2>2, <2>4
<1>4. Append(g, v) = f
  <2>1. /\ Len(f) \in Nat /\ Len(f) >= 1 /\ Len(g) = Len(f) - 1 /\ v = f[Len(f)]
        /\ \A i \in 1 .. Len(f) - 1 : g[i] = f[i]
    BY <1>2, LastFrontProperties, ListProperties
  <2>2. PICK n \in Nat : n = Len(g) /\ Len(f) = n + 1
    BY <2>1
  <2>3. /\ Append(g, v) \in Seq(URLs) /\ Len(Append(g, v)) = n + 1
        /\ (\A i \in 1 .. n : Append(g, v)[i] = g[i]) /\ Append(g, v)[n + 1] = v
    BY <2>2, AppendProperties
  <2>4. \A i \in 1 .. n + 1 : Append(g, v)[i] = f[i]
    BY <2>1, <2>2, <2>3
  <2> QED  BY <2>2, <2>3, <2>4, SeqEqual
<1>5. Line(Front(a), Last(a), Append(g, v)) = Line(a, v, g)
  BY <1>2, LineAfterBack
<1> QED  BY <1>2, <1>3, <1>4, <1>5

(* A visit cuts what is ahead and appends.                                 *)
LEMMA LineAfterVisit ==
    ASSUME NEW b \in Seq(URLs), NEW u \in URLs, NEW f \in Seq(URLs), NEW p \in URLs
    PROVE  /\ Line(Append(b, u), p, <<>>) = Append(SubSeq(Line(b, u, f), 1, Len(b) + 1), p)
           /\ SubSeq(Line(b, u, f), 1, Len(b) + 1) \in Seq(URLs)
           /\ Len(SubSeq(Line(b, u, f), 1, Len(b) + 1)) = Len(b) + 1
<1>1. PICK l \in Seq(URLs) : /\ l = Line(b, u, f) /\ Len(l) = Len(b) + 1 + Len(f)
                             /\ \A i \in 1 .. Len(b) + 1 + Len(f) : l[i] = PageAt(b, u, f, i)
  BY LineProperties
<1>2. PICK a \in Seq(URLs) : /\ a = Append(b, u) /\ Len(a) = Len(b) + 1
                             /\ (\A i \in 1 .. Len(b) : a[i] = b[i]) /\ a[Len(b) + 1] = u
  BY AppendProperties
<1>3. Len(b) \in Nat /\ Len(f) \in Nat
  BY ListProperties
<1>4. SubSeq(l, 1, Len(b) + 1) = a
  <2>1. \A i \in 1 .. Len(b) + 1 : l[i] \in URLs
    BY <1>1, <1>3, ElementOfSeq
  <2>2. /\ SubSeq(l, 1, Len(b) + 1) \in Seq(URLs) /\ Len(SubSeq(l, 1, Len(b) + 1)) = Len(b) + 1
        /\ \A i \in 1 .. Len(b) + 1 : SubSeq(l, 1, Len(b) + 1)[i] = l[i]
    <3>1. PICK n \in Nat : n = Len(b) + 1 /\ \A i \in 1 .. n : l[i] \in URLs
      BY <1>3, <2>1
    <3>2. /\ SubSeq(l, 1, n) \in Seq(URLs) /\ Len(SubSeq(l, 1, n)) = IF 1 <= n THEN n - 1 + 1 ELSE 0
          /\ \A i \in 1 .. n - 1 + 1 : SubSeq(l, 1, n)[i] = l[1 + i - 1]
      BY <3>1, SubSeqProperties
    <3> QED  BY <1>3, <3>1, <3>2
  <2>3. \A i \in 1 .. Len(b) + 1 : l[i] = a[i]
    BY <1>1, <1>2, <1>3 DEF PageAt
  <2> QED  BY <1>2, <2>2, <2>3, SeqEqual
<1>5. Append(a, p) = Line(a, p, <<>>)
  <2>1. PICK none \in Seq(URLs) : none = <<>> /\ Len(none) = 0
    BY EmptySeq
  <2>2. PICK k \in Seq(URLs) : /\ k = Append(a, p) /\ Len(k) = Len(a) + 1
                               /\ (\A i \in 1 .. Len(a) : k[i] = a[i]) /\ k[Len(a) + 1] = p
    BY AppendProperties
  <2>3. Len(k) = Len(a) + 1 + Len(none) /\ \A i \in 1 .. Len(a) + 1 + Len(none) : k[i] = PageAt(a, p, none, i)
    BY <1>2, <1>3, <2>1, <2>2 DEF PageAt
  <2>4. k = Line(a, p, none)
    BY <2>3, SameLine
  <2> QED  BY <2>1, <2>2, <2>4
<1> QED  BY <1>1, <1>2, <1>4, <1>5

(* An extension that updates a tab exchanges the page where it stands.     *)
LEMMA LineAfterExchange ==
    ASSUME NEW b \in Seq(URLs), NEW u \in URLs, NEW f \in Seq(URLs), NEW p \in URLs
    PROVE  Line(b, p, f) = [Line(b, u, f) EXCEPT ![Len(b) + 1] = p]
<1>1. PICK l \in Seq(URLs) : /\ l = Line(b, u, f) /\ Len(l) = Len(b) + 1 + Len(f)
                             /\ \A i \in 1 .. Len(b) + 1 + Len(f) : l[i] = PageAt(b, u, f, i)
  BY LineProperties
<1>2. Len(b) \in Nat /\ Len(f) \in Nat
  BY ListProperties
<1>3. PICK k \in Seq(URLs) : /\ k = [l EXCEPT ![Len(b) + 1] = p] /\ Len(k) = Len(l)
                             /\ \A j \in 1 .. Len(l) : k[j] = IF j = Len(b) + 1 THEN p ELSE l[j]
  <2>1. PICK i \in 1 .. Len(l) : i = Len(b) + 1
    BY <1>1, <1>2
  <2>2. /\ [l EXCEPT ![i] = p] \in Seq(URLs) /\ Len([l EXCEPT ![i] = p]) = Len(l)
        /\ \A j \in 1 .. Len(l) : [l EXCEPT ![i] = p][j] = IF j = i THEN p ELSE l[j]
    BY ExceptSeq
  <2> QED  BY <2>1, <2>2
<1>4. Len(k) = Len(b) + 1 + Len(f) /\ \A i \in 1 .. Len(b) + 1 + Len(f) : k[i] = PageAt(b, p, f, i)
  BY <1>1, <1>2, <1>3 DEF PageAt
<1>5. k = Line(b, p, f)
  BY <1>4, SameLine
<1> QED  BY <1>1, <1>3, <1>5

-----------------------------------------------------------------------------
(* The refinement of BrowsingHistory.  A tab that is closed, or still on   *)
(* its empty page, has nothing behind or ahead of it, and no empty page is *)
(* ever behind or ahead: this is why a visit may forget the empty page.    *)
LinesInv ==
    /\ back \in [TabIDs -> Seq(Pages)] /\ forward \in [TabIDs -> Seq(Pages)]
    /\ \A t \in TabIDs : url[t] = Blank \/ ~IsOpen(t) => back[t] = <<>> /\ forward[t] = <<>>

OneLineMoves(t) ==
    /\ t \in TabIDs
    /\ \A o \in TabIDs \ {t} : HistoryOf(o)' = HistoryOf(o)
    /\ \/ Expected!Opened(HistoryOf(t), HistoryOf(t)')
       \/ Expected!Closed(HistoryOf(t), HistoryOf(t)')
       \/ Expected!Visited(HistoryOf(t), HistoryOf(t)')
       \/ Expected!Went(HistoryOf(t), HistoryOf(t)')
       \/ Expected!Exchanged(HistoryOf(t), HistoryOf(t)')

(* The lists of pages are lists of URLs, and an open tab has its line.     *)
LEMMA LinesOfTabs ==
    ASSUME TabsInv, LinesInv, NEW t \in TabIDs
    PROVE  /\ back[t] \in Seq(URLs) /\ forward[t] \in Seq(URLs) /\ url[t] \in URLs
           /\ back[t] \in Seq(Pages) /\ forward[t] \in Seq(Pages)
           /\ url[t] # Blank => url[t] \in Pages
           /\ IsOpen(t) => HistoryOf(t) = [line |-> Line(back[t], url[t], forward[t]),
                                           place |-> Len(back[t]) + 1]
           /\ ~IsOpen(t) => HistoryOf(t) = Expected!NotOpen
  BY DEF TabsInv, TabsTypeOK, LinesInv, URLs, HistoryOf, Line, Expected!NotOpen

(* The history of a tab depends on no more than its page and its lists.    *)
LEMMA SameHistory ==
    ASSUME NEW o, IsOpen(o)' <=> IsOpen(o),
           back'[o] = back[o], forward'[o] = forward[o], url'[o] = url[o]
    PROVE  HistoryOf(o)' = HistoryOf(o)
  BY DEF HistoryOf

(* One tab's line moves and no other, or none does.                        *)
LEMMA MovesAreSteps ==
    ASSUME NEW t, OneLineMoves(t)
    PROVE  Expected!HistoryNext
  BY DEF OneLineMoves, Expected!HistoryNext

(* A tab that is appended to the bar is open, as are those that were.      *)
LEMMA AppendedBar ==
    ASSUME TabsInv, NEW t \in TabIDs, tabs' = Append(tabs, t)
    PROVE  \A o : IsOpen(o)' <=> IsOpen(o) \/ o = t
<1>1. /\ tabs \in Seq(TabIDs) /\ Len(tabs) \in Nat /\ DOMAIN tabs = 1 .. Len(tabs)
      /\ tabs' \in Seq(TabIDs) /\ Len(tabs') = Len(tabs) + 1 /\ DOMAIN tabs' = 1 .. Len(tabs')
      /\ \A i \in 1 .. Len(tabs) : tabs'[i] = tabs[i]
      /\ tabs'[Len(tabs) + 1] = t
  BY AppendProperties, ListProperties DEF TabsInv, TabsTypeOK
<1>2. PICK n \in Nat : n = Len(tabs)
  BY <1>1
<1> SUFFICES ASSUME NEW o PROVE IsOpen(o)' <=> IsOpen(o) \/ o = t
  OBVIOUS
<1>3. IsOpen(o)' <=> \E i \in 1 .. n + 1 : tabs'[i] = o
  BY <1>1, <1>2 DEF IsOpen
<1>4. IsOpen(o) <=> \E i \in 1 .. n : tabs[i] = o
  BY <1>1, <1>2 DEF IsOpen
<1> QED  BY <1>1, <1>2, <1>3, <1>4

(* A tab opens with one page, by itself or from the closed stack.          *)
LEMMA OpensLine ==
    ASSUME TabsInv, LinesInv, NEW t \in TabIDs, ~IsOpen(t), tabs' = Append(tabs, t),
           back' = back, forward' = forward,
           url' \in [TabIDs -> URLs], \A o \in TabIDs \ {t} : url'[o] = url[o]
    PROVE  LinesInv' /\ OneLineMoves(t)
<1>1. \A o : IsOpen(o)' <=> IsOpen(o) \/ o = t
  BY AppendedBar
<1>2. back[t] = <<>> /\ forward[t] = <<>>
  BY DEF LinesInv
<1>3. LinesInv'
  BY <1>1, <1>2 DEF LinesInv
<1>4. \A o \in TabIDs \ {t} : HistoryOf(o)' = HistoryOf(o)
  BY <1>1, SameHistory
<1>5. HistoryOf(t)' = [line |-> Line(<<>>, url'[t], <<>>), place |-> Len(<<>>) + 1]
  BY <1>1, <1>2 DEF HistoryOf, Line
<1>6. PICK u \in URLs : u = url'[t]
  OBVIOUS
<1>7. Line(<<>>, u, <<>>) = <<u>>
  BY EmptyLine
<1>8. Expected!Opened(HistoryOf(t), HistoryOf(t)')
  <2>1. HistoryOf(t) = Expected!NotOpen
    BY LinesOfTabs
  <2>2. HistoryOf(t)' = [line |-> <<u>>, place |-> 1]
    BY <1>5, <1>6, <1>7, EmptySeq
  <2> QED  BY <2>1, <2>2 DEF Expected!Opened, Expected!At, URLs
<1> QED  BY <1>3, <1>4, <1>8 DEF OneLineMoves

LEMMA AddLine ==
    ASSUME TabsInv, LinesInv, NEW u \in URLs, Add(u)
    PROVE  LinesInv' /\ Expected!HistoryNext
<1>1. /\ nextID \in TabIDs /\ tabs' = Append(tabs, nextID)
      /\ url' = [url EXCEPT ![nextID] = u] /\ back' = back /\ forward' = forward
  BY TabAssumption DEF Add, TabsInv, TabsTypeOK, TabAssumption, TabIDs, navs
<1>2. ~IsOpen(nextID)
  <2>1. DOMAIN tabs = 1 .. Len(tabs) /\ nextID \in Nat /\ \A i \in 1 .. Len(tabs) : tabs[i] < nextID
    BY ListProperties, TabAssumption DEF TabsInv, TabsTypeOK, InPlace, Below, TabAssumption
  <2>2. ~(nextID < nextID)
    BY <2>1
  <2> QED  BY <2>1, <2>2 DEF IsOpen
<1>3. url' \in [TabIDs -> URLs] /\ \A o \in TabIDs \ {nextID} : url'[o] = url[o]
  BY <1>1 DEF TabsInv, TabsTypeOK
<1>4. LinesInv' /\ OneLineMoves(nextID)
  BY <1>1, <1>2, <1>3, OpensLine
<1> QED  BY <1>4, MovesAreSteps

LEMMA RestoreClosedLine ==
    ASSUME TabsInv, LinesInv, RestoreClosed
    PROVE  LinesInv' /\ Expected!HistoryNext
<1>1. PICK t \in TabIDs : /\ t = closedStack[Len(closedStack)] /\ Len(closedStack) >= 1
                          /\ tabs' = Append(tabs, t)
                          /\ url' = url /\ back' = back /\ forward' = forward
  BY LastFrontProperties DEF RestoreClosed, TabsInv, TabsTypeOK, navs
<1>2. ~IsOpen(t)
  <2>1. Len(closedStack) \in 1 .. Len(closedStack) /\ DOMAIN tabs = 1 .. Len(tabs)
    BY <1>1, ListProperties DEF TabsInv, TabsTypeOK
  <2> QED  BY <1>1, <2>1 DEF TabsInv, InPlace, Disjoint, IsOpen
<1>3. url' \in [TabIDs -> URLs] /\ \A o \in TabIDs \ {t} : url'[o] = url[o]
  BY <1>1 DEF TabsInv, TabsTypeOK
<1>4. LinesInv' /\ OneLineMoves(t)
  BY <1>1, <1>2, <1>3, OpensLine
<1> QED  BY <1>4, MovesAreSteps

LEMMA CloseLine ==
    ASSUME TabsInv, LinesInv, NEW t \in TabIDs, Close(t)
    PROVE  LinesInv' /\ Expected!HistoryNext
<1>1. \A o : IsOpen(o)' <=> IsOpen(o) /\ o # t
  BY CloseInv
<1>2. /\ back' = [back EXCEPT ![t] = <<>>] /\ forward' = [forward EXCEPT ![t] = <<>>]
      /\ url' = url
  BY DEF Close
<1>3. LinesInv'
  BY <1>1, <1>2, EmptySeq DEF LinesInv
<1>4. \A o \in TabIDs \ {t} : HistoryOf(o)' = HistoryOf(o)
  BY <1>1, <1>2, SameHistory DEF LinesInv
<1>5. HistoryOf(t)' = Expected!NotOpen
  BY <1>1 DEF HistoryOf, Expected!NotOpen
<1>6. OneLineMoves(t)
  BY <1>4, <1>5 DEF OneLineMoves, Expected!Closed
<1> QED  BY <1>3, <1>6, MovesAreSteps

(* The bar stays, and one open tab's page and lists become u, b and f.     *)
Becomes(t, b, u, f) ==
    /\ IsOpen(t) /\ tabs' = tabs
    /\ back' = [back EXCEPT ![t] = b] /\ url' = [url EXCEPT ![t] = u]
    /\ forward' = [forward EXCEPT ![t] = f]

LEMMA OthersStay ==
    ASSUME TabsInv, LinesInv, NEW t \in TabIDs,
           NEW b \in Seq(Pages), NEW u \in Pages, NEW f \in Seq(Pages), Becomes(t, b, u, f)
    PROVE  /\ LinesInv'
           /\ \A o \in TabIDs \ {t} : HistoryOf(o)' = HistoryOf(o)
           /\ HistoryOf(t)' = [line |-> Line(b, u, f), place |-> Len(b) + 1]
           /\ HistoryOf(t) = [line |-> Line(back[t], url[t], forward[t]), place |-> Len(back[t]) + 1]
<1>1. \A o : IsOpen(o)' <=> IsOpen(o)
  BY DEF Becomes, IsOpen
<1>2. /\ back'[t] = b /\ url'[t] = u /\ forward'[t] = f
      /\ \A o \in TabIDs \ {t} : back'[o] = back[o] /\ url'[o] = url[o] /\ forward'[o] = forward[o]
      /\ back' \in [TabIDs -> Seq(Pages)] /\ forward' \in [TabIDs -> Seq(Pages)]
  BY DEF Becomes, LinesInv, TabsInv, TabsTypeOK
<1>3. u # Blank /\ IsOpen(t)
  BY TabAssumption DEF TabAssumption, Becomes
<1>4. LinesInv'
  BY <1>1, <1>2, <1>3 DEF LinesInv
<1>5. \A o \in TabIDs \ {t} : HistoryOf(o)' = HistoryOf(o)
  BY <1>1, <1>2, SameHistory
<1>6. HistoryOf(t)' = [line |-> Line(b, u, f), place |-> Len(b) + 1]
  BY <1>1, <1>2, <1>3 DEF HistoryOf, Line
<1> QED  BY <1>3, <1>4, <1>5, <1>6, LinesOfTabs

LEMMA BackLine ==
    ASSUME TabsInv, LinesInv, NEW t \in TabIDs, Back(t)
    PROVE  LinesInv' /\ Expected!HistoryNext
<1>1. PICK b \in Seq(Pages), u \in Pages, f \in Seq(Pages) :
         b = back[t] /\ b # <<>> /\ u = url[t] /\ f = forward[t]
  BY LinesOfTabs DEF Back, LinesInv
<1>2. /\ Front(b) \in Seq(Pages) /\ Last(b) \in Pages /\ Append(f, u) \in Seq(Pages)
      /\ Len(Front(b)) = Len(b) - 1 /\ Len(b) \in Nat /\ Len(b) >= 1 /\ Len(f) \in Nat
  BY <1>1, LastFrontProperties, AppendProperties, ListProperties
<1>3. Becomes(t, Front(b), Last(b), Append(f, u))
  BY <1>1 DEF Back, Becomes, LinesInv
<1>4. /\ LinesInv' /\ \A o \in TabIDs \ {t} : HistoryOf(o)' = HistoryOf(o)
      /\ HistoryOf(t)' = [line |-> Line(Front(b), Last(b), Append(f, u)), place |-> Len(Front(b)) + 1]
      /\ HistoryOf(t) = [line |-> Line(b, u, f), place |-> Len(b) + 1]
  <2>1. PICK c \in Seq(Pages), v \in Pages, g \in Seq(Pages) : c = Front(b) /\ v = Last(b) /\ g = Append(f, u)
    BY <1>2
  <2>2. Becomes(t, c, v, g)
    BY <1>3, <2>1
  <2>3. /\ LinesInv' /\ \A o \in TabIDs \ {t} : HistoryOf(o)' = HistoryOf(o)
        /\ HistoryOf(t)' = [line |-> Line(c, v, g), place |-> Len(c) + 1]
        /\ HistoryOf(t) = [line |-> Line(back[t], url[t], forward[t]), place |-> Len(back[t]) + 1]
    BY <2>2, OthersStay
  <2> QED  BY <1>1, <2>1, <2>3
<1>5. /\ Line(Front(b), Last(b), Append(f, u)) = Line(b, u, f)
      /\ Line(b, u, f) \in Seq(URLs) /\ Len(Line(b, u, f)) = Len(b) + 1 + Len(f)
  <2>1. b \in Seq(URLs) /\ u \in URLs /\ f \in Seq(URLs)
    BY <1>1, LinesOfTabs
  <2>2. Line(b, u, f) \in Seq(URLs) /\ Len(Line(b, u, f)) = Len(b) + 1 + Len(f)
    BY <2>1, LineProperties
  <2> QED  BY <1>1, <2>1, <2>2, LineAfterBack
<1>6. PICK m \in Nat, l \in Seq(URLs) : m + 1 = Len(b) /\ l = Line(b, u, f) /\ Len(l) = m + 2 + Len(f)
  <2>1. PICK m \in Nat : m + 1 = Len(b)
    BY <1>2
  <2>2. Line(b, u, f) \in Seq(URLs) /\ Len(Line(b, u, f)) = m + 2 + Len(f)
    <3>1. Len(b) + 1 + Len(f) = m + 2 + Len(f)
      BY <1>2, <2>1
    <3> QED  BY <1>5, <3>1
  <2> QED  BY <2>1, <2>2
<1>7. HistoryOf(t)' = [line |-> l, place |-> m + 1] /\ HistoryOf(t) = [line |-> l, place |-> m + 2]
  <2>1. Len(Front(b)) + 1 = m + 1 /\ Len(b) + 1 = m + 2
    BY <1>2, <1>6
  <2> QED  BY <1>4, <1>5, <1>6, <2>1
<1>8. m + 1 \in 1 .. Len(l) /\ m + 1 = (m + 2) - 1
  BY <1>2, <1>6
<1>9. Expected!Went(HistoryOf(t), HistoryOf(t)')
  BY <1>7, <1>8 DEF Expected!Went
<1>10. OneLineMoves(t)
  BY <1>4, <1>9 DEF OneLineMoves
<1> QED  BY <1>4, <1>10, MovesAreSteps

LEMMA ForwardLine ==
    ASSUME TabsInv, LinesInv, NEW t \in TabIDs, Forward(t)
    PROVE  LinesInv' /\ Expected!HistoryNext
<1>1. PICK b \in Seq(Pages), u \in Pages, f \in Seq(Pages) :
         b = back[t] /\ f # <<>> /\ u = url[t] /\ f = forward[t]
  BY LinesOfTabs DEF Forward, LinesInv
<1>2. /\ Front(f) \in Seq(Pages) /\ Last(f) \in Pages /\ Append(b, u) \in Seq(Pages)
      /\ Len(Append(b, u)) = Len(b) + 1 /\ Len(f) \in Nat /\ Len(f) >= 1 /\ Len(b) \in Nat
  <2>1. Front(f) \in Seq(Pages) /\ Last(f) \in Pages
    BY <1>1, LastFrontProperties
  <2>2. Append(b, u) \in Seq(Pages) /\ Len(Append(b, u)) = Len(b) + 1
    BY <1>1, AppendProperties
  <2>3. Len(f) \in Nat /\ Len(f) # 0 /\ Len(b) \in Nat
    BY <1>1, ListProperties
  <2> QED  BY <2>1, <2>2, <2>3
<1>3. Becomes(t, Append(b, u), Last(f), Front(f))
  BY <1>1 DEF Forward, Becomes, LinesInv
<1>4. /\ LinesInv' /\ \A o \in TabIDs \ {t} : HistoryOf(o)' = HistoryOf(o)
      /\ HistoryOf(t)' = [line |-> Line(Append(b, u), Last(f), Front(f)), place |-> Len(Append(b, u)) + 1]
      /\ HistoryOf(t) = [line |-> Line(b, u, f), place |-> Len(b) + 1]
  <2>1. PICK c \in Seq(Pages), v \in Pages, g \in Seq(Pages) : c = Append(b, u) /\ v = Last(f) /\ g = Front(f)
    BY <1>2
  <2>2. Becomes(t, c, v, g)
    BY <1>3, <2>1
  <2>3. /\ LinesInv' /\ \A o \in TabIDs \ {t} : HistoryOf(o)' = HistoryOf(o)
        /\ HistoryOf(t)' = [line |-> Line(c, v, g), place |-> Len(c) + 1]
        /\ HistoryOf(t) = [line |-> Line(back[t], url[t], forward[t]), place |-> Len(back[t]) + 1]
    BY <2>2, OthersStay
  <2> QED  BY <1>1, <2>1, <2>3
<1>5. /\ Line(Append(b, u), Last(f), Front(f)) = Line(b, u, f)
      /\ Line(b, u, f) \in Seq(URLs) /\ Len(Line(b, u, f)) = Len(b) + 1 + Len(f)
  <2>1. b \in Seq(URLs) /\ u \in URLs /\ f \in Seq(URLs)
    BY <1>1, LinesOfTabs
  <2>2. Line(b, u, f) \in Seq(URLs) /\ Len(Line(b, u, f)) = Len(b) + 1 + Len(f)
    BY <2>1, LineProperties
  <2> QED  BY <1>1, <2>1, <2>2, LineAfterForward
<1>6. PICK m \in Nat, l \in Seq(URLs) : m = Len(b) /\ l = Line(b, u, f) /\ Len(l) = m + 1 + Len(f)
  BY <1>2, <1>5
<1>7. HistoryOf(t)' = [line |-> l, place |-> m + 2] /\ HistoryOf(t) = [line |-> l, place |-> m + 1]
  <2>1. Len(Append(b, u)) + 1 = m + 2 /\ Len(b) + 1 = m + 1
    BY <1>2, <1>6
  <2> QED  BY <1>4, <1>5, <1>6, <2>1
<1>8. m + 2 \in 1 .. Len(l) /\ m + 2 = (m + 1) + 1
  BY <1>2, <1>6
<1>9. Expected!Went(HistoryOf(t), HistoryOf(t)')
  BY <1>7, <1>8 DEF Expected!Went
<1>10. OneLineMoves(t)
  BY <1>4, <1>9 DEF OneLineMoves
<1> QED  BY <1>4, <1>10, MovesAreSteps

LEMMA SetURLLine ==
    ASSUME TabsInv, LinesInv, NEW t \in TabIDs, NEW p \in Pages, SetURL(t, p)
    PROVE  LinesInv' /\ Expected!HistoryNext
<1>1. PICK b \in Seq(Pages), u \in URLs, f \in Seq(Pages) :
         b = back[t] /\ u = url[t] /\ f = forward[t]
  BY LinesOfTabs
<1>2. Becomes(t, b, p, f)
  BY <1>1 DEF SetURL, Becomes, LinesInv, navs
<1>3. /\ LinesInv' /\ \A o \in TabIDs \ {t} : HistoryOf(o)' = HistoryOf(o)
      /\ HistoryOf(t)' = [line |-> Line(b, p, f), place |-> Len(b) + 1]
      /\ HistoryOf(t) = [line |-> Line(b, u, f), place |-> Len(b) + 1]
  BY <1>1, <1>2, OthersStay
<1>4. Line(b, p, f) = [Line(b, u, f) EXCEPT ![Len(b) + 1] = p] /\ Len(b) \in Nat
  <2>1. b \in Seq(URLs) /\ f \in Seq(URLs) /\ p \in URLs
    BY <1>1, LinesOfTabs DEF URLs
  <2> QED  BY <2>1, LineAfterExchange, LineProperties
<1>5. HistoryOf(t) # Expected!NotOpen
  <2>1. Len(b) + 1 # 0
    BY <1>4
  <2> QED  BY <1>3, <2>1 DEF Expected!NotOpen
<1>6. Expected!Exchanged(HistoryOf(t), HistoryOf(t)')
  BY <1>3, <1>4, <1>5 DEF Expected!Exchanged, Expected!At
<1>7. OneLineMoves(t)
  BY <1>3, <1>6 DEF OneLineMoves
<1> QED  BY <1>3, <1>7, MovesAreSteps

LEMMA NavigateLine ==
    ASSUME TabsInv, LinesInv, NEW t \in TabIDs, NEW p \in Pages, Navigate(t, p)
    PROVE  LinesInv' /\ Expected!HistoryNext
<1>1. PICK b \in Seq(Pages), u \in URLs, f \in Seq(Pages) :
         b = back[t] /\ u = url[t] /\ f = forward[t]
  BY LinesOfTabs
<1>2. b \in Seq(URLs) /\ f \in Seq(URLs) /\ p \in URLs /\ <<>> \in Seq(Pages) /\ Len(b) \in Nat
  BY <1>1, LinesOfTabs, EmptySeq, ListProperties DEF URLs
<1>3. PICK l \in Seq(URLs) : l = Line(b, u, f) /\ l[Len(b) + 1] = u
                             /\ Len(b) + 1 \in 1 .. Len(l)
  <2>1. /\ Line(b, u, f) \in Seq(URLs) /\ Len(f) \in Nat /\ Len(Line(b, u, f)) = Len(b) + 1 + Len(f)
        /\ \A i \in 1 .. Len(b) + 1 + Len(f) : Line(b, u, f)[i] = PageAt(b, u, f, i)
    BY <1>2, LineProperties
  <2>2. Len(b) + 1 \in 1 .. Len(b) + 1 + Len(f) /\ PageAt(b, u, f, Len(b) + 1) = u
    BY <1>2, <2>1 DEF PageAt
  <2> QED  BY <2>1, <2>2
<1>4. CASE u = Blank
  <2>1. b = <<>> /\ f = <<>>
    BY <1>1, <1>4 DEF LinesInv
  <2>2. Becomes(t, b, p, f)
    BY <1>1, <1>4, <2>1 DEF Navigate, Becomes, LinesInv
  <2>3. /\ LinesInv' /\ \A o \in TabIDs \ {t} : HistoryOf(o)' = HistoryOf(o)
        /\ HistoryOf(t)' = [line |-> Line(<<>>, p, <<>>), place |-> Len(<<>>) + 1]
        /\ HistoryOf(t) = [line |-> Line(<<>>, u, <<>>), place |-> Len(<<>>) + 1]
    <3>1. /\ LinesInv' /\ \A o \in TabIDs \ {t} : HistoryOf(o)' = HistoryOf(o)
          /\ HistoryOf(t)' = [line |-> Line(b, p, f), place |-> Len(b) + 1]
          /\ HistoryOf(t) = [line |-> Line(b, u, f), place |-> Len(b) + 1]
      BY <1>1, <2>2, OthersStay
    <3> QED  BY <2>1, <3>1
  <2>4. \A v \in URLs : Line(<<>>, v, <<>>) = <<v>>
    BY EmptyLine
  <2>5. HistoryOf(t) = [line |-> <<Blank>>, place |-> 1] /\ HistoryOf(t)' = [line |-> <<p>>, place |-> 1]
    BY <1>2, <1>4, <2>3, <2>4, EmptySeq
  <2>6. Append(<<>>, p) = <<p>> /\ Len(<<>>) + 1 = 1
    BY EmptySeq
  <2>7. HistoryOf(t) # Expected!NotOpen
    BY <2>5 DEF Expected!NotOpen
  <2>8. Expected!Visited(HistoryOf(t), HistoryOf(t)')
    BY <2>5, <2>6, <2>7 DEF Expected!Visited, Expected!At
  <2>9. OneLineMoves(t)
    BY <2>3, <2>8 DEF OneLineMoves
  <2> QED  BY <2>3, <2>9, MovesAreSteps
<1>5. CASE u # Blank
  <2>1. u \in Pages /\ Append(b, u) \in Seq(Pages) /\ Len(Append(b, u)) = Len(b) + 1
    BY <1>1, <1>5, AppendProperties DEF URLs
  <2>2. Becomes(t, Append(b, u), p, <<>>)
    BY <1>1, <1>5 DEF Navigate, Becomes, LinesInv
  <2>3. /\ LinesInv' /\ \A o \in TabIDs \ {t} : HistoryOf(o)' = HistoryOf(o)
        /\ HistoryOf(t)' = [line |-> Line(Append(b, u), p, <<>>), place |-> Len(Append(b, u)) + 1]
        /\ HistoryOf(t) = [line |-> l, place |-> Len(b) + 1]
    <3>1. PICK c \in Seq(Pages), none \in Seq(Pages) : c = Append(b, u) /\ none = <<>>
      BY <1>2, <2>1
    <3>2. Becomes(t, c, p, none)
      BY <2>2, <3>1
    <3>3. /\ LinesInv' /\ \A o \in TabIDs \ {t} : HistoryOf(o)' = HistoryOf(o)
          /\ HistoryOf(t)' = [line |-> Line(c, p, none), place |-> Len(c) + 1]
          /\ HistoryOf(t) = [line |-> Line(back[t], url[t], forward[t]), place |-> Len(back[t]) + 1]
      BY <3>2, OthersStay
    <3> QED  BY <1>1, <1>3, <3>1, <3>3
  <2>4. /\ Line(Append(b, u), p, <<>>) = Append(SubSeq(l, 1, Len(b) + 1), p)
        /\ SubSeq(l, 1, Len(b) + 1) \in Seq(URLs)
        /\ Len(SubSeq(l, 1, Len(b) + 1)) = Len(b) + 1
    <3>1. /\ Line(Append(b, u), p, <<>>) = Append(SubSeq(Line(b, u, f), 1, Len(b) + 1), p)
          /\ SubSeq(Line(b, u, f), 1, Len(b) + 1) \in Seq(URLs)
          /\ Len(SubSeq(Line(b, u, f), 1, Len(b) + 1)) = Len(b) + 1
      BY <1>2, LineAfterVisit
    <3> QED  BY <1>3, <3>1
  <2>5. l # <<Blank>>
    <3> SUFFICES ASSUME l = <<Blank>> PROVE FALSE
      OBVIOUS
    <3>1. Len(l) = 1 /\ l[1] = Blank
      BY Zenon, IsASeq
    <3>2. Len(b) + 1 = 1
      BY <1>3, <3>1
    <3> QED  BY <1>3, <1>5, <3>1, <3>2
  <2>6. HistoryOf(t) # Expected!NotOpen
    <3>1. Len(b) + 1 # 0
      BY <1>2
    <3> QED  BY <2>3, <3>1 DEF Expected!NotOpen
  <2>7. Expected!Visited(HistoryOf(t), HistoryOf(t)')
    <3>1. PICK a \in Seq(URLs) : a = SubSeq(l, 1, Len(b) + 1) /\ Len(a) = Len(b) + 1
      BY <2>4
    <3>2. HistoryOf(t).line = l /\ HistoryOf(t).place = Len(b) + 1
      BY <2>3
    <3>3. HistoryOf(t)' = [line |-> Append(a, p), place |-> Len(a) + 1]
      BY <2>1, <2>3, <2>4, <3>1
    <3>4. (IF HistoryOf(t).line = <<Blank>> THEN <<>>
           ELSE SubSeq(HistoryOf(t).line, 1, HistoryOf(t).place)) = a
      BY <2>5, <3>1, <3>2
    <3> QED  BY <2>6, <3>3, <3>4 DEF Expected!Visited, Expected!At
  <2>8. OneLineMoves(t)
    BY <2>3, <2>7 DEF OneLineMoves
  <2> QED  BY <2>3, <2>8, MovesAreSteps
<1> QED  BY <1>4, <1>5

(* The other operations change no line.                                    *)
LEMMA LinesStay ==
    ASSUME LinesInv, \A o : IsOpen(o)' <=> IsOpen(o), url' = url, back' = back, forward' = forward
    PROVE  LinesInv' /\ UNCHANGED [t \in TabIDs |-> HistoryOf(t)]
<1>1. LinesInv'
  BY DEF LinesInv
<1>2. \A o \in TabIDs : HistoryOf(o)' = HistoryOf(o)
  BY SameHistory
<1> QED  BY <1>1, <1>2

(* Back, forward, visits and updates by extensions walk one line of pages  *)
(* per tab: the tab manager implements BrowsingHistory.                    *)
THEOREM WalksOneLine == TabSpec => ImplementsBrowsingHistory
<1> DEFINE line == [t \in TabIDs |-> HistoryOf(t)]
<1>1. NewTabManager => LinesInv /\ Expected!HistoryInit
  <2> SUFFICES ASSUME NewTabManager PROVE LinesInv /\ Expected!HistoryInit
    OBVIOUS
  <2>1. \A t : ~IsOpen(t)
    BY EmptySeq DEF NewTabManager, IsOpen
  <2>2. LinesInv
    BY EmptySeq DEF NewTabManager, LinesInv
  <2> QED  BY <2>1, <2>2 DEF Expected!HistoryInit, Expected!NotOpen, HistoryOf
<1>2. TabsInv /\ LinesInv /\ [TabNext]_tabVars => LinesInv' /\ [Expected!HistoryNext]_line
  <2> SUFFICES ASSUME TabsInv, LinesInv, [TabNext]_tabVars
               PROVE  LinesInv' /\ [Expected!HistoryNext]_line
    OBVIOUS
  <2>1. CASE \E u \in URLs : Add(u)
    BY <2>1, AddLine
  <2>2. ASSUME NEW t \in TabIDs, Close(t) \/ Back(t) \/ Forward(t)
        PROVE  LinesInv' /\ Expected!HistoryNext
    BY <2>2, CloseLine, BackLine, ForwardLine
  <2>3. ASSUME NEW t \in TabIDs, NEW u \in Pages, SetURL(t, u) \/ Navigate(t, u)
        PROVE  LinesInv' /\ Expected!HistoryNext
    BY <2>3, SetURLLine, NavigateLine
  <2>4. CASE RestoreClosed
    BY <2>4, RestoreClosedLine
  <2>5. ASSUME NEW t \in TabIDs, Activate(t) PROVE LinesInv' /\ UNCHANGED line
    BY <2>5, LinesStay DEF Activate, navs, IsOpen
  <2>6. ASSUME NEW from \in DOMAIN tabs, NEW to \in DOMAIN tabs, MoveTab(from, to)
        PROVE  LinesInv' /\ UNCHANGED line
    <3>1. DOMAIN tabs = 1 .. Len(tabs)
      BY ListProperties DEF TabsInv, TabsTypeOK
    <3>2. \A o : IsOpen(o)' <=> IsOpen(o)
      BY <2>6, <3>1, MoveTabInv
    <3> QED  BY <2>6, <3>2, LinesStay DEF MoveTab, navs
  <2>7. CASE UNCHANGED tabVars
    BY <2>7, LinesStay DEF tabVars, navs, IsOpen
  <2> HIDE DEF line
  <2> QED  BY <2>1, <2>2, <2>3, <2>4, <2>5, <2>6, <2>7 DEF TabNext
<1> QED  BY <1>1, <1>2, TabsInvariant, PTL
         DEF TabSpec, ImplementsBrowsingHistory, Expected!HistorySpec

-----------------------------------------------------------------------------
(* The shell.  What is outside the tab manager, and the flags of the tabs. *)
SessionFits == session \in Sessions /\ Len(session.urls) <= MaxTabs

OutsideTheTabs ==
    /\ windows \subseteq TabIDs /\ injected \subseteq TabIDs
    /\ SessionFits

(* CreateInactiveTab leaves the flag of the new tab as it finds it.        *)
FlagsGivenOut == \A t \in TabIDs : isActive[t] => t < nextID

(* An ID that is still to be given out has no window, no script record, no *)
(* history and no place in the bar or on the stack.                        *)
FreshIDsAreClean ==
    \A t \in nextID .. MaxTabs :
        /\ t \notin windows \cup injected
        /\ back[t] = <<>> /\ forward[t] = <<>>
        /\ ~IsOpen(t) /\ ~Contains(closedStack, t)

ShellInv ==
    /\ TabsInv
    /\ OutsideTheTabs
    /\ FlagsGivenOut
    /\ FreshIDsAreClean
    /\ InjectedTracksOpenTabs

-----------------------------------------------------------------------------
(* What follows from the parts of the invariant, and what puts it together *)
(* again.  These lemmas are implications between states, so that PTL gives *)
(* them for the next state as well.                                        *)

OnlyGivenOut ==
    /\ \A t : IsOpen(t) => t \in TabIDs /\ t < nextID
    /\ \A t : Contains(closedStack, t) => t \in TabIDs /\ t < nextID
    /\ active # NoTab => active \in TabIDs /\ active < nextID /\ IsOpen(active)
    /\ nextID \in Nat /\ nextID >= 1

NothingAhead ==
    /\ \A t \in windows \cup injected : t < nextID
    /\ \A t \in TabIDs : t >= nextID => back[t] = <<>> /\ forward[t] = <<>>

(* An open tab, a closed one and the active one have IDs given out before. *)
LEMMA OpenIDs == TabsInv => OnlyGivenOut
<1> SUFFICES ASSUME TabsInv PROVE OnlyGivenOut
  OBVIOUS
<1>1. /\ tabs \in Seq(TabIDs) /\ DOMAIN tabs = 1 .. Len(tabs)
      /\ closedStack \in Seq(TabIDs) /\ DOMAIN closedStack = 1 .. Len(closedStack)
      /\ \A i \in 1 .. Len(tabs) : tabs[i] \in TabIDs
      /\ \A i \in 1 .. Len(closedStack) : closedStack[i] \in TabIDs
  BY ListProperties DEF TabsInv, TabsTypeOK
<1>2. \A t : IsOpen(t) => t \in TabIDs /\ t < nextID
  BY <1>1 DEF IsOpen, TabsInv, InPlace, Below
<1>3. \A t : Contains(closedStack, t) => t \in TabIDs /\ t < nextID
  BY <1>1 DEF Contains, TabsInv, InPlace, Below
<1>4. nextID \in Nat /\ nextID >= 1
  BY TabAssumption DEF TabsInv, TabsTypeOK, TabAssumption
<1> QED  BY <1>2, <1>3, <1>4 DEF TabsInv, OneActiveTab, OnlyGivenOut

(* The IDs from nextID on are clean when all that is kept is below it.     *)
LEMMA FreshIDs == TabsInv /\ OutsideTheTabs /\ NothingAhead => FreshIDsAreClean
<1> SUFFICES ASSUME TabsInv, OutsideTheTabs, NothingAhead, NEW t \in nextID .. MaxTabs
             PROVE  /\ t \notin windows \cup injected
                    /\ back[t] = <<>> /\ forward[t] = <<>>
                    /\ ~IsOpen(t) /\ ~Contains(closedStack, t)
  BY DEF FreshIDsAreClean
<1>1. t \in TabIDs /\ t >= nextID /\ ~(t < nextID)
  BY OpenIDs, TabAssumption DEF OnlyGivenOut, TabIDs, TabAssumption
<1> QED  BY <1>1, OpenIDs DEF OnlyGivenOut, NothingAhead

(* The reverse: what clean IDs mean for windows, records and histories.    *)
LEMMA KeptIDs == ShellInv => NothingAhead
<1> SUFFICES ASSUME ShellInv PROVE NothingAhead
  OBVIOUS
<1>1. nextID \in Nat /\ nextID >= 1 /\ MaxTabs \in Nat
  BY OpenIDs, TabAssumption DEF ShellInv, OnlyGivenOut, TabAssumption
<1>2. \A t \in TabIDs : t \in Nat /\ (t >= nextID => t \in nextID .. MaxTabs)
  BY <1>1 DEF TabIDs
<1> QED  BY <1>1, <1>2 DEF ShellInv, FreshIDsAreClean, OutsideTheTabs, NothingAhead

(* An event of the tab manager with its listeners: windows and session     *)
(* stay, the records of closed tabs go.                                    *)
LEMMA QuietlyInv ==
    ASSUME ShellInv, TabsInv', nextID' >= nextID,
           UNCHANGED <<windows, session>>, injected' = Cleaned(injected),
           FlagsGivenOut',
           \A t \in TabIDs : t >= nextID' => back'[t] = <<>> /\ forward'[t] = <<>>
    PROVE  ShellInv'
<1>1. injected' \subseteq injected /\ \A t \in injected' : IsOpen(t)'
  BY DEF Cleaned, IsOpen
<1>2. \A t \in windows \cup injected : t < nextID /\ t \in Nat
  BY KeptIDs, TabAssumption DEF ShellInv, OutsideTheTabs, NothingAhead, TabIDs, TabAssumption
<1>3. OutsideTheTabs'
  BY <1>1 DEF ShellInv, OutsideTheTabs, SessionFits
<1>4. OnlyGivenOut /\ OnlyGivenOut'
  BY OpenIDs, PTL DEF ShellInv
<1>5. NothingAhead'
  BY <1>1, <1>2, <1>4 DEF NothingAhead, OnlyGivenOut
<1>6. FreshIDsAreClean'
  BY <1>3, <1>5, FreshIDs, PTL
<1> QED  BY <1>1, <1>3, <1>6 DEF ShellInv, InjectedTracksOpenTabs

(* A new tab takes the next ID, flag included.                             *)
LEMMA NewTabInv ==
    ASSUME ShellInv, NewTab
    PROVE  ShellInv'
<1>1. PICK u \in URLs : Add(u) /\ injected' = Cleaned(injected) /\ UNCHANGED <<windows, session>>
  BY DEF NewTab, Quietly
<1>2. TabsInv'
  BY <1>1, AddInv DEF ShellInv
<1>3. nextID' = nextID + 1 /\ nextID \in Nat /\ \A t \in TabIDs : t \in Nat
  BY <1>1, OpenIDs, TabAssumption DEF Add, ShellInv, OnlyGivenOut, TabIDs, TabAssumption
<1>4. \A t \in TabIDs : t >= nextID' => back'[t] = <<>> /\ forward'[t] = <<>>
  BY <1>1, <1>3, KeptIDs DEF Add, NothingAhead, navs
<1>5. FlagsGivenOut'
  <2>1. active # NoTab => active < nextID
    BY OpenIDs DEF ShellInv, OnlyGivenOut
  <2> QED  BY <1>1, <1>3 DEF Add, HandOver, FlagsGivenOut, ShellInv
<1> QED  BY <1>1, <1>2, <1>3, <1>4, <1>5, QuietlyInv

(* A tab that is closed takes its history and its script record along.     *)
LEMMA RemoveTabInv ==
    ASSUME ShellInv, NEW t \in TabIDs, RemoveTab(t)
    PROVE  ShellInv'
<1>1. Close(t) /\ injected' = Cleaned(injected) /\ UNCHANGED <<windows, session>>
  BY DEF RemoveTab, Quietly
<1>2. TabsInv'
  BY <1>1, CloseInv DEF ShellInv
<1>3. nextID' = nextID /\ nextID \in Nat
  BY <1>1, OpenIDs DEF Close, ShellInv, OnlyGivenOut
<1>4. \A o \in TabIDs : o >= nextID' => back'[o] = <<>> /\ forward'[o] = <<>>
  <2>1. back \in [TabIDs -> Seq(URLs)] /\ forward \in [TabIDs -> Seq(URLs)]
    BY DEF ShellInv, TabsInv, TabsTypeOK
  <2>2. back' = [back EXCEPT ![t] = <<>>] /\ forward' = [forward EXCEPT ![t] = <<>>]
    BY <1>1 DEF Close
  <2> QED  BY <1>3, <2>1, <2>2, KeptIDs DEF NothingAhead
<1>5. FlagsGivenOut'
  <2>1. isActive' = [u \in TabIDs |-> isActive[u] \/ u = active']
    BY <1>1 DEF Close
  <2>a. OnlyGivenOut'
    BY <1>2, OpenIDs, PTL
  <2>2. active' # NoTab => active' < nextID'
    BY <2>a DEF OnlyGivenOut
  <2>3. NoTab \notin TabIDs
    BY TabAssumption DEF TabAssumption, TabIDs
  <2> QED  BY <2>1, <2>2, <2>3, <1>3 DEF FlagsGivenOut, ShellInv
<1> QED  BY <1>1, <1>2, <1>3, <1>4, <1>5, QuietlyInv

(* A tab that is opened again has an ID given out before.                  *)
LEMMA ReopenTabInv ==
    ASSUME ShellInv, ReopenTab
    PROVE  ShellInv'
<1>1. RestoreClosed /\ injected' = Cleaned(injected) /\ UNCHANGED <<windows, session>>
  BY DEF ReopenTab, Quietly
<1>2. TabsInv'
  BY <1>1, RestoreClosedInv DEF ShellInv
<1>3. nextID' = nextID /\ nextID \in Nat
  BY <1>1, OpenIDs DEF RestoreClosed, ShellInv, OnlyGivenOut
<1>4. \A t \in TabIDs : t >= nextID' => back'[t] = <<>> /\ forward'[t] = <<>>
  BY <1>1, <1>3, KeptIDs DEF RestoreClosed, NothingAhead, navs
<1>5. FlagsGivenOut'
  <2>1. OnlyGivenOut'
    BY <1>2, OpenIDs, PTL
  <2>2. active' # NoTab => active' < nextID'
    BY <2>1 DEF OnlyGivenOut
  <2>3. isActive' = HandOver(isActive, active, active')
    BY <1>1 DEF RestoreClosed
  <2>4. NoTab \notin TabIDs
    BY TabAssumption DEF TabAssumption, TabIDs
  <2> QED  BY <1>3, <2>2, <2>3, <2>4 DEF HandOver, FlagsGivenOut, ShellInv
<1> QED  BY <1>1, <1>2, <1>3, <1>4, <1>5, QuietlyInv

(* Giving the flag to an open tab, which may be the active one.            *)
LEMMA HandOverInv ==
    ASSUME ShellInv, NEW t \in TabIDs, IsOpen(t),
           active' = t, isActive' = HandOver(isActive, active, t),
           UNCHANGED <<nextID, tabs, closedStack, navs>>, url' \in [TabIDs -> URLs]
    PROVE  TabsInv' /\ FlagsGivenOut'
<1>1. TabsTypeOK'
  BY DEF ShellInv, TabsInv, TabsTypeOK, HandOver, navs
<1>2. InPlace'
  BY DEF ShellInv, TabsInv, InPlace
<1>3. tabs # <<>>
  BY EmptySeq DEF IsOpen
<1>4. OneActiveTab'
  BY <1>3, TabAssumption
     DEF ShellInv, TabsInv, OneActiveTab, IsOpen, HandOver, TabAssumption, TabIDs
<1>5. FlagsGivenOut'
  BY OpenIDs DEF ShellInv, FlagsGivenOut, HandOver, OnlyGivenOut
<1> QED  BY <1>1, <1>2, <1>4, <1>5 DEF TabsInv

(* Activating and updating give the flag to a tab that is open.            *)
LEMMA ActivateTabInv ==
    ASSUME ShellInv, NEW t \in TabIDs, ActivateTab(t) \/ UpdateTab(t)
    PROVE  ShellInv'
<1>1. /\ IsOpen(t) /\ UNCHANGED <<nextID, tabs, closedStack, navs, windows, session>>
      /\ injected' = Cleaned(injected)
      /\ url' \in [TabIDs -> URLs]
  BY DEF ActivateTab, UpdateTab, Quietly, Activate, ShellInv, TabsInv, TabsTypeOK, URLs
<1>2. \/ active' = t /\ isActive' = HandOver(isActive, active, t)
      \/ UNCHANGED <<active, isActive>>
  BY DEF ActivateTab, UpdateTab, Quietly, Activate
<1>3. TabsInv' /\ FlagsGivenOut'
  <2>1. CASE active' = t /\ isActive' = HandOver(isActive, active, t)
    BY <2>1, <1>1, HandOverInv
  <2>2. CASE UNCHANGED <<active, isActive>>
    <3>1. TabsInv'
      BY <2>2, <1>1, SameBarInv DEF ShellInv, TabsInv, TabsTypeOK, navs
    <3> QED  BY <3>1, <2>2, <1>1 DEF ShellInv, FlagsGivenOut
  <2> QED  BY <1>2, <2>1, <2>2
<1>4. /\ nextID' = nextID /\ nextID \in Nat
      /\ \A o \in TabIDs : o >= nextID' => back'[o] = <<>> /\ forward'[o] = <<>>
  BY <1>1, OpenIDs, KeptIDs DEF ShellInv, OnlyGivenOut, NothingAhead, navs
<1> QED  BY <1>1, <1>3, <1>4, QuietlyInv

(* The tab before the new one in the bar gets the flag, not the new one.   *)
LEMMA CreateInactiveTabInv ==
    ASSUME ShellInv, CreateInactiveTab
    PROVE  ShellInv'
<1>1. PICK u \in URLs :
        /\ tabs # <<>> /\ nextID <= MaxTabs
        /\ nextID' = nextID + 1
        /\ tabs' = Append(tabs, nextID)
        /\ active' = Last(tabs)
        /\ isActive' = HandOver(isActive, active, Last(tabs))
        /\ url' = [url EXCEPT ![nextID] = u]
        /\ injected' = Cleaned(injected)
        /\ UNCHANGED <<closedStack, back, forward, windows, session>>
  BY DEF CreateInactiveTab, navs
<1>2. /\ nextID \in TabIDs /\ nextID \in Nat /\ nextID # NoTab /\ MaxTabs \in Nat
      /\ \A t \in TabIDs : t \in Nat
      /\ tabs \in Seq(TabIDs) /\ Len(tabs) \in Nat /\ DOMAIN tabs = 1 .. Len(tabs)
      /\ closedStack \in Seq(TabIDs) /\ Len(closedStack) \in Nat
  <2>1. nextID \in TabIDs /\ nextID \in Nat /\ nextID # NoTab /\ MaxTabs \in Nat
    BY <1>1, OpenIDs, TabAssumption DEF ShellInv, OnlyGivenOut, TabIDs, TabAssumption
  <2>2. \A t \in TabIDs : t \in Nat
    BY <2>1 DEF TabIDs
  <2> QED  BY <2>1, <2>2, ListProperties DEF ShellInv, TabsInv, TabsTypeOK
<1>3. /\ tabs' \in Seq(TabIDs) /\ DOMAIN tabs' = 1 .. Len(tabs')
      /\ Len(tabs') = Len(tabs) + 1 /\ tabs'[Len(tabs) + 1] = nextID
      /\ \A i \in 1 .. Len(tabs) : tabs'[i] = tabs[i]
  BY <1>1, <1>2, AppendProperties, ListProperties
<1> DEFINE last == Last(tabs)
<1>4. last \in TabIDs /\ last = tabs[Len(tabs)] /\ Len(tabs) >= 1 /\ IsOpen(last)
  BY <1>1, <1>2, LastFrontProperties DEF IsOpen
<1>5. last < nextID
  BY <1>4, OpenIDs DEF ShellInv, OnlyGivenOut
<1> HIDE DEF last
<1>6. active' = last /\ isActive' = HandOver(isActive, active, last)
  BY <1>1 DEF last
<1>7. TabsTypeOK'
  <2>1. nextID' \in 1 .. MaxTabs + 1
    BY <1>1, <1>2
  <2>2. isActive' \in [TabIDs -> BOOLEAN] /\ url' \in [TabIDs -> URLs]
    BY <1>1, <1>2, <1>6 DEF ShellInv, TabsInv, TabsTypeOK, HandOver
  <2> QED  BY <1>1, <1>3, <1>4, <1>6, <2>1, <2>2 DEF ShellInv, TabsInv, TabsTypeOK
<1>8. InPlace'
  <2> USE DEF ShellInv, TabsInv, InPlace
  <2>1. /\ \A i \in 1 .. Len(tabs) : tabs[i] \in Nat /\ tabs[i] < nextID
        /\ \A i \in 1 .. Len(closedStack) : closedStack[i] \in Nat /\ closedStack[i] < nextID
    BY <1>2, ListProperties DEF Below
  <2>2. \A i \in 1 .. Len(tabs') :
           \/ i \in 1 .. Len(tabs) /\ tabs'[i] = tabs[i]
           \/ i = Len(tabs) + 1 /\ tabs'[i] = nextID
    BY <1>2, <1>3
  <2>3. closedStack' = closedStack /\ nextID' = nextID + 1
    BY <1>1
  <2>4. Below(tabs', nextID')
    BY <2>1, <2>2, <2>3, <1>2 DEF Below
  <2>5. Below(closedStack', nextID')
    BY <2>1, <2>3, <1>2 DEF Below
  <2>6. Distinct(tabs')
    BY <1>2, <1>3, <2>1, <2>2 DEF Distinct
  <2>7. Disjoint(tabs', closedStack')
    BY <1>2, <2>1, <2>2, <2>3 DEF Disjoint
  <2>8. Len(tabs') + Len(closedStack') < nextID'
    BY <1>2, <1>3, <2>3
  <2> QED  BY <2>3, <2>4, <2>5, <2>6, <2>7, <2>8
<1>9. OneActiveTab'
  <2>1. \A t : IsOpen(t)' <=> IsOpen(t) \/ t = nextID
    <3>1. Len(tabs) + 1 \in DOMAIN tabs' /\ \A i \in DOMAIN tabs : i \in DOMAIN tabs' /\ tabs'[i] = tabs[i]
      BY <1>2, <1>3
    <3>2. \A i \in DOMAIN tabs' : i \in DOMAIN tabs \/ i = Len(tabs) + 1
      BY <1>2, <1>3
    <3>3. \A t : IsOpen(t)' => IsOpen(t) \/ t = nextID
      BY <1>3, <3>1, <3>2 DEF IsOpen
    <3>4. \A t : IsOpen(t) \/ t = nextID => IsOpen(t)'
      BY <1>3, <3>1 DEF IsOpen
    <3> QED  BY <3>3, <3>4
  <2>2. tabs' # <<>>
    BY <1>2, <1>3, ListProperties
  <2>3. ~isActive[nextID]
    BY <1>2 DEF ShellInv, FlagsGivenOut
  <2>4. last # NoTab /\ last # nextID
    BY <1>2, <1>4, <1>5, TabAssumption DEF TabAssumption, TabIDs
  <2>5. \A t \in TabIDs : isActive'[t] =
                            IF t = last THEN TRUE ELSE IF t = active THEN FALSE ELSE isActive[t]
    BY <1>6 DEF HandOver
  <2>6. active # NoTab => active < nextID
    BY OpenIDs DEF ShellInv, OnlyGivenOut
  <2>7. ASSUME NEW t \in TabIDs, IsOpen(t)'
        PROVE  isActive'[t] <=> t = last
    <3>1. CASE t = nextID
      BY <3>1, <2>3, <2>4, <2>5, <1>2
    <3>2. CASE IsOpen(t)
      BY <3>2, <2>5 DEF ShellInv, TabsInv, OneActiveTab
    <3> QED  BY <3>1, <3>2, <2>1, <2>7
  <2> QED  BY <1>4, <1>6, <2>1, <2>2, <2>4, <2>7 DEF OneActiveTab
<1>10. FlagsGivenOut'
  BY <1>1, <1>2, <1>5, <1>6 DEF ShellInv, FlagsGivenOut, HandOver
<1>11. \A t \in TabIDs : t >= nextID' => back'[t] = <<>> /\ forward'[t] = <<>>
  <2>1. \A t \in TabIDs : t >= nextID + 1 => t >= nextID
    BY <1>2
  <2>2. back' = back /\ forward' = forward /\ nextID' = nextID + 1
    BY <1>1
  <2> QED  BY <2>1, <2>2, KeptIDs DEF NothingAhead
<1>12. nextID' >= nextID /\ TabsInv' /\ UNCHANGED <<windows, session>>
       /\ injected' = Cleaned(injected)
  BY <1>1, <1>2, <1>7, <1>8, <1>9 DEF TabsInv
<1> QED  BY <1>10, <1>11, <1>12, QuietlyInv

(* Control-W closes a window and nothing else.                             *)
LEMMA CloseActiveWindowInv ==
    ASSUME ShellInv, CloseActiveWindow
    PROVE  ShellInv'
<1>1. windows' \subseteq windows /\ UNCHANGED <<tabVars, injected, session>>
  BY DEF CloseActiveWindow
<1>2. TabsInv' /\ FlagsGivenOut'
  <2>1. TabsInv'
    BY <1>1, SameBarInv DEF ShellInv, TabsInv, TabsTypeOK, tabVars, navs
  <2> QED  BY <2>1, <1>1 DEF ShellInv, FlagsGivenOut, tabVars
<1>3. OutsideTheTabs' /\ InjectedTracksOpenTabs'
  BY <1>1 DEF ShellInv, OutsideTheTabs, SessionFits, InjectedTracksOpenTabs, IsOpen, tabVars
<1>4. NothingAhead'
  BY <1>1, KeptIDs DEF NothingAhead, tabVars, navs
<1>5. FreshIDsAreClean'
  BY <1>2, <1>3, <1>4, FreshIDs, PTL
<1> QED  BY <1>2, <1>3, <1>5 DEF ShellInv

(* Back and forward on the active tab.                                     *)
LEMMA GoBackForwardInv ==
    ASSUME ShellInv, GoBack \/ GoForward
    PROVE  ShellInv'
<1>1. /\ active # NoTab /\ (Back(active) \/ Forward(active))
      /\ injected' = Cleaned(injected) /\ UNCHANGED <<windows, session>>
  BY DEF GoBack, GoForward, Quietly
<1>2. active \in TabIDs /\ active < nextID /\ nextID \in Nat
  BY <1>1, OpenIDs DEF ShellInv, OnlyGivenOut
<1>3. TabsInv'
  BY <1>1, <1>2, BackForwardInv DEF ShellInv
<1>4. UNCHANGED <<nextID, isActive>>
  BY <1>1 DEF Back, Forward
<1>5. FlagsGivenOut'
  BY <1>4 DEF ShellInv, FlagsGivenOut
<1>6. \A t \in TabIDs : t >= nextID' => back'[t] = <<>> /\ forward'[t] = <<>>
  <2>1. back \in [TabIDs -> Seq(URLs)] /\ forward \in [TabIDs -> Seq(URLs)]
    BY DEF ShellInv, TabsInv, TabsTypeOK
  <2>2. \A t \in TabIDs : t >= nextID => t # active
    BY <1>2, TabAssumption DEF TabIDs, TabAssumption
  <2>3. \A t \in TabIDs \ {active} : back'[t] = back[t] /\ forward'[t] = forward[t]
    BY <1>1, <2>1 DEF Back, Forward
  <2> QED  BY <1>4, <2>2, <2>3, KeptIDs DEF NothingAhead
<1> QED  BY <1>1, <1>2, <1>3, <1>4, <1>5, <1>6, QuietlyInv

(* A navigation gives the active tab, which is open, a window and a record *)
(* of scripts.                                                             *)
LEMMA NavigateActiveInv ==
    ASSUME ShellInv, NavigateActive
    PROVE  ShellInv'
<1>1. PICK u \in Pages : Navigate(active, u)
  BY DEF NavigateActive
<1>2. active \in TabIDs /\ active < nextID /\ nextID \in Nat
  BY OpenIDs DEF ShellInv, OnlyGivenOut, NavigateActive
<1>3. TabsInv'
  BY <1>1, <1>2, VisitInv DEF ShellInv
<1>4. UNCHANGED <<nextID, tabs, isActive, session>>
  BY <1>1 DEF Navigate, NavigateActive
<1>5. FlagsGivenOut'
  BY <1>4 DEF ShellInv, FlagsGivenOut
<1>6. /\ windows' = windows \cup {active} /\ injected' \subseteq injected \cup {active}
      /\ \A t \in injected' : IsOpen(t)'
  BY DEF NavigateActive, Cleaned, IsOpen
<1>7. OutsideTheTabs'
  BY <1>2, <1>4, <1>6 DEF ShellInv, OutsideTheTabs, SessionFits
<1>8. \A t \in TabIDs : t >= nextID' => back'[t] = <<>> /\ forward'[t] = <<>>
  <2>1. back \in [TabIDs -> Seq(URLs)] /\ forward \in [TabIDs -> Seq(URLs)]
    BY DEF ShellInv, TabsInv, TabsTypeOK
  <2>2. \A t \in TabIDs : t >= nextID => t # active
    BY <1>2, TabAssumption DEF TabIDs, TabAssumption
  <2>3. \A t \in TabIDs \ {active} : back'[t] = back[t] /\ forward'[t] = forward[t]
    BY <1>1, <2>1 DEF Navigate
  <2> QED  BY <1>4, <2>2, <2>3, KeptIDs DEF NothingAhead
<1>9. FreshIDsAreClean'
  <2>1. NothingAhead'
    BY <1>2, <1>4, <1>6, <1>8, KeptIDs DEF NothingAhead
  <2> QED  BY <1>3, <1>7, <2>1, FreshIDs, PTL
<1> QED  BY <1>3, <1>5, <1>6, <1>7, <1>9 DEF ShellInv, InjectedTracksOpenTabs

-----------------------------------------------------------------------------
(* A new process, which opens the tabs of a session file.                  *)

(* The tabs of a new process are 1, 2, ... in that order, each with a page *)
(* of the session, and one of them is active.                              *)
LEMMA RestoredProperties ==
    ASSUME NEW s, s \in Sessions, Len(s.urls) <= MaxTabs
    PROVE  /\ Restored(s) \in Seq(URLs) /\ DOMAIN Restored(s) = 1 .. Len(Restored(s))
           /\ Len(Restored(s)) \in 1 .. MaxTabs
           /\ RestoredActive(s) \in 1 .. Len(Restored(s))
           /\ RestoredURL(s) \in [TabIDs -> URLs]
<1>1. /\ s.urls \in Seq(URLs) /\ Len(s.urls) \in Nat /\ DOMAIN s.urls = 1 .. Len(s.urls)
      /\ s.urls = <<>> <=> Len(s.urls) = 0
  BY ListProperties DEF Sessions
<1>2. Homepage \in URLs /\ Blank \in URLs /\ MaxTabs \in Nat /\ MaxTabs >= 1
  BY HomepageAssumption, TabAssumption DEF HomepageAssumption, TabAssumption, URLs
<1>3. <<Homepage>> \in Seq(URLs) /\ Len(<<Homepage>>) = 1
  BY <1>2
<1>4. /\ Restored(s) \in Seq(URLs) /\ Len(Restored(s)) \in 1 .. MaxTabs
      /\ s.urls # <<>> => Restored(s) = s.urls
  BY <1>1, <1>2, <1>3 DEF Restored
<1>5. DOMAIN Restored(s) = 1 .. Len(Restored(s)) /\ \A i \in 1 .. Len(Restored(s)) : Restored(s)[i] \in URLs
  BY <1>4, ListProperties
<1>6. RestoredActive(s) \in 1 .. Len(Restored(s))
  <2>1. CASE s.active \in DOMAIN s.urls
    <3>1. s.urls # <<>>
      BY <2>1, <1>1
    <3> QED  BY <2>1, <3>1, <1>1, <1>4 DEF RestoredActive
  <2>2. CASE s.active \notin DOMAIN s.urls
    BY <2>2, <1>2, <1>4 DEF RestoredActive
  <2> QED  BY <2>1, <2>2
<1>7. RestoredURL(s) \in [TabIDs -> URLs]
  BY <1>2, <1>5 DEF RestoredURL
<1> QED  BY <1>4, <1>5, <1>6, <1>7

(* The state a process starts in.                                          *)
Started ==
    /\ SessionFits
    /\ nextID = Len(Restored(session)) + 1
    /\ tabs = [i \in DOMAIN Restored(session) |-> i]
    /\ active = RestoredActive(session)
    /\ isActive = [t \in TabIDs |-> t = active]
    /\ url = RestoredURL(session)
    /\ back = [t \in TabIDs |-> <<>>] /\ forward = back
    /\ closedStack = <<>>
    /\ windows = {} /\ injected = {}

(* It satisfies the invariant, whatever the session.                       *)
LEMMA StartedInv == Started => ShellInv
<1> SUFFICES ASSUME Started PROVE ShellInv
  OBVIOUS
<1>1. PICK n \in 1 .. MaxTabs : n = Len(Restored(session))
  BY RestoredProperties DEF Started, SessionFits
<1>2. /\ tabs = [i \in 1 .. n |-> i] /\ nextID = n + 1 /\ active \in 1 .. n
      /\ url \in [TabIDs -> URLs]
  BY <1>1, RestoredProperties DEF Started, SessionFits
<1>3. MaxTabs \in Nat /\ n \in Nat /\ n >= 1 /\ 1 .. n \subseteq TabIDs
  BY TabAssumption DEF TabAssumption, TabIDs
<1>4. tabs \in Seq(TabIDs) /\ Len(tabs) = n /\ DOMAIN tabs = 1 .. n
  BY <1>2, <1>3
<1>5. closedStack = <<>> /\ Len(closedStack) = 0 /\ DOMAIN closedStack = {}
  BY EmptySeq DEF Started
<1>6. TabsTypeOK
  <2>1. nextID \in 1 .. MaxTabs + 1 /\ active \in TabIDs
    BY <1>2, <1>3
  <2>2. closedStack \in Seq(TabIDs) /\ Len(closedStack) <= MaxClosed
    BY <1>5, TabAssumption DEF TabAssumption
  <2>3. isActive \in [TabIDs -> BOOLEAN]
    BY DEF Started
  <2>4. back \in [TabIDs -> Seq(URLs)] /\ forward \in [TabIDs -> Seq(URLs)]
    BY EmptySeq DEF Started
  <2> QED  BY <1>2, <1>4, <2>1, <2>2, <2>3, <2>4 DEF TabsTypeOK
<1>7. InPlace
  BY <1>2, <1>3, <1>4, <1>5 DEF InPlace, Distinct, Disjoint, Below
<1>8. OneActiveTab
  <2>1. IsOpen(active) /\ tabs # <<>>
    BY <1>2, <1>3, <1>4 DEF IsOpen
  <2>2. active # NoTab
    BY <1>2, <1>3, TabAssumption DEF TabAssumption, TabIDs
  <2> QED  BY <2>1, <2>2 DEF Started, OneActiveTab
<1>9. OutsideTheTabs /\ FlagsGivenOut /\ InjectedTracksOpenTabs /\ NothingAhead
  <2>1. windows = {} /\ injected = {} /\ SessionFits
    BY DEF Started
  <2>2. \A t \in TabIDs : back[t] = <<>> /\ forward[t] = <<>> /\ (isActive[t] => t = active)
    BY DEF Started
  <2>3. active < nextID
    BY <1>2, <1>3
  <2> QED  BY <2>1, <2>2, <2>3 DEF OutsideTheTabs, FlagsGivenOut, InjectedTracksOpenTabs, NothingAhead
<1> QED  BY <1>6, <1>7, <1>8, <1>9, FreshIDs DEF TabsInv, ShellInv

(* What Close writes is a session of at most MaxTabs tabs.                 *)
LEMMA SavedFits ==
    ASSUME ShellInv
    PROVE  Saved \in Sessions /\ Len(Saved.urls) <= MaxTabs
<1>1. /\ tabs \in Seq(TabIDs) /\ Len(tabs) \in Nat /\ DOMAIN tabs = 1 .. Len(tabs)
      /\ \A i \in 1 .. Len(tabs) : tabs[i] \in TabIDs
      /\ Len(closedStack) \in Nat
  BY ListProperties DEF ShellInv, TabsInv, TabsTypeOK
<1>2. Len(tabs) <= MaxTabs
  BY <1>1, TabAssumption DEF ShellInv, TabsInv, TabsTypeOK, InPlace, TabAssumption
<1>3. PICK urls : urls = [i \in 1 .. Len(tabs) |-> url[tabs[i]]]
  OBVIOUS
<1>4. urls \in Seq(URLs) /\ Len(urls) = Len(tabs)
  BY <1>1, <1>3 DEF ShellInv, TabsInv, TabsTypeOK
<1>5. Saved = [urls |-> urls, active |-> active]
  BY <1>1, <1>3 DEF Saved
<1>6. active \in TabIDs \cup {NoTab}
  BY DEF ShellInv, TabsInv, TabsTypeOK
<1> QED  BY <1>2, <1>4, <1>5, <1>6 DEF Sessions

(* A restart, after a save or a crash, is a start from a fitting session.  *)
LEMMA RestartStarts ==
    ASSUME ShellInv, Restart
    PROVE  Started'
<1>1. SessionFits'
  BY SavedFits DEF Restart, ShellInv, OutsideTheTabs, SessionFits
<1> QED  BY <1>1 DEF Restart, Started

(* The first process starts without a session.                             *)
LEMMA InitStarts == Init => Started
<1> SUFFICES ASSUME Init PROVE Started
  OBVIOUS
<1>1. session = NoSession /\ <<>> \in Seq(URLs) /\ Len(<<>>) = 0
  BY EmptySeq DEF Init
<1>2. SessionFits
  BY <1>1, TabAssumption DEF SessionFits, Sessions, NoSession, TabAssumption
<1> QED  BY <1>2 DEF Init, Started

(* Every step of the shell keeps the invariant.                            *)
LEMMA ShellInvStep ==
    ASSUME ShellInv, [Next]_vars
    PROVE  ShellInv'
<1>1. CASE NewTab
  BY <1>1, NewTabInv
<1>2. CASE CreateInactiveTab \/ ReopenTab
  BY <1>2, CreateInactiveTabInv, ReopenTabInv
<1>3. ASSUME NEW t \in TabIDs, RemoveTab(t) \/ ActivateTab(t) \/ UpdateTab(t)
      PROVE  ShellInv'
  BY <1>3, RemoveTabInv, ActivateTabInv
<1>4. CASE NavigateActive
  BY <1>4, NavigateActiveInv
<1>5. CASE GoBack \/ GoForward
  BY <1>5, GoBackForwardInv
<1>6. CASE CloseActiveWindow
  BY <1>6, CloseActiveWindowInv
<1>7. CASE Restart
  BY <1>7, RestartStarts, StartedInv, PTL
<1>8. CASE UNCHANGED vars
  <2>1. TabsInv'
    BY <1>8, SameBarInv DEF ShellInv, TabsInv, TabsTypeOK, vars, tabVars, navs
  <2> QED  BY <2>1, <1>8 DEF ShellInv, vars, tabVars, navs, shellVars, OutsideTheTabs,
                SessionFits, FlagsGivenOut, FreshIDsAreClean, InjectedTracksOpenTabs, IsOpen
<1> QED  BY <1>1, <1>2, <1>3, <1>4, <1>5, <1>6, <1>7, <1>8 DEF Next

-----------------------------------------------------------------------------
(* The inductive invariant of the shell holds.                             *)
THEOREM ShellInvariant == Spec => []ShellInv
<1>1. Init => ShellInv
  BY InitStarts, StartedInv
<1>2. ShellInv /\ [Next]_vars => ShellInv'
  BY ShellInvStep
<1> QED  BY <1>1, <1>2, PTL DEF Spec

(* Tabs, windows, script records and the session file keep their types.    *)
THEOREM ShellTypeCorrect == Spec => []TypeOK
<1>1. ShellInv => TypeOK
  BY DEF ShellInv, TabsInv, OutsideTheTabs, SessionFits, TypeOK
<1> QED  BY <1>1, ShellInvariant, PTL

(* Whatever closes a tab, the record of the scripts injected into it goes  *)
(* with it, and a tab that is opened again gets its scripts again.         *)
THEOREM ScriptRecordsFollowTabs == Spec => []InjectedTracksOpenTabs
<1>1. ShellInv => InjectedTracksOpenTabs
  BY DEF ShellInv
<1> QED  BY <1>1, ShellInvariant, PTL

(* The tab bar keeps its promise among all the events of the shell, those  *)
(* that add a tab and activate another one and those of a restart too.     *)
THEOREM ShellActiveTabUnique == Spec => []OneActiveTab
<1>1. ShellInv => OneActiveTab
  BY DEF ShellInv, TabsInv
<1> QED  BY <1>1, ShellInvariant, PTL

(* A session that was saved comes back: the same pages in the same order,  *)
(* and one of them active.                                                 *)
THEOREM SessionsComeBack == Spec => SessionKeepsTabs
<1>1. ASSUME ShellInv, Restart, session'.urls # <<>>
      PROVE  /\ [i \in DOMAIN tabs' |-> url'[tabs'[i]]] = session'.urls
             /\ Contains(tabs', active')
  <2>1. PICK s : s = session'
    OBVIOUS
  <2>2. s \in Sessions /\ Len(s.urls) <= MaxTabs /\ s.urls # <<>>
    BY <1>1, <2>1, RestartStarts DEF Started, SessionFits
  <2>3. /\ tabs' = [i \in DOMAIN Restored(s) |-> i]
        /\ active' = RestoredActive(s) /\ url' = RestoredURL(s)
    BY <1>1, <2>1 DEF Restart
  <2>4. Restored(s) = s.urls /\ s.urls \in Seq(URLs) /\ DOMAIN s.urls = 1 .. Len(s.urls)
    BY <2>2, ListProperties DEF Restored, Sessions
  <2>5. 1 .. Len(s.urls) \subseteq TabIDs
    BY <2>2, <2>4, ListProperties, TabAssumption DEF TabIDs, TabAssumption
  <2>6. \A i \in 1 .. Len(s.urls) : url'[tabs'[i]] = s.urls[i]
    BY <2>3, <2>4, <2>5 DEF RestoredURL
  <2>7. DOMAIN tabs' = 1 .. Len(s.urls)
    BY <2>3, <2>4
  <2>8. [i \in DOMAIN tabs' |-> url'[tabs'[i]]] = s.urls
    BY <2>4, <2>6, <2>7
  <2>9. active' \in 1 .. Len(s.urls)
    BY <2>2, <2>3, <2>4, RestoredProperties
  <2>10. tabs'[active'] = active'
    BY <2>3, <2>4, <2>9
  <2> QED  BY <2>1, <2>7, <2>8, <2>9, <2>10 DEF Contains
<1>2. ShellInv /\ [Next]_vars =>
        [Restart /\ session'.urls # <<>>
           => /\ [i \in DOMAIN tabs' |-> url'[tabs'[i]]] = session'.urls
              /\ Contains(tabs', active')]_vars
  BY <1>1
<1> QED  BY <1>2, ShellInvariant, PTL DEF Spec, SessionKeepsTabs

-----------------------------------------------------------------------------
(* What the lists of the other parts rest on: the naturals are well      *)
(* founded, so that a recursive function is defined and induction proves   *)
(* what it computes.                                                       *)

(* A set of naturals has a least element: induction, told of sets.         *)
LEMMA LeastElement ==
    ASSUME NEW S \in SUBSET Nat, S # {}
    PROVE  \E m \in S : \A n \in S : m <= n
<1> DEFINE R == {ss \in Nat \X Nat : ss[1] < ss[2]}
<1>1. IsWellFoundedOn(R, Nat)
  BY NatLessThanWellFounded DEF OpToRel
<1>2. \A m, n \in S : /\ <<n, m>> \in R <=> n < m
                      /\ n < m \/ m <= n
  OBVIOUS
<1> HIDE DEF R
<1>3. \E m \in S : \A n \in S : ~ (<<n, m>> \in R)
  BY <1>1, WFMin
<1> QED BY <1>2, <1>3

(* Induction over a stretch of the naturals, told of sets.                 *)
LEMMA AllUpTo ==
    ASSUME NEW N \in Nat, NEW P, 0 \in P, \A n \in 1..N : n - 1 \in P => n \in P
    PROVE  \A n \in 0..N : n \in P
<1> SUFFICES ASSUME NEW k \in 0..N, k \notin P PROVE FALSE
  OBVIOUS
<1> DEFINE Bad == {n \in 0..N : n \notin P}
<1>1. PICK m \in Bad : \A n \in Bad : m <= n
  <2>1. Bad \in SUBSET Nat /\ Bad # {}
    OBVIOUS
  <2> HIDE DEF Bad
  <2> QED  BY <2>1, LeastElement
<1>2. m \in 1..N /\ m - 1 \in 0..N /\ m \notin P
  BY <1>1
<1>3. m - 1 \notin Bad
  BY <1>1, <1>2
<1> QED  BY <1>2, <1>3

(* A function can be defined by what it is at 0 and by a step from each    *)
(* number to the next.                                                     *)
StaysIn(step, N, V) == \A n \in 1..N : \A x \in V : step[n][x] \in V
IsRun(f, v, step, N, V) == f \in [0..N -> V] /\ f[0] = v /\ \A n \in 1..N : f[n] = step[n][f[n - 1]]

LEMMA DefinedUpTo ==
    ASSUME NEW N \in Nat, NEW V, NEW v \in V, NEW step, StaysIn(step, N, V)
    PROVE  \E f : IsRun(f, v, step, N, V)
<1> DEFINE P == {m \in 0..N : \E f : IsRun(f, v, step, m, V)}
<1>1. 0 \in P
  <2>1. IsRun([n \in 0..0 |-> v], v, step, 0, V)
    BY DEF IsRun
  <2>2. 0 \in 0..N
    OBVIOUS
  <2> QED  BY <2>1, <2>2
<1>2. ASSUME NEW m \in 1..N, m - 1 \in P PROVE m \in P
  <2>1. PICK f : IsRun(f, v, step, m - 1, V)
    BY <1>2
  <2> DEFINE g == [n \in 0..m |-> IF n = m THEN step[m][f[m - 1]] ELSE f[n]]
  <2>2. m \in Nat /\ m >= 1 /\ m - 1 \in 0..m - 1 /\ m \in 0..N
    OBVIOUS
  <2>3. f[m - 1] \in V
    BY <2>1, <2>2 DEF IsRun
  <2>4. step[m][f[m - 1]] \in V
    BY <2>3 DEF StaysIn
  <2>5. \A n \in 0..m : n # m => n \in 0..m - 1
    BY <2>2
  <2>6. g \in [0..m -> V]
    BY <2>1, <2>4, <2>5 DEF IsRun
  <2>7. g[0] = v
    BY <2>1, <2>2 DEF IsRun
  <2>8. ASSUME NEW n \in 1..m PROVE g[n] = step[n][g[n - 1]]
    <3>1. n - 1 \in 0..m /\ n - 1 # m /\ n \in 0..m /\ n - 1 \in 0..m - 1
      BY <2>2
    <3>2. g[n - 1] = f[n - 1]
      BY <3>1
    <3>3. CASE n = m
      BY <3>1, <3>2, <3>3
    <3>4. CASE n # m
      <4>1. n \in 1..m - 1
        BY <2>2, <3>4
      <4>2. g[n] = f[n] /\ f[n] = step[n][f[n - 1]]
        BY <2>1, <3>1, <3>4, <4>1 DEF IsRun
      <4> QED  BY <3>2, <4>2
    <3> QED  BY <3>3, <3>4
  <2> HIDE DEF g
  <2>9. IsRun(g, v, step, m, V)
    BY <2>6, <2>7, <2>8 DEF IsRun
  <2> QED  BY <2>2, <2>9
<1>3. N \in P
  <2> HIDE DEF P
  <2>1. \A n \in 0..N : n \in P
    BY <1>1, <1>2, AllUpTo
  <2> QED  BY <2>1
<1> QED  BY <1>3

(* The list of the elements chosen among the first n.                      *)
LEMMA ChosenSteps ==
    ASSUME NEW T, NEW s \in Seq(T), NEW S
    PROVE  \E f \in [0..Len(s) -> Seq(T)] :
               /\ f[0] = <<>> /\ Chosen(s, S) = f[Len(s)]
               /\ \A n \in 1..Len(s) : f[n] = IF s[n] \in S THEN Append(f[n - 1], s[n]) ELSE f[n - 1]
<1> DEFINE N == Len(s)
           V == Seq(T)
           step == [n \in 1..N |-> [x \in V |-> IF s[n] \in S THEN Append(x, s[n]) ELSE x]]
           Upon(f) == [n \in 0..N |-> IF n = 0 THEN <<>>
                                      ELSE IF s[n] \in S THEN Append(f[n - 1], s[n]) ELSE f[n - 1]]
<1>1. N \in Nat /\ \A n \in 1..N : s[n] \in T
  BY ListProperties
<1>2. <<>> \in V
  OBVIOUS
<1>3. \A x \in V, n \in 1..N : (IF s[n] \in S THEN Append(x, s[n]) ELSE x) \in V
  BY <1>1, AppendProperties
<1>4. \A x \in V, n \in 1..N : step[n][x] = IF s[n] \in S THEN Append(x, s[n]) ELSE x
  OBVIOUS
<1>5. StaysIn(step, N, V)
  <2> HIDE DEF step, V, N
  <2> QED  BY <1>3, <1>4 DEF StaysIn
<1>6. PICK f : IsRun(f, <<>>, step, N, V)
  <2> HIDE DEF N, V, step
  <2> QED  BY <1>1, <1>2, <1>5, DefinedUpTo
<1>7. ASSUME NEW n \in 1..N PROVE f[n] = IF s[n] \in S THEN Append(f[n - 1], s[n]) ELSE f[n - 1]
  <2>1. n - 1 \in 0..N
    BY <1>1
  <2> HIDE DEF step, V, N
  <2>2. f[n - 1] \in V /\ f[n] = step[n][f[n - 1]]
    BY <1>6, <2>1 DEF IsRun
  <2> QED  BY <1>4, <2>2
<1>8. f = Upon(f)
  <2>1. \A n \in 0..N : n # 0 => n \in 1..N
    BY <1>1
  <2>2. f[0] = <<>> /\ f = [n \in 0..N |-> f[n]]
    BY <1>6 DEF IsRun
  <2>3. \A n \in 0..N : f[n] = Upon(f)[n]
    BY <1>7, <2>1, <2>2
  <2> HIDE DEF N
  <2> QED  BY <2>2, <2>3
<1> DEFINE F == CHOOSE g : g = Upon(g)
<1>9. F = Upon(F)
  <2> HIDE DEF Upon
  <2> QED  BY <1>8
<1>10. Chosen(s, S) = F[N]
  BY DEF Chosen
<1> HIDE DEF F
<1>11. /\ F[0] = <<>>
       /\ \A n \in 1..N : F[n] = IF s[n] \in S THEN Append(F[n - 1], s[n]) ELSE F[n - 1]
  <2>1. 0 \in 0..N /\ \A n \in 1..N : n # 0 /\ n \in 0..N
    BY <1>1
  <2>2. F[0] = Upon(F)[0] /\ \A n \in 1..N : F[n] = Upon(F)[n]
    BY <1>9
  <2> QED  BY <2>1, <2>2
<1>12. DOMAIN F = 0..N /\ F = [n \in 0..N |-> F[n]]
  BY <1>9
<1>13. \A n \in 0..N : F[n] \in V
  <2> DEFINE P == {n \in 0..N : F[n] \in V}
  <2>1. 0 \in P
    <3>1. 0 \in 0..N
      BY <1>1
    <3> HIDE DEF V, N
    <3> QED  BY <3>1, <1>2, <1>11
  <2>2. ASSUME NEW n \in 1..N, n - 1 \in P PROVE n \in P
    <3>1. n \in 0..N /\ F[n - 1] \in V
      BY <1>1, <2>2
    <3> HIDE DEF V
    <3> QED  BY <1>3, <1>11, <3>1
  <2> HIDE DEF P
  <2>3. \A n \in 0..N : n \in P
    BY <1>1, <2>1, <2>2, AllUpTo
  <2> QED  BY <2>3 DEF P
<1> HIDE DEF V
<1>14. F \in [0..N -> V]
  BY <1>12, <1>13
<1> QED  BY <1>10, <1>11, <1>14 DEF V

LEMMA ListExtended ==
    ASSUME NEW S, NEW s \in Seq(S), NEW c \in S
    PROVE  /\ Append(s, c) \in Seq(S) /\ Len(s) \in Nat /\ DOMAIN s = 1 .. Len(s)
           /\ Len(Append(s, c)) = Len(s) + 1 /\ DOMAIN Append(s, c) = 1 .. Len(s) + 1
           /\ Append(s, c)[Len(s) + 1] = c
           /\ \A k \in DOMAIN s : Append(s, c)[k] = s[k]
           /\ \A k \in DOMAIN Append(s, c) : k \in DOMAIN s \/ k = Len(s) + 1
<1>1. /\ Append(s, c) \in Seq(S) /\ Len(Append(s, c)) = Len(s) + 1
      /\ \A k \in 1 .. Len(s) : Append(s, c)[k] = s[k]
      /\ Append(s, c)[Len(s) + 1] = c
  BY AppendProperties
<1>2. DOMAIN Append(s, c) = 1 .. Len(s) + 1 /\ DOMAIN s = 1 .. Len(s) /\ Len(s) \in Nat
  BY <1>1, ListProperties
<1>3. \A k \in 1 .. Len(s) + 1 : k \in 1 .. Len(s) \/ k = Len(s) + 1
  BY <1>2
<1> QED  BY <1>1, <1>2, <1>3

(* t has the elements of s before n that are in S, once each if s has.     *)
IsChoice(t, s, n, S) ==
    /\ Len(t) <= n
    /\ \A i \in DOMAIN t : t[i] \in S /\ \E k \in 1..n : s[k] = t[i]
    /\ \A k \in 1..n : s[k] \in S => \E i \in DOMAIN t : t[i] = s[k]
    /\ (\A i, j \in 1..n : s[i] = s[j] => i = j) => \A i, j \in DOMAIN t : t[i] = t[j] => i = j
    /\ (\A k \in 1..n : s[k] \in S) => Len(t) = n /\ \A k \in 1..n : t[k] = s[k]

LEMMA ChoiceMade ==
    ASSUME NEW T, NEW s \in Seq(T), NEW S
    PROVE  Chosen(s, S) \in Seq(T) /\ IsChoice(Chosen(s, S), s, Len(s), S)
<1> DEFINE N == Len(s)
<1>1. N \in Nat /\ \A n \in 1..N : s[n] \in T
  BY ListProperties
<1>2. PICK f \in [0..N -> Seq(T)] :
          /\ f[0] = <<>> /\ Chosen(s, S) = f[N]
          /\ \A n \in 1..N : f[n] = IF s[n] \in S THEN Append(f[n - 1], s[n]) ELSE f[n - 1]
  BY ChosenSteps
<1> HIDE DEF N
<1> DEFINE P == {n \in 0..N : IsChoice(f[n], s, n, S)}
<1>3. 0 \in P
  <2>1. 0 \in 0..N /\ DOMAIN f[0] = {} /\ Len(f[0]) = 0 /\ 1..0 = {}
    BY <1>1, <1>2
  <2>2. IsChoice(f[0], s, 0, S)
    BY <2>1 DEF IsChoice
  <2> QED  BY <2>1, <2>2
<1>4. ASSUME NEW n \in 1..N, n - 1 \in P PROVE n \in P
  <2> DEFINE t == f[n - 1]
             u == f[n]
  <2>1. n \in 0..N /\ n - 1 \in 0..N /\ n \in 1..n /\ n - 1 \in Nat /\ n \in Nat
    BY <1>1
  <2>2. t \in Seq(T) /\ u \in Seq(T) /\ s[n] \in T
    BY <1>1, <1>2, <2>1
  <2>3. IsChoice(t, s, n - 1, S)
    BY <1>4
  <2>4. u = IF s[n] \in S THEN Append(t, s[n]) ELSE t
    BY <1>2
  <2>5. 1..n - 1 \subseteq 1..n /\ \A k \in 1..n : k # n => k \in 1..n - 1
    BY <2>1
  <2>6. DOMAIN t = 1..Len(t) /\ Len(t) \in Nat
    BY <2>2, ListProperties
  <2> HIDE DEF t, u
  <2>7. CASE s[n] \notin S
    <3>1. u = t
      BY <2>4, <2>7
    <3>2. Len(t) <= n
      BY <2>1, <2>3, <2>6 DEF IsChoice
    <3>3. \A i \in DOMAIN t : t[i] \in S /\ \E k \in 1..n : s[k] = t[i]
      BY <2>3, <2>5 DEF IsChoice
    <3>4. \A k \in 1..n : s[k] \in S => \E i \in DOMAIN t : t[i] = s[k]
      BY <2>3, <2>5, <2>7 DEF IsChoice
    <3>5. (\A i, j \in 1..n : s[i] = s[j] => i = j) => \A i, j \in DOMAIN t : t[i] = t[j] => i = j
      BY <2>3, <2>5 DEF IsChoice
    <3>6. ~ \A k \in 1..n : s[k] \in S
      BY <2>1, <2>7
    <3>7. IsChoice(u, s, n, S)
      BY <3>1, <3>2, <3>3, <3>4, <3>5, <3>6 DEF IsChoice
    <3> QED  BY <2>1, <3>7 DEF u
  <2>8. CASE s[n] \in S
    <3>1. u = Append(t, s[n])
      BY <2>4, <2>8
    <3>2. /\ Len(u) = Len(t) + 1 /\ DOMAIN u = 1..Len(t) + 1
          /\ u[Len(t) + 1] = s[n] /\ \A k \in DOMAIN t : u[k] = t[k]
          /\ \A k \in DOMAIN u : k \in DOMAIN t \/ k = Len(t) + 1
      BY <2>2, <3>1, ListExtended
    <3>3. DOMAIN t \subseteq DOMAIN u /\ Len(t) + 1 \in DOMAIN u
      BY <2>6, <3>2
    <3>4. Len(u) <= n
      BY <2>1, <2>3, <2>6, <3>2 DEF IsChoice
    <3>5. \A i \in DOMAIN u : u[i] \in S /\ \E k \in 1..n : s[k] = u[i]
      <4>1. \A i \in DOMAIN t : u[i] \in S /\ \E k \in 1..n - 1 : s[k] = u[i]
        BY <2>3, <3>2 DEF IsChoice
      <4>2. \A i \in DOMAIN t : u[i] \in S /\ \E k \in 1..n : s[k] = u[i]
        BY <2>5, <4>1
      <4> QED  BY <2>1, <2>8, <3>2, <4>2
    <3>6. \A k \in 1..n : s[k] \in S => \E i \in DOMAIN u : u[i] = s[k]
      <4>1. \A k \in 1..n - 1 : s[k] \in S => \E i \in DOMAIN t : t[i] = s[k]
        BY <2>3 DEF IsChoice
      <4> QED  BY <2>5, <3>2, <3>3, <4>1
    <3>7. (\A i, j \in 1..n : s[i] = s[j] => i = j) => \A i, j \in DOMAIN u : u[i] = u[j] => i = j
      <4> SUFFICES ASSUME \A i, j \in 1..n : s[i] = s[j] => i = j, NEW i \in DOMAIN u, NEW j \in DOMAIN u,
                          u[i] = u[j]
                   PROVE  i = j
        OBVIOUS
      <4>1. \A a, b \in DOMAIN t : t[a] = t[b] => a = b
        BY <2>3, <2>5 DEF IsChoice
      <4>2. \A a \in DOMAIN t : t[a] # s[n]
        <5>1. \A a \in DOMAIN t : \E k \in 1..n - 1 : s[k] = t[a]
          BY <2>3 DEF IsChoice
        <5>2. \A k \in 1..n - 1 : k # n /\ k \in 1..n
          BY <2>1
        <5> QED  BY <2>1, <5>1, <5>2
      <4> QED  BY <3>2, <4>1, <4>2
    <3>8. (\A k \in 1..n : s[k] \in S) => Len(u) = n /\ \A k \in 1..n : u[k] = s[k]
      <4> SUFFICES ASSUME \A k \in 1..n : s[k] \in S PROVE Len(u) = n /\ \A k \in 1..n : u[k] = s[k]
        OBVIOUS
      <4>1. Len(t) = n - 1 /\ \A k \in 1..n - 1 : t[k] = s[k]
        BY <2>3, <2>5 DEF IsChoice
      <4>2. Len(t) + 1 = n /\ DOMAIN t = 1..n - 1
        BY <2>1, <2>6, <4>1
      <4> QED  BY <2>5, <3>2, <4>1, <4>2
    <3>9. IsChoice(u, s, n, S)
      BY <3>4, <3>5, <3>6, <3>7, <3>8 DEF IsChoice
    <3> QED  BY <2>1, <3>9 DEF u
  <2> QED  BY <2>1, <2>7, <2>8 DEF u
<1>5. \A n \in 0..N : n \in P
  <2> HIDE DEF P
  <2> QED  BY <1>1, <1>3, <1>4, AllUpTo
<1>6. N \in 0..N
  BY <1>1
<1> QED  BY <1>2, <1>5, <1>6 DEF N

LEMMA ChosenProperties ==
    ASSUME NEW T, NEW s \in Seq(T), NEW S
    PROVE  /\ Chosen(s, S) \in Seq(T) /\ Len(Chosen(s, S)) <= Len(s)
           /\ \A i \in DOMAIN Chosen(s, S) : Chosen(s, S)[i] \in S /\ \E k \in DOMAIN s : s[k] = Chosen(s, S)[i]
           /\ \A k \in DOMAIN s : s[k] \in S => \E i \in DOMAIN Chosen(s, S) : Chosen(s, S)[i] = s[k]
           /\ IsInjective(s) => IsInjective(Chosen(s, S))
           /\ (\A k \in DOMAIN s : s[k] \in S) => Chosen(s, S) = s
<1> DEFINE t == Chosen(s, S)
<1>1. t \in Seq(T) /\ IsChoice(t, s, Len(s), S) /\ DOMAIN s = 1..Len(s) /\ DOMAIN t = 1..Len(t)
  BY ChoiceMade, ListProperties
<1> HIDE DEF t
<1>2. (\A k \in DOMAIN s : s[k] \in S) => t = s
  BY <1>1, SeqEqual DEF IsChoice
<1>3. IsInjective(s) => IsInjective(t)
  BY <1>1 DEF IsChoice, IsInjective
<1> QED  BY <1>1, <1>2, <1>3 DEF IsChoice, t

-----------------------------------------------------------------------------
(* The suspender.  Neither a closed tab nor one that is opened again takes *)
(* a record with it, so that the table is as the flags of the tabs; every  *)
(* limit there was is below the roomiest.                                  *)
TabsOfTheStrip ==
    /\ opened \in 0..MostTabs
    /\ strip \in Seq(1..opened) /\ shut \in Seq(1..opened)
    /\ Len(strip) + Len(shut) <= opened
    /\ front \in InStrip \cup {0}

TableOfTheSuspender ==
    /\ records = asleep /\ records \subseteq Numbers
    /\ limit \in Limits /\ roomiest \in Nat
    /\ Allowed(limit) <= roomiest /\ Cardinality(records) <= roomiest

SweepsAreDone == sweptLast => Full(records) \/ \A t \in InStrip : ~Inactive(t)

SuspensionInv == TabsOfTheStrip /\ TableOfTheSuspender /\ SweepsAreDone

LEMMA SetsOfTabs ==
    ASSUME NEW S \in SUBSET Numbers
    PROVE  IsFiniteSet(S) /\ Cardinality(S) \in Nat /\ Cardinality(S) <= MostTabs
<1>1. IsFiniteSet(Numbers) /\ Cardinality(Numbers) = MostTabs
  <2>1. MostTabs \in Nat
    BY SuspensionAssumption DEF SuspensionAssumption
  <2> QED  BY <2>1, FS_Interval DEF Numbers
<1> QED  BY <1>1, FS_Subset, FS_CardinalityType

LEMMA StripProperties ==
    TabsOfTheStrip => /\ DOMAIN strip = 1..Len(strip) /\ Len(strip) \in Nat /\ Len(strip) <= MostTabs
                      /\ \A i \in DOMAIN strip : strip[i] \in 1..opened
                      /\ InStrip \subseteq Numbers
<1> SUFFICES ASSUME TabsOfTheStrip
             PROVE  /\ DOMAIN strip = 1..Len(strip) /\ Len(strip) \in Nat /\ Len(strip) <= MostTabs
                    /\ \A i \in DOMAIN strip : strip[i] \in 1..opened
                    /\ InStrip \subseteq Numbers
  OBVIOUS
<1>1. MostTabs \in Nat /\ opened \in 0..MostTabs /\ strip \in Seq(1..opened) /\ shut \in Seq(1..opened)
  BY SuspensionAssumption DEF SuspensionAssumption, TabsOfTheStrip
<1>2. /\ DOMAIN strip = 1..Len(strip) /\ Len(strip) \in Nat /\ Len(shut) \in Nat
      /\ \A i \in 1..Len(strip) : strip[i] \in 1..opened
  BY <1>1, ListProperties
<1>3. Len(strip) <= MostTabs
  BY <1>1, <1>2 DEF TabsOfTheStrip
<1>4. 1..opened \subseteq Numbers
  BY <1>1 DEF Numbers
<1> QED  BY <1>2, <1>3, <1>4 DEF InStrip

(* What a sweep leaves: no more records than the limit or than there were, *)
(* and every inactive tab has one unless the table is full.                *)
LEMMA SweptProperties ==
    ASSUME TabsOfTheStrip, TableOfTheSuspender
    PROVE  /\ Swept \subseteq Numbers /\ records \subseteq Swept
           /\ Cardinality(Swept) <= roomiest
           /\ Full(Swept) \/ \A t \in InStrip : Inactive(t) => t \in Swept
<1> DEFINE N == Len(strip)
           Taken == {j \in DOMAIN strip : Inactive(strip[j]) /\ ~Full(Before(j))}
<1>1. /\ DOMAIN strip = 1..N /\ N \in Nat /\ \A i \in DOMAIN strip : strip[i] \in Numbers
      /\ InStrip \subseteq Numbers /\ records \subseteq Numbers
      /\ limit \in Nat /\ roomiest \in Nat /\ MostTabs \in Nat
  BY StripProperties, SuspensionAssumption DEF InStrip, TableOfTheSuspender, SuspensionAssumption
<1>2. Swept = records \cup {strip[i] : i \in Taken}
  BY DEF Swept
<1>3. Taken \subseteq 1..N
  BY <1>1
<1>4. Swept \subseteq Numbers /\ records \subseteq Swept
  BY <1>1, <1>2, <1>3
<1>5. \A i \in 1..N : Before(i) \subseteq Numbers
  <2> SUFFICES ASSUME NEW i \in 1..N PROVE Before(i) \subseteq Numbers
    OBVIOUS
  <2>1. \A j \in 1..i - 1 : j \in 1..N
    BY <1>1
  <2> QED  BY <1>1, <2>1 DEF Before
<1> HIDE DEF Taken, N
<1>6. Cardinality(Swept) <= roomiest
  <2>1. CASE limit = 0
    <3>1. MostTabs <= roomiest
      BY <2>1 DEF TableOfTheSuspender, Allowed
    <3> QED  BY <1>1, <1>4, <3>1, SetsOfTabs
  <2>2. CASE Taken = {}
    <3>1. Swept = records
      BY <1>2, <2>2
    <3> QED  BY <3>1 DEF TableOfTheSuspender
  <2>3. CASE limit # 0 /\ Taken # {}
    <3> DEFINE Left == {N - i : i \in Taken}
    <3>1. Left \in SUBSET Nat /\ Left # {}
      BY <1>1, <1>3, <2>3
    <3>2. PICK l \in Left : \A k \in Left : l <= k
      <4> HIDE DEF Left
      <4> QED  BY <3>1, LeastElement
    <3>3. PICK m \in Taken : l = N - m
      BY <3>2
    <3>4. \A i \in Taken : i <= m
      <4> SUFFICES ASSUME NEW i \in Taken PROVE i <= m
        OBVIOUS
      <4>1. N - m <= N - i
        BY <3>2, <3>3
      <4>2. i \in Nat /\ m \in Nat
        BY <1>1, <1>3
      <4> QED  BY <1>1, <4>1, <4>2
    <3>5. m \in 1..N /\ strip[m] \in Numbers /\ ~Full(Before(m))
      BY <1>1, <1>3 DEF Taken
    <3>6. \A i \in Taken : i # m => i \in 1..m - 1 /\ Inactive(strip[i])
      <4> SUFFICES ASSUME NEW i \in Taken, i # m PROVE i \in 1..m - 1 /\ Inactive(strip[i])
        OBVIOUS
      <4>1. i \in 1..N /\ i <= m /\ N \in Nat
        BY <1>1, <1>3, <3>4
      <4>2. i \in 1..m - 1
        BY <3>5, <4>1
      <4> QED  BY <4>2 DEF Taken
    <3>7. Swept \subseteq Before(m) \cup {strip[m]}
      BY <1>2, <3>6 DEF Before
    <3>8. Cardinality(Before(m)) < limit /\ Cardinality(Before(m)) \in Nat /\ IsFiniteSet(Before(m))
      BY <1>1, <1>5, <2>3, <3>5, SetsOfTabs DEF Full
    <3> DEFINE More == Before(m) \cup {strip[m]}
    <3>9. More \subseteq Numbers
      BY <1>5, <3>5
    <3>10. Cardinality(More) <= Cardinality(Before(m)) + 1
      <4>1. PICK table, t : table = Before(m) /\ t = strip[m]
        OBVIOUS
      <4>2. IsFiniteSet(table) /\ Cardinality(table) \in Nat
        BY <3>8, <4>1
      <4>3. Cardinality(table \cup {t}) = IF t \in table THEN Cardinality(table) ELSE Cardinality(table) + 1
        BY <4>2, FS_AddElement
      <4>4. Cardinality(table \cup {t}) <= Cardinality(table) + 1
        BY <4>2, <4>3
      <4> QED  BY <4>1, <4>4
    <3> HIDE DEF More
    <3>11. Cardinality(Swept) <= Cardinality(More) /\ Cardinality(Swept) \in Nat /\ Cardinality(More) \in Nat
      BY <1>4, <3>7, <3>9, SetsOfTabs, FS_Subset DEF More
    <3>12. limit <= roomiest
      BY <2>3 DEF TableOfTheSuspender, Allowed
    <3> QED  BY <1>1, <3>8, <3>10, <3>11, <3>12
  <2> QED  BY <2>1, <2>2, <2>3
<1>7. Full(Swept) \/ \A t \in InStrip : Inactive(t) => t \in Swept
  <2> DEFINE Passed == {j \in 1..N : Inactive(strip[j]) /\ Full(Before(j))}
  <2>1. CASE Passed = {}
    <3> SUFFICES ASSUME NEW t \in InStrip, Inactive(t) PROVE t \in Swept
      OBVIOUS
    <3>1. PICK j \in 1..N : t = strip[j]
      BY <1>1 DEF InStrip
    <3>2. j \in Taken
      BY <1>1, <2>1, <3>1 DEF Taken
    <3> QED  BY <1>2, <3>1, <3>2
  <2>2. CASE Passed # {}
    <3>1. Passed \in SUBSET Nat
      BY <1>1
    <3>2. PICK i \in Passed : \A j \in Passed : i <= j
      <4> HIDE DEF Passed
      <4> QED  BY <2>2, <3>1, LeastElement
    <3>3. \A j \in 1..i - 1 : j \in 1..N /\ ~(i <= j)
      BY <1>1
    <3>4. \A j \in {k \in 1..i - 1 : Inactive(strip[k])} : j \in Taken
      BY <1>1, <3>2, <3>3 DEF Taken
    <3>5. Before(i) \subseteq Swept
      BY <1>2, <3>4 DEF Before
    <3>6. limit > 0 /\ Cardinality(Before(i)) >= limit
      BY <3>2 DEF Full
    <3>7. /\ Cardinality(Before(i)) <= Cardinality(Swept)
          /\ Cardinality(Swept) \in Nat /\ Cardinality(Before(i)) \in Nat
      BY <1>4, <1>5, <3>2, <3>5, SetsOfTabs, FS_Subset
    <3> QED  BY <1>1, <3>6, <3>7 DEF Full
  <2> QED  BY <2>1, <2>2
<1> QED  BY <1>4, <1>6, <1>7

LEMMA SuspensionInvInit == SuspensionInit => SuspensionInv
<1> SUFFICES ASSUME SuspensionInit PROVE SuspensionInv
  OBVIOUS
<1>1. MostTabs \in Nat /\ Limits \subseteq Nat
  BY SuspensionAssumption DEF SuspensionAssumption
<1>2. TabsOfTheStrip
  <2>1. opened = 0 /\ strip = <<>> /\ shut = <<>> /\ front = 0
    BY DEF SuspensionInit
  <2>2. <<>> \in Seq(1..opened) /\ Len(<<>>) = 0
    OBVIOUS
  <2> QED  BY <1>1, <2>1, <2>2 DEF TabsOfTheStrip
<1>3. TableOfTheSuspender
  <2>1. records = {} /\ asleep = {} /\ limit \in Limits /\ roomiest = Allowed(limit)
    BY DEF SuspensionInit
  <2>2. roomiest \in Nat
    BY <1>1, <2>1 DEF Allowed
  <2>3. Cardinality(records) = 0
    BY <2>1, FS_EmptySet
  <2>4. records \subseteq Numbers
    BY <2>1
  <2> QED  BY <2>1, <2>2, <2>3, <2>4 DEF TableOfTheSuspender
<1>4. SweepsAreDone
  BY DEF SuspensionInit, SweepsAreDone
<1> QED  BY <1>2, <1>3, <1>4 DEF SuspensionInv

(* The shell leaves the suspender alone.                                   *)
LEMMA TableKept ==
    TableOfTheSuspender /\ UNCHANGED <<records, asleep, policyVars>> => TableOfTheSuspender'
  BY DEF TableOfTheSuspender, policyVars, Allowed, Numbers

(* The suspender leaves the shell alone.                                   *)
LEMMA StripKept == TabsOfTheStrip /\ UNCHANGED stripVars => TabsOfTheStrip'
  BY DEF TabsOfTheStrip, stripVars, InStrip

LEMMA StripSteps ==
    ASSUME TabsOfTheStrip, OpenNext \/ CloseOne \/ ReOpen \/ GoTo \/ NextSession
    PROVE  TabsOfTheStrip'
<1> DEFINE N == Len(strip)
<1>1. /\ MostTabs \in Nat /\ opened \in 0..MostTabs
      /\ strip \in Seq(1..opened) /\ shut \in Seq(1..opened)
      /\ N \in Nat /\ Len(shut) \in Nat /\ N + Len(shut) <= opened
      /\ DOMAIN strip = 1..N /\ \A i \in 1..N : strip[i] \in 1..opened
      /\ front \in InStrip \cup {0}
  BY SuspensionAssumption, ListProperties DEF SuspensionAssumption, TabsOfTheStrip
<1> HIDE DEF N
<1>3. CASE OpenNext
  <2>1. /\ opened < MostTabs /\ opened' = opened + 1 /\ strip' = Append(strip, opened + 1)
        /\ front' = opened + 1 /\ shut' = shut
    BY <1>3 DEF OpenNext
  <2>2. opened + 1 \in 1..opened + 1 /\ opened + 1 \in 0..MostTabs
    BY <1>1, <2>1
  <2>3. Seq(1..opened) \subseteq Seq(1..opened + 1)
    <3>1. 1..opened \subseteq 1..opened + 1
      BY <1>1
    <3> QED  BY <3>1, SeqMonotonic
  <2>4. /\ strip' \in Seq(1..opened') /\ shut' \in Seq(1..opened')
        /\ Len(strip') = N + 1 /\ strip'[N + 1] = opened + 1
    BY <1>1, <2>1, <2>2, <2>3, AppendProperties DEF N
  <2>5. DOMAIN strip' = 1..N + 1 /\ N + 1 \in 1..N + 1
    BY <1>1, <2>4, ListProperties
  <2>6. front' \in InStrip'
    BY <2>1, <2>4, <2>5 DEF InStrip
  <2>7. Len(strip') + Len(shut') <= opened'
    BY <1>1, <2>1, <2>4
  <2> QED  BY <2>1, <2>2, <2>4, <2>6, <2>7 DEF TabsOfTheStrip
<1>4. CASE CloseOne
  <2>1. PICK i \in 1..N :
          /\ strip' = RemoveAt(strip, i) /\ shut' = Append(shut, strip[i]) /\ opened' = opened
          /\ front' = IF front # strip[i] THEN front
                      ELSE IF strip' = <<>> THEN 0 ELSE IF i > Len(strip') THEN Last(strip') ELSE strip'[i]
    BY <1>1, <1>4 DEF CloseOne
  <2>2. /\ strip' \in Seq(1..opened) /\ Len(strip') = N - 1
        /\ \A k \in 1..N - 1 : strip'[k] = IF k < i THEN strip[k] ELSE strip[k + 1]
    BY <1>1, <2>1, RemoveAtProperties DEF N
  <2>3. DOMAIN strip' = 1..N - 1
    BY <2>2, ListProperties
  <2>4. shut' \in Seq(1..opened) /\ Len(shut') = Len(shut) + 1
    BY <1>1, <2>1, AppendProperties
  <2>5. front' \in InStrip' \cup {0}
    <3>1. CASE front # strip[i]
      <4>1. CASE front = 0
        BY <2>1, <3>1, <4>1
      <4>2. CASE front # 0
        <5>1. PICK j \in 1..N : front = strip[j]
          BY <1>1, <4>2 DEF InStrip
        <5>2. CASE j < i
          <6>1. j \in 1..N - 1 /\ strip'[j] = front
            BY <1>1, <2>2, <5>1, <5>2
          <6> QED  BY <2>1, <2>3, <3>1, <6>1 DEF InStrip
        <5>3. CASE ~(j < i)
          <6>1. j # i
            BY <3>1, <5>1
          <6>2. j - 1 \in 1..N - 1 /\ ~(j - 1 < i) /\ (j - 1) + 1 = j
            BY <1>1, <5>3, <6>1
          <6>3. strip'[j - 1] = front
            BY <2>2, <5>1, <6>2
          <6> QED  BY <2>1, <2>3, <3>1, <6>2, <6>3 DEF InStrip
        <5> QED  BY <5>2, <5>3
      <4> QED  BY <4>1, <4>2
    <3>2. CASE front = strip[i] /\ strip' = <<>>
      BY <2>1, <3>2
    <3>3. CASE front = strip[i] /\ strip' # <<>> /\ i > Len(strip')
      <4> DEFINE r == strip'
      <4>a. r \in Seq(1..opened) /\ r # <<>> /\ Len(r) = N - 1 /\ front' = Last(r)
        BY <2>1, <2>2, <3>3
      <4> HIDE DEF r
      <4>b. Last(r) = r[Len(r)] /\ Len(r) >= 1
        BY <4>a, LastFrontProperties
      <4>1. front' = strip'[Len(strip')] /\ Len(strip') \in 1..N - 1
        BY <1>1, <4>a, <4>b DEF r
      <4> QED  BY <2>3, <4>1 DEF InStrip
    <3>4. CASE front = strip[i] /\ strip' # <<>> /\ ~(i > Len(strip'))
      <4>1. front' = strip'[i] /\ i \in 1..N - 1
        BY <1>1, <2>1, <2>2, <3>4
      <4> QED  BY <2>3, <4>1 DEF InStrip
    <3> QED  BY <3>1, <3>2, <3>3, <3>4
  <2>6. Len(strip') + Len(shut') <= opened'
    BY <1>1, <2>1, <2>2, <2>4
  <2> QED  BY <1>1, <2>1, <2>2, <2>4, <2>5, <2>6 DEF TabsOfTheStrip
<1>5. CASE ReOpen
  <2>1. /\ shut # <<>> /\ strip' = Append(strip, Last(shut)) /\ front' = Last(shut)
        /\ shut' = Front(shut) /\ opened' = opened
    BY <1>5 DEF ReOpen
  <2>2. Last(shut) \in 1..opened /\ Front(shut) \in Seq(1..opened) /\ Len(Front(shut)) = Len(shut) - 1
    BY <1>1, <2>1, LastFrontProperties
  <2>3. /\ strip' \in Seq(1..opened) /\ Len(strip') = N + 1 /\ strip'[N + 1] = Last(shut)
    BY <1>1, <2>1, <2>2, AppendProperties DEF N
  <2>4. DOMAIN strip' = 1..N + 1 /\ N + 1 \in 1..N + 1
    BY <1>1, <2>3, ListProperties
  <2>5. front' \in InStrip'
    BY <2>1, <2>3, <2>4 DEF InStrip
  <2>6. Len(strip') + Len(shut') <= opened'
    BY <1>1, <2>1, <2>2, <2>3
  <2> QED  BY <1>1, <2>1, <2>2, <2>3, <2>5, <2>6 DEF TabsOfTheStrip
<1>6. CASE GoTo
  BY <1>6 DEF GoTo, TabsOfTheStrip, InStrip
<1>7. CASE NextSession
  <2>1. /\ opened' = N /\ strip' = [i \in 1..N |-> i] /\ front' \in 1..N /\ shut' = <<>>
    BY <1>1, <1>7 DEF NextSession, N
  <2>2. strip' \in Seq(1..N) /\ Len(strip') = N /\ DOMAIN strip' = 1..N
    <3>1. strip' \in [1..N -> 1..N]
      BY <2>1
    <3> QED  BY <1>1, <3>1, IsASeq, LenProperties
  <2>3. front' \in InStrip'
    BY <2>1, <2>2 DEF InStrip
  <2>4. shut' \in Seq(1..N) /\ Len(shut') = 0 /\ N \in 0..MostTabs
    BY <1>1, <2>1
  <2>5. Len(strip') + Len(shut') <= opened'
    BY <1>1, <2>1, <2>2, <2>4
  <2> QED  BY <2>1, <2>2, <2>3, <2>4, <2>5 DEF TabsOfTheStrip
<1> QED  BY <1>3, <1>4, <1>5, <1>6, <1>7

LEMMA TableSteps ==
    ASSUME TabsOfTheStrip, TableOfTheSuspender,
           Suspend \/ RestoreTab \/ SuspendInactive \/ RestoreAll \/ SetPolicy \/ NextSession
    PROVE  TableOfTheSuspender'
<1>1. /\ InStrip \subseteq Numbers /\ Limits \subseteq Nat /\ MostTabs \in Nat
      /\ records = asleep /\ records \subseteq Numbers
      /\ limit \in Limits /\ roomiest \in Nat
      /\ Allowed(limit) <= roomiest /\ Cardinality(records) <= roomiest
      /\ IsFiniteSet(records) /\ Cardinality(records) \in Nat
  BY StripProperties, SetsOfTabs, SuspensionAssumption DEF TableOfTheSuspender, SuspensionAssumption
<1>2. CASE Suspend
  <2>1. PICK t \in InStrip : /\ ~Full(records) /\ t \notin asleep
                             /\ asleep' = asleep \cup {t} /\ records' = records \cup {t}
    BY <1>2 DEF Suspend
  <2>2. limit' = limit /\ roomiest' = roomiest
    BY <1>2 DEF Suspend, policyVars
  <2>3. records' \subseteq Numbers
    BY <1>1, <2>1
  <2>4. Cardinality(records') <= roomiest
    <3>1. Cardinality(records') = Cardinality(records) + 1
      BY <1>1, <2>1, FS_AddElement
    <3>2. CASE limit = 0
      <4>1. Cardinality(records') <= MostTabs
        BY <2>3, SetsOfTabs
      <4> QED  BY <1>1, <3>1, <3>2, <4>1 DEF Allowed
    <3>3. CASE limit # 0
      <4>1. limit \in Nat /\ Cardinality(records) < limit
        BY <1>1, <2>1, <3>3 DEF Full
      <4> QED  BY <1>1, <3>1, <3>3, <4>1 DEF Allowed
    <3> QED  BY <3>2, <3>3
  <2>5. Allowed(limit)' <= roomiest'
    BY <1>1, <2>2 DEF Allowed
  <2> QED  BY <1>1, <2>1, <2>2, <2>3, <2>4, <2>5 DEF TableOfTheSuspender, Numbers
<1>3. ASSUME NEW gone, records' = records \ gone, asleep' = asleep \ gone, UNCHANGED policyVars
      PROVE  TableOfTheSuspender'
  <2>1. limit' = limit /\ roomiest' = roomiest
    BY <1>3 DEF policyVars
  <2>2. records' \subseteq records
    BY <1>3
  <2>3. Cardinality(records') <= Cardinality(records) /\ Cardinality(records') \in Nat
    BY <1>1, <2>2, FS_Subset, FS_CardinalityType
  <2>4. Allowed(limit)' <= roomiest'
    BY <1>1, <2>1 DEF Allowed
  <2>5. records' = asleep' /\ records' \subseteq Numbers'
    BY <1>1, <1>3, <2>2 DEF Numbers
  <2>6. Cardinality(records') <= roomiest'
    BY <1>1, <2>1, <2>3
  <2> QED  BY <1>1, <2>1, <2>4, <2>5, <2>6 DEF TableOfTheSuspender
<1>4. CASE RestoreTab
  <2>1. PICK t : asleep' = asleep \ {t} /\ records' = records \ {t} /\ UNCHANGED policyVars
    BY <1>4 DEF RestoreTab
  <2> QED  BY <2>1, <1>3
<1>5. CASE RestoreAll
  <2>1. asleep' = asleep \ InStrip /\ records' = records \ (InStrip \cap asleep) /\ UNCHANGED policyVars
    BY <1>5 DEF RestoreAll
  <2>2. records' = records \ InStrip
    BY <1>1, <2>1
  <2> QED  BY <2>1, <2>2, <1>3
<1>6. CASE NextSession
  <2>1. asleep' = {} /\ records' = {} /\ UNCHANGED policyVars
    BY <1>6 DEF NextSession
  <2>2. asleep' = asleep \ asleep /\ records' = records \ asleep
    BY <1>1, <2>1
  <2> QED  BY <2>1, <2>2, <1>3
<1>7. CASE SuspendInactive
  <2>1. records' = Swept /\ asleep' = asleep \cup (Swept \ records)
    BY <1>7 DEF SuspendInactive
  <2>2. limit' = limit /\ roomiest' = roomiest
    BY <1>7 DEF SuspendInactive, policyVars
  <2>3. Swept \subseteq Numbers /\ records \subseteq Swept /\ Cardinality(Swept) <= roomiest
    BY SweptProperties
  <2>4. Allowed(limit)' <= roomiest'
    BY <1>1, <2>2 DEF Allowed
  <2>5. records' = asleep' /\ records' \subseteq Numbers' /\ Cardinality(records)' <= roomiest'
    BY <1>1, <2>1, <2>2, <2>3 DEF Numbers
  <2> QED  BY <1>1, <2>2, <2>4, <2>5 DEF TableOfTheSuspender
<1>8. CASE SetPolicy
  <2>1. PICK n \in Limits : /\ limit' = n
                            /\ roomiest' = IF Allowed(n) > roomiest THEN Allowed(n) ELSE roomiest
    BY <1>8 DEF SetPolicy
  <2>2. records' = records /\ asleep' = asleep
    BY <1>8 DEF SetPolicy
  <2>3. Allowed(n) \in Nat /\ n \in Nat
    BY <1>1 DEF Allowed
  <2>4. Allowed(limit)' = Allowed(n)
    BY <2>1 DEF Allowed
  <2>5. roomiest' \in Nat /\ Allowed(n) <= roomiest' /\ roomiest <= roomiest'
    BY <1>1, <2>1, <2>3
  <2>6. Cardinality(records)' <= roomiest'
    BY <1>1, <2>2, <2>5
  <2> QED  BY <1>1, <2>1, <2>2, <2>4, <2>5, <2>6 DEF TableOfTheSuspender, Numbers
<1> QED  BY <1>2, <1>4, <1>5, <1>6, <1>7, <1>8

LEMMA SweepsStep ==
    ASSUME TabsOfTheStrip, TableOfTheSuspender, SuspendInactive
    PROVE  SweepsAreDone'
<1>1. /\ records' = Swept /\ asleep' = asleep \cup (Swept \ records)
      /\ strip' = strip /\ front' = front /\ lastActivity' = lastActivity
      /\ limit' = limit /\ protect' = protect
  BY DEF SuspendInactive, stripVars, policyVars
<1>2. Full(Swept) \/ \A t \in InStrip : Inactive(t) => t \in Swept
  BY SweptProperties
<1>3. records = asleep
  BY DEF TableOfTheSuspender
<1>4. CASE Full(Swept)
  <2>1. Full(records)'
    BY <1>1, <1>4 DEF Full
  <2> QED  BY <2>1 DEF SweepsAreDone
<1>5. CASE \A t \in InStrip : Inactive(t) => t \in Swept
  <2>1. \A t \in InStrip : ~(t \notin asleep' /\ ~(protect /\ t = front) /\ lastActivity[t] = "past")
    BY <1>1, <1>3, <1>5 DEF Inactive
  <2>2. \A t \in InStrip' : ~Inactive(t)'
    BY <1>1, <2>1 DEF Inactive, InStrip
  <2> QED  BY <2>2 DEF SweepsAreDone
<1> QED  BY <1>2, <1>4, <1>5

LEMMA SuspensionInvStep ==
    SuspensionInv /\ [SuspensionNext]_suspensionVars => SuspensionInv'
<1> SUFFICES ASSUME TabsOfTheStrip, TableOfTheSuspender, SweepsAreDone, [SuspensionNext]_suspensionVars
             PROVE  SuspensionInv'
  BY DEF SuspensionInv
<1>1. CASE OpenNext \/ CloseOne \/ ReOpen \/ GoTo
  <2>1. TabsOfTheStrip'
    BY <1>1, StripSteps
  <2>2. UNCHANGED <<records, asleep, policyVars>> /\ sweptLast' = FALSE
    BY <1>1 DEF OpenNext, CloseOne, ReOpen, GoTo
  <2> QED  BY <2>1, <2>2, TableKept DEF SuspensionInv, SweepsAreDone
<1>2. CASE NextSession
  <2>1. sweptLast' = FALSE
    BY <1>2 DEF NextSession
  <2> QED  BY <1>2, <2>1, StripSteps, TableSteps DEF SuspensionInv, SweepsAreDone
<1>3. CASE Suspend \/ RestoreTab \/ RestoreAll
  <2>1. TableOfTheSuspender'
    BY <1>3, TableSteps
  <2>2. UNCHANGED stripVars /\ sweptLast' = FALSE
    BY <1>3 DEF Suspend, RestoreTab, RestoreAll
  <2> QED  BY <2>1, <2>2, StripKept DEF SuspensionInv, SweepsAreDone
<1>4. CASE SetPolicy
  <2>1. TableOfTheSuspender'
    BY <1>4, TableSteps
  <2>2. UNCHANGED stripVars /\ sweptLast' = FALSE
    BY <1>4 DEF SetPolicy
  <2> QED  BY <2>1, <2>2, StripKept DEF SuspensionInv, SweepsAreDone
<1>5. CASE SuspendInactive
  <2>1. TableOfTheSuspender' /\ SweepsAreDone'
    BY <1>5, TableSteps, SweepsStep
  <2>2. UNCHANGED stripVars
    BY <1>5 DEF SuspendInactive
  <2> QED  BY <2>1, <2>2, StripKept DEF SuspensionInv
<1>6. CASE RecordActivity \/ ActivityAges
  <2>1. UNCHANGED <<opened, strip, front, shut, asleep, records, policyVars>> /\ sweptLast' = FALSE
    BY <1>6 DEF RecordActivity, ActivityAges
  <2>2. TabsOfTheStrip'
    BY <2>1 DEF TabsOfTheStrip, InStrip
  <2> QED  BY <2>1, <2>2, TableKept DEF SuspensionInv, SweepsAreDone
<1>7. CASE UNCHANGED suspensionVars
  <2>1. UNCHANGED <<records, asleep, policyVars>> /\ UNCHANGED stripVars /\ sweptLast' = sweptLast
    BY <1>7 DEF suspensionVars, policyVars, stripVars
  <2>2. SweepsAreDone'
    BY <2>1 DEF SweepsAreDone, Full, Inactive, InStrip, stripVars, policyVars
  <2> QED  BY <2>1, <2>2, TableKept, StripKept DEF SuspensionInv
<1> QED  BY <1>1, <1>2, <1>3, <1>4, <1>5, <1>6, <1>7 DEF SuspensionNext

LEMMA SuspensionHolds == SuspensionInv => SuspensionTypeOK /\ SuspensionIsKnown
<1> SUFFICES ASSUME SuspensionInv PROVE SuspensionTypeOK /\ SuspensionIsKnown
  OBVIOUS
<1>1. TabsOfTheStrip /\ TableOfTheSuspender /\ SweepsAreDone
  BY DEF SuspensionInv
<1>2. InStrip \subseteq Numbers
  BY <1>1, StripProperties
<1> QED  BY <1>1, <1>2 DEF SuspensionTypeOK, SuspensionIsKnown, TabsOfTheStrip, TableOfTheSuspender, SweepsAreDone

(* The first position a search finds.                                      *)
LEMMA FirstOfAll ==
    ASSUME NEW I \in SUBSET Nat, I # {}
    PROVE  Min(I) \in I /\ \A i \in I : Min(I) <= i
  BY LeastElement DEF Min

-----------------------------------------------------------------------------
(* The windows.  A window of the driver that the application has no more   *)
(* was told so when it was destroyed, and is inactive.                     *)
AppLists ==
    /\ managed \in Seq(Panes) /\ driverPanes \in Seq(Panes) /\ IsInjective(managed)
    /\ activePane \in Panes \cup {NoPane}
    /\ activePane # NoPane => tabbedMode /\ activePane \in InList(managed)

AppMarks ==
    /\ activity \in [Panes -> {"unset", "active", "inactive"}]
    /\ activePane # NoPane => ActiveIn(activity, activePane)
    /\ tabbedMode => \A w \in InList(managed) \ {activePane} : ~ActiveIn(activity, w)
    /\ \A w \in InList(driverPanes) \ InList(managed) : ~ActiveIn(activity, w)

ListenersKnow ==
    /\ lastTold \in [Panes -> {"nothing", "active", "inactive"}]
    /\ \A w \in Panes : lastTold[w] # "nothing" => (lastTold[w] = "active" <=> ActiveIn(activity, w))

AppInv == AppLists /\ AppMarks /\ ListenersKnow

LEMMA ManagedPanes ==
    AppLists => /\ InList(managed) \subseteq Panes /\ InList(driverPanes) \subseteq Panes
                /\ DOMAIN managed = 1..Len(managed) /\ Len(managed) \in Nat
                /\ DOMAIN driverPanes = 1..Len(driverPanes) /\ Len(driverPanes) \in Nat
<1> SUFFICES ASSUME AppLists
             PROVE  /\ InList(managed) \subseteq Panes /\ InList(driverPanes) \subseteq Panes
                    /\ DOMAIN managed = 1..Len(managed) /\ Len(managed) \in Nat
                    /\ DOMAIN driverPanes = 1..Len(driverPanes) /\ Len(driverPanes) \in Nat
  OBVIOUS
<1>1. \A s \in Seq(Panes) : DOMAIN s = 1..Len(s) /\ Len(s) \in Nat /\ \A i \in 1..Len(s) : s[i] \in Panes
  BY ListProperties
<1> QED  BY <1>1 DEF AppLists, InList

(* Who listens to a window hears of every change of it.                    *)
LEMMA ChangesAreTold ==
    ASSUME activity \in [Panes -> {"unset", "active", "inactive"}], ListenersKnow,
           NEW change, \A w \in DOMAIN change : change[w] \in {"active", "inactive"},
           BecomeActive(change)
    PROVE  /\ activity' \in [Panes -> {"unset", "active", "inactive"}] /\ ListenersKnow'
           /\ \A w \in Panes : activity'[w] = IF w \in DOMAIN change THEN change[w] ELSE activity[w]
<1>1. /\ activity' = [w \in Panes |-> IF w \in DOMAIN change THEN change[w] ELSE activity[w]]
      /\ lastTold' = [w \in Panes |->
                         IF lastTold[w] # "nothing" /\ w \in DOMAIN change
                            /\ ActiveIn(activity, w) # ActiveIn(change, w)
                         THEN change[w] ELSE lastTold[w]]
  BY DEF BecomeActive
<1>2. \A w \in Panes : activity'[w] = IF w \in DOMAIN change THEN change[w] ELSE activity[w]
  BY <1>1
<1>3. activity' \in [Panes -> {"unset", "active", "inactive"}]
  BY <1>1
<1>4. lastTold' \in [Panes -> {"nothing", "active", "inactive"}]
  BY <1>1 DEF ListenersKnow
<1>5. ASSUME NEW w \in Panes, lastTold'[w] # "nothing"
      PROVE  lastTold'[w] = "active" <=> activity'[w] # "inactive"
  <2>0. lastTold[w] \in {"nothing", "active", "inactive"} /\ activity[w] \in {"unset", "active", "inactive"}
    BY DEF ListenersKnow
  <2>1. lastTold[w] # "nothing" => (lastTold[w] = "active" <=> activity[w] # "inactive")
    BY DEF ListenersKnow, ActiveIn
  <2>2. CASE w \notin DOMAIN change
    <3>1. lastTold'[w] = lastTold[w] /\ activity'[w] = activity[w]
      BY <1>1, <2>2
    <3> QED  BY <1>5, <2>1, <3>1
  <2>3. CASE w \in DOMAIN change
    <3>1. activity'[w] = change[w] /\ change[w] \in {"active", "inactive"}
      BY <1>2, <2>3
    <3>2. CASE lastTold[w] # "nothing" /\ ((activity[w] # "inactive") # (change[w] # "inactive"))
      <4>1. lastTold'[w] = change[w]
        BY <1>1, <2>3, <3>2 DEF ActiveIn
      <4> QED  BY <3>1, <4>1
    <3>3. CASE ~(lastTold[w] # "nothing" /\ ((activity[w] # "inactive") # (change[w] # "inactive")))
      <4>1. lastTold'[w] = lastTold[w]
        BY <1>1, <2>3, <3>3 DEF ActiveIn
      <4> QED  BY <1>5, <2>1, <3>1, <3>3, <4>1
    <3> QED  BY <3>2, <3>3
  <2> QED  BY <2>2, <2>3
<1> QED  BY <1>2, <1>3, <1>4, <1>5 DEF ListenersKnow, ActiveIn

LEMMA AppInvInit == AppInit => AppInv
<1> SUFFICES ASSUME AppInit PROVE AppInv
  OBVIOUS
<1>1. /\ managed = <<>> /\ driverPanes = <<>> /\ activePane = NoPane /\ tabbedMode = FALSE
      /\ activity = [w \in Panes |-> "unset"] /\ lastTold = [w \in Panes |-> "nothing"]
  BY DEF AppInit
<1>2. <<>> \in Seq(Panes) /\ DOMAIN <<>> = {}
  OBVIOUS
<1>3. AppLists
  BY <1>1, <1>2 DEF AppLists, IsInjective
<1>4. AppMarks
  BY <1>1, <1>2 DEF AppMarks, InList
<1>5. ListenersKnow
  BY <1>1 DEF ListenersKnow
<1> QED  BY <1>3, <1>4, <1>5 DEF AppInv

LEMMA AddWindowInv ==
    ASSUME AppInv, AddWindow
    PROVE  AppInv'
<1>1. PICK w \in Panes \ InList(managed) :
        /\ managed' = Append(managed, w)
        /\ IF tabbedMode THEN BecomeActive([v \in {w} |-> "inactive"]) ELSE UNCHANGED <<activity, lastTold>>
  BY DEF AddWindow
<1>2. activePane' = activePane /\ tabbedMode' = tabbedMode /\ driverPanes' = driverPanes
  BY DEF AddWindow
<1> DEFINE n == Len(managed)
           m == managed'
<1>3. /\ managed \in Seq(Panes) /\ n \in Nat /\ DOMAIN managed = 1..n /\ InList(managed) \subseteq Panes
      /\ InList(driverPanes) \subseteq Panes /\ AppLists /\ AppMarks /\ ListenersKnow
  BY ManagedPanes DEF AppInv, AppLists
<1>4. /\ m \in Seq(Panes) /\ DOMAIN m = 1..n + 1
      /\ m[n + 1] = w /\ \A k \in 1..n : m[k] = managed[k]
      /\ \A k \in DOMAIN m : k \in 1..n \/ k = n + 1
  BY <1>1, <1>3, ListExtended
<1> HIDE DEF n, m
<1>5. InList(m) = InList(managed) \cup {w}
  <2>1. 1..n \subseteq DOMAIN m /\ n + 1 \in DOMAIN m
    BY <1>3, <1>4
  <2> QED  BY <1>3, <1>4, <2>1 DEF InList
<1>6. IsInjective(m)
  <2>1. \A k \in 1..n : managed[k] # w
    BY <1>1, <1>3 DEF InList
  <2>2. \A k, l \in 1..n : managed[k] = managed[l] => k = l
    BY <1>3 DEF AppLists, IsInjective
  <2> QED  BY <1>4, <2>1, <2>2 DEF IsInjective
<1>7. activePane # NoPane => tabbedMode /\ activePane \in InList(managed)
  BY <1>3 DEF AppLists
<1>8. AppLists'
  <2>1. InList(managed)' = InList(m)
    BY DEF m, InList
  <2>2. IsInjective(managed)'
    BY <1>6 DEF m, IsInjective
  <2> QED  BY <1>2, <1>3, <1>4, <1>5, <1>7, <2>1, <2>2 DEF AppLists, m
<1>9. /\ activity' \in [Panes -> {"unset", "active", "inactive"}] /\ ListenersKnow'
      /\ \A v \in Panes : activity'[v] = IF tabbedMode /\ v = w THEN "inactive" ELSE activity[v]
  <2>1. CASE tabbedMode
    <3> DEFINE change == [v \in {w} |-> "inactive"]
    <3>1. DOMAIN change = {w} /\ \A v \in DOMAIN change : change[v] = "inactive"
      OBVIOUS
    <3>2. BecomeActive(change) /\ activity \in [Panes -> {"unset", "active", "inactive"}] /\ ListenersKnow
      BY <1>1, <1>3, <2>1 DEF AppMarks
    <3> HIDE DEF change
    <3>3. /\ activity' \in [Panes -> {"unset", "active", "inactive"}] /\ ListenersKnow'
          /\ \A v \in Panes : activity'[v] = IF v \in DOMAIN change THEN change[v] ELSE activity[v]
      BY <3>1, <3>2, ChangesAreTold
    <3> QED  BY <2>1, <3>1, <3>3
  <2>2. CASE ~tabbedMode
    <3>1. activity' = activity /\ lastTold' = lastTold
      BY <1>1, <2>2
    <3> QED  BY <1>3, <2>2, <3>1 DEF AppMarks, ListenersKnow, ActiveIn
  <2> QED  BY <2>1, <2>2
<1>10. AppMarks'
  <2>1. activePane # NoPane => activePane # w
    BY <1>1, <1>7
  <2>2. activePane' # NoPane => ActiveIn(activity', activePane')
    BY <1>2, <1>3, <1>7, <1>9, <2>1 DEF AppMarks, ActiveIn
  <2>3. tabbedMode' => \A v \in InList(m) \ {activePane'} : ~ActiveIn(activity', v)
    BY <1>2, <1>3, <1>5, <1>9 DEF AppMarks, ActiveIn
  <2>4. \A v \in InList(driverPanes) \ InList(m) : ~ActiveIn(activity', v)
    BY <1>3, <1>5, <1>9 DEF AppMarks, ActiveIn
  <2>5. InList(managed)' = InList(m) /\ InList(driverPanes)' = InList(driverPanes)
    BY <1>2 DEF m, InList
  <2> QED  BY <1>9, <2>2, <2>3, <2>4, <2>5 DEF AppMarks, ActiveIn
<1> QED  BY <1>8, <1>9, <1>10 DEF AppInv

LEMMA ActivateWindowInv ==
    ASSUME AppInv, ActivateWindow
    PROVE  AppInv'
<1>1. PICK w \in InList(managed) : activePane' = w /\ BecomeActive(OnlyActive(managed, w))
  BY DEF ActivateWindow
<1>2. tabbedMode' = TRUE /\ managed' = managed /\ driverPanes' = driverPanes
  BY DEF ActivateWindow
<1>3. /\ InList(managed) \subseteq Panes /\ InList(driverPanes) \subseteq Panes
      /\ AppLists /\ AppMarks /\ ListenersKnow
  BY ManagedPanes DEF AppInv
<1> DEFINE change == OnlyActive(managed, w)
<1>4. /\ DOMAIN change = InList(managed)
      /\ \A v \in InList(managed) : change[v] = IF v = w THEN "active" ELSE "inactive"
  BY DEF OnlyActive
<1>5. /\ activity \in [Panes -> {"unset", "active", "inactive"}]
      /\ \A v \in DOMAIN change : change[v] \in {"active", "inactive"}
  BY <1>3, <1>4 DEF AppMarks
<1> HIDE DEF change
<1>6. /\ activity' \in [Panes -> {"unset", "active", "inactive"}] /\ ListenersKnow'
      /\ \A v \in Panes : activity'[v] = IF v \in DOMAIN change THEN change[v] ELSE activity[v]
  <2>1. BecomeActive(change)
    BY <1>1 DEF change
  <2> QED  BY <1>3, <1>5, <2>1, ChangesAreTold
<1>7. InList(managed)' = InList(managed) /\ InList(driverPanes)' = InList(driverPanes)
  BY <1>2 DEF InList
<1>8. AppLists'
  BY <1>1, <1>2, <1>3, <1>7 DEF AppLists, IsInjective
<1>9. AppMarks'
  <2>1. ActiveIn(activity', activePane')
    BY <1>1, <1>3, <1>4, <1>6 DEF ActiveIn
  <2>2. \A v \in InList(managed) \ {activePane'} : ~ActiveIn(activity', v)
    BY <1>1, <1>3, <1>4, <1>6 DEF ActiveIn
  <2>3. \A v \in InList(driverPanes) \ InList(managed) : ~ActiveIn(activity', v)
    BY <1>3, <1>4, <1>6 DEF AppMarks, ActiveIn
  <2> QED  BY <1>6, <1>7, <2>1, <2>2, <2>3 DEF AppMarks, ActiveIn
<1> QED  BY <1>6, <1>8, <1>9 DEF AppInv

LEMMA DestroyWindowInv ==
    ASSUME AppInv, DestroyWindow
    PROVE  AppInv'
<1>1. PICK w \in Panes :
        LET rest == Chosen(managed, Panes \ {w}) IN
        /\ managed' = rest
        /\ activePane' = IF activePane # w THEN activePane ELSE IF rest = <<>> THEN NoPane ELSE rest[1]
        /\ BecomeActive(Leaves(w, rest))
  BY DEF DestroyWindow
<1>2. tabbedMode' = tabbedMode /\ driverPanes' = driverPanes
  BY DEF DestroyWindow
<1> DEFINE rest == Chosen(managed, Panes \ {w})
           change == Leaves(w, rest)
<1>3. /\ managed' = rest
      /\ activePane' = IF activePane # w THEN activePane ELSE IF rest = <<>> THEN NoPane ELSE rest[1]
      /\ BecomeActive(change)
  BY <1>1
<1>4. /\ InList(managed) \subseteq Panes /\ InList(driverPanes) \subseteq Panes
      /\ AppLists /\ AppMarks /\ ListenersKnow /\ managed \in Seq(Panes) /\ IsInjective(managed)
      /\ NoPane \notin Panes
  BY ManagedPanes, PanesAssumption DEF AppInv, AppLists, PanesAssumption
<1>5. /\ rest \in Seq(Panes) /\ IsInjective(rest)
      /\ \A i \in DOMAIN rest : rest[i] \in Panes \ {w} /\ \E k \in DOMAIN managed : managed[k] = rest[i]
      /\ \A k \in DOMAIN managed : managed[k] \in Panes \ {w} => \E i \in DOMAIN rest : rest[i] = managed[k]
  <2> DEFINE S == Panes \ {w}
             t == Chosen(managed, S)
  <2> HIDE DEF S
  <2>1. t \in Seq(Panes)
    BY <1>4, ChosenProperties
  <2>2. IsInjective(t)
    BY <1>4, ChosenProperties
  <2>3. \A i \in DOMAIN t : t[i] \in S /\ \E k \in DOMAIN managed : managed[k] = t[i]
    BY <1>4, ChosenProperties
  <2>4. \A k \in DOMAIN managed : managed[k] \in S => \E i \in DOMAIN t : t[i] = managed[k]
    BY <1>4, ChosenProperties
  <2>5. t = rest
    BY DEF S
  <2> HIDE DEF t
  <2> QED  BY <2>1, <2>2, <2>3, <2>4, <2>5 DEF S
<1> HIDE DEF rest
<1>6. InList(rest) = InList(managed) \ {w}
  BY <1>4, <1>5 DEF InList
<1>7. rest # <<>> => rest[1] \in InList(rest)
  <2>1. DOMAIN rest = 1..Len(rest) /\ Len(rest) \in Nat /\ (rest = <<>> <=> Len(rest) = 0)
    BY <1>5, ListProperties
  <2>2. rest # <<>> => 1 \in DOMAIN rest
    BY <2>1
  <2> QED  BY <2>2 DEF InList
<1> DEFINE Others == IF activePane = w /\ rest # <<>> THEN InList(rest) ELSE {}
<1>8. /\ DOMAIN change = {w} \cup Others
      /\ \A v \in {w} \cup Others :
             change[v] = IF activePane = w /\ rest # <<>> /\ v = rest[1] THEN "active" ELSE "inactive"
  BY DEF Leaves
<1>9. \A v \in DOMAIN change : change[v] \in {"active", "inactive"}
  BY <1>8
<1> HIDE DEF change
<1>10. /\ activity' \in [Panes -> {"unset", "active", "inactive"}] /\ ListenersKnow'
       /\ \A v \in Panes : activity'[v] = IF v \in DOMAIN change THEN change[v] ELSE activity[v]
  <2>1. activity \in [Panes -> {"unset", "active", "inactive"}]
    BY <1>4 DEF AppMarks
  <2> QED  BY <1>3, <1>4, <1>9, <2>1, ChangesAreTold
<1>11. activity'[w] = "inactive"
  <2>1. rest # <<>> => rest[1] # w
    BY <1>6, <1>7
  <2> QED  BY <1>8, <1>10, <2>1
<1>12. InList(managed)' = InList(rest) /\ InList(driverPanes)' = InList(driverPanes)
  BY <1>2, <1>3 DEF InList
<1>13. activePane # NoPane => tabbedMode /\ activePane \in InList(managed) /\ ActiveIn(activity, activePane)
  BY <1>4 DEF AppLists, AppMarks
<1>14. activePane' # NoPane => tabbedMode' /\ activePane' \in InList(rest) /\ ActiveIn(activity', activePane')
  <2>1. CASE activePane # w
    <3> SUFFICES ASSUME activePane' # NoPane
                 PROVE  tabbedMode' /\ activePane' \in InList(rest) /\ ActiveIn(activity', activePane')
      OBVIOUS
    <3>1. activePane' = activePane /\ activePane # NoPane
      BY <1>3, <2>1
    <3>2. activePane \in InList(rest) /\ activePane \in Panes
      BY <1>4, <1>6, <1>13, <2>1, <3>1
    <3>3. activity'[activePane] = activity[activePane]
      BY <1>8, <1>10, <2>1, <3>2
    <3> QED  BY <1>2, <1>13, <3>1, <3>2, <3>3 DEF ActiveIn
  <2>2. CASE activePane = w /\ rest = <<>>
    BY <1>3, <2>2
  <2>3. CASE activePane = w /\ rest # <<>>
    <3>1. activePane' = rest[1] /\ rest[1] \in InList(rest) /\ rest[1] \in Panes
      BY <1>3, <1>4, <1>6, <1>7, <2>3
    <3>2. activity'[rest[1]] = "active"
      BY <1>8, <1>10, <2>3, <3>1
    <3>3. tabbedMode'
      BY <1>2, <1>4, <1>13, <2>3
    <3> QED  BY <3>1, <3>2, <3>3 DEF ActiveIn
  <2> QED  BY <2>1, <2>2, <2>3
<1>15. AppLists'
  <2>1. activePane' \in Panes \cup {NoPane}
    <3>1. activePane \in Panes \cup {NoPane}
      BY <1>4 DEF AppLists
    <3> QED  BY <1>3, <1>4, <1>6, <1>7, <3>1
  <2>2. IsInjective(managed)'
    BY <1>3, <1>5 DEF IsInjective
  <2>3. managed' \in Seq(Panes) /\ driverPanes' \in Seq(Panes)
    BY <1>2, <1>3, <1>4, <1>5 DEF AppLists
  <2> QED  BY <1>12, <1>14, <2>1, <2>2, <2>3 DEF AppLists
<1>16. tabbedMode' => \A v \in InList(rest) \ {activePane'} : ~ActiveIn(activity', v)
  <2> SUFFICES ASSUME tabbedMode', NEW v \in InList(rest), v # activePane'
               PROVE  activity'[v] = "inactive"
    BY DEF ActiveIn
  <2>0. v \in Panes /\ v # w /\ v \in InList(managed) /\ tabbedMode
    BY <1>2, <1>4, <1>6
  <2>1. CASE activePane # w
    <3>1. activity'[v] = activity[v] /\ v # activePane
      BY <1>3, <1>8, <1>10, <2>0, <2>1
    <3> QED  BY <1>4, <2>0, <3>1 DEF AppMarks, ActiveIn
  <2>2. CASE activePane = w
    <3>1. rest # <<>>
      <4>1. rest = <<>> => InList(rest) = {}
        BY DEF InList
      <4> QED  BY <4>1
    <3>2. v # rest[1] /\ v \in Others
      BY <1>3, <2>2, <3>1
    <3> QED  BY <1>8, <1>10, <2>0, <3>2
  <2> QED  BY <2>1, <2>2
<1>17. \A v \in InList(driverPanes) \ InList(rest) : ~ActiveIn(activity', v)
  <2> SUFFICES ASSUME NEW v \in InList(driverPanes), v \notin InList(rest)
               PROVE  activity'[v] = "inactive"
    BY DEF ActiveIn
  <2>1. CASE v = w
    BY <1>11, <2>1
  <2>2. CASE v # w
    <3>1. v \notin InList(managed) /\ v \in Panes
      BY <1>4, <1>6, <2>2
    <3>2. activity[v] = "inactive"
      BY <1>4, <3>1 DEF AppMarks, ActiveIn
    <3>3. v \notin DOMAIN change
      BY <1>8, <2>2
    <3> QED  BY <1>10, <3>1, <3>2, <3>3
  <2> QED  BY <2>1, <2>2
<1>18. AppMarks'
  BY <1>10, <1>12, <1>14, <1>16, <1>17 DEF AppMarks, ActiveIn
<1> QED  BY <1>10, <1>15, <1>18 DEF AppInv

LEMMA AppInvStep == AppInv /\ [AppNext]_appVars => AppInv'
<1> SUFFICES ASSUME AppInv, [AppNext]_appVars PROVE AppInv'
  OBVIOUS
<1>1. CASE AddWindow
  BY <1>1, AddWindowInv
<1>2. CASE ActivateWindow
  BY <1>2, ActivateWindowInv
<1>3. CASE DestroyWindow
  BY <1>3, DestroyWindowInv
<1>4. CASE ShowOrHide
  <2>1. UNCHANGED <<managed, activePane, tabbedMode, activity, lastTold, driverPanes>>
    BY <1>4 DEF ShowOrHide
  <2> QED  BY <2>1 DEF AppInv, AppLists, AppMarks, ListenersKnow, InList, ActiveIn
<1>5. CASE AttachActiveChangeListener
  <2>1. PICK w \in Panes : lastTold' = [lastTold EXCEPT ![w] = IF ActiveIn(activity, w) THEN "active" ELSE "inactive"]
    BY <1>5 DEF AttachActiveChangeListener
  <2>2. UNCHANGED <<managed, activePane, tabbedMode, activity, driverPanes>>
    BY <1>5 DEF AttachActiveChangeListener
  <2>3. AppLists' /\ AppMarks'
    BY <2>2 DEF AppInv, AppLists, AppMarks, InList, ActiveIn
  <2>4. ListenersKnow'
    BY <2>1, <2>2 DEF AppInv, ListenersKnow, ActiveIn
  <2> QED  BY <2>3, <2>4 DEF AppInv
<1>6. CASE Run
  <2>1. /\ driverPanes' = managed
        /\ UNCHANGED <<managed, activePane, tabbedMode, activity, lastTold>>
    BY <1>6 DEF Run
  <2> QED  BY <2>1 DEF AppInv, AppLists, AppMarks, ListenersKnow, InList, ActiveIn
<1>7. CASE UNCHANGED appVars
  BY <1>7 DEF appVars, AppInv, AppLists, AppMarks, ListenersKnow, InList, ActiveIn
<1> QED  BY <1>1, <1>2, <1>3, <1>4, <1>5, <1>6, <1>7 DEF AppNext

(* The driver draws the active window: of those it knows, no other is      *)
(* active.                                                                 *)
LEMMA ActiveIsDrawn ==
    ASSUME AppInv, activePane \in InList(driverPanes) \cap shown
    PROVE  activeVisibleWindow = activePane
<1> DEFINE I == {i \in 1..Len(driverPanes) : driverPanes[i] \in shown /\ ActiveIn(activity, driverPanes[i])}
<1>1. /\ InList(driverPanes) \subseteq Panes /\ DOMAIN driverPanes = 1..Len(driverPanes) /\ Len(driverPanes) \in Nat
      /\ NoPane \notin Panes
  BY ManagedPanes, PanesAssumption DEF AppInv, PanesAssumption
<1>2. activePane # NoPane /\ tabbedMode /\ activePane \in InList(managed) /\ ActiveIn(activity, activePane)
  BY <1>1 DEF AppInv, AppLists, AppMarks
<1>3. I # {} /\ I \in SUBSET Nat
  BY <1>1, <1>2 DEF InList
<1>4. Min(I) \in I
  <2> HIDE DEF I
  <2> QED  BY <1>3, FirstOfAll
<1>5. \A i \in I : driverPanes[i] = activePane
  <2> SUFFICES ASSUME NEW i \in I, driverPanes[i] # activePane PROVE FALSE
    OBVIOUS
  <2>1. driverPanes[i] \in InList(driverPanes) /\ ActiveIn(activity, driverPanes[i])
    BY <1>1 DEF InList
  <2> QED  BY <1>2, <2>1 DEF AppInv, AppMarks
<1>6. activeVisibleWindow = IF Min(I) # 0 THEN driverPanes[Min(I)] ELSE activeVisibleWindow
  <2>1. SelectInSeq(driverPanes, LAMBDA w : w \in shown /\ ActiveIn(activity, w)) = IF I # {} THEN Min(I) ELSE 0
    BY DEF SelectInSeq
  <2> QED  BY <1>3, <2>1 DEF activeVisibleWindow
<1> QED  BY <1>1, <1>4, <1>5, <1>6

LEMMA WindowsHold == AppInv => AppTypeOK /\ OneWindowIsActive
<1> SUFFICES ASSUME AppInv PROVE AppTypeOK /\ OneWindowIsActive
  OBVIOUS
<1>1. AppTypeOK
  BY ManagedPanes DEF AppInv, AppLists, AppMarks, AppTypeOK
<1>2. OneWindowIsActive
  BY ActiveIsDrawn DEF AppInv, AppLists, AppMarks, ListenersKnow, OneWindowIsActive
<1> QED  BY <1>1, <1>2

-----------------------------------------------------------------------------
(* The widgets.  A widget is in the list of one kind, once, also after a   *)
(* button was replaced; only inputs have the keys.                         *)
WidgetsOfAKind ==
    /\ widgets \in [button : Seq(ToSet(Buttons)), tree : {Trees}, input : {Inputs}]
    /\ IsInjective(widgets.button)
    /\ selected \subseteq AllWidgets /\ focused \subseteq Members(Inputs)
    /\ looked \in AllWidgets \cup {Nothing, Unsure}

(* The first element of a list that is in a set, as a sequence.            *)
FirstIn(list, S) ==
    LET I == {i \in 1..Len(list) : list[i] \in S} IN IF I = {} THEN <<>> ELSE <<list[Min(I)]>>

PointerIsKnown ==
    looked # Unsure => \A kind \in {"button", "tree"} : FirstIn(widgets[kind], selected) \in {<<>>, <<looked>>}

ClicksAreKnown ==
    looked # Unsure => Len(ran) <= 1 /\ Members(ran) \subseteq {looked} \cup MenuEntries \cup Members(Inputs)

MenuIsKnown ==
    /\ menu \in BOOLEAN /\ entry \in MenuEntries \cup {Nothing}
    /\ entry # Nothing => menu

KeysAreKnown ==
    /\ activeInput \in Members(Inputs) \cup {Nothing}
    /\ activeInput # Nothing => activeInput \in focused

CaretsAreKnown ==
    /\ textOf \in [Members(Inputs) -> Nat] /\ caret \in [Members(Inputs) -> Int]
    /\ \A i \in Members(Inputs) : caret[i] \in -textOf[i]..0

WidgetsInv ==
    WidgetsOfAKind /\ PointerIsKnown /\ ClicksAreKnown /\ MenuIsKnown /\ KeysAreKnown /\ CaretsAreKnown

LEMMA ListOfWidgets ==
    ASSUME NEW list \in {Buttons, Trees, Inputs}
    PROVE  /\ list \in Seq(ToSet(list)) /\ DOMAIN list = 1..Len(list) /\ Len(list) \in Nat
           /\ Members(list) = ToSet(list) /\ IsInjective(list)
<1>1. list \in Seq(ToSet(list)) /\ IsInjective(list)
  BY WidgetsAssumption DEF WidgetsAssumption
<1> DEFINE T == ToSet(list)
<1>2. DOMAIN list = 1..Len(list) /\ Len(list) \in Nat
  <2>1. list \in Seq(T)
    BY <1>1
  <2> HIDE DEF T
  <2> QED  BY <2>1, ListProperties
<1> QED  BY <1>1, <1>2 DEF ToSet, Members

LEMMA KindsOfWidgets ==
    /\ DOMAIN Lists = {"button", "tree", "input"}
    /\ Lists.button = Buttons /\ Lists.tree = Trees /\ Lists.input = Inputs
    /\ AllWidgets = Members(Buttons) \cup Members(Trees) \cup Members(Inputs)
    /\ Members(Buttons) \cap Members(Trees) = {}
    /\ (Members(Buttons) \cup Members(Trees)) \cap Members(Inputs) = {}
<1>1. /\ Members(Buttons) = ToSet(Buttons) /\ Members(Trees) = ToSet(Trees) /\ Members(Inputs) = ToSet(Inputs)
  BY ListOfWidgets
<1>2. DOMAIN Lists = {"button", "tree", "input"} /\ Lists.button = Buttons /\ Lists.tree = Trees /\ Lists.input = Inputs
  BY DEF Lists
<1>3. AllWidgets = Members(Buttons) \cup Members(Trees) \cup Members(Inputs)
  BY <1>2 DEF AllWidgets
<1> QED  BY <1>1, <1>2, <1>3, WidgetsAssumption DEF WidgetsAssumption

(* The lists of the window.                                                *)
LEMMA ListsOfTheWindow ==
    ASSUME WidgetsOfAKind
    PROVE  /\ DOMAIN widgets = {"button", "tree", "input"} /\ widgets.tree = Trees /\ widgets.input = Inputs
           /\ \A kind \in DOMAIN widgets :
                 /\ DOMAIN widgets[kind] = 1..Len(widgets[kind]) /\ Len(widgets[kind]) \in Nat
                 /\ IsInjective(widgets[kind])
           /\ Members(widgets.button) \subseteq Members(Buttons)
<1>1. /\ DOMAIN widgets = {"button", "tree", "input"} /\ widgets.tree = Trees /\ widgets.input = Inputs
      /\ widgets.button \in Seq(ToSet(Buttons)) /\ IsInjective(widgets.button)
  BY DEF WidgetsOfAKind
<1>2. PICK b : b = widgets.button
  OBVIOUS
<1>3. PICK T : T = ToSet(Buttons)
  OBVIOUS
<1>4. DOMAIN b = 1..Len(b) /\ Len(b) \in Nat /\ \A i \in 1..Len(b) : b[i] \in T
  <2>1. b \in Seq(T)
    BY <1>1, <1>2, <1>3
  <2> QED  BY <2>1, ListProperties
<1>5. Members(widgets.button) \subseteq Members(Buttons)
  BY <1>2, <1>3, <1>4, ListOfWidgets DEF Members
<1>6. \A kind \in DOMAIN widgets :
        /\ DOMAIN widgets[kind] = 1..Len(widgets[kind]) /\ Len(widgets[kind]) \in Nat
        /\ IsInjective(widgets[kind])
  <2>1. DOMAIN Trees = 1..Len(Trees) /\ Len(Trees) \in Nat /\ IsInjective(Trees)
    BY ListOfWidgets
  <2>2. DOMAIN Inputs = 1..Len(Inputs) /\ Len(Inputs) \in Nat /\ IsInjective(Inputs)
    BY ListOfWidgets
  <2> QED  BY <1>1, <1>2, <1>4, <2>1, <2>2
<1> QED  BY <1>1, <1>5, <1>6

LEMMA FirstInProperties ==
    ASSUME NEW list, Len(list) \in Nat, NEW S
    PROVE  \/ FirstIn(list, S) = <<>> /\ \A i \in 1..Len(list) : list[i] \notin S
           \/ \E i \in 1..Len(list) : /\ list[i] \in S /\ FirstIn(list, S) = <<list[i]>>
                                      /\ \A j \in 1..Len(list) : list[j] \in S => i <= j
<1> DEFINE I == {i \in 1..Len(list) : list[i] \in S}
<1>1. I \in SUBSET Nat
  OBVIOUS
<1>2. FirstIn(list, S) = IF I = {} THEN <<>> ELSE <<list[Min(I)]>>
  BY DEF FirstIn
<1>3. I # {} => Min(I) \in I /\ \A i \in I : Min(I) <= i
  <2> HIDE DEF I
  <2> QED  BY <1>1, FirstOfAll
<1>4. CASE I = {}
  BY <1>2, <1>4
<1>5. CASE I # {}
  <2>1. PICK m : m = Min(I)
    OBVIOUS
  <2>2. m \in I /\ \A i \in I : m <= i
    BY <1>3, <1>5, <2>1
  <2>3. FirstIn(list, S) = <<list[m]>>
    BY <1>2, <1>5, <2>1
  <2> QED  BY <2>2, <2>3
<1> QED  BY <1>4, <1>5

(* What the operators of the module do, in these terms.                    *)
LEMMA FirstSelectedIn ==
    ASSUME NEW list, Len(list) \in Nat
    PROVE  FirstSelected(list) = FirstIn(list, selected)
<1> DEFINE I == {i \in 1..Len(list) : list[i] \in selected}
<1>1. SelectInSeq(list, LAMBDA w : w \in selected) = IF I # {} THEN Min(I) ELSE 0
  BY DEF SelectInSeq
<1>2. I # {} => Min(I) # 0
  <2>1. I \in SUBSET Nat /\ 0 \notin I
    OBVIOUS
  <2> HIDE DEF I
  <2> QED  BY <2>1, FirstOfAll
<1> QED  BY <1>1, <1>2 DEF FirstSelected, FirstIn

LEMMA StillSelectedIs ==
    ASSUME NEW list, Len(list) \in Nat, NEW place,
           DOMAIN list = 1..Len(list), IsInjective(list)
    PROVE  /\ StillSelected(list, place) \subseteq Members(list)
           /\ FirstIn(list, StillSelected(list, place)) \in {<<>>, <<place>>}
           /\ FirstIn(list, StillSelected(list, place)) = <<>> => StillSelected(list, place) = {}
<1> DEFINE I == {i \in 1..Len(list) : list[i] = place}
           hit == IF I # {} THEN Min(I) ELSE 0
           S == {list[i] : i \in {j \in DOMAIN list : hit # 0 /\ (j = hit \/ (j > hit /\ list[j] \in selected))}}
<1>1. StillSelected(list, place) = S
  <2>1. SelectInSeq(list, LAMBDA w : w = place) = hit
    BY DEF SelectInSeq
  <2> QED  BY <2>1 DEF StillSelected
<1>2. hit # 0 => hit \in 1..Len(list) /\ list[hit] = place
  <2>1. I \in SUBSET Nat /\ \A i \in I : i \in 1..Len(list) /\ list[i] = place
    OBVIOUS
  <2>2. I # {} => Min(I) \in I
    <3> HIDE DEF I
    <3> QED  BY <2>1, FirstOfAll
  <2> HIDE DEF I
  <2> QED  BY <2>1, <2>2
<1> HIDE DEF hit
<1>3. S \subseteq Members(list)
  BY DEF Members
<1>4. hit = 0 => S = {}
  OBVIOUS
<1>5. hit # 0 => place \in S
  BY <1>2
<1>6. \A i \in 1..Len(list) : list[i] \in S => hit # 0 /\ hit <= i
  <2> SUFFICES ASSUME NEW i \in 1..Len(list), list[i] \in S PROVE hit # 0 /\ hit <= i
    OBVIOUS
  <2>1. PICK j \in DOMAIN list : list[i] = list[j] /\ hit # 0 /\ (j = hit \/ j > hit)
    OBVIOUS
  <2>2. i = j
    BY <2>1 DEF IsInjective
  <2> QED  BY <1>2, <2>1, <2>2
<1> HIDE DEF S
<1>7. \/ FirstIn(list, S) = <<>> /\ \A i \in 1..Len(list) : list[i] \notin S
      \/ \E i \in 1..Len(list) : /\ list[i] \in S /\ FirstIn(list, S) = <<list[i]>>
                                 /\ \A j \in 1..Len(list) : list[j] \in S => i <= j
  BY FirstInProperties
<1>8. CASE hit = 0
  BY <1>1, <1>3, <1>4, <1>7, <1>8
<1>9. CASE hit # 0
  <2>1. hit \in 1..Len(list) /\ list[hit] = place /\ place \in S
    BY <1>2, <1>5, <1>9
  <2>2. PICK i \in 1..Len(list) : /\ list[i] \in S /\ FirstIn(list, S) = <<list[i]>>
                                  /\ \A j \in 1..Len(list) : list[j] \in S => i <= j
    BY <1>7, <2>1
  <2>3. i = hit
    BY <1>6, <2>1, <2>2
  <2> QED  BY <1>1, <1>3, <2>1, <2>2, <2>3
<1> QED  BY <1>8, <1>9

LEMMA OnlyMembers ==
    ASSUME NEW list, Len(list) \in Nat, DOMAIN list = 1..Len(list), NEW S, NEW x, FirstIn(list, S) = <<x>>
    PROVE  x \in Members(list)
<1>1. PICK i \in 1..Len(list) : FirstIn(list, S) = <<list[i]>>
  <2>1. <<x>> # <<>>
    OBVIOUS
  <2> QED  BY <2>1, FirstInProperties
<1>2. <<x>>[1] = x /\ <<list[i]>>[1] = list[i]
  OBVIOUS
<1>3. x = list[i]
  BY <1>1, <1>2
<1> QED  BY <1>3 DEF Members

LEMMA SameFirst ==
    ASSUME NEW list, NEW S, NEW T, \A i \in 1..Len(list) : list[i] \in S <=> list[i] \in T
    PROVE  FirstIn(list, S) = FirstIn(list, T)
<1>1. {i \in 1..Len(list) : list[i] \in S} = {i \in 1..Len(list) : list[i] \in T}
  OBVIOUS
<1> QED  BY <1>1 DEF FirstIn

LEMMA WidgetsInvInit == WidgetsInit => WidgetsInv
<1> SUFFICES ASSUME WidgetsInit PROVE WidgetsInv
  OBVIOUS
<1>1. /\ widgets = Lists /\ selected = {} /\ focused = {} /\ activeInput = Nothing
      /\ textOf = [i \in Members(Inputs) |-> 0] /\ caret = [i \in Members(Inputs) |-> 0]
      /\ menu = FALSE /\ entry = Nothing /\ looked = Nothing /\ ran = <<>>
  BY DEF WidgetsInit
<1>2. Buttons \in Seq(ToSet(Buttons)) /\ IsInjective(Buttons)
  BY ListOfWidgets
<1>3. WidgetsOfAKind
  <2>1. Lists \in [button : Seq(ToSet(Buttons)), tree : {Trees}, input : {Inputs}] /\ Lists.button = Buttons
    BY <1>2 DEF Lists
  <2> QED  BY <1>1, <1>2, <2>1 DEF WidgetsOfAKind
<1>4. PointerIsKnown
  <2>1. ASSUME NEW kind \in {"button", "tree"} PROVE FirstIn(widgets[kind], selected) = <<>>
    <3>1. Len(widgets[kind]) \in Nat
      BY <1>3, ListsOfTheWindow
    <3> QED  BY <1>1, <3>1, FirstInProperties
  <2> QED  BY <2>1 DEF PointerIsKnown
<1>5. ClicksAreKnown
  <2>1. Len(ran) = 0 /\ Members(ran) = {}
    BY <1>1 DEF Members
  <2> QED  BY <2>1 DEF ClicksAreKnown
<1>6. MenuIsKnown /\ KeysAreKnown
  BY <1>1 DEF MenuIsKnown, KeysAreKnown
<1>7. CaretsAreKnown
  BY <1>1 DEF CaretsAreKnown
<1> QED  BY <1>3, <1>4, <1>5, <1>6, <1>7 DEF WidgetsInv

(* An event that runs no callback and leaves a part of the state alone     *)
(* keeps what is known of it.                                              *)
LEMMA WidgetsKept ==
    ASSUME WidgetsInv
    PROVE  /\ UNCHANGED <<widgets, selected, looked>> /\ focused' \subseteq Members(Inputs) => WidgetsOfAKind'
           /\ UNCHANGED <<widgets, selected, looked>> => PointerIsKnown'
           /\ ran' = <<>> => ClicksAreKnown'
           /\ UNCHANGED <<menu, entry>> => MenuIsKnown'
           /\ UNCHANGED <<activeInput, focused>> => KeysAreKnown'
           /\ UNCHANGED <<textOf, caret>> => CaretsAreKnown'
<1>1. UNCHANGED <<widgets, selected, looked>> /\ focused' \subseteq Members(Inputs) => WidgetsOfAKind'
  BY DEF WidgetsInv, WidgetsOfAKind, IsInjective
<1>2. UNCHANGED <<widgets, selected, looked>> => PointerIsKnown'
  BY DEF WidgetsInv, PointerIsKnown
<1>3. ran' = <<>> => ClicksAreKnown'
  <2>1. Len(<<>>) = 0 /\ Members(<<>>) = {}
    BY DEF Members
  <2> QED  BY <2>1 DEF ClicksAreKnown, Members
<1>4. UNCHANGED <<menu, entry>> => MenuIsKnown'
  BY DEF WidgetsInv, MenuIsKnown
<1>5. UNCHANGED <<activeInput, focused>> => KeysAreKnown'
  BY DEF WidgetsInv, KeysAreKnown
<1>6. UNCHANGED <<textOf, caret>> => CaretsAreKnown'
  BY DEF WidgetsInv, CaretsAreKnown
<1> QED  BY <1>1, <1>2, <1>3, <1>4, <1>5, <1>6

LEMMA PointerPositionInv ==
    ASSUME WidgetsInv, ProcessPointerPosition
    PROVE  WidgetsInv'
<1>1. PICK place \in AllWidgets \cup MenuEntries \cup {Nothing, Beneath} :
        /\ place \in MenuEntries \cup {Beneath} => menu
        /\ IF menu
           THEN entry' = MenuSelection(place) /\ UNCHANGED <<selected, looked>>
           ELSE /\ selected' = UNION {StillSelected(widgets[k], place) : k \in DOMAIN widgets}
                /\ looked' = place /\ UNCHANGED entry
  BY DEF ProcessPointerPosition
<1>2. UNCHANGED <<widgets, focused, activeInput, textOf, caret, menu>> /\ ran' = <<>>
  BY DEF ProcessPointerPosition
<1>3. /\ WidgetsOfAKind /\ MenuIsKnown /\ focused \subseteq Members(Inputs)
  BY DEF WidgetsInv, WidgetsOfAKind
<1>4. ClicksAreKnown' /\ KeysAreKnown' /\ CaretsAreKnown'
  BY <1>2, WidgetsKept
<1>5. CASE menu
  <2>1. MenuIsKnown'
    BY <1>1, <1>2, <1>3, <1>5 DEF MenuIsKnown, MenuSelection
  <2>2. WidgetsOfAKind' /\ PointerIsKnown'
    BY <1>1, <1>2, <1>3, <1>5, WidgetsKept
  <2> QED  BY <1>4, <2>1, <2>2 DEF WidgetsInv
<1>6. CASE ~menu
  <2>1. /\ selected' = UNION {StillSelected(widgets[k], place) : k \in DOMAIN widgets}
        /\ looked' = place /\ entry' = entry /\ menu' = menu /\ place \in AllWidgets \cup {Nothing}
    BY <1>1, <1>2, <1>6
  <2>2. MenuIsKnown'
    BY <2>1, WidgetsKept
  <2>3. /\ DOMAIN widgets = {"button", "tree", "input"} /\ widgets.tree = Trees /\ widgets.input = Inputs
        /\ \A kind \in DOMAIN widgets :
              /\ DOMAIN widgets[kind] = 1..Len(widgets[kind]) /\ Len(widgets[kind]) \in Nat
              /\ IsInjective(widgets[kind])
        /\ Members(widgets.button) \subseteq Members(Buttons)
    BY <1>3, ListsOfTheWindow
  <2>4. \A kind \in DOMAIN widgets :
          /\ StillSelected(widgets[kind], place) \subseteq Members(widgets[kind])
          /\ FirstIn(widgets[kind], StillSelected(widgets[kind], place)) \in {<<>>, <<place>>}
    BY <2>3, StillSelectedIs
  <2>5. /\ AllWidgets = Members(Buttons) \cup Members(Trees) \cup Members(Inputs)
        /\ Members(Buttons) \cap Members(Trees) = {}
        /\ (Members(Buttons) \cup Members(Trees)) \cap Members(Inputs) = {}
    BY KindsOfWidgets
  <2>6. selected' \subseteq AllWidgets
    BY <2>1, <2>3, <2>4, <2>5
  <2>7. WidgetsOfAKind'
    BY <1>2, <1>3, <2>1, <2>6 DEF WidgetsOfAKind, IsInjective
  <2>8. ASSUME NEW kind \in {"button", "tree"} PROVE FirstIn(widgets[kind], selected') \in {<<>>, <<place>>}
    <3>1. kind \in DOMAIN widgets
      BY <2>3
    <3>2. ASSUME NEW i \in 1..Len(widgets[kind]), NEW k \in DOMAIN widgets,
                 widgets[kind][i] \in StillSelected(widgets[k], place)
          PROVE  k = kind
      <4>1. widgets[kind][i] \in Members(widgets[kind]) /\ widgets[kind][i] \in Members(widgets[k])
        BY <2>3, <2>4, <3>1, <3>2 DEF Members
      <4> QED  BY <2>3, <2>5, <4>1
    <3>3. \A i \in 1..Len(widgets[kind]) :
            widgets[kind][i] \in selected' <=> widgets[kind][i] \in StillSelected(widgets[kind], place)
      BY <2>1, <3>1, <3>2
    <3>4. FirstIn(widgets[kind], selected') = FirstIn(widgets[kind], StillSelected(widgets[kind], place))
      BY <3>3, SameFirst
    <3> QED  BY <2>4, <3>1, <3>4
  <2>9. PointerIsKnown'
    BY <1>2, <2>1, <2>8 DEF PointerIsKnown
  <2> QED  BY <1>4, <2>2, <2>7, <2>9 DEF WidgetsInv
<1> QED  BY <1>5, <1>6

LEMMA PointerClickInv ==
    ASSUME WidgetsInv, ProcessPointerClick
    PROVE  WidgetsInv'
<1>1. PICK onNode \in BOOLEAN :
        IF menu
        THEN /\ ran' = IF entry = Nothing THEN <<>> ELSE <<entry>>
             /\ menu' = FALSE /\ entry' = Nothing
             /\ UNCHANGED <<focused, activeInput>>
        ELSE /\ ran' = FirstSelected(widgets.button)
                       \o IF onNode THEN FirstSelected(widgets.tree) ELSE <<>>
             /\ ProcessInputActivation /\ UNCHANGED <<menu, entry>>
  BY DEF ProcessPointerClick
<1>2. UNCHANGED <<widgets, selected, textOf, caret, looked>>
  BY DEF ProcessPointerClick
<1>3. /\ WidgetsOfAKind /\ MenuIsKnown /\ KeysAreKnown /\ PointerIsKnown /\ focused \subseteq Members(Inputs)
  BY DEF WidgetsInv, WidgetsOfAKind
<1>4. PointerIsKnown' /\ CaretsAreKnown'
  BY <1>2, WidgetsKept
<1>5. /\ DOMAIN widgets = {"button", "tree", "input"} /\ widgets.tree = Trees /\ widgets.input = Inputs
      /\ \A kind \in DOMAIN widgets :
            /\ DOMAIN widgets[kind] = 1..Len(widgets[kind]) /\ Len(widgets[kind]) \in Nat
            /\ IsInjective(widgets[kind])
      /\ Members(widgets.button) \subseteq Members(Buttons)
  BY <1>3, ListsOfTheWindow
<1>6. CASE menu
  <2>a. menu' = FALSE /\ entry' = Nothing /\ UNCHANGED <<focused, activeInput>>
    BY <1>1, <1>6
  <2>1. MenuIsKnown' /\ KeysAreKnown'
    <3>1. MenuIsKnown'
      BY <2>a DEF MenuIsKnown
    <3> QED  BY <2>a, <3>1, WidgetsKept
  <2>2. WidgetsOfAKind'
    BY <1>1, <1>2, <1>3, <1>6, WidgetsKept
  <2>3. ClicksAreKnown'
    <3>1. CASE entry = Nothing
      <4>1. ran' = <<>>
        BY <1>1, <1>6, <3>1
      <4> QED  BY <4>1, WidgetsKept
    <3>2. CASE entry # Nothing
      <4>1. ran' = <<entry>> /\ entry \in MenuEntries
        BY <1>1, <1>3, <1>6, <3>2 DEF MenuIsKnown
      <4>2. Len(<<entry>>) = 1 /\ Members(<<entry>>) = {entry}
        BY DEF Members
      <4>3. Len(ran') <= 1 /\ Members(ran)' \subseteq MenuEntries
        BY <4>1, <4>2 DEF Members
      <4> QED  BY <4>3 DEF ClicksAreKnown
    <3> QED  BY <3>1, <3>2
  <2> QED  BY <1>4, <2>1, <2>2, <2>3 DEF WidgetsInv
<1>7. CASE ~menu
  <2>1. MenuIsKnown'
    BY <1>1, <1>7, WidgetsKept
  <2> DEFINE list == widgets.input
             I == {j \in 1..Len(list) : list[j] \in selected}
             i == IF I # {} THEN Min(I) ELSE 0
             passed == {list[j] : j \in {k \in DOMAIN list : i = 0 \/ k < i}}
  <2>2. /\ focused' = (focused \ passed) \cup (IF i = 0 THEN {} ELSE {list[i]})
        /\ activeInput' = IF i # 0 THEN list[i] ELSE IF focused \cap passed # {} THEN Nothing ELSE activeInput
    <3>1. SelectInSeq(list, LAMBDA w : w \in selected) = i
      BY DEF SelectInSeq
    <3> QED  BY <1>1, <1>7, <3>1 DEF ProcessInputActivation
  <2>3. i # 0 => i \in DOMAIN list
    <3>1. I \in SUBSET Nat /\ I \subseteq DOMAIN list
      BY <1>5
    <3>2. I # {} => Min(I) \in I
      <4> HIDE DEF I
      <4> QED  BY <3>1, FirstOfAll
    <3> HIDE DEF I
    <3> QED  BY <3>1, <3>2
  <2> HIDE DEF i
  <2>4. i # 0 => list[i] \in Members(Inputs)
    BY <1>5, <2>3 DEF Members
  <2>5. i = 0 => passed = Members(Inputs)
    BY <1>5 DEF Members
  <2> HIDE DEF passed, list
  <2>6. focused' \subseteq Members(Inputs)
    BY <1>3, <2>2, <2>4
  <2>7. WidgetsOfAKind'
    BY <1>2, <2>6, WidgetsKept
  <2>8. KeysAreKnown'
    <3>1. CASE i # 0
      BY <2>2, <2>4, <3>1 DEF KeysAreKnown
    <3>2. CASE i = 0 /\ focused \cap passed # {}
      BY <2>2, <3>2 DEF KeysAreKnown
    <3>3. CASE i = 0 /\ focused \cap passed = {}
      <4>1. focused = {} /\ activeInput' = activeInput
        BY <1>3, <2>2, <2>5, <3>3
      <4> QED  BY <1>3, <4>1 DEF KeysAreKnown
    <3> QED  BY <3>1, <3>2, <3>3
  <2> DEFINE B == FirstIn(widgets.button, selected)
             T == FirstIn(widgets.tree, selected)
  <2>9. ran' = B \o IF onNode THEN T ELSE <<>>
    BY <1>1, <1>5, <1>7, FirstSelectedIn
  <2>10. looked # Unsure => B \in {<<>>, <<looked>>} /\ T \in {<<>>, <<looked>>}
    BY <1>3 DEF PointerIsKnown
  <2>11. B = <<looked>> => looked \in Members(widgets.button)
    BY <1>5, OnlyMembers
  <2>12. T = <<looked>> => looked \in Members(widgets.tree)
    BY <1>5, OnlyMembers
  <2>13. Members(widgets.button) \cap Members(widgets.tree) = {}
    BY <1>5, KindsOfWidgets
  <2> HIDE DEF B, T
  <2>14. looked # Unsure => ran' \in {<<>>, <<looked>>}
    <3>1. <<>> \o <<>> = <<>> /\ <<looked>> \o <<>> = <<looked>> /\ <<>> \o <<looked>> = <<looked>>
      OBVIOUS
    <3>2. ~(B = <<looked>> /\ T = <<looked>>)
      BY <2>11, <2>12, <2>13
    <3>3. CASE onNode
      BY <2>9, <2>10, <3>1, <3>2, <3>3
    <3>4. CASE ~onNode
      BY <2>9, <2>10, <3>1, <3>4
    <3> QED  BY <3>3, <3>4
  <2>15. ClicksAreKnown'
    <3>1. Len(<<looked>>) = 1 /\ Members(<<looked>>) = {looked} /\ Len(<<>>) = 0 /\ Members(<<>>) = {}
      BY DEF Members
    <3>2. looked # Unsure => Len(ran') <= 1 /\ Members(ran') \subseteq {looked}
      <4>1. CASE ran' = <<>>
        BY <3>1, <4>1
      <4>2. CASE ran' = <<looked>>
        BY <3>1, <4>2
      <4> QED  BY <2>14, <4>1, <4>2
    <3>3. Members(ran)' = Members(ran')
      BY DEF Members
    <3> QED  BY <1>2, <3>2, <3>3 DEF ClicksAreKnown
  <2> QED  BY <1>4, <2>1, <2>7, <2>8, <2>15 DEF WidgetsInv
<1> QED  BY <1>6, <1>7

LEMMA ReplaceButtonInv ==
    ASSUME WidgetsInv, ReplaceButton
    PROVE  WidgetsInv'
<1>1. PICK b \in OfKind("button") :
        /\ widgets' = [widgets EXCEPT !.button = Append(Chosen(@, OfKind("button") \ {b}), b)]
        /\ selected' = selected \ {b} /\ looked' = Unsure
  BY DEF ReplaceButton
<1>2. UNCHANGED <<focused, activeInput, textOf, caret, menu, entry>> /\ ran' = <<>>
  BY DEF ReplaceButton
<1>3. WidgetsOfAKind /\ widgets.button \in Seq(ToSet(Buttons)) /\ IsInjective(widgets.button)
  BY DEF WidgetsInv, WidgetsOfAKind
<1> DEFINE list == widgets.button
           T == ToSet(Buttons)
           S == OfKind("button") \ {b}
           rest == Chosen(list, S)
           n == Len(rest)
           new == Append(rest, b)
<1>4. b \in T
  <2>1. OfKind("button") \subseteq Members(Buttons) /\ Members(Buttons) = T
    BY <1>3, ListsOfTheWindow, ListOfWidgets DEF OfKind
  <2> QED  BY <2>1
<1> HIDE DEF S
<1>5. rest \in Seq(T) /\ IsInjective(rest)
  <2>1. list \in Seq(T) /\ IsInjective(list)
    BY <1>3
  <2> HIDE DEF T, list
  <2> QED  BY <2>1, ChosenProperties
<1>6. \A i \in DOMAIN rest : rest[i] # b
  <2>1. list \in Seq(T)
    BY <1>3
  <2>2. \A i \in DOMAIN rest : rest[i] \in S
    <3> HIDE DEF T, list
    <3> QED  BY <2>1, ChosenProperties
  <2> QED  BY <2>2 DEF S
<1> HIDE DEF rest, T
<1>7. /\ new \in Seq(T) /\ n \in Nat /\ DOMAIN rest = 1..n
      /\ new[n + 1] = b /\ \A k \in DOMAIN rest : new[k] = rest[k]
      /\ \A k \in DOMAIN new : k \in DOMAIN rest \/ k = n + 1
  BY <1>4, <1>5, ListExtended
<1>8. IsInjective(new)
  BY <1>5, <1>6, <1>7 DEF IsInjective
<1>9. widgets' = [widgets EXCEPT !.button = new]
  BY <1>1 DEF rest, list, S
<1> HIDE DEF new
<1>10. widgets' \in [button : Seq(T), tree : {Trees}, input : {Inputs}] /\ widgets'.button = new
  BY <1>3, <1>7, <1>9 DEF WidgetsOfAKind, T
<1>11. WidgetsOfAKind'
  <2>1. selected' \subseteq AllWidgets /\ focused' \subseteq Members(Inputs)
    BY <1>1, <1>2, <1>3 DEF WidgetsOfAKind
  <2>2. IsInjective(widgets.button)'
    BY <1>8, <1>10 DEF IsInjective
  <2> QED  BY <1>1, <1>10, <2>1, <2>2 DEF WidgetsOfAKind, T
<1>12. PointerIsKnown'
  BY <1>1 DEF PointerIsKnown
<1> QED  BY <1>2, <1>11, <1>12, WidgetsKept DEF WidgetsInv

LEMMA SetFocusedInv ==
    ASSUME WidgetsInv, SetFocused
    PROVE  WidgetsInv'
<1>1. PICK w \in OfKind("input") : focused' = focused \cup {w} /\ selected' = selected \cup {w}
  BY DEF SetFocused
<1>2. UNCHANGED <<widgets, activeInput, textOf, caret, menu, entry, looked>> /\ ran' = <<>>
  BY DEF SetFocused
<1>3. WidgetsOfAKind /\ PointerIsKnown /\ KeysAreKnown
  BY DEF WidgetsInv
<1>4. /\ DOMAIN widgets = {"button", "tree", "input"} /\ widgets.tree = Trees /\ widgets.input = Inputs
      /\ \A kind \in DOMAIN widgets : DOMAIN widgets[kind] = 1..Len(widgets[kind])
      /\ Members(widgets.button) \subseteq Members(Buttons)
  BY <1>3, ListsOfTheWindow
<1>5. /\ AllWidgets = Members(Buttons) \cup Members(Trees) \cup Members(Inputs)
      /\ (Members(Buttons) \cup Members(Trees)) \cap Members(Inputs) = {}
  BY KindsOfWidgets
<1>6. w \in Members(Inputs)
  BY <1>4 DEF OfKind
<1>7. WidgetsOfAKind'
  BY <1>1, <1>2, <1>3, <1>5, <1>6 DEF WidgetsOfAKind, IsInjective
<1>8. ASSUME NEW kind \in {"button", "tree"}
      PROVE  FirstIn(widgets[kind], selected') = FirstIn(widgets[kind], selected)
  <2>1. \A i \in 1..Len(widgets[kind]) : widgets[kind][i] # w
    BY <1>4, <1>5, <1>6 DEF Members
  <2>2. \A i \in 1..Len(widgets[kind]) : widgets[kind][i] \in selected' <=> widgets[kind][i] \in selected
    BY <1>1, <2>1
  <2> QED  BY <2>2, SameFirst
<1>9. PointerIsKnown'
  BY <1>2, <1>3, <1>8 DEF PointerIsKnown
<1>10. KeysAreKnown'
  BY <1>1, <1>2, <1>3 DEF KeysAreKnown
<1> QED  BY <1>2, <1>7, <1>9, <1>10, WidgetsKept DEF WidgetsInv

LEMMA CaretsInv ==
    ASSUME WidgetsInv, ProcessArrowKeys \/ SetValue \/ DrawInput
    PROVE  CaretsAreKnown'
<1>1. /\ textOf \in [Members(Inputs) -> Nat] /\ caret \in [Members(Inputs) -> Int]
      /\ \A i \in Members(Inputs) : caret[i] \in -textOf[i]..0
      /\ focused \subseteq Members(Inputs) /\ OfKind("input") = Members(Inputs)
  BY ListsOfTheWindow DEF WidgetsInv, CaretsAreKnown, WidgetsOfAKind, OfKind
<1>2. CASE ProcessArrowKeys
  <2>1. PICK step \in {-1, 1} :
          /\ IF step = -1 THEN caret[activeInput] + textOf[activeInput] > 0 ELSE caret[activeInput] < 0
          /\ caret' = [caret EXCEPT ![activeInput] = @ + step]
          /\ activeInput \in focused /\ textOf' = textOf
    BY <1>2 DEF ProcessArrowKeys
  <2>2. PICK w \in Members(Inputs) : w = activeInput
    BY <1>1, <2>1
  <2>3. caret[w] + step \in -textOf[w]..0 /\ caret[w] + step \in Int
    <3>1. caret[w] \in -textOf[w]..0 /\ textOf[w] \in Nat /\ caret[w] \in Int
      BY <1>1
    <3>2. CASE step = -1
      BY <2>1, <2>2, <3>1, <3>2
    <3>3. CASE step = 1
      BY <2>1, <2>2, <3>1, <3>3
    <3> QED  BY <3>2, <3>3
  <2>4. caret' = [caret EXCEPT ![w] = caret[w] + step]
    BY <2>1, <2>2
  <2> QED  BY <1>1, <2>1, <2>3, <2>4 DEF CaretsAreKnown
<1>3. CASE SetValue
  <2>1. PICK w \in Members(Inputs), n \in 0..MaxLength :
          /\ textOf' = [textOf EXCEPT ![w] = n]
          /\ caret' = [caret EXCEPT ![w] = IF @ < -n THEN -n ELSE IF @ > 0 THEN 0 ELSE @]
    BY <1>1, <1>3 DEF SetValue
  <2>2. MaxLength \in Nat
    BY WidgetsAssumption DEF WidgetsAssumption
  <2> DEFINE c == IF caret[w] < -n THEN -n ELSE IF caret[w] > 0 THEN 0 ELSE caret[w]
  <2>3. c \in -n..0 /\ c \in Int /\ n \in Nat
    <3>1. caret[w] \in Int /\ n \in Nat
      BY <1>1, <2>2
    <3> QED  BY <3>1
  <2>4. caret' = [caret EXCEPT ![w] = c]
    BY <2>1
  <2> HIDE DEF c
  <2> QED  BY <1>1, <2>1, <2>3, <2>4 DEF CaretsAreKnown
<1>4. CASE DrawInput
  <2>1. PICK w \in Members(Inputs) : caret' = [caret EXCEPT ![w] = 0] /\ textOf' = textOf
    BY <1>1, <1>4 DEF DrawInput
  <2>2. 0 \in -textOf[w]..0
    <3>1. textOf[w] \in Nat
      BY <1>1
    <3> QED  BY <3>1
  <2> QED  BY <1>1, <2>1, <2>2 DEF CaretsAreKnown
<1> QED  BY <1>2, <1>3, <1>4

LEMMA WidgetsInvStep == WidgetsInv /\ [WidgetsNext]_widgetVars => WidgetsInv'
<1> SUFFICES ASSUME WidgetsInv, [WidgetsNext]_widgetVars PROVE WidgetsInv'
  OBVIOUS
<1>f. focused \subseteq Members(Inputs)
  BY DEF WidgetsInv, WidgetsOfAKind
<1>1. CASE ProcessPointerPosition
  BY <1>1, PointerPositionInv
<1>2. CASE ProcessPointerClick
  BY <1>2, PointerClickInv
<1>3. CASE OpenMenu
  <2>1. UNCHANGED <<widgets, selected, focused, activeInput, textOf, caret, looked>> /\ ran' = <<>>
    BY <1>3 DEF OpenMenu
  <2>2. menu' = TRUE /\ entry' = Nothing
    BY <1>3 DEF OpenMenu
  <2>3. MenuIsKnown'
    BY <2>2 DEF MenuIsKnown
  <2> QED  BY <1>f, <2>1, <2>3, WidgetsKept DEF WidgetsInv
<1>4. CASE ReplaceButton
  BY <1>4, ReplaceButtonInv
<1>5. CASE SetFocused
  BY <1>5, SetFocusedInv
<1>6. CASE ProcessReturnKey
  <2>1. UNCHANGED <<widgets, selected, textOf, caret, menu, entry, looked>>
    BY <1>6 DEF ProcessReturnKey
  <2>2. /\ activeInput \in focused
        /\ focused' = focused \ {activeInput} /\ activeInput' = Nothing /\ ran' = <<activeInput>>
    BY <1>6 DEF ProcessReturnKey
  <2>3. KeysAreKnown'
    BY <2>2 DEF KeysAreKnown
  <2>4. ClicksAreKnown'
    <3>1. Len(<<activeInput>>) = 1 /\ Members(<<activeInput>>) = {activeInput}
      BY DEF Members
    <3>2. Len(ran') <= 1 /\ Members(ran') \subseteq Members(Inputs) /\ Members(ran)' = Members(ran')
      BY <1>f, <2>2, <3>1 DEF Members
    <3> QED  BY <3>2 DEF ClicksAreKnown
  <2>5. focused' \subseteq Members(Inputs)
    BY <1>f, <2>2
  <2> QED  BY <2>1, <2>3, <2>4, <2>5, WidgetsKept DEF WidgetsInv
<1>7. CASE ProcessArrowKeys \/ SetValue \/ DrawInput
  <2>1. UNCHANGED <<widgets, selected, focused, activeInput, menu, entry, looked>> /\ ran' = <<>>
    BY <1>7 DEF ProcessArrowKeys, SetValue, DrawInput
  <2>2. CaretsAreKnown'
    BY <1>7, CaretsInv
  <2> QED  BY <1>f, <2>1, <2>2, WidgetsKept DEF WidgetsInv
<1>8. CASE UNCHANGED widgetVars
  <2>1. /\ UNCHANGED <<widgets, selected, focused, activeInput, textOf, caret, menu, entry, looked>>
        /\ UNCHANGED ran
    BY <1>8 DEF widgetVars
  <2>2. ClicksAreKnown'
    BY <2>1 DEF WidgetsInv, ClicksAreKnown
  <2> QED  BY <1>f, <2>1, <2>2, WidgetsKept DEF WidgetsInv
<1> QED  BY <1>1, <1>2, <1>3, <1>4, <1>5, <1>6, <1>7, <1>8 DEF WidgetsNext

LEMMA WidgetsHold == WidgetsInv => WidgetsTypeOK /\ ClicksHitTheirTarget
<1> SUFFICES ASSUME WidgetsInv PROVE WidgetsTypeOK /\ ClicksHitTheirTarget
  OBVIOUS
<1>1. WidgetsTypeOK
  <2>1. selected \cup focused \subseteq AllWidgets /\ looked \in AllWidgets \cup {Nothing, Unsure}
    BY KindsOfWidgets DEF WidgetsInv, WidgetsOfAKind
  <2> QED  BY <2>1 DEF WidgetsInv, MenuIsKnown, KeysAreKnown, WidgetsTypeOK
<1>2. \A kind \in {"button", "tree"} : FirstSelected(widgets[kind]) = FirstIn(widgets[kind], selected)
  BY ListsOfTheWindow, FirstSelectedIn DEF WidgetsInv
<1>3. looked # Unsure => \A kind \in {"button", "tree"} :
          LET first == FirstSelected(widgets[kind]) IN first # <<>> => first = <<looked>>
  BY <1>2 DEF WidgetsInv, PointerIsKnown
<1>4. \A i \in DOMAIN textOf : caret[i] \in -textOf[i]..0
  BY DEF WidgetsInv, CaretsAreKnown
<1>5. entry # Nothing => menu
  BY DEF WidgetsInv, MenuIsKnown
<1>6. activeInput # Nothing => activeInput \in focused
  BY DEF WidgetsInv, KeysAreKnown
<1> QED  BY <1>1, <1>3, <1>4, <1>5, <1>6 DEF ClicksHitTheirTarget, WidgetsInv, ClicksAreKnown

-----------------------------------------------------------------------------
(* The lists of the user.  An ID is below the next one, of bookmarks and   *)
(* folders and of the file too, whose next ID comes back with them; the    *)
(* bookmarks all name folder 0, which there is not.                        *)
Addresses == WebPages \cup {"thdwb://newtab/"}
Marks(n) == [id : 1..(n - 1), url : Addresses, folder : {0}]
Shelves(n) == [id : 1..(n - 1), items : Seq(Nat)]
Entries == [id : Nat, url : Addresses]

MarksAgree(b, f) ==
    /\ \A i \in DOMAIN b, j \in DOMAIN f : b[i].id # f[j].id
    /\ \A i, j \in DOMAIN b : b[i].id = b[j].id => i = j
    /\ \A i \in DOMAIN b : \E j \in DOMAIN f : f[j].id = b[i].id + 1 /\ f[j].items = <<b[i].id>>

GoodMarks(b, f, n) ==
    /\ n \in 1..(MaxIDs + 1) /\ b \in Seq(Marks(n)) /\ f \in Seq(Shelves(n))
    /\ MarksAgree(b, f)

FileIsGood ==
    bookmarkFile.state = "whole" => GoodMarks(bookmarkFile.bookmarks, bookmarkFile.folders, bookmarkFile.nextMark)

VisitsInOrder ==
    /\ nextEntry \in 1..(MaxVisits + 1) /\ visits \in Seq(Entries)
    /\ \A i \in DOMAIN visits : visits[i].id < nextEntry
    /\ \A i \in 2..Len(visits) : visits[i - 1].id < visits[i].id
    /\ shownURL \in Addresses

BarIsSane ==
    /\ suggestions \in Seq(Addresses) /\ selectedSugg \in Nat
    /\ suggestions = <<>> \/ selectedSugg < Len(suggestions)
    /\ suggestions = <<>> => selectedSugg = 0

ListsInv == GoodMarks(bookmarks, folders, nextMark) /\ FileIsGood /\ VisitsInOrder /\ BarIsSane

LEMMA MarksAreLists ==
    ASSUME NEW b, NEW f, NEW n, GoodMarks(b, f, n)
    PROVE  /\ DOMAIN b = 1..Len(b) /\ Len(b) \in Nat /\ DOMAIN f = 1..Len(f) /\ Len(f) \in Nat
           /\ \A i \in DOMAIN b : b[i] \in Marks(n)
           /\ \A i \in DOMAIN f : f[i] \in Shelves(n)
           /\ n \in Nat /\ n >= 1 /\ MaxIDs \in Nat
<1>1. b \in Seq(Marks(n)) /\ f \in Seq(Shelves(n)) /\ n \in 1..(MaxIDs + 1) /\ MaxIDs \in Nat
  BY ListsAssumption DEF GoodMarks, ListsAssumption
<1> HIDE DEF Marks, Shelves
<1>2. DOMAIN b = 1..Len(b) /\ Len(b) \in Nat /\ \A i \in DOMAIN b : b[i] \in Marks(n)
  BY <1>1, ListProperties
<1>3. DOMAIN f = 1..Len(f) /\ Len(f) \in Nat /\ \A i \in DOMAIN f : f[i] \in Shelves(n)
  BY <1>1, ListProperties
<1> QED  BY <1>1, <1>2, <1>3

(* The position of an ID is 0, or that of an element with the ID.          *)
LEMMA PositionProperties ==
    ASSUME NEW list, NEW id
    PROVE  \/ Position(list, id) = 0 /\ \A i \in 1..Len(list) : list[i].id # id
           \/ Position(list, id) \in 1..Len(list) /\ Position(list, id) # 0 /\ list[Position(list, id)].id = id
<1> DEFINE I == {i \in 1..Len(list) : list[i].id = id}
<1>1. Position(list, id) = IF I # {} THEN Min(I) ELSE 0
  BY DEF Position, SelectInSeq
<1>2. I \in SUBSET Nat /\ 0 \notin I
  OBVIOUS
<1>3. I # {} => Min(I) \in I
  <2> HIDE DEF I
  <2> QED  BY <1>2, FirstOfAll
<1>4. CASE I = {}
  BY <1>1, <1>4
<1>5. CASE I # {}
  <2>1. PICK m \in I : m = Position(list, id)
    BY <1>1, <1>3, <1>5
  <2> QED  BY <1>2, <2>1
<1> QED  BY <1>4, <1>5

(* No folder has the ID 0.                                                 *)
LEMMA NoFolderNamed ==
    ASSUME NEW b, NEW f, NEW n, GoodMarks(b, f, n)
    PROVE  Position(f, 0) = 0
<1>1. \A i \in 1..Len(f) : f[i].id # 0
  <2>1. \A i \in 1..Len(f) : f[i] \in Shelves(n) /\ n \in Nat
    BY MarksAreLists
  <2> QED  BY <2>1 DEF Shelves
<1>2. 0 \notin 1..Len(f)
  OBVIOUS
<1> QED  BY <1>1, PositionProperties

(* IDs that were given out stay so.                                        *)
LEMMA MoreIDs ==
    ASSUME NEW n \in Nat, NEW m \in Nat, n <= m
    PROVE  Seq(Marks(n)) \subseteq Seq(Marks(m)) /\ Seq(Shelves(n)) \subseteq Seq(Shelves(m))
<1>1. Marks(n) \subseteq Marks(m)
  BY DEF Marks
<1>2. Shelves(n) \subseteq Shelves(m)
  BY DEF Shelves
<1> QED  BY <1>1, <1>2, SeqMonotonic

LEMMA GoodAfterAdding ==
    ASSUME GoodMarks(bookmarks, folders, nextMark), NEW page \in Addresses,
           nextMark + 1 <= MaxIDs, AddBookmark(page)
    PROVE  GoodMarks(bookmarks', folders', nextMark')
<1> DEFINE n == nextMark
           b == bookmarks
           f == folders
           c == Append(b, [id |-> n, url |-> page, folder |-> 0])
           g == Append(f, [id |-> n + 1, items |-> <<n>>])
           lb == Len(b)
           lf == Len(f)
<1>1. /\ DOMAIN b = 1..lb /\ lb \in Nat /\ DOMAIN f = 1..lf /\ lf \in Nat
      /\ \A i \in DOMAIN b : b[i] \in Marks(n)
      /\ \A i \in DOMAIN f : f[i] \in Shelves(n)
      /\ n \in Nat /\ n >= 1 /\ MaxIDs \in Nat
  BY MarksAreLists
<1>2. bookmarks' = c /\ folders' = g /\ nextMark' = n + 2
  BY NoFolderNamed DEF AddBookmark
<1>3. b \in Seq(Marks(n + 2)) /\ f \in Seq(Shelves(n + 2))
  <2>1. n + 2 \in Nat /\ n <= n + 2 /\ b \in Seq(Marks(n)) /\ f \in Seq(Shelves(n))
    BY <1>1 DEF GoodMarks
  <2> QED  BY <1>1, <2>1, MoreIDs
<1>4. [id |-> n, url |-> page, folder |-> 0] \in Marks(n + 2) /\ [id |-> n + 1, items |-> <<n>>] \in Shelves(n + 2)
  <2>1. <<n>> \in Seq(Nat)
    BY <1>1
  <2> QED  BY <1>1, <2>1 DEF Marks, Shelves
<1>5. MarksAgree(b, f)
  BY DEF GoodMarks
<1>6. \A i \in DOMAIN b : b[i].id \in Nat /\ b[i].id < n
  BY <1>1 DEF Marks
<1>7. \A i \in DOMAIN f : f[i].id \in Nat /\ f[i].id < n
  BY <1>1 DEF Shelves
<1> HIDE DEF c, g, lb, lf, b, f, n
<1>8. /\ c \in Seq(Marks(n + 2)) /\ DOMAIN c = 1..lb + 1
      /\ c[lb + 1] = [id |-> n, url |-> page, folder |-> 0] /\ \A k \in DOMAIN b : c[k] = b[k]
      /\ \A k \in DOMAIN c : k \in DOMAIN b \/ k = lb + 1
  BY <1>3, <1>4, ListExtended DEF c, lb
<1>9. /\ g \in Seq(Shelves(n + 2)) /\ DOMAIN g = 1..lf + 1
      /\ g[lf + 1] = [id |-> n + 1, items |-> <<n>>] /\ \A k \in DOMAIN f : g[k] = f[k]
      /\ \A k \in DOMAIN g : k \in DOMAIN f \/ k = lf + 1
  BY <1>3, <1>4, ListExtended DEF g, lf
<1>10. c[lb + 1].id = n /\ g[lf + 1].id = n + 1 /\ g[lf + 1].items = <<n>> /\ lf + 1 \in DOMAIN g
       /\ DOMAIN f \subseteq DOMAIN g
  BY <1>1, <1>8, <1>9
<1>11. \A i \in DOMAIN c, j \in DOMAIN g : c[i].id # g[j].id
  <2> SUFFICES ASSUME NEW i \in DOMAIN c, NEW j \in DOMAIN g PROVE c[i].id # g[j].id
    OBVIOUS
  <2>1. CASE i \in DOMAIN b /\ j \in DOMAIN f
    <3>1. c[i] = b[i] /\ g[j] = f[j] /\ b[i].id # f[j].id
      BY <1>5, <1>8, <1>9, <2>1 DEF MarksAgree
    <3> QED  BY <3>1
  <2>2. CASE i \in DOMAIN b /\ j = lf + 1
    <3>1. c[i] = b[i] /\ b[i].id < n /\ b[i].id \in Nat
      BY <1>6, <1>8, <2>2
    <3> QED  BY <1>1, <1>10, <2>2, <3>1
  <2>3. CASE i = lb + 1 /\ j \in DOMAIN f
    <3>1. g[j] = f[j] /\ f[j].id < n /\ f[j].id \in Nat
      BY <1>7, <1>9, <2>3
    <3> QED  BY <1>1, <1>10, <2>3, <3>1
  <2>4. CASE i = lb + 1 /\ j = lf + 1
    BY <1>1, <1>10, <2>4
  <2> QED  BY <1>8, <1>9, <2>1, <2>2, <2>3, <2>4
<1>12. \A i, j \in DOMAIN c : c[i].id = c[j].id => i = j
  <2>1. \A i \in DOMAIN b : c[i].id # n /\ c[i].id = b[i].id
    BY <1>1, <1>6, <1>8
  <2> QED  BY <1>5, <1>8, <1>10, <2>1 DEF MarksAgree
<1>13. \A i \in DOMAIN c : \E j \in DOMAIN g : g[j].id = c[i].id + 1 /\ g[j].items = <<c[i].id>>
  <2> SUFFICES ASSUME NEW i \in DOMAIN c
               PROVE  \E j \in DOMAIN g : g[j].id = c[i].id + 1 /\ g[j].items = <<c[i].id>>
    OBVIOUS
  <2>1. CASE i \in DOMAIN b
    <3>1. PICK j \in DOMAIN f : f[j].id = b[i].id + 1 /\ f[j].items = <<b[i].id>>
      BY <1>5, <2>1 DEF MarksAgree
    <3>2. c[i] = b[i] /\ g[j] = f[j] /\ j \in DOMAIN g
      BY <1>8, <1>9, <1>10, <2>1
    <3> QED  BY <3>1, <3>2
  <2>2. CASE i = lb + 1
    BY <1>10, <2>2
  <2> QED  BY <1>8, <2>1, <2>2
<1>14. MarksAgree(c, g)
  BY <1>11, <1>12, <1>13 DEF MarksAgree
<1>15. n + 2 \in 1..(MaxIDs + 1)
  BY <1>1 DEF n
<1>16. GoodMarks(c, g, n + 2)
  BY <1>8, <1>9, <1>14, <1>15 DEF GoodMarks
<1> QED  BY <1>2, <1>16

LEMMA GoodAfterRemoving ==
    ASSUME GoodMarks(bookmarks, folders, nextMark), NEW id, RemoveBookmark(id)
    PROVE  GoodMarks(bookmarks', folders', nextMark')
<1> DEFINE n == nextMark
           b == bookmarks
           f == folders
           i == Position(b, id)
           c == RemoveAt(b, i)
           lb == Len(b)
<1>1. /\ DOMAIN b = 1..lb /\ lb \in Nat
      /\ \A k \in DOMAIN b : b[k] \in Marks(n)
  BY MarksAreLists
<1>2. CASE i = 0
  <2>1. bookmarks' = bookmarks /\ folders' = folders /\ nextMark' = nextMark
    BY <1>2 DEF RemoveBookmark, bookmarkVars
  <2> QED  BY <2>1
<1>3. CASE i # 0
  <2>1. i \in 1..lb
    BY <1>3, PositionProperties
  <2>2. b[i].folder = 0
    BY <1>1, <2>1 DEF Marks
  <2>3. bookmarks' = c /\ folders' = f /\ nextMark' = n
    BY <1>3, <2>2, NoFolderNamed DEF RemoveBookmark
  <2>4. b \in Seq(Marks(n)) /\ f \in Seq(Shelves(n)) /\ n \in 1..(MaxIDs + 1) /\ MarksAgree(b, f)
    BY DEF GoodMarks
  <2> HIDE DEF b, f, n, i
  <2>5. /\ c \in Seq(Marks(n)) /\ Len(c) = lb - 1
        /\ \A k \in 1..lb - 1 : c[k] = IF k < i THEN b[k] ELSE b[k + 1]
    BY <2>1, <2>4, RemoveAtProperties
  <2>6. DOMAIN c = 1..lb - 1
    BY <2>5, ListProperties
  <2> DEFINE from(k) == IF k < i THEN k ELSE k + 1
  <2>7. \A k \in DOMAIN c : from(k) \in DOMAIN b /\ c[k] = b[from(k)]
    BY <1>1, <2>1, <2>5, <2>6
  <2>8. \A k, l \in DOMAIN c : from(k) = from(l) => k = l
    BY <1>1, <2>1, <2>6
  <2> HIDE DEF from, c
  <2>9. MarksAgree(c, f)
    <3>1. \A k \in DOMAIN c, j \in DOMAIN f : c[k].id # f[j].id
      BY <2>4, <2>7 DEF MarksAgree
    <3>2. \A k, l \in DOMAIN c : c[k].id = c[l].id => k = l
      BY <2>4, <2>7, <2>8 DEF MarksAgree
    <3>3. \A k \in DOMAIN c : \E j \in DOMAIN f : f[j].id = c[k].id + 1 /\ f[j].items = <<c[k].id>>
      <4> SUFFICES ASSUME NEW k \in DOMAIN c
                   PROVE  \E j \in DOMAIN f : f[j].id = c[k].id + 1 /\ f[j].items = <<c[k].id>>
        OBVIOUS
      <4>1. PICK l \in DOMAIN b : c[k] = b[l]
        BY <2>7
      <4>2. PICK j \in DOMAIN f : f[j].id = b[l].id + 1 /\ f[j].items = <<b[l].id>>
        BY <2>4 DEF MarksAgree
      <4> QED  BY <4>1, <4>2
    <3> QED  BY <3>1, <3>2, <3>3 DEF MarksAgree
  <2>10. GoodMarks(c, f, n)
    BY <2>4, <2>5, <2>9 DEF GoodMarks
  <2> QED  BY <2>3, <2>10
<1> QED  BY <1>2, <1>3

LEMMA GoodAfterUpdating ==
    ASSUME GoodMarks(bookmarks, folders, nextMark), NEW k \in DOMAIN bookmarks, NEW page \in WebPages,
           bookmarks' = [bookmarks EXCEPT ![k].url = page], UNCHANGED <<folders, nextMark>>
    PROVE  GoodMarks(bookmarks', folders', nextMark')
<1> DEFINE n == nextMark
           b == bookmarks
           f == folders
           c == [b EXCEPT ![k].url = page]
           lb == Len(b)
<1>1. /\ DOMAIN b = 1..lb /\ lb \in Nat
      /\ \A i \in DOMAIN b : b[i] \in Marks(n)
      /\ b \in Seq(Marks(n)) /\ f \in Seq(Shelves(n)) /\ n \in 1..(MaxIDs + 1) /\ MarksAgree(b, f)
  BY MarksAreLists DEF GoodMarks
<1>2. DOMAIN c = DOMAIN b /\ \A i \in DOMAIN b : c[i] = IF i = k THEN [b[i] EXCEPT !.url = page] ELSE b[i]
  OBVIOUS
<1>3. \A i \in DOMAIN b : c[i] \in Marks(n) /\ c[i].id = b[i].id
  BY <1>1, <1>2 DEF Marks, Addresses
<1>4. c \in Seq(Marks(n))
  <2>1. c = [i \in 1..lb |-> c[i]]
    BY <1>1, <1>2
  <2>2. \A i \in 1..lb : c[i] \in Marks(n)
    BY <1>1, <1>3
  <2> HIDE DEF c
  <2> QED  BY <1>1, <2>1, <2>2, IsASeq
<1> HIDE DEF c, b, f, n
<1>5. MarksAgree(c, f)
  <2>1. \A i \in DOMAIN c, j \in DOMAIN f : c[i].id # f[j].id
    BY <1>1, <1>2, <1>3 DEF MarksAgree
  <2>2. \A i, j \in DOMAIN c : c[i].id = c[j].id => i = j
    BY <1>1, <1>2, <1>3 DEF MarksAgree
  <2>3. \A i \in DOMAIN c : \E j \in DOMAIN f : f[j].id = c[i].id + 1 /\ f[j].items = <<c[i].id>>
    <3> SUFFICES ASSUME NEW i \in DOMAIN c
                 PROVE  \E j \in DOMAIN f : f[j].id = c[i].id + 1 /\ f[j].items = <<c[i].id>>
      OBVIOUS
    <3>1. i \in DOMAIN b /\ c[i].id = b[i].id
      BY <1>2, <1>3
    <3>2. PICK j \in DOMAIN f : f[j].id = b[i].id + 1 /\ f[j].items = <<b[i].id>>
      BY <1>1, <3>1 DEF MarksAgree
    <3> QED  BY <3>1, <3>2
  <2> QED  BY <2>1, <2>2, <2>3 DEF MarksAgree
<1>6. GoodMarks(c, f, n)
  BY <1>1, <1>4, <1>5 DEF GoodMarks
<1> QED  BY <1>6 DEF c, b, f, n

LEMMA GoodAfterAddFolder ==
    ASSUME GoodMarks(bookmarks, folders, nextMark), AddFolder
    PROVE  GoodMarks(bookmarks', folders', nextMark')
<1> DEFINE n == nextMark
           b == bookmarks
           f == folders
           g == Append(f, [id |-> n, items |-> <<>>])
           lf == Len(f)
<1>1. /\ DOMAIN f = 1..lf /\ lf \in Nat /\ n \in Nat /\ n >= 1 /\ MaxIDs \in Nat
      /\ \A i \in DOMAIN b : b[i] \in Marks(n)
  BY MarksAreLists
<1>2. bookmarks' = b /\ folders' = g /\ nextMark' = n + 1 /\ n <= MaxIDs
  BY DEF AddFolder
<1>3. b \in Seq(Marks(n + 1)) /\ f \in Seq(Shelves(n + 1))
  <2>1. n + 1 \in Nat /\ n <= n + 1 /\ b \in Seq(Marks(n)) /\ f \in Seq(Shelves(n))
    BY <1>1 DEF GoodMarks
  <2> QED  BY <1>1, <2>1, MoreIDs
<1>4. [id |-> n, items |-> <<>>] \in Shelves(n + 1)
  <2>1. <<>> \in Seq(Nat)
    OBVIOUS
  <2> QED  BY <1>1, <2>1 DEF Shelves
<1>5. MarksAgree(b, f)
  BY DEF GoodMarks
<1>6. \A i \in DOMAIN b : b[i].id \in Nat /\ b[i].id < n
  BY <1>1 DEF Marks
<1> HIDE DEF g, lf, b, f, n
<1>7. /\ g \in Seq(Shelves(n + 1)) /\ DOMAIN g = 1..lf + 1
      /\ g[lf + 1] = [id |-> n, items |-> <<>>] /\ \A k \in DOMAIN f : g[k] = f[k]
      /\ \A k \in DOMAIN g : k \in DOMAIN f \/ k = lf + 1
  BY <1>3, <1>4, ListExtended DEF g, lf
<1>8. DOMAIN f \subseteq DOMAIN g /\ g[lf + 1].id = n
  BY <1>1, <1>7
<1>9. MarksAgree(b, g)
  <2>1. \A i \in DOMAIN b, j \in DOMAIN g : b[i].id # g[j].id
    <3> SUFFICES ASSUME NEW i \in DOMAIN b, NEW j \in DOMAIN g PROVE b[i].id # g[j].id
      OBVIOUS
    <3>1. CASE j \in DOMAIN f
      <4>1. g[j] = f[j] /\ b[i].id # f[j].id
        BY <1>5, <1>7, <3>1 DEF MarksAgree
      <4> QED  BY <4>1
    <3>2. CASE j = lf + 1
      BY <1>1, <1>6, <1>8, <3>2
    <3> QED  BY <1>7, <3>1, <3>2
  <2>2. \A i, j \in DOMAIN b : b[i].id = b[j].id => i = j
    BY <1>5 DEF MarksAgree
  <2>3. \A i \in DOMAIN b : \E j \in DOMAIN g : g[j].id = b[i].id + 1 /\ g[j].items = <<b[i].id>>
    <3> SUFFICES ASSUME NEW i \in DOMAIN b
                 PROVE  \E j \in DOMAIN g : g[j].id = b[i].id + 1 /\ g[j].items = <<b[i].id>>
      OBVIOUS
    <3>1. PICK j \in DOMAIN f : f[j].id = b[i].id + 1 /\ f[j].items = <<b[i].id>>
      BY <1>5 DEF MarksAgree
    <3>2. g[j] = f[j] /\ j \in DOMAIN g
      BY <1>7, <1>8
    <3> QED  BY <3>1, <3>2
  <2> QED  BY <2>1, <2>2, <2>3 DEF MarksAgree
<1>10. n + 1 \in 1..(MaxIDs + 1)
  BY <1>1, <1>2 DEF n
<1>11. GoodMarks(b, g, n + 1)
  BY <1>3, <1>7, <1>9, <1>10 DEF GoodMarks
<1> QED  BY <1>2, <1>11

LEMMA OrderAfterEntry ==
    ASSUME VisitsInOrder, NEW page \in Addresses, AddEntry(page), shownURL' \in Addresses
    PROVE  VisitsInOrder'
<1> DEFINE v == visits
           e == [id |-> nextEntry, url |-> page]
           w == Append(v, e)
           n == Len(v)
<1>1. v \in Seq(Entries) /\ nextEntry \in 1..(MaxVisits + 1) /\ MaxVisits \in Nat
  BY ListsAssumption DEF VisitsInOrder, ListsAssumption
<1>2. e \in Entries
  BY <1>1 DEF Entries
<1>3. nextEntry' = nextEntry + 1 /\ visits' = w /\ nextEntry <= MaxVisits
  BY DEF AddEntry
<1>4. \A i \in DOMAIN v : v[i].id < nextEntry /\ v[i].id \in Nat
  <2>1. \A i \in DOMAIN v : v[i] \in Entries
    <3> HIDE DEF v, Entries
    <3> QED  BY <1>1, ListProperties
  <2> QED  BY <2>1 DEF VisitsInOrder, Entries
<1>5. \A i \in 2..n : v[i - 1].id < v[i].id
  BY DEF VisitsInOrder
<1> HIDE DEF v, w
<1>6. /\ w \in Seq(Entries) /\ n \in Nat /\ DOMAIN v = 1..n
      /\ Len(w) = n + 1 /\ DOMAIN w = 1..n + 1
      /\ w[n + 1] = e /\ \A k \in DOMAIN v : w[k] = v[k]
      /\ \A k \in DOMAIN w : k \in DOMAIN v \/ k = n + 1
  BY <1>1, <1>2, ListExtended DEF w
<1>7. w[n + 1].id = nextEntry
  BY <1>6
<1> HIDE DEF e
<1>8. \A i \in DOMAIN w : w[i].id < nextEntry + 1
  <2>1. \A i \in DOMAIN v : w[i].id < nextEntry + 1
    BY <1>1, <1>4, <1>6
  <2> QED  BY <1>1, <1>6, <1>7, <2>1
<1>9. \A i \in 2..n + 1 : w[i - 1].id < w[i].id
  <2> SUFFICES ASSUME NEW i \in 2..n + 1 PROVE w[i - 1].id < w[i].id
    OBVIOUS
  <2>1. i - 1 \in DOMAIN v /\ w[i - 1] = v[i - 1]
    BY <1>6
  <2>2. CASE i = n + 1
    BY <1>4, <1>7, <2>1, <2>2
  <2>3. CASE i # n + 1
    <3>1. i \in 2..n /\ i \in DOMAIN v
      BY <1>6, <2>3
    <3>2. w[i] = v[i] /\ v[i - 1].id < v[i].id
      BY <1>5, <1>6, <3>1
    <3> QED  BY <2>1, <3>2
  <2> QED  BY <2>2, <2>3
<1>10. nextEntry' \in 1..(MaxVisits + 1)
  BY <1>1, <1>3
<1> HIDE DEF n
<1>11. visits' \in Seq(Entries) /\ \A i \in DOMAIN visits' : visits'[i].id < nextEntry'
  BY <1>3, <1>6, <1>8
<1>12. \A i \in 2..Len(visits') : visits'[i - 1].id < visits'[i].id
  BY <1>3, <1>6, <1>9
<1> QED  BY <1>10, <1>11, <1>12 DEF VisitsInOrder

LEMMA NavigateToInv ==
    ASSUME VisitsInOrder, NEW page \in Addresses, NavigateTo(page)
    PROVE  VisitsInOrder' /\ BarIsSane'
<1>1. BarIsSane'
  <2>1. suggestions' = <<>> /\ selectedSugg' = 0
    BY DEF NavigateTo
  <2>2. <<>> \in Seq(Addresses)
    OBVIOUS
  <2> QED  BY <2>1, <2>2 DEF BarIsSane
<1>2. VisitsInOrder'
  <2>1. CASE page = shownURL
    <3>1. UNCHANGED <<visits, nextEntry, shownURL>>
      BY <2>1 DEF NavigateTo, visitVars
    <3> QED  BY <3>1 DEF VisitsInOrder
  <2>2. CASE page # shownURL
    <3>1. shownURL' = page /\ recordHistory(page)
      BY <2>2 DEF NavigateTo
    <3>2. CASE page \in WebPages
      <4>1. AddEntry(page)
        BY <3>1, <3>2 DEF recordHistory
      <4> QED  BY <3>1, <4>1, OrderAfterEntry
    <3>3. CASE page \notin WebPages
      <4>1. UNCHANGED <<visits, nextEntry>>
        BY <3>1, <3>3 DEF recordHistory
      <4> QED  BY <3>1, <4>1 DEF VisitsInOrder
    <3> QED  BY <3>2, <3>3
  <2> QED  BY <2>1, <2>2
<1> QED  BY <1>1, <1>2

LEMMA ListsInvInit == ListsInit => ListsInv
<1> SUFFICES ASSUME ListsInit PROVE ListsInv
  OBVIOUS
<1>1. /\ bookmarks = <<>> /\ folders = <<>> /\ nextMark = 1 /\ bookmarkFile = NoFile
      /\ visits = <<>> /\ nextEntry = 1 /\ shownURL = "thdwb://newtab/"
      /\ suggestions = <<>> /\ selectedSugg = 0
  BY DEF ListsInit
<1>2. MaxIDs \in Nat /\ MaxVisits \in Nat
  BY ListsAssumption DEF ListsAssumption
<1>3. \A S : <<>> \in Seq(S)
  OBVIOUS
<1>4. GoodMarks(bookmarks, folders, nextMark)
  <2>1. MarksAgree(<<>>, <<>>)
    BY DEF MarksAgree
  <2>2. <<>> \in Seq(Marks(1)) /\ <<>> \in Seq(Shelves(1))
    BY <1>3
  <2> QED  BY <1>1, <1>2, <2>1, <2>2 DEF GoodMarks
<1>5. FileIsGood
  BY <1>1 DEF FileIsGood, NoFile
<1>6. VisitsInOrder
  <2>1. visits \in Seq(Entries) /\ DOMAIN visits = {} /\ Len(visits) = 0
    BY <1>1, <1>3
  <2>2. nextEntry \in 1..(MaxVisits + 1) /\ shownURL \in Addresses
    BY <1>1, <1>2 DEF Addresses
  <2> QED  BY <2>1, <2>2 DEF VisitsInOrder
<1>7. BarIsSane
  <2>1. suggestions \in Seq(Addresses)
    BY <1>1, <1>3
  <2> QED  BY <1>1, <2>1 DEF BarIsSane
<1> QED  BY <1>4, <1>5, <1>6, <1>7 DEF ListsInv

LEMMA SuggestionsInv ==
    ASSUME ListsInv, buildSuggestions
    PROVE  BarIsSane'
<1> DEFINE urls(list) == [i \in DOMAIN list |-> list[i].url]
           known == urls(visits) \o urls(bookmarks)
<1>1. PICK direct \in {<<>>} \cup {<<a>> : a \in WebPages} :
        /\ suggestions' = (IF direct = <<>> THEN known ELSE Chosen(known, ToSet(direct))) \o direct
        /\ selectedSugg' = 0
  BY DEF buildSuggestions
<1>2. ASSUME NEW T, NEW list \in Seq(T), \A x \in T : x.url \in Addresses
      PROVE  urls(list) \in Seq(Addresses)
  <2>1. DOMAIN list = 1..Len(list) /\ Len(list) \in Nat /\ \A i \in 1..Len(list) : list[i] \in T
    BY ListProperties
  <2>2. urls(list) = [i \in 1..Len(list) |-> list[i].url]
    BY <2>1
  <2>3. \A i \in 1..Len(list) : list[i].url \in Addresses
    BY <1>2, <2>1
  <2> HIDE DEF Addresses
  <2> QED  BY <2>1, <2>2, <2>3, IsASeq
<1>3. urls(visits) \in Seq(Addresses)
  <2>1. visits \in Seq(Entries) /\ \A x \in Entries : x.url \in Addresses
    BY DEF ListsInv, VisitsInOrder, Entries
  <2> HIDE DEF urls
  <2> QED  BY <1>2, <2>1
<1>4. urls(bookmarks) \in Seq(Addresses)
  <2>1. bookmarks \in Seq(Marks(nextMark)) /\ \A x \in Marks(nextMark) : x.url \in Addresses
    BY DEF ListsInv, GoodMarks, Marks
  <2> HIDE DEF urls
  <2> QED  BY <1>2, <2>1
<1> HIDE DEF urls
<1>5. known \in Seq(Addresses)
  BY <1>3, <1>4, ConcatProperties
<1>6. direct \in Seq(Addresses)
  <2>1. CASE direct = <<>>
    BY <2>1
  <2>2. ASSUME NEW a \in WebPages, direct = <<a>> PROVE direct \in Seq(Addresses)
    <3>1. a \in Addresses
      BY DEF Addresses
    <3> HIDE DEF Addresses
    <3>2. <<a>> \in Seq(Addresses)
      BY <3>1
    <3> QED  BY <2>2, <3>2
  <2> QED  BY <2>1, <2>2
<1> HIDE DEF known
<1>7. Chosen(known, ToSet(direct)) \in Seq(Addresses)
  BY <1>5, ChosenProperties
<1>8. suggestions' \in Seq(Addresses)
  BY <1>1, <1>5, <1>6, <1>7, ConcatProperties
<1>9. suggestions' = <<>> \/ 0 < Len(suggestions')
  <2> DEFINE r == suggestions'
  <2>1. r \in Seq(Addresses)
    BY <1>8
  <2> HIDE DEF r
  <2>2. Len(r) \in Nat /\ (r = <<>> <=> Len(r) = 0)
    BY <2>1, ListProperties
  <2>3. r = <<>> \/ 0 < Len(r)
    BY <2>2
  <2> QED  BY <2>3 DEF r
<1> QED  BY <1>1, <1>8, <1>9 DEF BarIsSane

LEMMA SelectionInv ==
    ASSUME BarIsSane, MoveSelection
    PROVE  BarIsSane'
<1>1. PICK step \in {1, Len(suggestions) - 1} :
        /\ suggestions # <<>>
        /\ selectedSugg' = (selectedSugg + step) % Len(suggestions)
        /\ suggestions' = suggestions
  BY DEF MoveSelection
<1>2. PICK n \in Nat : n = Len(suggestions) /\ n > 0
  <2>1. Len(suggestions) \in Nat /\ (suggestions = <<>> <=> Len(suggestions) = 0)
    BY ListProperties DEF BarIsSane
  <2> QED  BY <1>1, <2>1
<1>3. PICK a \in Nat : a = selectedSugg + step
  BY <1>1, <1>2 DEF BarIsSane
<1>4. a % n \in 0..n - 1
  BY <1>2
<1>5. selectedSugg' \in Nat /\ selectedSugg' < Len(suggestions)
  BY <1>1, <1>2, <1>3, <1>4
<1> QED  BY <1>1, <1>5 DEF BarIsSane

LEMMA ListsInvStep == ListsInv /\ [ListsNext]_listVars => ListsInv'
<1> SUFFICES ASSUME ListsInv, [ListsNext]_listVars PROVE ListsInv'
  OBVIOUS
<1>1. GoodMarks(bookmarks, folders, nextMark) /\ FileIsGood /\ VisitsInOrder /\ BarIsSane
  BY DEF ListsInv
<1>2. /\ UNCHANGED bookmarkVars => GoodMarks(bookmarks, folders, nextMark)'
      /\ GoodMarks(bookmarks', folders', nextMark') => GoodMarks(bookmarks, folders, nextMark)'
      /\ UNCHANGED bookmarkFile => FileIsGood'
      /\ UNCHANGED visitVars => VisitsInOrder'
      /\ UNCHANGED barVars => BarIsSane'
  <2>1. UNCHANGED bookmarkVars => GoodMarks(bookmarks, folders, nextMark)'
    BY <1>1 DEF bookmarkVars
  <2>2. UNCHANGED bookmarkFile => FileIsGood'
    BY <1>1 DEF FileIsGood
  <2>3. UNCHANGED visitVars => VisitsInOrder'
    BY <1>1 DEF visitVars, VisitsInOrder
  <2>4. UNCHANGED barVars => BarIsSane'
    BY <1>1 DEF barVars, BarIsSane
  <2> QED  BY <2>1, <2>2, <2>3, <2>4
<1>3. WebPages \subseteq Addresses /\ shownURL \in Addresses
  BY <1>1 DEF Addresses, VisitsInOrder
<1>4. CASE ToggleBookmark
  <2> DEFINE i == SelectInSeq(bookmarks, LAMBDA b : b.url = shownURL)
  <2>1. /\ i = 0 => nextMark + 1 <= MaxIDs
        /\ IF i = 0 THEN AddBookmark(shownURL) ELSE RemoveBookmark(bookmarks[i].id)
        /\ UNCHANGED <<bookmarkFile, visitVars, barVars>>
    BY <1>4 DEF ToggleBookmark
  <2> HIDE DEF i
  <2>2. GoodMarks(bookmarks', folders', nextMark')
    BY <1>1, <1>3, <2>1, GoodAfterAdding, GoodAfterRemoving
  <2> QED  BY <1>2, <2>1, <2>2 DEF ListsInv
<1>5. CASE ExtensionBookmarks
  <2>1. UNCHANGED <<bookmarkFile, visitVars, barVars>>
    BY <1>5 DEF ExtensionBookmarks
  <2>2. \/ \E a \in WebPages : nextMark + 1 <= MaxIDs /\ AddBookmark(a)
        \/ \E id \in 1..MaxIDs : RemoveBookmark(id)
        \/ \E i \in DOMAIN bookmarks, a \in WebPages :
               bookmarks' = [bookmarks EXCEPT ![i].url = a] /\ UNCHANGED <<folders, nextMark>>
    BY <1>5 DEF ExtensionBookmarks
  <2>3. GoodMarks(bookmarks', folders', nextMark')
    <3>1. CASE \E a \in WebPages : nextMark + 1 <= MaxIDs /\ AddBookmark(a)
      BY <1>1, <1>3, <3>1, GoodAfterAdding
    <3>2. CASE \E id \in 1..MaxIDs : RemoveBookmark(id)
      BY <1>1, <3>2, GoodAfterRemoving
    <3>3. CASE \E i \in DOMAIN bookmarks, a \in WebPages :
                  bookmarks' = [bookmarks EXCEPT ![i].url = a] /\ UNCHANGED <<folders, nextMark>>
      BY <1>1, <3>3, GoodAfterUpdating
    <3> QED  BY <2>2, <3>1, <3>2, <3>3
  <2> QED  BY <1>2, <2>1, <2>3 DEF ListsInv
<1>6. CASE AddFolder
  <2>1. UNCHANGED <<bookmarkFile, visitVars, barVars>>
    BY <1>6 DEF AddFolder
  <2> QED  BY <1>1, <1>2, <1>6, <2>1, GoodAfterAddFolder DEF ListsInv
<1>7. CASE SaveBookmarks
  <2>1. UNCHANGED <<bookmarkVars, visitVars, barVars>>
    BY <1>7 DEF SaveBookmarks
  <2>2. FileIsGood'
    <3>1. PICK complete \in BOOLEAN :
            bookmarkFile' =
              IF complete THEN [state |-> "whole", bookmarks |-> bookmarks, folders |-> folders, nextMark |-> nextMark]
              ELSE [state |-> "broken"]
      BY <1>7 DEF SaveBookmarks
    <3>2. CASE complete
      <4>1. /\ bookmarkFile'.bookmarks = bookmarks /\ bookmarkFile'.folders = folders
            /\ bookmarkFile'.nextMark = nextMark
        BY <3>1, <3>2
      <4> QED  BY <1>1, <4>1 DEF FileIsGood
    <3>3. CASE ~complete
      <4>1. bookmarkFile'.state = "broken"
        BY <3>1, <3>3
      <4> QED  BY <4>1 DEF FileIsGood
    <3> QED  BY <3>2, <3>3
  <2> QED  BY <1>2, <2>1, <2>2 DEF ListsInv
<1>8. CASE LoadBookmarks
  <2>1. UNCHANGED <<bookmarkFile, visitVars, barVars>>
    BY <1>8 DEF LoadBookmarks
  <2>2. GoodMarks(bookmarks', folders', nextMark')
    BY <1>1, <1>8 DEF LoadBookmarks, FileIsGood
  <2> QED  BY <1>2, <2>1, <2>2 DEF ListsInv
<1>9. CASE Submit
  <2>1. UNCHANGED <<bookmarkVars, bookmarkFile>>
    BY <1>9 DEF Submit
  <2>2. VisitsInOrder' /\ BarIsSane'
    <3>1. PICK a \in Addresses : NavigateTo(a)
      BY <1>9 DEF Submit, Addresses
    <3> QED  BY <1>1, <3>1, NavigateToInv
  <2> QED  BY <1>2, <2>1, <2>2 DEF ListsInv
<1>10. CASE SelectSuggestion
  <2>1. UNCHANGED <<bookmarkVars, bookmarkFile>>
    BY <1>10 DEF SelectSuggestion
  <2>2. VisitsInOrder' /\ BarIsSane'
    <3>1. PICK i \in DOMAIN suggestions : NavigateTo(suggestions[i])
      BY <1>10 DEF SelectSuggestion
    <3>2. suggestions[i] \in Addresses
      BY <1>1, ListProperties DEF BarIsSane
    <3> QED  BY <1>1, <3>1, <3>2, NavigateToInv
  <2> QED  BY <1>2, <2>1, <2>2 DEF ListsInv
<1>11. CASE ExtensionHistory
  <2>1. UNCHANGED <<shownURL, bookmarkVars, bookmarkFile, barVars>>
    BY <1>11 DEF ExtensionHistory
  <2>2. PICK a \in WebPages : AddEntry(a)
    BY <1>11 DEF ExtensionHistory
  <2>3. VisitsInOrder'
    BY <1>1, <1>3, <2>1, <2>2, OrderAfterEntry
  <2> QED  BY <1>2, <2>1, <2>3 DEF ListsInv
<1>12. CASE ClearHistory
  <2>1. UNCHANGED <<nextEntry, shownURL, bookmarkVars, bookmarkFile, barVars>> /\ visits' = <<>>
    BY <1>12 DEF ClearHistory
  <2>2. VisitsInOrder'
    <3>1. <<>> \in Seq(Entries) /\ DOMAIN <<>> = {} /\ Len(<<>>) = 0
      OBVIOUS
    <3> QED  BY <1>1, <2>1, <3>1 DEF VisitsInOrder
  <2> QED  BY <1>2, <2>1, <2>2 DEF ListsInv
<1>13. CASE buildSuggestions
  <2>1. UNCHANGED <<bookmarkVars, bookmarkFile, visitVars>>
    BY <1>13 DEF buildSuggestions
  <2> QED  BY <1>2, <1>13, <2>1, SuggestionsInv DEF ListsInv
<1>14. CASE MoveSelection
  <2>1. UNCHANGED <<bookmarkVars, bookmarkFile, visitVars>>
    BY <1>14 DEF MoveSelection
  <2> QED  BY <1>1, <1>2, <1>14, <2>1, SelectionInv DEF ListsInv
<1>15. CASE UNCHANGED listVars
  <2>1. UNCHANGED <<bookmarkVars, bookmarkFile, visitVars, barVars>>
    BY <1>15 DEF listVars, bookmarkVars, visitVars, barVars
  <2> QED  BY <1>2, <2>1 DEF ListsInv
<1> QED  BY <1>4, <1>5, <1>6, <1>7, <1>8, <1>9, <1>10, <1>11, <1>12, <1>13, <1>14, <1>15 DEF ListsNext

-----------------------------------------------------------------------------
(* The side bar shows the bookmarks: no folder is named by any of them.    *)
LEMMA FlattenedNothing ==
    ASSUME NEW N \in Nat, NEW s, s = [i \in 1..N |-> <<>>]
    PROVE  FlattenSeq(s) = <<>>
<1>1. s \in Seq({<<>>}) /\ Len(s) = N
  <2>1. s \in [1..N -> {<<>>}]
    OBVIOUS
  <2> QED  BY <2>1, IsASeq, LenProperties
<1>2. CASE N = 0
  <2>1. s = <<>>
    BY <1>1, <1>2, EmptySeq
  <2> QED  BY <1>1, <1>2, <2>1 DEF FlattenSeq
<1>3. CASE N # 0
  <2> DEFINE Upon(g) == [i \in 1..N |-> IF i = 1 THEN s[i] ELSE g[i - 1] \o s[i]]
             F == CHOOSE g : g = Upon(g)
             f == [i \in 1..N |-> <<>>]
  <2>1. f = Upon(f)
    <3>1. \A i \in 1..N : i # 1 => i - 1 \in 1..N
      OBVIOUS
    <3>2. <<>> \o <<>> = <<>>
      OBVIOUS
    <3>3. \A i \in 1..N : (IF i = 1 THEN s[i] ELSE f[i - 1] \o s[i]) = <<>>
      BY <3>1, <3>2
    <3> QED  BY <3>3
  <2>2. F = Upon(F)
    <3> HIDE DEF Upon
    <3> QED  BY <2>1
  <2>3. FlattenSeq(s) = F[N]
    BY <1>1, <1>3 DEF FlattenSeq
  <2> HIDE DEF F
  <2>4. \A i \in 1..N : F[i] = IF i = 1 THEN s[i] ELSE F[i - 1] \o s[i]
    BY <2>2
  <2> DEFINE P == {i \in 0..N : i = 0 \/ F[i] = <<>>}
  <2>5. 0 \in P
    OBVIOUS
  <2>6. ASSUME NEW i \in 1..N, i - 1 \in P PROVE i \in P
    <3>1. s[i] = <<>> /\ i \in 0..N
      OBVIOUS
    <3>2. CASE i = 1
      BY <2>4, <3>1, <3>2
    <3>3. CASE i # 1
      <4>0. i - 1 # 0
        BY <3>3
      <4>a. F[i - 1] = <<>>
        BY <2>6, <4>0
      <4>1. F[i - 1] = <<>> /\ F[i] = F[i - 1] \o s[i]
        BY <2>4, <3>3, <4>a
      <4>2. <<>> \o <<>> = <<>>
        OBVIOUS
      <4> QED  BY <3>1, <4>1, <4>2
    <3> QED  BY <3>2, <3>3
  <2> HIDE DEF P
  <2>7. \A i \in 0..N : i \in P
    BY <2>5, <2>6, AllUpTo
  <2>8. N \in 0..N
    OBVIOUS
  <2> QED  BY <1>3, <2>3, <2>7, <2>8 DEF P
<1> QED  BY <1>2, <1>3

LEMMA TreeShowsMarks ==
    ASSUME GoodMarks(bookmarks, folders, nextMark)
    PROVE  Tree = bookmarks
<1> DEFINE b == bookmarks
           T == Marks(nextMark)
           Named(f) == {x \in ToSet(b) : x.folder = f}
           Naming(f) == Chosen(b, Named(f))
           s == [i \in DOMAIN folders |-> Naming(folders[i].id)]
           n == Len(folders)
<1>1. /\ b \in Seq(T) /\ DOMAIN b = 1..Len(b) /\ \A i \in DOMAIN b : b[i] \in T
      /\ DOMAIN folders = 1..n /\ n \in Nat /\ \A i \in DOMAIN folders : folders[i] \in Shelves(nextMark)
      /\ nextMark \in Nat
  BY MarksAreLists DEF GoodMarks
<1>2. \A i \in DOMAIN b : b[i].folder = 0
  BY <1>1 DEF Marks
<1>3. \A i \in DOMAIN folders : folders[i].id # 0
  BY <1>1 DEF Shelves
<1>4. Tree = FlattenSeq(s) \o Naming(0)
  BY DEF Tree
<1> HIDE DEF T
<1>5. \A f : f # 0 => Naming(f) = <<>>
  <2> SUFFICES ASSUME NEW f, f # 0 PROVE Naming(f) = <<>>
    OBVIOUS
  <2>1. Named(f) = {}
    BY <1>2 DEF ToSet
  <2> DEFINE t == Chosen(b, {})
  <2>2. t \in Seq(T) /\ \A i \in DOMAIN t : t[i] \in {}
    <3> HIDE DEF b
    <3> QED  BY <1>1, ChosenProperties
  <2> HIDE DEF t
  <2>3. DOMAIN t = {}
    BY <2>2
  <2>4. DOMAIN t = 1..Len(t) /\ Len(t) \in Nat /\ (t = <<>> <=> Len(t) = 0)
    BY <2>2, ListProperties
  <2>5. t = <<>>
    <3>1. 1 \notin 1..Len(t)
      BY <2>3, <2>4
    <3>2. Len(t) = 0
      BY <2>4, <3>1
    <3> QED  BY <2>4, <3>2
  <2> QED  BY <2>1, <2>5 DEF t
<1>6. Naming(0) = b
  <2> DEFINE S == Named(0)
  <2>1. \A k \in DOMAIN b : b[k] \in S
    BY <1>2 DEF ToSet
  <2> HIDE DEF S, b
  <2>2. Chosen(b, S) = b
    BY <1>1, <2>1, ChosenProperties
  <2> QED  BY <2>2 DEF S
<1> HIDE DEF Naming
<1>7. s = [i \in 1..n |-> <<>>]
  BY <1>1, <1>3, <1>5
<1> HIDE DEF s
<1>8. FlattenSeq(s) = <<>>
  BY <1>1, <1>7, FlattenedNothing
<1>9. <<>> \o b = b
  BY <1>1
<1> QED  BY <1>4, <1>6, <1>8, <1>9

LEMMA ListsHold == ListsInv => ListsTypeOK /\ ListsAgree
<1> SUFFICES ASSUME ListsInv PROVE ListsTypeOK /\ ListsAgree
  OBVIOUS
<1>1. GoodMarks(bookmarks, folders, nextMark) /\ MarksAgree(bookmarks, folders) /\ VisitsInOrder /\ BarIsSane
  BY DEF ListsInv, GoodMarks
<1>2. ListsTypeOK
  BY <1>1 DEF ListsTypeOK, GoodMarks, VisitsInOrder, BarIsSane, Addresses
<1>3. Tree = bookmarks
  BY <1>1, TreeShowsMarks
<1>4. IsInjective([i \in DOMAIN bookmarks |-> bookmarks[i].id])
  BY <1>1 DEF MarksAgree, IsInjective
<1>5. /\ \A i \in DOMAIN bookmarks, j \in DOMAIN folders : bookmarks[i].id # folders[j].id
      /\ \A i \in DOMAIN bookmarks : \E j \in DOMAIN folders :
             folders[j].id = bookmarks[i].id + 1 /\ folders[j].items = <<bookmarks[i].id>>
  BY <1>1 DEF MarksAgree
<1>6. Len(Tree) = Len(bookmarks) /\ IsInjective([i \in DOMAIN Tree |-> Tree[i].id])
  BY <1>3, <1>4
<1>7. \A i \in 2..Len(visits) : visits[i - 1].id < visits[i].id
  BY <1>1 DEF VisitsInOrder
<1>8. /\ suggestions = <<>> \/ selectedSugg < Len(suggestions)
      /\ suggestions = <<>> => selectedSugg = 0
  BY <1>1 DEF BarIsSane
<1>9. ListsAgree
  BY <1>4, <1>5, <1>6, <1>7, <1>8 DEF ListsAgree
<1> QED  BY <1>2, <1>9

-----------------------------------------------------------------------------
(* The parts together: a step is one of a part, and the others stay.       *)
SurroundingsInv == ListsInv /\ SuspensionInv /\ WidgetsInv /\ AppInv

LEMMA SurroundingsInvStep ==
    SurroundingsInv /\ [PartsNext]_<<part, vars, listVars, suspensionVars, widgetVars, appVars>>
        => SurroundingsInv'
<1> SUFFICES ASSUME SurroundingsInv,
                    [PartsNext]_<<part, vars, listVars, suspensionVars, widgetVars, appVars>>
             PROVE  SurroundingsInv'
  OBVIOUS
<1>1. /\ [ListsNext]_listVars /\ [SuspensionNext]_suspensionVars
      /\ [WidgetsNext]_widgetVars /\ [AppNext]_appVars
  <2>1. CASE PartsNext
    BY <2>1 DEF PartsNext, Still
  <2>2. CASE UNCHANGED <<part, vars, listVars, suspensionVars, widgetVars, appVars>>
    BY <2>2
  <2> QED  BY <2>1, <2>2
<1>2. ListsInv /\ SuspensionInv /\ WidgetsInv /\ AppInv
  BY DEF SurroundingsInv
<1> QED  BY <1>1, <1>2, ListsInvStep, SuspensionInvStep, WidgetsInvStep, AppInvStep DEF SurroundingsInv

(* Bookmarks and their folders, the suspender and the flags of the tabs,   *)
(* the marks of the widgets and the pointer, the active window and those   *)
(* that draw it or listen to it: they agree in every state.                *)
THEOREM SurroundingsAlwaysAgree == PartsSpec => []SurroundingsAgree
<1>1. PartsInit => SurroundingsInv
  BY ListsInvInit, SuspensionInvInit, WidgetsInvInit, AppInvInit DEF PartsInit, SurroundingsInv
<1>2. SurroundingsInv => SurroundingsAgree
  BY ListsHold, SuspensionHolds, WidgetsHold, WindowsHold DEF SurroundingsInv, SurroundingsAgree
<1> QED  BY <1>1, <1>2, SurroundingsInvStep, PTL DEF PartsSpec
=============================================================================
