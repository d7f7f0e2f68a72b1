--------------------------- MODULE ExtensionsProofs ---------------------------
(***************************************************************************)
(* The parts of the extension system, each for every number of extensions, *)
(* calls, containers, timers and edits: alarms, storage, the manager's     *)
(* records and engines, the calls over the connection to a process, and    *)
(* the scripts and style sheets that extensions put into pages.            *)
(***************************************************************************)
EXTENDS MCExtensions, FiniteSetTheorems, SequenceTheorems, WellFoundedInduction, TLAPS

-----------------------------------------------------------------------------
(* Lists, and loops over lists.  What such a loop leaves is defined by     *)
(* recursion; an induction over the naturals, told as the least element of *)
(* a set, shows that the function exists and what its last value is.       *)
LEMMA ListProperties ==
    ASSUME NEW S, NEW s \in Seq(S)
    PROVE  /\ DOMAIN s = 1 .. Len(s) /\ Len(s) \in Nat
           /\ \A i \in 1 .. Len(s) : s[i] \in S
           /\ s = <<>> <=> Len(s) = 0
  BY LenProperties, ElementOfSeq, EmptySeq

LEMMA RemoveAtProperties ==
    ASSUME NEW S, NEW s \in Seq(S), NEW i \in 1 .. Len(s)
    PROVE  /\ RemoveAt(s, i) \in Seq(S)
           /\ Len(RemoveAt(s, i)) = Len(s) - 1
           /\ \A k \in 1 .. Len(s) - 1 :
                 RemoveAt(s, i)[k] = IF k < i THEN s[k] ELSE s[k + 1]
<1> DEFINE before == SubSeq(s, 1, i - 1)
           after == SubSeq(s, i + 1, Len(s))
           r == RemoveAt(s, i)
<1>1. /\ before \in Seq(S) /\ Len(before) = i - 1
      /\ \A k \in 1 .. i - 1 : before[k] = s[k]
  BY SubSeqProperties
<1>2. /\ after \in Seq(S) /\ Len(after) = Len(s) - i
      /\ \A k \in 1 .. Len(s) - i : after[k] = s[i + k]
  BY SubSeqProperties
<1>3. /\ r \in Seq(S) /\ Len(r) = Len(before) + Len(after)
      /\ \A k \in 1 .. Len(before) + Len(after) :
            r[k] = IF k <= Len(before) THEN before[k] ELSE after[k - Len(before)]
  BY <1>1, <1>2, ConcatProperties DEF RemoveAt
<1>4. Len(s) \in Nat /\ i \in Int
  BY LenProperties
<1> HIDE DEF before, after, r
<1>5. Len(r) = Len(s) - 1
  BY <1>1, <1>2, <1>3, <1>4
<1>6. ASSUME NEW k \in 1 .. Len(s) - 1
      PROVE  r[k] = IF k < i THEN s[k] ELSE s[k + 1]
  <2> k \in 1 .. Len(before) + Len(after)
    BY <1>1, <1>2, <1>4
  <2>r. r[k] = IF k <= Len(before) THEN before[k] ELSE after[k - Len(before)]
    BY <1>3
  <2>1. CASE k < i
    BY <2>1, <2>r, <1>1, <1>4
  <2>2. CASE ~(k < i)
    <3>1. k - (i - 1) \in 1 .. Len(s) - i /\ i + (k - (i - 1)) = k + 1
      BY <2>2, <1>4
    <3>2. r[k] = after[k - (i - 1)]
      BY <2>2, <2>r, <1>1, <1>4
    <3> QED  BY <2>2, <3>1, <3>2, <1>2
  <2> QED  BY <2>1, <2>2
<1> QED  BY <1>3, <1>5, <1>6 DEF r

(* A set of naturals has a least element: induction, told of sets.         *)
LEMMA LeastElement ==
    ASSUME NEW S \in SUBSET Nat, S # {}
    PROVE  \E m \in S : \A n \in S : m <= n
<1> DEFINE R == {ss \in Nat \X Nat : ss[1] < ss[2]}
<1>1. IsWellFoundedOn(R, Nat)
  BY NatLessThanWellFounded DEF OpToRel
<1>2. \A m, n \in S : /\ <<n, m>> \in R <=> n < m
                      /\ n < m \/ m <= n
  OBVIOUS
<1> HIDE DEF R
<1>3. \E m \in S : \A n \in S : ~ (<<n, m>> \in R)
  BY <1>1, WFMin
<1> QED BY <1>2, <1>3

(* Induction over a stretch of the naturals, told of sets.                 *)
LEMMA AllUpTo ==
    ASSUME NEW N \in Nat, NEW P, 0 \in P, \A n \in 1..N : n - 1 \in P => n \in P
    PROVE  \A n \in 0..N : n \in P
<1> SUFFICES ASSUME NEW k \in 0..N, k \notin P PROVE FALSE
  OBVIOUS
<1> DEFINE Bad == {n \in 0..N : n \notin P}
<1>1. PICK m \in Bad : \A n \in Bad : m <= n
  <2>1. Bad \in SUBSET Nat /\ Bad # {}
    OBVIOUS
  <2> HIDE DEF Bad
  <2> QED  BY <2>1, LeastElement
<1>2. m \in 1..N /\ m - 1 \in 0..N /\ m \notin P
  BY <1>1
<1>3. m - 1 \notin Bad
  BY <1>1, <1>2
<1> QED  BY <1>2, <1>3

(* A function can be defined by what it is at 0 and by a step from each    *)
(* number to the next.                                                     *)
StaysIn(step, N, V) == \A n \in 1..N : \A x \in V : step[n][x] \in V
IsRun(f, v, step, N, V) == f \in [0..N -> V] /\ f[0] = v /\ \A n \in 1..N : f[n] = step[n][f[n - 1]]

LEMMA DefinedUpTo ==
    ASSUME NEW N \in Nat, NEW V, NEW v \in V, NEW step, StaysIn(step, N, V)
    PROVE  \E f : IsRun(f, v, step, N, V)
<1> DEFINE P == {m \in 0..N : \E f : IsRun(f, v, step, m, V)}
<1>1. 0 \in P
  <2>1. IsRun([n \in 0..0 |-> v], v, step, 0, V)
    BY DEF IsRun
  <2>2. 0 \in 0..N
    OBVIOUS
  <2> QED  BY <2>1, <2>2
<1>2. ASSUME NEW m \in 1..N, m - 1 \in P PROVE m \in P
  <2>1. PICK f : IsRun(f, v, step, m - 1, V)
    BY <1>2
  <2> DEFINE g == [n \in 0..m |-> IF n = m THEN step[m][f[m - 1]] ELSE f[n]]
  <2>2. m \in Nat /\ m >= 1 /\ m - 1 \in 0..m - 1 /\ m \in 0..N
    OBVIOUS
  <2>3. f[m - 1] \in V
    BY <2>1, <2>2 DEF IsRun
  <2>4. step[m][f[m - 1]] \in V
    BY <2>3 DEF StaysIn
  <2>5. \A n \in 0..m : n # m => n \in 0..m - 1
    BY <2>2
  <2>6. g \in [0..m -> V]
    BY <2>1, <2>4, <2>5 DEF IsRun
  <2>7. g[0] = v
    BY <2>1, <2>2 DEF IsRun
  <2>8. ASSUME NEW n \in 1..m PROVE g[n] = step[n][g[n - 1]]
    <3>1. n - 1 \in 0..m /\ n - 1 # m /\ n \in 0..m /\ n - 1 \in 0..m - 1
      BY <2>2
    <3>2. g[n - 1] = f[n - 1]
      BY <3>1
    <3>3. CASE n = m
      BY <3>1, <3>2, <3>3
    <3>4. CASE n # m
      <4>1. n \in 1..m - 1
        BY <2>2, <3>4
      <4>2. g[n] = f[n] /\ f[n] = step[n][f[n - 1]]
        BY <2>1, <3>1, <3>4, <4>1 DEF IsRun
      <4> QED  BY <3>2, <4>2
    <3> QED  BY <3>3, <3>4
  <2> HIDE DEF g
  <2>9. IsRun(g, v, step, m, V)
    BY <2>6, <2>7, <2>8 DEF IsRun
  <2> QED  BY <2>2, <2>9
<1>3. N \in P
  <2> HIDE DEF P
  <2>1. \A n \in 0..N : n \in P
    BY <1>1, <1>2, AllUpTo
  <2> QED  BY <2>1
<1> QED  BY <1>3

(* The list of the elements chosen among the first n.                      *)
LEMMA ChosenSteps ==
    ASSUME NEW T, NEW s \in Seq(T), NEW S
    PROVE  \E f \in [0..Len(s) -> Seq(T)] :
               /\ f[0] = <<>> /\ Chosen(s, S) = f[Len(s)]
               /\ \A n \in 1..Len(s) : f[n] = IF s[n] \in S THEN Append(f[n - 1], s[n]) ELSE f[n - 1]
<1> DEFINE N == Len(s)
           V == Seq(T)
           step == [n \in 1..N |-> [x \in V |-> IF s[n] \in S THEN Append(x, s[n]) ELSE x]]
           Upon(f) == [n \in 0..N |-> IF n = 0 THEN <<>>
                                      ELSE IF s[n] \in S THEN Append(f[n - 1], s[n]) ELSE f[n - 1]]
<1>1. N \in Nat /\ \A n \in 1..N : s[n] \in T
  BY ListProperties
<1>2. <<>> \in V
  OBVIOUS
<1>3. \A x \in V, n \in 1..N : (IF s[n] \in S THEN Append(x, s[n]) ELSE x) \in V
  BY <1>1, AppendProperties
<1>4. \A x \in V, n \in 1..N : step[n][x] = IF s[n] \in S THEN Append(x, s[n]) ELSE x
  OBVIOUS
<1>5. StaysIn(step, N, V)
  <2> HIDE DEF step, V, N
  <2> QED  BY <1>3, <1>4 DEF StaysIn
<1>6. PICK f : IsRun(f, <<>>, step, N, V)
  <2> HIDE DEF N, V, step
  <2> QED  BY <1>1, <1>2, <1>5, DefinedUpTo
<1>7. ASSUME NEW n \in 1..N PROVE f[n] = IF s[n] \in S THEN Append(f[n - 1], s[n]) ELSE f[n - 1]
  <2>1. n - 1 \in 0..N
    BY <1>1
  <2> HIDE DEF step, V, N
  <2>2. f[n - 1] \in V /\ f[n] = step[n][f[n - 1]]
    BY <1>6, <2>1 DEF IsRun
  <2> QED  BY <1>4, <2>2
<1>8. f = Upon(f)
  <2>1. \A n \in 0..N : n # 0 => n \in 1..N
    BY <1>1
  <2>2. f[0] = <<>> /\ f = [n \in 0..N |-> f[n]]
    BY <1>6 DEF IsRun
  <2>3. \A n \in 0..N : f[n] = Upon(f)[n]
    BY <1>7, <2>1, <2>2
  <2> HIDE DEF N
  <2> QED  BY <2>2, <2>3
<1> DEFINE F == CHOOSE g : g = Upon(g)
<1>9. F = Upon(F)
  <2> HIDE DEF Upon
  <2> QED  BY <1>8
<1>10. Chosen(s, S) = F[N]
  BY DEF Chosen
<1> HIDE DEF F
<1>11. /\ F[0] = <<>>
       /\ \A n \in 1..N : F[n] = IF s[n] \in S THEN Append(F[n - 1], s[n]) ELSE F[n - 1]
  <2>1. 0 \in 0..N /\ \A n \in 1..N : n # 0 /\ n \in 0..N
    BY <1>1
  <2>2. F[0] = Upon(F)[0] /\ \A n \in 1..N : F[n] = Upon(F)[n]
    BY <1>9
  <2> QED  BY <2>1, <2>2
<1>12. DOMAIN F = 0..N /\ F = [n \in 0..N |-> F[n]]
  BY <1>9
<1>13. \A n \in 0..N : F[n] \in V
  <2> DEFINE P == {n \in 0..N : F[n] \in V}
  <2>1. 0 \in P
    <3>1. 0 \in 0..N
      BY <1>1
    <3> HIDE DEF V, N
    <3> QED  BY <3>1, <1>2, <1>11
  <2>2. ASSUME NEW n \in 1..N, n - 1 \in P PROVE n \in P
    <3>1. n \in 0..N /\ F[n - 1] \in V
      BY <1>1, <2>2
    <3> HIDE DEF V
    <3> QED  BY <1>3, <1>11, <3>1
  <2> HIDE DEF P
  <2>3. \A n \in 0..N : n \in P
    BY <1>1, <2>1, <2>2, AllUpTo
  <2> QED  BY <2>3 DEF P
<1> HIDE DEF V
<1>14. F \in [0..N -> V]
  BY <1>12, <1>13
<1> QED  BY <1>10, <1>11, <1>14 DEF V

LEMMA FirstOfAll ==
    ASSUME NEW I \in SUBSET Nat, I # {}
    PROVE  Min(I) \in I /\ \A i \in I : Min(I) <= i
  BY LeastElement DEF Min

LEMMA AppendedElements ==
    ASSUME NEW T, NEW s \in Seq(T), NEW x \in T
    PROVE  ToSet(Append(s, x)) = ToSet(s) \cup {x}
<1>1. /\ DOMAIN s = 1..Len(s) /\ Len(s) \in Nat
  BY ListProperties
<1>2. /\ Append(s, x) \in Seq(T) /\ Len(Append(s, x)) = Len(s) + 1
      /\ \A i \in 1..Len(s) : Append(s, x)[i] = s[i]
      /\ Append(s, x)[Len(s) + 1] = x
  BY AppendProperties
<1>3. DOMAIN Append(s, x) = 1..Len(s) + 1
  BY <1>2, ListProperties
<1>4. \A i \in 1..Len(s) + 1 : i \in 1..Len(s) \/ i = Len(s) + 1
  BY <1>1
<1>5. 1..Len(s) \subseteq 1..Len(s) + 1 /\ Len(s) + 1 \in 1..Len(s) + 1
  BY <1>1
<1> QED  BY <1>1, <1>2, <1>3, <1>4, <1>5 DEF ToSet

(* Chosen keeps of a list what is in the set, and nothing else.            *)
LEMMA ChosenElements ==
    ASSUME NEW T, NEW s \in Seq(T), NEW S
    PROVE  Chosen(s, S) \in Seq(T) /\ ToSet(Chosen(s, S)) = ToSet(s) \cap S
<1> DEFINE N == Len(s)
           Upto(n) == {s[k] : k \in 1..n}
<1>1. N \in Nat /\ DOMAIN s = 1..N /\ \A n \in 1..N : s[n] \in T
  BY ListProperties
<1>2. PICK f \in [0..N -> Seq(T)] :
          /\ f[0] = <<>> /\ Chosen(s, S) = f[N]
          /\ \A n \in 1..N : f[n] = IF s[n] \in S THEN Append(f[n - 1], s[n]) ELSE f[n - 1]
  BY ChosenSteps
<1> HIDE DEF N
<1> DEFINE P == {n \in 0..N : ToSet(f[n]) = Upto(n) \cap S}
<1>3. 0 \in P
  <2>1. 0 \in 0..N /\ ToSet(f[0]) = {} /\ 1..0 = {}
    BY <1>1, <1>2 DEF ToSet
  <2> QED  BY <2>1
<1>4. ASSUME NEW n \in 1..N, n - 1 \in P PROVE n \in P
  <2>1. n \in 0..N /\ n - 1 \in 0..N /\ s[n] \in T
    BY <1>1
  <2>2. ToSet(f[n - 1]) = Upto(n - 1) \cap S
    BY <1>4
  <2>3. Upto(n) = Upto(n - 1) \cup {s[n]}
    BY <2>1
  <2>4. f[n] = IF s[n] \in S THEN Append(f[n - 1], s[n]) ELSE f[n - 1]
    BY <1>2
  <2>5. ToSet(Append(f[n - 1], s[n])) = ToSet(f[n - 1]) \cup {s[n]}
    <3>1. f[n - 1] \in Seq(T)
      BY <1>2, <2>1
    <3> QED  BY <2>1, <3>1, AppendedElements
  <2>6. ToSet(f[n]) = Upto(n) \cap S
    <3> HIDE DEF Upto
    <3>1. CASE s[n] \in S
      BY <2>2, <2>3, <2>4, <2>5, <3>1
    <3>2. CASE s[n] \notin S
      BY <2>2, <2>3, <2>4, <3>2
    <3> QED  BY <3>1, <3>2
  <2> QED  BY <2>1, <2>6
<1>5. N \in P
  <2> HIDE DEF P
  <2>1. \A n \in 0..N : n \in P
    BY <1>1, <1>3, <1>4, AllUpTo
  <2> QED  BY <1>1, <2>1
<1>6. Upto(N) = ToSet(s)
  BY <1>1 DEF ToSet
<1>7. f[N] \in Seq(T)
  BY <1>1, <1>2
<1> QED  BY <1>2, <1>5, <1>6, <1>7

(* The first of a list that has the id.                                    *)
FirstWith(ss, id) == SelectInSeq(ss, LAMBDA s : s.ID = id)

LEMMA FirstWithProperties ==
    ASSUME NEW ss, NEW id
    PROVE  \/ FirstWith(ss, id) = 0 /\ \A i \in 1..Len(ss) : ss[i].ID # id
           \/ /\ FirstWith(ss, id) \in 1..Len(ss) /\ FirstWith(ss, id) # 0
              /\ ss[FirstWith(ss, id)].ID = id
              /\ \A i \in 1..Len(ss) : ss[i].ID = id => FirstWith(ss, id) <= i
<1> DEFINE I == {i \in 1..Len(ss) : ss[i].ID = id}
<1>1. FirstWith(ss, id) = IF I # {} THEN Min(I) ELSE 0
  BY DEF FirstWith, SelectInSeq
<1>2. I \in SUBSET Nat /\ 0 \notin I
  OBVIOUS
<1>3. I # {} => Min(I) \in I /\ \A i \in I : Min(I) <= i
  <2> HIDE DEF I
  <2> QED  BY <1>2, FirstOfAll
<1>4. CASE I = {}
  BY <1>1, <1>4
<1>5. CASE I # {}
  <2>1. PICK m \in I : m = FirstWith(ss, id) /\ \A i \in I : m <= i
    BY <1>1, <1>3, <1>5
  <2> QED  BY <1>2, <2>1
<1> QED  BY <1>4, <1>5


-----------------------------------------------------------------------------
(* Alarms.  That a timer is in the table under its name is inductive once  *)
(* every variable is a function of the right type.                         *)
AlarmsInv ==
    /\ alarms \subseteq AlarmNames /\ made \in 0..MaxTimers
    /\ alarmTimers \in [AlarmNames -> 0..made]
    /\ nameOf \in [Timers -> AlarmNames]
    /\ timer \in [Timers -> {"unused", "armed", "ringing", "rung", "over"}]
    /\ listening \in BOOLEAN /\ wedged \in BOOLEAN /\ astray \subseteq Timers
    /\ AlarmsCanBeCleared

(* Stopping timers stops those that are armed, and touches no other.       *)
LEMMA StoppedTimersProperties ==
    ASSUME AlarmsInv, NEW ts
    PROVE  /\ StoppedTimers(ts) \in [Timers -> {"unused", "armed", "ringing", "rung", "over"}]
           /\ \A t \in Timers : StoppedTimers(ts)[t] = "armed" => timer[t] = "armed" /\ t \notin ts
  BY DEF AlarmsInv, StoppedTimers

(* A new timer takes the place of the one that had the name.               *)
LEMMA ScheduleLaterInv ==
    ASSUME AlarmsInv, NEW n \in AlarmNames, ScheduleLater(n), alarms' = alarms \cup {n},
           UNCHANGED <<listening, astray, wedged>>
    PROVE  AlarmsInv'
<1> DEFINE t == made + 1
           ts == {alarmTimers[n]}
<1>1. /\ t \in Timers /\ made' = t /\ made \in Nat /\ MaxTimers \in Nat
      /\ nameOf' = [nameOf EXCEPT ![t] = n]
      /\ timer' = [StoppedTimers(ts) EXCEPT ![t] = "armed"]
      /\ alarmTimers' = [alarmTimers EXCEPT ![n] = t]
  BY AlarmAssumption DEF AlarmsInv, ScheduleLater, Timers, AlarmAssumption
<1>2. /\ StoppedTimers(ts) \in [Timers -> {"unused", "armed", "ringing", "rung", "over"}]
      /\ \A u \in Timers : StoppedTimers(ts)[u] = "armed" => timer[u] = "armed" /\ u \notin ts
  BY StoppedTimersProperties
<1>3. made' \in 0..MaxTimers /\ alarmTimers' \in [AlarmNames -> 0..made']
  BY <1>1 DEF AlarmsInv, Timers
<1>4. /\ timer' \in [Timers -> {"unused", "armed", "ringing", "rung", "over"}]
      /\ nameOf' \in [Timers -> AlarmNames] /\ alarms' \subseteq AlarmNames
  BY <1>1, <1>2 DEF AlarmsInv
<1>5. ASSUME NEW u \in Timers \ astray, timer'[u] = "armed"
      PROVE  alarmTimers'[nameOf'[u]] = u /\ nameOf'[u] \in alarms'
  <2>1. CASE u = t
    BY <2>1, <1>1 DEF AlarmsInv
  <2>2. CASE u # t
    <3>1. nameOf'[u] = nameOf[u] /\ timer[u] = "armed" /\ u # alarmTimers[n]
      BY <2>2, <1>1, <1>2, <1>5 DEF AlarmsInv
    <3>2. alarmTimers[nameOf[u]] = u /\ nameOf[u] \in alarms
      BY <3>1 DEF AlarmsInv, AlarmsCanBeCleared
    <3> QED  BY <3>1, <3>2, <1>1 DEF AlarmsInv
  <2> QED  BY <2>1, <2>2
<1> QED  BY <1>3, <1>4, <1>5 DEF AlarmsInv, AlarmsCanBeCleared

(* Every step keeps it.                                                    *)
LEMMA AlarmsInvStep ==
    ASSUME AlarmsInv, [AlarmsNext]_alarmVars
    PROVE  AlarmsInv'
<1>1. CASE CreateAlarm
  <2>1. PICK n \in AlarmNames :
          /\ alarms' = alarms \cup {n}
          /\ \/ ScheduleLater(n) /\ UNCHANGED wedged
             \/ FireAtOnce(n)
             \/ UNCHANGED <<made, nameOf, timer, alarmTimers, wedged>>
          /\ UNCHANGED <<listening, astray>>
    BY <1>1 DEF CreateAlarm
  <2>2. CASE ScheduleLater(n) /\ UNCHANGED wedged
    BY <2>1, <2>2, ScheduleLaterInv
  <2>3. CASE FireAtOnce(n)
    <3>1. /\ timer' = StoppedTimers({alarmTimers[n]}) /\ wedged' \in BOOLEAN
          /\ UNCHANGED <<made, nameOf, alarmTimers>>
      BY <2>3 DEF FireAtOnce, AlarmsInv
    <3> QED  BY <2>1, <3>1, StoppedTimersProperties DEF AlarmsInv, AlarmsCanBeCleared
  <2>4. CASE UNCHANGED <<made, nameOf, timer, alarmTimers, wedged>>
    BY <2>1, <2>4 DEF AlarmsInv, AlarmsCanBeCleared
  <2> QED  BY <2>1, <2>2, <2>3, <2>4
<1>2. ASSUME NEW ns \in SUBSET AlarmNames, alarms' = alarms \ ns, Cancel(ns),
             UNCHANGED <<made, nameOf, listening, wedged, astray>>
      PROVE  AlarmsInv'
  <2> DEFINE ts == {alarmTimers[n] : n \in ns}
  <2>1. /\ timer' = StoppedTimers(ts)
        /\ alarmTimers' = [n \in AlarmNames |-> IF n \in ns THEN 0 ELSE alarmTimers[n]]
    BY <1>2 DEF Cancel
  <2>2. /\ timer' \in [Timers -> {"unused", "armed", "ringing", "rung", "over"}]
        /\ \A u \in Timers : timer'[u] = "armed" => timer[u] = "armed" /\ u \notin ts
    BY <2>1, StoppedTimersProperties
  <2>3. alarmTimers' \in [AlarmNames -> 0..made']
    BY <2>1, <1>2 DEF AlarmsInv
  <2>4. ASSUME NEW u \in Timers \ astray, timer'[u] = "armed"
        PROVE  alarmTimers'[nameOf[u]] = u /\ nameOf[u] \in alarms'
    <3>1. alarmTimers[nameOf[u]] = u /\ nameOf[u] \in alarms /\ nameOf[u] \in AlarmNames
      BY <2>2, <2>4 DEF AlarmsInv, AlarmsCanBeCleared
    <3>2. nameOf[u] \notin ns
      BY <3>1, <2>2, <2>4
    <3> QED  BY <3>1, <3>2, <2>1, <1>2
  <2> QED  BY <1>2, <2>2, <2>3, <2>4 DEF AlarmsInv, AlarmsCanBeCleared
<1>3. CASE ClearAlarm
  <2>1. PICK n \in AlarmNames : alarms' = alarms \ {n} /\ Cancel({n})
    BY <1>3 DEF ClearAlarm
  <2> QED  BY <1>3, <2>1, <1>2 DEF ClearAlarm
<1>4. CASE ClearAllAlarms
  <2>1. alarms' = alarms \ AlarmNames /\ Cancel(AlarmNames)
    BY <1>4 DEF ClearAllAlarms, AlarmsInv
  <2> QED  BY <1>4, <2>1, <1>2 DEF ClearAllAlarms
<1>5. CASE TimerGoesOff \/ ListenersReturn
  BY <1>5 DEF TimerGoesOff, ListenersReturn, AlarmsInv, AlarmsCanBeCleared
<1>6. CASE EntryRemoved
  <2>1. PICK t \in Timers :
          /\ timer[t] = "rung"
          /\ timer' = [timer EXCEPT ![t] = "over"]
          /\ alarmTimers' = [alarmTimers EXCEPT ![nameOf[t]] = 0]
          /\ astray' = astray \cup ({alarmTimers[nameOf[t]]} \ {0, t})
          /\ UNCHANGED <<alarms, made, nameOf, listening, wedged>>
    BY <1>6 DEF EntryRemoved
  <2>2. alarmTimers' \in [AlarmNames -> 0..made']
    BY <2>1 DEF AlarmsInv
  <2>3. alarmTimers[nameOf[t]] \in 0..MaxTimers
    BY AlarmAssumption DEF AlarmsInv, AlarmAssumption
  <2>4. astray' \subseteq Timers
    <3>1. alarmTimers[nameOf[t]] \in Timers \cup {0}
      BY <2>3, AlarmAssumption DEF Timers, AlarmAssumption
    <3> QED  BY <3>1, <2>1 DEF AlarmsInv
  <2>5. ASSUME NEW u \in Timers \ astray', timer'[u] = "armed"
        PROVE  alarmTimers'[nameOf[u]] = u /\ nameOf[u] \in alarms
    <3>1. u # t /\ timer[u] = "armed" /\ u \notin astray /\ u # 0
      BY <2>1, <2>5, AlarmAssumption DEF AlarmsInv, Timers, AlarmAssumption
    <3>2. alarmTimers[nameOf[u]] = u /\ nameOf[u] \in alarms
      BY <3>1 DEF AlarmsInv, AlarmsCanBeCleared
    <3>3. nameOf[u] # nameOf[t]
      BY <3>1, <3>2, <2>1, <2>5
    <3> QED  BY <3>2, <3>3, <2>1 DEF AlarmsInv
  <2> QED  BY <2>1, <2>2, <2>4, <2>5 DEF AlarmsInv, AlarmsCanBeCleared
<1>7. CASE ExtensionToggled
  BY <1>7 DEF ExtensionToggled, AlarmsInv, AlarmsCanBeCleared
<1>8. CASE UNCHANGED alarmVars
  BY <1>8 DEF alarmVars, AlarmsInv, AlarmsCanBeCleared
<1> QED  BY <1>1, <1>3, <1>4, <1>5, <1>6, <1>7, <1>8 DEF AlarmsNext

(* There is no alarm at first.                                            *)
LEMMA AlarmsStart == AlarmsInit => AlarmsInv
<1> SUFFICES ASSUME AlarmsInit PROVE AlarmsInv
  OBVIOUS
<1>1. (CHOOSE n \in AlarmNames : TRUE) \in AlarmNames
  BY AlarmAssumption DEF AlarmAssumption
<1>2. nameOf \in [Timers -> AlarmNames]
  BY <1>1 DEF AlarmsInit
<1>3. made \in 0..MaxTimers /\ alarmTimers \in [AlarmNames -> 0..made]
  BY AlarmAssumption DEF AlarmsInit, AlarmAssumption
<1> QED  BY <1>2, <1>3 DEF AlarmsInit, AlarmsInv, AlarmsCanBeCleared

(* An alarm that is still to ring can be cleared by its name, however the  *)
(* calls of scripts and the timers' goroutines overlap.                    *)
THEOREM AlarmsStayReachable == AlarmsSpec => [](AlarmsTypeOK /\ AlarmsCanBeCleared)
<1>1. AlarmsInit => AlarmsInv
  BY AlarmsStart
<1>2. AlarmsInv /\ [AlarmsNext]_alarmVars => AlarmsInv'
  BY AlarmsInvStep
<1>3. AlarmsInv => AlarmsTypeOK /\ AlarmsCanBeCleared
  BY DEF AlarmsInv, AlarmsTypeOK
<1> QED  BY <1>1, <1>2, <1>3, PTL DEF AlarmsSpec

-----------------------------------------------------------------------------
(* Storage of one extension.                                               *)
StorageInv ==
    /\ present \in BOOLEAN
    /\ memory \in [Partitions -> Contents \cup {NotLoaded}]
    /\ file \in [Partitions -> Contents \cup {NoFile, CutShort}]
    /\ dirty \subseteq Partitions /\ atRisk \subseteq Partitions
    /\ old \subseteq Contents /\ foreign \in BOOLEAN
    /\ IF present THEN memory[Own] \in Contents ELSE memory[Own] = NotLoaded
    /\ StorageIsOnDisk

(* What a partition holds once it is loaded is never a mark.               *)
LEMMA LoadedProperties ==
    ASSUME StorageInv, NEW p \in Partitions
    PROVE  /\ Loaded(p) \in Contents /\ partitionFor(p) \in Contents
           /\ NotLoaded \notin Contents /\ NoFile \notin Contents
           /\ CutShort \notin Contents /\ NoFile # CutShort /\ Empty \in Contents
<1>1. /\ NotLoaded \notin Contents /\ NoFile \notin Contents /\ CutShort \notin Contents
      /\ NoFile # CutShort
  BY ExtensionStorageAssumption DEF ExtensionStorageAssumption, NoFile, CutShort
<1>2. Empty \in Contents
  BY DEF Empty, Contents
<1>3. Loaded(p) \in Contents
  BY <1>1, <1>2 DEF StorageInv, Loaded
<1> QED  BY <1>1, <1>2, <1>3 DEF StorageInv, partitionFor

(* A partition that is written and saved agrees with its file, and one     *)
(* that is not saved is at risk.                                           *)
LEMMA PersistInv ==
    ASSUME StorageInv, NEW p \in Partitions, NEW m \in Contents, NEW outcome \in Saves,
           present, UNCHANGED <<present, old>>, Saved(p, m, outcome),
           memory' = [memory EXCEPT ![p] = m] \/ (memory' = memory /\ memory[p] = m),
           dirty' \subseteq Partitions
    PROVE  StorageInv'
<1>1. /\ NotLoaded \notin Contents /\ NoFile \notin Contents
      /\ CutShort \notin Contents /\ NoFile # CutShort
  BY LoadedProperties
<1>2. /\ memory \in [Partitions -> Contents \cup {NotLoaded}]
      /\ file \in [Partitions -> Contents \cup {NoFile, CutShort}]
  BY DEF StorageInv
<1>3. /\ memory' \in [Partitions -> Contents \cup {NotLoaded}] /\ memory'[p] = m
      /\ \A q \in Partitions \ {p} : memory'[q] = memory[q]
  BY <1>2
<1>4. /\ file' \in [Partitions -> Contents \cup {NoFile, CutShort}]
      /\ outcome = "saved" => file'[p] = m
      /\ \A q \in Partitions \ {p} : file'[q] = file[q]
  BY <1>2 DEF Saved, persist, Saves
<1>5. /\ atRisk' \subseteq Partitions /\ (outcome # "saved" => p \in atRisk')
      /\ \A q \in Partitions \ {p} : q \in atRisk' <=> q \in atRisk
      /\ foreign' \in BOOLEAN /\ (foreign /\ p # Own => foreign')
  BY DEF StorageInv, Saved, persist
<1>6. ASSUME NEW q \in Partitions \ atRisk'
      PROVE  /\ file'[q] # CutShort
             /\ memory'[q] # NotLoaded => \/ memory'[q] = Loaded(q)'
                                          \/ q = Own /\ foreign' /\ Loaded(q)' \in old'
  <2>1. CASE q = p
    BY <2>1, <1>1, <1>3, <1>4, <1>5, <1>6 DEF Loaded
  <2>2. CASE q # p
    BY <2>2, <1>3, <1>4, <1>5, <1>6 DEF StorageInv, StorageIsOnDisk, Loaded
  <2> QED  BY <2>1, <2>2
<1>7. present' => memory'[Own] \in Contents
  BY <1>3 DEF StorageInv, Partitions
<1> QED  BY <1>3, <1>4, <1>5, <1>6, <1>7 DEF StorageInv, StorageIsOnDisk

(* A machine of a removed extension that saves makes the file foreign.     *)
LEMMA OldMachineWritesInv ==
    ASSUME StorageInv, OldMachineWrites
    PROVE  StorageInv'
<1>a. PICK m \in old, outcome \in Saves : \E n \in OneCall(m) :
        /\ old' \in {old \cup {n}, (old \ {m}) \cup {n}}
        /\ persist(Own, n, outcome)
        /\ foreign' = (foreign \/ outcome # "refused")
        /\ UNCHANGED <<present, memory, dirty>>
  BY DEF OldMachineWrites
<1>1. PICK n \in OneCall(m) :
        /\ old' \in {old \cup {n}, (old \ {m}) \cup {n}}
        /\ persist(Own, n, outcome)
        /\ foreign' = (foreign \/ outcome # "refused")
        /\ UNCHANGED <<present, memory, dirty>>
  BY <1>a
<1>2. m \in Contents /\ Own \in Partitions
  BY DEF StorageInv, Partitions
<1>3. n \in Contents
  BY <1>1, <1>2 DEF OneCall, Contents
<1>4. /\ NotLoaded \notin Contents /\ NoFile \notin Contents /\ CutShort \notin Contents
  BY <1>2, LoadedProperties
<1>5. old' \subseteq Contents /\ n \in old'
  BY <1>1, <1>3 DEF StorageInv
<1>6. /\ file' \in [Partitions -> Contents \cup {NoFile, CutShort}]
      /\ outcome = "saved" => file'[Own] = n
      /\ \A q \in Partitions \ {Own} : file'[q] = file[q]
  BY <1>1, <1>2, <1>3 DEF StorageInv, persist, Saves
<1>7. /\ atRisk' \subseteq Partitions /\ (Own \notin atRisk' => outcome = "saved")
      /\ \A q \in Partitions \ {Own} : q \in atRisk' <=> q \in atRisk
      /\ foreign' \in BOOLEAN /\ (outcome = "saved" => foreign')
  BY <1>1, <1>2 DEF StorageInv, persist
<1>8. ASSUME NEW q \in Partitions \ atRisk'
      PROVE  /\ file'[q] # CutShort
             /\ memory'[q] # NotLoaded => \/ memory'[q] = Loaded(q)'
                                          \/ q = Own /\ foreign' /\ Loaded(q)' \in old'
  <2>1. CASE q = Own
    <3>1. file'[Own] = n /\ foreign'
      BY <2>1, <1>6, <1>7, <1>8
    <3>2. Loaded(Own)' = n
      BY <3>1, <1>3, <1>4 DEF Loaded
    <3> QED  BY <2>1, <3>1, <3>2, <1>3, <1>4, <1>5
  <2>2. CASE q # Own
    BY <2>2, <1>1, <1>6, <1>7, <1>8 DEF StorageInv, StorageIsOnDisk, Loaded
  <2> QED  BY <2>1, <2>2
<1>9. Own \notin atRisk' => foreign'
  BY <1>7
<1> QED  BY <1>1, <1>5, <1>6, <1>7, <1>8, <1>9 DEF StorageInv, StorageIsOnDisk

(* Clearing a container, whose object goes whatever happens to the file.   *)
LEMMA ClearContainerInv ==
    ASSUME StorageInv, ClearContainer
    PROVE  StorageInv'
<1> DEFINE Cleared(p, i) == [a \in AreaNames |->
                               IF \E j \in 1..i : Areas[j] = a THEN {} ELSE memory[p][a]]
<1>1. PICK p \in Boxes, i \in 0..Len(Areas), outcome \in Saves :
        /\ present /\ memory[p] # NotLoaded
        /\ outcome = "saved" <=> i = Len(Areas)
        /\ memory' = [memory EXCEPT ![p] = NotLoaded]
        /\ dirty' = dirty \ {p}
        /\ file' = [file EXCEPT ![p] = IF outcome = "cut" THEN CutShort
                                       ELSE IF i > 0 THEN Cleared(p, i) ELSE @]
        /\ atRisk' = IF outcome = "saved" THEN atRisk \ {p} ELSE atRisk \cup {p}
        /\ UNCHANGED <<present, old, foreign>>
  BY DEF ClearContainer
<1> DEFINE cleared == Cleared(p, i)
<1>a. /\ outcome = "saved" <=> i = Len(Areas)
      /\ memory' = [memory EXCEPT ![p] = NotLoaded]
      /\ atRisk' = IF outcome = "saved" THEN atRisk \ {p} ELSE atRisk \cup {p}
  BY <1>1
<1>2. p \in Partitions /\ p # Own /\ Own \in Partitions /\ Len(Areas) \in Nat /\ Len(Areas) # 0
  BY ExtensionStorageAssumption DEF Partitions, ExtensionStorageAssumption
<1>3. cleared \in Contents /\ CutShort \notin Contents
  BY <1>1, <1>2, LoadedProperties DEF StorageInv, Contents
<1>4. outcome = "saved" => i > 0
  BY <1>1, <1>2
<1> HIDE DEF cleared, Cleared
<1>5. PICK f \in Contents \cup {NoFile, CutShort} :
        file' = [file EXCEPT ![p] = f] /\ (outcome = "saved" => f = cleared)
  <2>1. CASE outcome = "cut"
    <3>1. file' = [file EXCEPT ![p] = CutShort]
      BY <2>1, <1>1
    <3> QED  BY <2>1, <3>1
  <2>2. CASE outcome # "cut" /\ i > 0
    BY <2>2, <1>1, <1>3 DEF cleared
  <2>3. CASE outcome # "cut" /\ ~(i > 0)
    <3>1. file[p] \in Contents \cup {NoFile, CutShort}
      BY <1>2 DEF StorageInv
    <3>2. file' = [file EXCEPT ![p] = file[p]]
      BY <2>3, <1>1
    <3> QED  BY <2>3, <3>1, <3>2, <1>4
  <2> QED  BY <2>1, <2>2, <2>3
<1>6. /\ memory' \in [Partitions -> Contents \cup {NotLoaded}]
      /\ file' \in [Partitions -> Contents \cup {NoFile, CutShort}]
      /\ dirty' \subseteq Partitions /\ atRisk' \subseteq Partitions
      /\ present' = TRUE /\ memory'[Own] \in Contents
      /\ UNCHANGED <<old, foreign>>
  BY <1>1, <1>2, <1>5 DEF StorageInv
<1>7. ASSUME NEW q \in Partitions \ atRisk'
      PROVE  /\ file'[q] # CutShort
             /\ memory'[q] # NotLoaded => \/ memory'[q] = Loaded(q)'
                                          \/ q = Own /\ foreign' /\ Loaded(q)' \in old'
  <2>1. CASE q = p
    <3>1. outcome = "saved"
      BY <2>1, <1>7, <1>a
    <3>2. file'[p] = cleared /\ memory'[p] = NotLoaded
      BY <3>1, <1>a, <1>2, <1>5 DEF StorageInv
    <3> QED  BY <2>1, <3>2, <1>3
  <2>2. CASE q # p
    <3>1. /\ file'[q] = file[q] /\ memory'[q] = memory[q] /\ q \notin atRisk
      BY <2>2, <1>1, <1>2, <1>5, <1>7 DEF StorageInv
    <3> QED  BY <3>1, <1>6 DEF StorageInv, StorageIsOnDisk, Loaded
  <2> QED  BY <2>1, <2>2
<1> QED  BY <1>6, <1>7 DEF StorageInv, StorageIsOnDisk

(* Every step keeps it.                                                    *)
LEMMA StorageInvStep ==
    ASSUME StorageInv, [StorageNext]_storageVars
    PROVE  StorageInv'
<1>1. ASSUME NEW p \in Partitions, NEW m \in Contents, NEW outcome \in Saves,
             Change(p, m, outcome)
      PROVE  StorageInv'
  <2>1. /\ present /\ UNCHANGED <<present, old>> /\ Saved(p, m, outcome)
        /\ memory' = [memory EXCEPT ![p] = m] /\ dirty' = dirty \cup {p}
    BY <1>1 DEF Change, Changed
  <2>2. dirty' \subseteq Partitions
    BY <2>1 DEF StorageInv
  <2> QED  BY <2>1, <2>2, PersistInv
<1>2. CASE SetKey
  <2>1. PICK p \in Partitions, a \in AreaNames, k \in Keys, outcome \in Saves :
          Change(p, [partitionFor(p) EXCEPT ![a] = @ \cup {k}], outcome)
    BY <1>2 DEF SetKey
  <2>2. [partitionFor(p) EXCEPT ![a] = @ \cup {k}] \in Contents
    BY LoadedProperties DEF Contents
  <2> QED  BY <2>1, <2>2, <1>1
<1>3. CASE RemoveKey
  <2>1. PICK p \in Partitions, a \in AreaNames, k \in Keys, outcome \in Saves :
          Change(p, [partitionFor(p) EXCEPT ![a] = @ \ {k}], outcome)
    BY <1>3 DEF RemoveKey
  <2>2. [partitionFor(p) EXCEPT ![a] = @ \ {k}] \in Contents
    BY LoadedProperties DEF Contents
  <2> QED  BY <2>1, <2>2, <1>1
<1>4. CASE ClearArea
  <2>1. PICK p \in Partitions, a \in AreaNames, outcome \in Saves :
          Change(p, [partitionFor(p) EXCEPT ![a] = {}], outcome)
    BY <1>4 DEF ClearArea
  <2>2. [partitionFor(p) EXCEPT ![a] = {}] \in Contents
    BY LoadedProperties DEF Contents
  <2> QED  BY <2>1, <2>2, <1>1
<1>5. CASE GetKey
  <2>1. PICK p \in Boxes : /\ present /\ memory[p] = NotLoaded
                           /\ memory' = [memory EXCEPT ![p] = Loaded(p)]
                           /\ UNCHANGED <<present, file, dirty, atRisk, old, foreign>>
    BY <1>5 DEF GetKey
  <2>2. p \in Partitions /\ p # Own
    BY ExtensionStorageAssumption DEF Partitions, ExtensionStorageAssumption
  <2> QED  BY <2>1, <2>2, LoadedProperties DEF StorageInv, StorageIsOnDisk, Loaded
<1>6. CASE SyncToDisk
  <2>1. PICK p \in dirty, outcome \in Saves :
          /\ present /\ memory[p] # NotLoaded
          /\ dirty' = dirty \ {p}
          /\ Saved(p, memory[p], outcome)
          /\ UNCHANGED <<present, memory, old>>
    BY <1>6 DEF SyncToDisk
  <2>2. p \in Partitions /\ memory[p] \in Contents /\ dirty' \subseteq Partitions
    BY <2>1 DEF StorageInv
  <2> QED  BY <2>1, <2>2, PersistInv
<1>7. CASE ClearContainer
  BY <1>7, ClearContainerInv
<1>8. CASE RestartStorage /\ ~present
  <2>1. /\ dirty' = {} /\ old' = {} /\ UNCHANGED <<present, memory, foreign, file, atRisk>>
    BY <1>8 DEF RestartStorage
  <2> QED  BY <2>1, <1>8, LoadedProperties DEF StorageInv, StorageIsOnDisk, Loaded
<1>9. CASE (RestartStorage /\ present) \/ InstallAgain
  <2>1. /\ present' = TRUE /\ foreign' = FALSE /\ UNCHANGED <<file, atRisk>>
        /\ memory' = [p \in Partitions |-> IF p = Own THEN Loaded(Own) ELSE NotLoaded]
    BY <1>9 DEF RestartStorage, InstallAgain, RegisterStorage
  <2>2. Own \in Partitions
    BY DEF Partitions
  <2>3. /\ memory' \in [Partitions -> Contents \cup {NotLoaded}] /\ memory'[Own] \in Contents
        /\ \A p \in Partitions : memory'[p] # NotLoaded => memory'[p] = Loaded(p)'
    BY <2>1, <2>2, LoadedProperties DEF Loaded
  <2>4. dirty' \subseteq Partitions /\ old' \subseteq Contents
    BY <1>9 DEF RestartStorage, InstallAgain, StorageInv
  <2> QED  BY <2>1, <2>2, <2>3, <2>4 DEF StorageInv, StorageIsOnDisk
<1>10. CASE RemoveExtension
  <2>1. PICK removed \in BOOLEAN :
          /\ present /\ present' = FALSE
          /\ memory' = [p \in Partitions |-> NotLoaded] /\ dirty' = {}
          /\ file' = [file EXCEPT ![Own] = IF removed THEN NoFile ELSE @]
          /\ atRisk' = IF removed THEN atRisk \ {Own} ELSE atRisk \cup {Own}
          /\ old' = old \cup {memory[Own]}
          /\ foreign' = (foreign /\ ~removed)
    BY <1>10 DEF RemoveExtension
  <2>2. Own \in Partitions /\ NoFile # CutShort
    BY LoadedProperties DEF Partitions
  <2>3. /\ file' \in [Partitions -> Contents \cup {NoFile, CutShort}]
        /\ \A q \in Partitions \ {Own} : file'[q] = file[q]
        /\ removed => file'[Own] = NoFile
    BY <2>1, <2>2 DEF StorageInv
  <2>4. old' \subseteq Contents /\ foreign' \in BOOLEAN
    BY <2>1 DEF StorageInv
  <2> QED  BY <2>1, <2>2, <2>3, <2>4 DEF StorageInv, StorageIsOnDisk
<1>11. CASE OldMachineWrites
  BY <1>11, OldMachineWritesInv
<1>12. CASE UNCHANGED storageVars
  BY <1>12 DEF storageVars, StorageInv, StorageIsOnDisk, Loaded
<1> QED  BY <1>2, <1>3, <1>4, <1>5, <1>6, <1>7, <1>8, <1>9, <1>10, <1>11, <1>12 DEF StorageNext

(* Nothing is stored at first.                                             *)
LEMMA StorageStart == StorageInit => StorageInv
<1> SUFFICES ASSUME StorageInit PROVE StorageInv
  OBVIOUS
<1>1. Empty \in Contents /\ NoFile # CutShort /\ Own \in Partitions
  BY DEF Empty, Contents, NoFile, CutShort, Partitions
<1> QED  BY <1>1 DEF StorageInit, StorageInv, StorageIsOnDisk, Loaded

(* The next start of an extension finds what it stored, unless the last    *)
(* save or removal of that partition failed, or a machine of an extension  *)
(* that was removed wrote the file meanwhile.                              *)
THEOREM StorageSurvives == StorageSpec => []StorageIsOnDisk
<1>1. StorageInit => StorageInv
  BY StorageStart
<1>2. StorageInv /\ [StorageNext]_storageVars => StorageInv'
  BY StorageInvStep
<1>3. StorageInv => StorageIsOnDisk
  BY DEF StorageInv
<1> QED  BY <1>1, <1>2, <1>3, PTL DEF StorageSpec

-----------------------------------------------------------------------------
(* The extension manager.                                                  *)
Entries == [version : Versions, flag : BOOLEAN]
LifecycleRecords == [on : BOOLEAN, state : {"Disabled", "Enabled"}]
SandboxStates == {"none", "open", "closed"}
Engines(n) == [vm : 0..n, api : 0..n, worker : 0..n, sandbox : SandboxStates,
               routed : SandboxStates, dynamic : SandboxStates, handlers : SUBSET (1..n)]

Whole(g) == /\ g.vm \in {0, g.api} /\ g.worker \in {0, g.api}
            /\ g.routed # "none" => g.api # 0

(* What one extension's records say, as functions of the records.          *)
Agree(o, l, scripts) ==
    /\ o # NotInstalled => o.flag = l.on
    /\ l.on => o # NotInstalled /\ l.state = "Enabled"
    /\ Len(scripts) = IF o # NotInstalled THEN 1 ELSE 0

ManagerInv ==
    /\ disk \in [Exts -> Versions \cup {Absent, Broken}]
    /\ object \in [Exts -> Entries \cup {NotInstalled}]
    /\ lifecycle \in [Exts -> LifecycleRecords]
    /\ engine \in [Exts -> Engines(starts)]
    /\ loader \in [Exts -> Seq(Versions)]
    /\ starts \in 0..MaxStarts
    /\ \A e \in Exts : Whole(engine[e]) /\ Agree(object[e], lifecycle[e], loader[e])

(* An entry is not mistaken for the lack of one: its version is not 0.     *)
LEMMA EntryIsInstalled == \A o \in Entries : o # NotInstalled /\ o.version # 0
  BY ManagerAssumption DEF Entries, NotInstalled, ManagerAssumption

(* A start gives an engine that is not running all its parts at once.      *)
LEMMA StartProperties ==
    ASSUME starts \in Nat, NEW g \in Engines(starts), Whole(g), NEW outcome, NEW listens
    PROVE  LET h == onExtensionStart(g, outcome, listens) IN
           /\ h \in Engines(starts + 1) /\ Whole(h)
           /\ h.api = g.api => h \in Engines(starts)
           /\ h.api # g.api => h.api = starts + 1
<1>1. CASE g.api # 0
  BY <1>1 DEF onExtensionStart, Engines
<1>2. CASE g.api = 0
  <2> DEFINE w == IF outcome \in {"worker fails", "worker runs"} THEN starts + 1 ELSE g.worker
             hs == IF listens THEN g.handlers \cup {starts + 1} ELSE g.handlers
             h == onExtensionStart(g, outcome, listens)
  <2>1. h = [vm |-> starts + 1, api |-> starts + 1, worker |-> w, sandbox |-> "open",
             routed |-> "open", dynamic |-> "open", handlers |-> hs]
    BY <1>2 DEF onExtensionStart
  <2>2. g.worker = 0 /\ w \in {0, starts + 1}
    BY <1>2 DEF Whole
  <2>3. hs \in SUBSET (1..(starts + 1))
    <3>1. g.handlers \in SUBSET (1..starts)
      BY DEF Engines
    <3>2. g.handlers \cup {starts + 1} \in SUBSET (1..(starts + 1))
      BY <3>1
    <3>3. g.handlers \in SUBSET (1..(starts + 1))
      BY <3>1
    <3> QED  BY <3>2, <3>3
  <2> HIDE DEF w, hs, h
  <2>4. h \in Engines(starts + 1)
    BY <2>1, <2>2, <2>3 DEF Engines, SandboxStates
  <2>5. Whole(h) /\ h.api = starts + 1
    BY <2>1, <2>2 DEF Whole
  <2> QED  BY <1>2, <2>4, <2>5 DEF h
<1> QED  BY <1>1, <1>2 DEF Engines

(* An engine with one part changed is one.                                 *)
LEMMA EngineParts ==
    ASSUME NEW n \in Nat
    PROVE  \A g \in Engines(n) :
               /\ \A v \in 0..n : /\ [g EXCEPT !.vm = v] \in Engines(n)
                                  /\ [g EXCEPT !.api = v] \in Engines(n)
                                  /\ [g EXCEPT !.worker = v] \in Engines(n)
               /\ \A s \in SandboxStates : /\ [g EXCEPT !.sandbox = s] \in Engines(n)
                                           /\ [g EXCEPT !.routed = s] \in Engines(n)
                                           /\ [g EXCEPT !.dynamic = s] \in Engines(n)
  BY DEF Engines

(* A stop takes the machine, the worker and the route.                     *)
LEMMA StopProperties ==
    ASSUME starts \in Nat, NEW g \in Engines(starts), Whole(g)
    PROVE  /\ onExtensionStop(g) \in Engines(starts) /\ Whole(onExtensionStop(g))
           /\ onExtensionStop(g).api = 0
<1> DEFINE h == onExtensionStop(g)
<1>1. /\ h.api = 0 /\ h.worker = 0 /\ h.routed = "none"
      /\ h.vm = IF g.api # 0 THEN 0 ELSE g.vm
  BY DEF onExtensionStop, Engines
<1>2. h.vm = 0
  BY <1>1 DEF Whole
<1>3. h \in Engines(starts)
  <2>a. 0 \in 0..starts
    OBVIOUS
  <2>1. PICK g1 \in Engines(starts) : g1 = [g EXCEPT !.api = 0]
    BY <2>a, EngineParts
  <2>2. PICK g2 \in Engines(starts) : g2 = [g1 EXCEPT !.worker = 0]
    BY <2>a, EngineParts
  <2>3. PICK g3 \in Engines(starts) : g3 = [g2 EXCEPT !.routed = "none"]
    BY EngineParts DEF SandboxStates
  <2>4. PICK g4 \in Engines(starts) : g4 = [g3 EXCEPT !.vm = h.vm]
    BY <2>a, <1>2, EngineParts
  <2>5. h = [[[[g EXCEPT !.api = 0] EXCEPT !.worker = 0] EXCEPT !.routed = "none"] EXCEPT !.vm = h.vm]
    BY <1>1 DEF onExtensionStop
  <2> QED  BY <2>1, <2>2, <2>3, <2>4, <2>5
<1> QED  BY <1>1, <1>2, <1>3 DEF Whole

(* What the engine of e may become: one with the machine it had or none,   *)
(* or one with the machine that is made next.                              *)
Fits(e, h) ==
    /\ Whole(h)
    /\ \/ h \in Engines(starts) /\ h.api \in {0, engine[e].api}
       \/ starts < MaxStarts /\ h \in Engines(starts + 1) /\ h.api = starts + 1

(* A start and a stop, of the engine of e or of one made from it.          *)
LEMMA HooksFit ==
    ASSUME ManagerInv, NEW e \in Exts, NEW g \in Engines(starts), Whole(g),
           g.api \in {0, engine[e].api}
    PROVE  /\ Fits(e, g) /\ Fits(e, onExtensionStop(g))
           /\ starts < MaxStarts =>
                \A outcome, listens : Fits(e, onExtensionStart(g, outcome, listens))
           /\ onExtensionStop(g) \in Engines(starts) /\ Whole(onExtensionStop(g))
           /\ onExtensionStop(g).api = 0
<1>1. starts \in Nat
  BY ManagerAssumption DEF ManagerInv, ManagerAssumption
<1>2. ASSUME starts < MaxStarts, NEW outcome, NEW listens
      PROVE  Fits(e, onExtensionStart(g, outcome, listens))
  <2> DEFINE h == onExtensionStart(g, outcome, listens)
  <2>1. /\ h \in Engines(starts + 1) /\ Whole(h)
        /\ h.api = g.api => h \in Engines(starts)
        /\ h.api # g.api => h.api = starts + 1
    BY <1>1, StartProperties
  <2> HIDE DEF h
  <2> QED  BY <2>1, <1>2 DEF Fits, h
<1> QED  BY <1>1, <1>2, StopProperties DEF Fits

(* An engine that a step keeps is whole, and its machine counted.          *)
LEMMA KeepProperties ==
    ASSUME ManagerInv, NEW e \in Exts, NEW h, Fits(e, h), Keep(e, h)
    PROVE  /\ engine' \in [Exts -> Engines(starts')] /\ starts' \in 0..MaxStarts
           /\ \A x \in Exts : Whole(engine'[x])
<1>1. /\ starts \in 0..MaxStarts /\ MaxStarts \in Nat /\ engine \in [Exts -> Engines(starts)]
      /\ engine[e].api \in 0..starts
  BY ManagerAssumption DEF ManagerInv, ManagerAssumption, Engines
<1>2. engine' = [engine EXCEPT ![e] = h] /\ Started(engine[e], h)
  BY DEF Keep
<1>3. \A x \in Exts : Whole(engine'[x])
  BY <1>1, <1>2 DEF ManagerInv, Fits
<1>4. CASE h \in Engines(starts) /\ h.api \in {0, engine[e].api}
  <2>1. starts' = starts
    BY <1>1, <1>2, <1>4 DEF Started
  <2> QED  BY <1>1, <1>2, <1>3, <1>4, <2>1
<1>5. CASE starts < MaxStarts /\ h \in Engines(starts + 1) /\ h.api = starts + 1
  <2>1. starts' = starts + 1 /\ starts' \in 0..MaxStarts
    BY <1>1, <1>2, <1>5 DEF Started
  <2>2. Engines(starts) \subseteq Engines(starts + 1)
    BY <1>1 DEF Engines
  <2> QED  BY <1>1, <1>2, <1>3, <1>5, <2>1, <2>2
<1> QED  BY <1>4, <1>5 DEF Fits

(* A step that keeps one engine and changes the records of that extension. *)
LEMMA RecordsInv ==
    ASSUME ManagerInv, NEW e \in Exts, NEW h, Fits(e, h), Keep(e, h),
           NEW o \in Entries \cup {NotInstalled}, NEW l \in LifecycleRecords,
           NEW scripts \in Seq(Versions), Agree(o, l, scripts),
           object' = [object EXCEPT ![e] = o],
           lifecycle' = [lifecycle EXCEPT ![e] = l],
           loader' = [loader EXCEPT ![e] = scripts],
           disk' \in [Exts -> Versions \cup {Absent, Broken}]
    PROVE  ManagerInv'
<1>1. /\ engine' \in [Exts -> Engines(starts')] /\ starts' \in 0..MaxStarts
      /\ \A x \in Exts : Whole(engine'[x])
  BY KeepProperties
<1>2. /\ object' \in [Exts -> Entries \cup {NotInstalled}]
      /\ lifecycle' \in [Exts -> LifecycleRecords] /\ loader' \in [Exts -> Seq(Versions)]
  BY DEF ManagerInv
<1>3. \A x \in Exts : Agree(object'[x], lifecycle'[x], loader'[x])
  BY DEF ManagerInv
<1> QED  BY <1>1, <1>2, <1>3 DEF ManagerInv

(* A step that changes no record and no engine.                            *)
LEMMA SameRecordsInv ==
    ASSUME ManagerInv, UNCHANGED <<object, lifecycle, engine, loader, starts>>,
           disk' \in [Exts -> Versions \cup {Absent, Broken}]
    PROVE  ManagerInv'
  BY DEF ManagerInv

-----------------------------------------------------------------------------
(* The operations.                                                         *)

(* What is known of an extension that is installed.                        *)
LEMMA InstalledProperties ==
    ASSUME ManagerInv, NEW e \in Installed
    PROVE  /\ e \in Exts /\ object[e] \in Entries
           /\ object[e].version \in Versions /\ object[e].flag = lifecycle[e].on
           /\ lifecycle[e] \in LifecycleRecords
           /\ loader[e] \in Seq(Versions) /\ Len(loader[e]) = 1
           /\ engine[e] \in Engines(starts) /\ Whole(engine[e])
           /\ disk[e] \in Versions \cup {Absent, Broken}
  BY DEF Installed, ManagerInv, Agree, Entries

(* Setting both flags, to records that agree.                              *)
LEMMA SetFlagsInv ==
    ASSUME ManagerInv, NEW e \in Installed, NEW h, Fits(e, h), Keep(e, h),
           NEW flag \in BOOLEAN, NEW l \in {On, Off}, l.on = flag,
           SetFlags(e, l, flag), UNCHANGED <<disk, loader>>
    PROVE  ManagerInv'
<1> DEFINE o == [version |-> object[e].version, flag |-> flag]
<1>1. o \in Entries /\ l \in LifecycleRecords
  BY InstalledProperties DEF Entries, LifecycleRecords, On, Off
<1>2. Agree(o, l, loader[e])
  <2>1. o # NotInstalled /\ o.flag = flag /\ (l.on => l.state = "Enabled")
    BY <1>1, EntryIsInstalled DEF On, Off
  <2> QED  BY <2>1, InstalledProperties DEF Agree
<1>3. object' = [object EXCEPT ![e] = o]
  <2>1. object[e] \in [version : Versions, flag : BOOLEAN]
    BY InstalledProperties DEF Entries
  <2>2. [object[e] EXCEPT !.flag = flag] = o
    BY <2>1
  <2>3. object' = [object EXCEPT ![e] = [object[e] EXCEPT !.flag = flag]]
    BY DEF SetFlags
  <2> QED  BY <2>2, <2>3
<1> HIDE DEF o
<1>4. /\ e \in Exts /\ loader[e] \in Seq(Versions)
      /\ loader' = [loader EXCEPT ![e] = loader[e]]
      /\ lifecycle' = [lifecycle EXCEPT ![e] = l]
      /\ disk' \in [Exts -> Versions \cup {Absent, Broken}]
  BY InstalledProperties DEF ManagerInv, SetFlags
<1> QED  BY <1>1, <1>2, <1>3, <1>4, RecordsInv

(* Records that stay as they are may be written again.                     *)
LEMMA KeepInv ==
    ASSUME ManagerInv, NEW e \in Installed, NEW h, Fits(e, h), Keep(e, h),
           UNCHANGED <<disk, loader, object, lifecycle>>
    PROVE  ManagerInv'
<1>1. /\ object' = [object EXCEPT ![e] = object[e]]
      /\ lifecycle' = [lifecycle EXCEPT ![e] = lifecycle[e]]
      /\ loader' = [loader EXCEPT ![e] = loader[e]]
  BY DEF ManagerInv
<1>2. /\ Agree(object[e], lifecycle[e], loader[e]) /\ e \in Exts
      /\ object[e] \in Entries \cup {NotInstalled} /\ lifecycle[e] \in LifecycleRecords
      /\ loader[e] \in Seq(Versions)
      /\ disk' \in [Exts -> Versions \cup {Absent, Broken}]
  BY InstalledProperties DEF ManagerInv
<1> QED  BY <1>1, <1>2, RecordsInv

(* Enabling, on demand or when an extension is first needed.               *)
LEMMA EnableEffectInv ==
    ASSUME ManagerInv, NEW e \in Installed, NEW outcome, NEW listens, starts < MaxStarts,
           EnableEffect(e, engine[e], outcome, listens), UNCHANGED <<disk, loader>>
    PROVE  ManagerInv'
<1> DEFINE h == onExtensionStart(engine[e], outcome, listens)
<1>1. Fits(e, h) /\ Fits(e, engine[e])
  BY InstalledProperties, HooksFit
<1> HIDE DEF h
<1>2. CASE lifecycle[e].on
  <2>1. PICK k : k \in {h, engine[e]} /\ Keep(e, k) /\ UNCHANGED <<lifecycle, object>>
    BY <1>2 DEF EnableEffect, h
  <2> QED  BY <2>1, <1>1, KeepInv
<1>3. CASE ~lifecycle[e].on
  <2>1. /\ Keep(e, h)
        /\ UNCHANGED <<lifecycle, object>> \/ SetFlags(e, On, TRUE)
    BY <1>3 DEF EnableEffect, h
  <2> QED  BY <2>1, <1>1, KeepInv, SetFlagsInv DEF On
<1> QED  BY <1>2, <1>3

(* Removing closes the sandbox where it is known, and stops what was on.   *)
LEMMA UninstallInv ==
    ASSUME ManagerInv, Uninstall
    PROVE  ManagerInv'
<1> DEFINE Shut(s) == IF s = "open" THEN "closed" ELSE s
           Shuts(g) == [g EXCEPT !.sandbox = "none", !.routed = Shut(@), !.dynamic = Shut(@)]
<1>1. PICK e \in Installed :
        /\ Keep(e, IF lifecycle[e].on THEN onExtensionStop(Shuts(engine[e])) ELSE Shuts(engine[e]))
        /\ object' = [object EXCEPT ![e] = NotInstalled]
        /\ lifecycle' = [lifecycle EXCEPT ![e] = Off]
        /\ loader' = [loader EXCEPT ![e] = <<>>]
        /\ disk' = [disk EXCEPT ![e] = Absent]
  BY DEF Uninstall
<1> DEFINE g == engine[e]
           h == Shuts(g)
<1>2. g \in Engines(starts) /\ Whole(g) /\ e \in Exts /\ starts \in Nat
  BY InstalledProperties, ManagerAssumption DEF ManagerInv, ManagerAssumption
<1>3. /\ h.vm = g.vm /\ h.api = g.api /\ h.worker = g.worker
      /\ h.routed # "none" => g.routed # "none"
  BY <1>2 DEF Engines
<1>4. h \in Engines(starts)
  <2>1. /\ "none" \in SandboxStates /\ Shut(g.routed) \in SandboxStates
        /\ Shut(g.dynamic) \in SandboxStates
    BY <1>2 DEF Engines, SandboxStates
  <2>2. PICK g1 \in Engines(starts) : g1 = [g EXCEPT !.sandbox = "none"]
    BY <1>2, <2>1, EngineParts
  <2>3. PICK g2 \in Engines(starts) : g2 = [g1 EXCEPT !.routed = Shut(g.routed)]
    BY <1>2, <2>1, EngineParts
  <2>4. PICK g3 \in Engines(starts) : g3 = [g2 EXCEPT !.dynamic = Shut(g.dynamic)]
    BY <1>2, <2>1, EngineParts
  <2>5. h = [[[g EXCEPT !.sandbox = "none"] EXCEPT !.routed = Shut(g.routed)]
                 EXCEPT !.dynamic = Shut(g.dynamic)]
    BY <1>2 DEF Engines
  <2> QED  BY <2>2, <2>3, <2>4, <2>5
<1>5. Whole(h) /\ h.api \in {0, engine[e].api}
  BY <1>2, <1>3 DEF Whole
<1> HIDE DEF h, Closed
<1>6. Fits(e, h) /\ Fits(e, onExtensionStop(h))
  BY <1>2, <1>4, <1>5, HooksFit
<1>7. PICK k : Fits(e, k) /\ Keep(e, k)
  BY <1>1, <1>6 DEF h
<1>8. /\ Off \in LifecycleRecords /\ <<>> \in Seq(Versions) /\ Len(<<>>) = 0
      /\ Agree(NotInstalled, Off, <<>>)
  BY EmptySeq DEF Off, LifecycleRecords, Agree, NotInstalled
<1>9. disk' \in [Exts -> Versions \cup {Absent, Broken}]
  BY <1>1 DEF ManagerInv
<1> QED  BY <1>1, <1>2, <1>7, <1>8, <1>9, RecordsInv

(* A package that is installed, or comes as an update of another.          *)
LEMMA InstallPackageInv ==
    ASSUME ManagerInv, NEW e \in Exts, NEW v \in Versions, NEW enable \in BOOLEAN,
           NEW outcome, NEW listens, starts < MaxStarts,
           InstallPackage(e, v, enable, outcome, listens)
    PROVE  ManagerInv'
<1> DEFINE g == [engine[e] EXCEPT !.vm = 0]
           h == IF enable THEN onExtensionStart(g, outcome, listens) ELSE onExtensionStop(g)
           o == [version |-> v, flag |-> enable]
           l == IF enable THEN On ELSE Off
           scripts == Append(loader[e], v)
<1>1. /\ e \notin Installed /\ disk' = [disk EXCEPT ![e] = v]
      /\ object' = [object EXCEPT ![e] = o] /\ lifecycle' = [lifecycle EXCEPT ![e] = l]
      /\ loader' = [loader EXCEPT ![e] = scripts] /\ Keep(e, h)
  BY DEF InstallPackage, Extracted, WithScripts
<1>2. /\ starts \in Nat /\ engine[e] \in Engines(starts) /\ Whole(engine[e])
      /\ object[e] = NotInstalled /\ loader[e] \in Seq(Versions) /\ Len(loader[e]) = 0
  BY <1>1, ManagerAssumption DEF ManagerInv, ManagerAssumption, Agree, Installed
<1>3. g \in Engines(starts) /\ g.api = engine[e].api /\ Whole(g)
  <2>1. 0 \in 0..starts
    BY <1>2
  <2>2. g \in Engines(starts)
    BY <1>2, <2>1, EngineParts
  <2>3. g.vm = 0 /\ g.api = engine[e].api /\ g.worker = engine[e].worker
        /\ g.routed = engine[e].routed
    BY <1>2 DEF Engines
  <2> QED  BY <1>2, <2>2, <2>3 DEF Whole
<1> HIDE DEF g
<1>4. Fits(e, h)
  BY <1>2, <1>3, HooksFit
<1>5. o \in Entries /\ l \in LifecycleRecords
  BY DEF Entries, LifecycleRecords, On, Off
<1>6. scripts \in Seq(Versions) /\ Len(scripts) = 1
  BY <1>2, AppendProperties
<1>7. Agree(o, l, scripts)
  BY <1>5, <1>6, EntryIsInstalled DEF Agree, On, Off
<1>8. disk' \in [Exts -> Versions \cup {Absent, Broken}]
  BY <1>1 DEF ManagerInv
<1> HIDE DEF h, o, l, scripts
<1> QED  BY <1>1, <1>4, <1>5, <1>6, <1>7, <1>8, RecordsInv

(* Discovery registers what it finds and is not installed.                 *)
LEMMA ScanInv ==
    ASSUME ManagerInv, Scan
    PROVE  ManagerInv'
<1>1. PICK new \in SUBSET Exts :
        /\ \A e \in new : e \notin Installed /\ disk[e] \in Versions
        /\ object' = [e \in Exts |-> IF e \in new THEN Entry(disk[e]) ELSE object[e]]
        /\ lifecycle' = [e \in Exts |-> IF e \in new THEN On ELSE lifecycle[e]]
        /\ engine' = [e \in Exts |-> IF e \in new THEN [engine[e] EXCEPT !.vm = 0] ELSE engine[e]]
        /\ loader' = [e \in Exts |-> IF e \in new THEN Append(loader[e], disk[e]) ELSE loader[e]]
        /\ UNCHANGED <<disk, starts>>
  <2> DEFINE found == {e \in Exts \ discovered : disk[e] \in Versions}
             new == found \ Installed
  <2>1. new \in SUBSET Exts /\ \A e \in new : e \notin Installed /\ disk[e] \in Versions
    OBVIOUS
  <2> QED  BY <2>1 DEF Scan
<1>2. ASSUME NEW e \in new
      PROVE  /\ Entry(disk[e]) \in Entries /\ On \in LifecycleRecords
             /\ [engine[e] EXCEPT !.vm = 0] \in Engines(starts)
             /\ Whole([engine[e] EXCEPT !.vm = 0])
             /\ Append(loader[e], disk[e]) \in Seq(Versions)
             /\ Agree(Entry(disk[e]), On, Append(loader[e], disk[e]))
  <2>1. /\ e \in Exts /\ disk[e] \in Versions /\ object[e] = NotInstalled
        /\ loader[e] \in Seq(Versions) /\ Len(loader[e]) = 0
        /\ engine[e] \in Engines(starts) /\ Whole(engine[e]) /\ starts \in Nat
    BY <1>1, ManagerAssumption DEF ManagerInv, ManagerAssumption, Agree, Installed
  <2>2. Entry(disk[e]) \in Entries /\ On \in LifecycleRecords
    BY <2>1 DEF Entry, Entries, LifecycleRecords, On
  <2>3. /\ Append(loader[e], disk[e]) \in Seq(Versions)
        /\ Len(Append(loader[e], disk[e])) = 1
    BY <2>1, AppendProperties
  <2>4. Agree(Entry(disk[e]), On, Append(loader[e], disk[e]))
    <3>1. Entry(disk[e]) # NotInstalled /\ Entry(disk[e]).flag = On.on /\ On.state = "Enabled"
      BY <2>2, EntryIsInstalled DEF Entry, On
    <3> QED  BY <2>3, <3>1 DEF Agree
  <2>5. 0 \in 0..starts
    BY <2>1
  <2>6. [engine[e] EXCEPT !.vm = 0] \in Engines(starts)
    BY <2>1, <2>5, EngineParts
  <2>7. Whole([engine[e] EXCEPT !.vm = 0])
    BY <2>1 DEF Whole, Engines
  <2> QED  BY <2>2, <2>3, <2>4, <2>6, <2>7
<1>3. /\ object' \in [Exts -> Entries \cup {NotInstalled}]
      /\ lifecycle' \in [Exts -> LifecycleRecords]
      /\ engine' \in [Exts -> Engines(starts)]
      /\ loader' \in [Exts -> Seq(Versions)]
  BY <1>1, <1>2 DEF ManagerInv
<1>4. \A e \in Exts : Whole(engine'[e]) /\ Agree(object'[e], lifecycle'[e], loader'[e])
  BY <1>1, <1>2 DEF ManagerInv
<1> QED  BY <1>1, <1>3, <1>4 DEF ManagerInv

(* Hot reload stops and starts, and leaves on what it could start.         *)
LEMMA CheckInv ==
    ASSUME ManagerInv, Check
    PROVE  ManagerInv'
<1> DEFINE stopped(e) == IF lifecycle[e].on THEN onExtensionStop(engine[e]) ELSE engine[e]
           read(e) == disk[e] \in Versions
           ok(e, outcome) == read(e) /\ ~Fails(stopped(e), outcome)
<1>c. PICK e \in Exts, outcome \in Outcomes, listens \in BOOLEAN :
        /\ watching[e] # Unwatched /\ disk[e] # Absent /\ mtime[e] > watching[e]
        /\ e \in Installed /\ starts < MaxStarts
        /\ /\ Keep(e, IF read(e) THEN onExtensionStart(stopped(e), outcome, listens) ELSE stopped(e))
           /\ lifecycle' = [lifecycle EXCEPT ![e] =
                 IF ok(e, outcome) THEN On ELSE IF lifecycle[e].on THEN Off ELSE @]
           /\ object' = [object EXCEPT ![e] =
                 [version |-> IF read(e) THEN disk[e] ELSE @.version, flag |-> ok(e, outcome)]]
           /\ watching' = IF ok(e, outcome) THEN [watching EXCEPT ![e] = mtime[e]] ELSE watching
        /\ UNCHANGED <<stored, loader, lazy>>
  BY DEF Check
<1>1. /\ e \in Installed /\ starts < MaxStarts
      /\ Keep(e, IF read(e) THEN onExtensionStart(stopped(e), outcome, listens) ELSE stopped(e))
      /\ lifecycle' = [lifecycle EXCEPT ![e] =
            IF ok(e, outcome) THEN On ELSE IF lifecycle[e].on THEN Off ELSE lifecycle[e]]
      /\ object' = [object EXCEPT ![e] =
            [version |-> IF read(e) THEN disk[e] ELSE object[e].version, flag |-> ok(e, outcome)]]
      /\ disk' = disk /\ loader' = loader
  <2> HIDE DEF stopped, ok, read
  <2> QED  BY <1>c DEF stored
<1>2. /\ e \in Exts /\ object[e] \in Entries /\ object[e].version \in Versions
      /\ engine[e] \in Engines(starts) /\ Whole(engine[e])
      /\ lifecycle[e] \in LifecycleRecords /\ loader[e] \in Seq(Versions) /\ Len(loader[e]) = 1
  BY <1>1, InstalledProperties
<1>3. /\ stopped(e) \in Engines(starts) /\ Whole(stopped(e))
      /\ stopped(e).api \in {0, engine[e].api}
  BY <1>2, HooksFit
<1> DEFINE h == IF read(e) THEN onExtensionStart(stopped(e), outcome, listens) ELSE stopped(e)
           fine == ok(e, outcome)
           o == [version |-> IF read(e) THEN disk[e] ELSE object[e].version, flag |-> fine]
           l == IF fine THEN On ELSE IF lifecycle[e].on THEN Off ELSE lifecycle[e]
<1>4. Keep(e, h) /\ object' = [object EXCEPT ![e] = o] /\ lifecycle' = [lifecycle EXCEPT ![e] = l]
  BY <1>1
<1>5. fine \in BOOLEAN
  OBVIOUS
<1> HIDE DEF stopped, ok
<1>6. Fits(e, h)
  BY <1>1, <1>2, <1>3, HooksFit
<1> HIDE DEF fine
<1>7. o \in Entries
  BY <1>2, <1>5 DEF Entries
<1>8. l \in LifecycleRecords /\ l.on = fine /\ (fine => l.state = "Enabled")
  BY <1>2, <1>5 DEF LifecycleRecords, On, Off
<1>9. Agree(o, l, loader[e])
  <2>1. o.flag = fine /\ o # NotInstalled
    BY <1>7, EntryIsInstalled
  <2> QED  BY <1>2, <1>8, <2>1 DEF Agree
<1>10. loader' = [loader EXCEPT ![e] = loader[e]] /\ disk' \in [Exts -> Versions \cup {Absent, Broken}]
  BY <1>1 DEF ManagerInv
<1> HIDE DEF h, o, l
<1> QED  BY <1>2, <1>4, <1>6, <1>7, <1>8, <1>9, <1>10, RecordsInv

(* A reload restarts the engine and leaves the flags as they are.          *)
LEMMA ReloadInv ==
    ASSUME ManagerInv, Reload
    PROVE  ManagerInv'
<1>1. PICK e \in Installed, outcome \in Outcomes, listens \in BOOLEAN :
        /\ starts < MaxStarts
        /\ Keep(e, onExtensionStart(onExtensionStop(engine[e]), outcome, listens))
        /\ lifecycle' = IF outcome \in {"script fails", "worker fails"} THEN lifecycle
                        ELSE [lifecycle EXCEPT ![e].state = "Enabled"]
        /\ UNCHANGED <<disk, object, loader>>
  BY DEF Reload, stored
<1>2. /\ e \in Exts /\ engine[e] \in Engines(starts) /\ Whole(engine[e])
      /\ lifecycle[e] \in LifecycleRecords /\ object[e] \in Entries \cup {NotInstalled}
      /\ loader[e] \in Seq(Versions) /\ Agree(object[e], lifecycle[e], loader[e])
  BY InstalledProperties DEF ManagerInv
<1> DEFINE h == onExtensionStart(onExtensionStop(engine[e]), outcome, listens)
<1>3. /\ onExtensionStop(engine[e]) \in Engines(starts) /\ Whole(onExtensionStop(engine[e]))
      /\ onExtensionStop(engine[e]).api = 0
  BY <1>2, HooksFit
<1>4. Fits(e, h) /\ Keep(e, h)
  BY <1>1, <1>2, <1>3, HooksFit
<1>5. PICK l \in LifecycleRecords :
        /\ lifecycle' = [lifecycle EXCEPT ![e] = l]
        /\ l.on = lifecycle[e].on /\ l.state \in {"Enabled", lifecycle[e].state}
  <2>1. CASE outcome \in {"script fails", "worker fails"}
    <3>1. lifecycle' = [lifecycle EXCEPT ![e] = lifecycle[e]]
      BY <1>1, <2>1 DEF ManagerInv
    <3> QED  BY <1>2, <3>1
  <2>2. CASE outcome \notin {"script fails", "worker fails"}
    <3> DEFINE l == [lifecycle[e] EXCEPT !.state = "Enabled"]
    <3>1. lifecycle' = [lifecycle EXCEPT ![e] = l]
      BY <1>1, <2>2
    <3>2. l \in LifecycleRecords /\ l.on = lifecycle[e].on /\ l.state = "Enabled"
      BY <1>2 DEF LifecycleRecords
    <3> HIDE DEF l
    <3> QED  BY <3>1, <3>2
  <2> QED  BY <2>1, <2>2
<1>6. Agree(object[e], l, loader[e])
  BY <1>2, <1>5 DEF Agree
<1>7. /\ object' = [object EXCEPT ![e] = object[e]]
      /\ loader' = [loader EXCEPT ![e] = loader[e]]
      /\ disk' \in [Exts -> Versions \cup {Absent, Broken}]
  BY <1>1 DEF ManagerInv
<1> HIDE DEF h
<1> QED  BY <1>2, <1>4, <1>5, <1>6, <1>7, RecordsInv

(* Every step of the manager keeps the invariant.                          *)
LEMMA ManagerInvStep ==
    ASSUME ManagerInv, [ManagerNext]_managerVars
    PROVE  ManagerInv'
<1>1. CASE Enable
  BY <1>1, EnableEffectInv DEF Enable, stored
<1>2. CASE Disable
  <2>1. PICK e \in Installed : /\ Keep(e, onExtensionStop(engine[e])) /\ SetFlags(e, Off, FALSE)
                               /\ UNCHANGED <<disk, loader>>
    BY <1>2 DEF Disable, stored
  <2>2. Fits(e, onExtensionStop(engine[e]))
    BY InstalledProperties, HooksFit
  <2> QED  BY <2>1, <2>2, SetFlagsInv DEF Off
<1>3. CASE Reload
  BY <1>3, ReloadInv
<1>4. CASE Uninstall
  BY <1>4, UninstallInv
<1>5. CASE Scan
  BY <1>5, ScanInv
<1>6. CASE Install
  BY <1>6, InstallPackageInv DEF Install
<1>7. CASE DownloadAndUpdate
  <2>1. PICK of \in Installed, id \in Exts, v \in Versions, listens \in BOOLEAN,
             outcome \in Outcomes :
          starts < MaxStarts /\ InstallPackage(id, v, object[of].flag, outcome, listens)
    BY <1>7 DEF DownloadAndUpdate
  <2>2. object[of].flag \in BOOLEAN
    BY InstalledProperties DEF Entries
  <2> QED  BY <2>1, <2>2, InstallPackageInv
<1>8. CASE ExtractFails \/ WriteFiles
  <2>1. PICK e \in Exts, manifest \in Versions \cup {Broken} :
          /\ disk' = [disk EXCEPT ![e] = manifest]
          /\ UNCHANGED <<object, lifecycle, engine, loader, starts>>
    BY <1>8 DEF ExtractFails, WriteFiles, Extracted
  <2>2. disk' \in [Exts -> Versions \cup {Absent, Broken}]
    BY <2>1 DEF ManagerInv
  <2> QED  BY <2>1, <2>2, SameRecordsInv
<1>9. CASE EnableLazy
  <2>1. PICK e \in Installed : /\ SetFlags(e, On, TRUE)
                               /\ UNCHANGED <<disk, engine, loader, starts>>
    BY <1>9 DEF EnableLazy, stored
  <2>2. Keep(e, engine[e])
    BY <2>1, InstalledProperties DEF Keep, Started, ManagerInv
  <2>3. Fits(e, engine[e])
    BY InstalledProperties, HooksFit
  <2> QED  BY <2>1, <2>2, <2>3, SetFlagsInv DEF On
<1>10. CASE LoadEnds
  <2>1. PICK e \in Exts, outcome \in Outcomes, listens \in BOOLEAN :
          /\ starts < MaxStarts /\ UNCHANGED <<disk, loader>>
          /\ IF e \in Installed THEN EnableEffect(e, engine[e], outcome, listens)
                                ELSE UNCHANGED <<object, lifecycle, engine, starts>>
    BY <1>10 DEF LoadEnds, stored
  <2>2. CASE e \in Installed
    BY <2>1, <2>2, EnableEffectInv
  <2>3. CASE e \notin Installed
    BY <2>1, <2>3, SameRecordsInv DEF ManagerInv
  <2> QED  BY <2>2, <2>3
<1>11. CASE Check
  BY <1>11, CheckInv
<1>12. CASE Unload \/ LoadBegins \/ WatchExtension \/ UnwatchExtension
  <2>1. UNCHANGED <<disk, object, lifecycle, engine, loader, starts>>
    BY <1>12 DEF Unload, LoadBegins, WatchExtension, UnwatchExtension, stored
  <2> QED  BY <2>1, SameRecordsInv DEF ManagerInv
<1>13. CASE UNCHANGED managerVars
  BY <1>13, SameRecordsInv DEF managerVars, stored, ManagerInv
<1> QED
  BY <1>1, <1>2, <1>3, <1>4, <1>5, <1>6, <1>7, <1>8, <1>9, <1>10, <1>11, <1>12, <1>13
     DEF ManagerNext

(* Nothing is installed at first.                                          *)
LEMMA ManagerStart == ManagerInit => ManagerInv
<1> SUFFICES ASSUME ManagerInit PROVE ManagerInv
  OBVIOUS
<1>1. starts \in 0..MaxStarts /\ starts = 0
  BY ManagerAssumption DEF ManagerInit, ManagerAssumption
<1>2. NoEngine \in Engines(starts) /\ Whole(NoEngine)
  BY <1>1 DEF NoEngine, Engines, SandboxStates, Whole
<1>3. Off \in LifecycleRecords /\ <<>> \in Seq(Versions) /\ Agree(NotInstalled, Off, <<>>)
  BY EmptySeq DEF Off, LifecycleRecords, Agree, NotInstalled
<1> QED  BY <1>1, <1>2, <1>3 DEF ManagerInit, ManagerInv

(* The inductive invariant of the manager holds.                           *)
THEOREM ManagerInvariant == ManagerSpec => []ManagerInv
<1>1. ManagerInit => ManagerInv
  BY ManagerStart
<1>2. ManagerInv /\ [ManagerNext]_managerVars => ManagerInv'
  BY ManagerInvStep
<1> QED  BY <1>1, <1>2, PTL DEF ManagerSpec

(* What an extension consists of while it runs belongs together.           *)
THEOREM EnginesAreWhole == ManagerSpec => []EngineIsWhole
<1>1. ManagerInv => EngineIsWhole
  BY DEF ManagerInv, EngineIsWhole, Whole
<1> QED  BY <1>1, ManagerInvariant, PTL

(* The manager's two records of what is enabled agree, and the content     *)
(* scripts of an extension are registered once while it is installed.      *)
THEOREM ManagerRecordsAgree == ManagerSpec => []RecordsAgree
<1>1. ManagerInv => RecordsAgree
  BY DEF ManagerInv, RecordsAgree, Agree, Installed
<1> QED  BY <1>1, ManagerInvariant, PTL

-----------------------------------------------------------------------------
(* The connection to the process of an extension.                          *)
Places == {"idle", "writing", "waiting", "answered", "empty", "failed"}

ConnTypes ==
    /\ closed \in BOOLEAN /\ panicked \in BOOLEAN
    /\ seq \in Nat /\ readies \in 0..MaxReplies /\ replies \in 0..MaxReplies
    /\ readies <= replies
    /\ pending \subseteq 1..seq
    /\ number \in [Calls -> 0..seq] /\ answer \in [Calls -> 0..seq] /\ got \in [Calls -> 0..seq]
    /\ at \in [Calls -> Places]
    /\ shut \subseteq Calls /\ late \subseteq Calls
    /\ reader \in {"reading", "delivering", "ended"}
    /\ letter \in Calls \cup {NoCall} /\ message \in 0..seq

(* A number is given out once, and every request that is pending is that   *)
(* of a call.                                                              *)
Numbered == {c \in Calls : number[c] # 0}

NumbersAreNew ==
    /\ Cardinality(Numbered) = seq
    /\ \A c, d \in Numbered : number[c] = number[d] => c = d
    /\ \A n \in pending : \E c \in Calls : number[c] = n
    /\ \A c \in Calls : at[c] = "idle" => number[c] = 0
    /\ \A c \in Calls : at[c] \in {"writing", "waiting"} => number[c] # 0

(* A channel that holds an answer or is closed belongs to a request that   *)
(* is not pending; so does the answer that is being delivered.             *)
ChannelsAreSettled ==
    /\ \A c \in Calls : answer[c] # 0 => number[c] \notin pending
    /\ \A c \in shut : number[c] # 0 /\ number[c] \notin pending
    /\ reader = "delivering" => /\ letter \in Calls /\ number[letter] = message
                                /\ message # 0 /\ message \notin pending
    /\ shut # {} => late # {} \/ closed

ConnInv == ConnTypes /\ NumbersAreNew /\ ChannelsAreSettled /\ CallsGetTheirAnswer

(* A call gets the next number.                                            *)
LEMMA RegisterInv ==
    ASSUME ConnInv, NEW c \in Calls, Register(c)
    PROVE  ConnInv'
<1>1. /\ seq \in Nat /\ number \in [Calls -> 0..seq] /\ at \in [Calls -> Places]
      /\ number[c] = 0 /\ at[c] = "idle" /\ pending \subseteq 1..seq
      /\ UNCHANGED <<closed, answer, shut, panicked, got, late, reading>>
  BY DEF ConnInv, ConnTypes, NumbersAreNew, Register
<1>2. CASE closed
  <2>1. at' = [at EXCEPT ![c] = "failed"] /\ UNCHANGED <<seq, number, pending>>
    BY <1>2 DEF Register
  <2>2. 0 \notin pending
    BY <1>1
  <2> QED
    BY <1>1, <2>1, <2>2 DEF ConnInv, ConnTypes, NumbersAreNew, Numbered, ChannelsAreSettled,
                         CallsGetTheirAnswer, reading, Places
<1>3. CASE ~closed
  <2>1. PICK encoded \in BOOLEAN :
          /\ seq' = seq + 1 /\ number' = [number EXCEPT ![c] = seq + 1]
          /\ pending' = IF encoded THEN pending \cup {seq + 1} ELSE pending
          /\ at' = [at EXCEPT ![c] = IF encoded THEN "writing" ELSE "failed"]
    BY <1>3 DEF Register
  <2>2. /\ number' \in [Calls -> 0..seq'] /\ number'[c] = seq + 1
        /\ \A d \in Calls \ {c} : number'[d] = number[d] /\ number[d] # seq + 1
        /\ pending' \subseteq 1..seq' /\ pending \subseteq pending'
        /\ \A n \in pending' : n \in pending \/ n = seq + 1
        /\ at' \in [Calls -> Places]
    BY <1>1, <2>1 DEF Places
  <2>3. ConnTypes'
    <3>1. answer' \in [Calls -> 0..seq'] /\ got' \in [Calls -> 0..seq'] /\ message' \in 0..seq'
      BY <1>1, <2>1 DEF ConnInv, ConnTypes, reading
    <3> QED  BY <1>1, <2>1, <2>2, <3>1 DEF ConnInv, ConnTypes, reading
  <2>4. NumbersAreNew'
    <3>1. Numbered' = Numbered \cup {c} /\ c \notin Numbered /\ Numbered \subseteq Calls
      BY <1>1, <2>2 DEF Numbered
    <3>2. IsFiniteSet(Numbered)
      BY <3>1, FS_Subset, ConnectionAssumption DEF ConnectionAssumption
    <3>3. Cardinality(Numbered') = seq'
      BY <2>1, <3>1, <3>2, FS_AddElement DEF ConnInv, NumbersAreNew
    <3>4. \A d, e \in Numbered' : number'[d] = number'[e] => d = e
      BY <2>2, <3>1 DEF ConnInv, NumbersAreNew
    <3>5. \A n \in pending' : \E d \in Calls : number'[d] = n
      BY <1>1, <2>2 DEF ConnInv, NumbersAreNew
    <3>6. \A d \in Calls : /\ at'[d] = "idle" => number'[d] = 0
                           /\ at'[d] \in {"writing", "waiting"} => number'[d] # 0
      BY <1>1, <2>1, <2>2 DEF ConnInv, NumbersAreNew
    <3> QED  BY <3>3, <3>4, <3>5, <3>6 DEF NumbersAreNew
  <2>5. answer[c] = 0 /\ got[c] = 0 /\ c \notin shut
    BY <1>1 DEF ConnInv, CallsGetTheirAnswer, ChannelsAreSettled
  <2>6. \A d \in Calls \ {c} : number'[d] \in pending' <=> number[d] \in pending
    BY <2>1, <2>2
  <2>7. ChannelsAreSettled'
    <3>1. \A d \in Calls : answer'[d] # 0 => number'[d] \notin pending'
      BY <1>1, <2>2, <2>5, <2>6 DEF ConnInv, ChannelsAreSettled
    <3>2. \A d \in shut' : number'[d] # 0 /\ number'[d] \notin pending'
      BY <1>1, <2>2, <2>5, <2>6 DEF ConnInv, ChannelsAreSettled, ConnTypes
    <3>3. ASSUME reader' = "delivering"
          PROVE  /\ letter' \in Calls /\ number'[letter'] = message'
                 /\ message' # 0 /\ message' \notin pending'
      <4>1. /\ letter \in Calls /\ number[letter] = message /\ message # 0
            /\ message \notin pending /\ letter' = letter /\ message' = message
        BY <3>3, <1>1 DEF ConnInv, ChannelsAreSettled, reading
      <4>2. letter # c
        BY <4>1, <1>1
      <4> QED  BY <4>1, <4>2, <2>2, <2>6
    <3>4. shut' # {} => late' # {} \/ closed'
      BY <1>1 DEF ConnInv, ChannelsAreSettled
    <3> QED  BY <3>1, <3>2, <3>3, <3>4 DEF ChannelsAreSettled
  <2>8. CallsGetTheirAnswer'
    <3>1. \A d \in Calls : answer'[d] \in {0, number'[d]} /\ got'[d] \in {0, number'[d]}
      BY <1>1, <2>2, <2>5 DEF ConnInv, CallsGetTheirAnswer
    <3>2. \A d \in Calls : at'[d] \in {"answered", "empty", "failed"} => number'[d] \notin pending'
      <4>1. at'[c] = "failed" => seq + 1 \notin pending'
        BY <1>1, <2>1
      <4>2. at'[c] \in {"writing", "failed"}
        BY <1>1, <2>1
      <4>3. \A d \in Calls \ {c} : at'[d] = at[d]
        BY <1>1, <2>1
      <4> QED  BY <2>2, <2>6, <4>1, <4>2, <4>3 DEF ConnInv, CallsGetTheirAnswer
    <3> QED  BY <1>1, <3>1, <3>2 DEF ConnInv, CallsGetTheirAnswer, reading
  <2> QED  BY <2>3, <2>4, <2>7, <2>8 DEF ConnInv
<1> QED  BY <1>2, <1>3

(* A call that gives up closes its channel; one that receives empties it.  *)
LEMMA CallEndsInv ==
    ASSUME ConnInv, NEW c \in Calls, Written(c) \/ WriteFails(c) \/ TimesOut(c) \/ Receives(c)
    PROVE  ConnInv'
<1> USE DEF ConnInv, ConnTypes, NumbersAreNew, Numbered, ChannelsAreSettled,
            CallsGetTheirAnswer, Places
<1>1. CASE Written(c)
  BY <1>1 DEF Written, reading
<1>2. CASE WriteFails(c) \/ TimesOut(c)
  <2>1. /\ at[c] \in {"writing", "waiting"} /\ ~panicked
        /\ pending' = pending \ {number[c]}
        /\ shut' = shut \cup {c} /\ panicked' \in BOOLEAN
        /\ at' = [at EXCEPT ![c] = "failed"] /\ late' = late \cup {c}
        /\ UNCHANGED <<closed, seq, number, answer, got, reading>>
    BY <1>2 DEF WriteFails, TimesOut, GivesUp, CloseChannels, Alive
  <2>2. ConnTypes'
    BY <2>1 DEF reading
  <2>3. NumbersAreNew'
    BY <2>1
  <2>4. ChannelsAreSettled'
    BY <2>1 DEF reading
  <2>5. CallsGetTheirAnswer'
    BY <2>1 DEF reading
  <2> QED  BY <2>2, <2>3, <2>4, <2>5
<1>3. CASE Receives(c)
  <2>1. /\ at[c] = "waiting" /\ ~panicked
        /\ answer[c] # 0 \/ c \in shut
        /\ got' = [got EXCEPT ![c] = answer[c]]
        /\ answer' = [answer EXCEPT ![c] = 0]
        /\ at' = [at EXCEPT ![c] = IF answer[c] # 0 THEN "answered" ELSE "empty"]
        /\ UNCHANGED <<closed, seq, pending, number, shut, panicked, late, reading>>
    BY <1>3 DEF Receives, Alive
  <2>2. ConnTypes'
    BY <2>1 DEF reading
  <2>3. NumbersAreNew'
    BY <2>1
  <2>4. ChannelsAreSettled'
    BY <2>1 DEF reading
  <2>5. CallsGetTheirAnswer'
    BY <2>1 DEF reading
  <2> QED  BY <2>2, <2>3, <2>4, <2>5
<1> QED  BY <1>1, <1>2, <1>3

(* The answer to a pending request goes to the call that made it.          *)
LEMMA ReaderInv ==
    ASSUME ConnInv, ReadsReady \/ ReadsAnswer \/ Delivers
    PROVE  ConnInv'
<1> USE DEF ConnInv, ConnTypes, NumbersAreNew, Numbered, ChannelsAreSettled,
            CallsGetTheirAnswer
<1>a. MaxReplies \in Nat /\ NoCall \notin Calls
  BY ConnectionAssumption DEF ConnectionAssumption
<1>1. CASE ReadsReady
  BY <1>1, <1>a DEF ReadsReady, Heard, Alive, calling
<1>2. CASE ReadsAnswer
  <2>1. PICK n \in 1..seq :
          /\ Heard
          /\ IF n \in pending
             THEN /\ pending' = pending \ {n}
                  /\ letter' = CHOOSE c \in Calls : number[c] = n
                  /\ reader' = "delivering" /\ message' = n
             ELSE UNCHANGED <<pending, reader, letter, message>>
          /\ UNCHANGED <<closed, seq, answer, shut, panicked, calling, readies>>
    BY <1>2 DEF ReadsAnswer
  <2>2. replies' \in 0..MaxReplies /\ readies' <= replies' /\ ~panicked
    BY <2>1, <1>a DEF Heard, Alive
  <2>3. CASE n \in pending
    <3>1. letter' \in Calls /\ number[letter'] = n
      BY <2>1, <2>3
    <3>2. /\ pending' = pending \ {n} /\ reader' = "delivering" /\ message' = n
      BY <2>1, <2>3
    <3>3. ConnTypes'
      BY <2>1, <2>2, <3>1, <3>2 DEF calling
    <3>4. NumbersAreNew'
      BY <2>1, <3>2 DEF calling
    <3>5. ChannelsAreSettled'
      BY <2>1, <3>1, <3>2 DEF calling
    <3>6. CallsGetTheirAnswer'
      BY <2>1, <2>2, <3>2 DEF calling
    <3> QED  BY <3>3, <3>4, <3>5, <3>6
  <2>4. CASE n \notin pending
    <3>1. /\ UNCHANGED <<closed, seq, pending, answer, shut, panicked, number, at, got, late>>
          /\ UNCHANGED <<reader, letter, message, readies>>
      BY <2>1, <2>4 DEF calling
    <3>2. ConnTypes'
      BY <2>2, <3>1
    <3>3. NumbersAreNew'
      BY <3>1
    <3>4. ChannelsAreSettled'
      BY <3>1
    <3>5. CallsGetTheirAnswer'
      BY <3>1
    <3> QED  BY <3>2, <3>3, <3>4, <3>5
  <2> QED  BY <2>3, <2>4
<1>3. CASE Delivers
  <2>1. /\ reader = "delivering" /\ ~panicked
        /\ IF letter \in shut THEN panicked' = TRUE /\ UNCHANGED answer
           ELSE answer' = [answer EXCEPT ![letter] = message] /\ UNCHANGED panicked
        /\ reader' = "reading" /\ letter' = NoCall /\ message' = 0
        /\ UNCHANGED <<closed, seq, pending, shut, calling, readies, replies>>
    BY <1>3 DEF Delivers, Alive
  <2>2. ConnTypes'
    <3>1. letter \in Calls /\ message \in 0..seq
      BY <2>1
    <3>2. answer' \in [Calls -> 0..seq] /\ panicked' \in BOOLEAN
      <4>1. answer \in [Calls -> 0..seq] /\ panicked \in BOOLEAN
        OBVIOUS
      <4>2. CASE letter \in shut
        BY <2>1, <4>1, <4>2
      <4>3. CASE letter \notin shut
        <5>1. answer' = [answer EXCEPT ![letter] = message] /\ panicked' = panicked
          BY <2>1, <4>3
        <5> HIDE DEF ConnInv
        <5> QED  BY <3>1, <4>1, <5>1
      <4> QED  BY <4>2, <4>3
    <3>3. letter' \in Calls \cup {NoCall} /\ message' \in 0..seq /\ reader' = "reading"
      BY <2>1
    <3>4. UNCHANGED <<closed, seq, pending, shut, number, at, got, late, readies, replies>>
      BY <2>1 DEF calling
    <3> QED  BY <3>2, <3>3, <3>4
  <2>3. NumbersAreNew'
    BY <2>1 DEF calling
  <2>4. ChannelsAreSettled'
    BY <2>1 DEF calling
  <2>5. CallsGetTheirAnswer'
    BY <2>1 DEF calling
  <2> QED  BY <2>2, <2>3, <2>4, <2>5
<1> QED  BY <1>1, <1>2, <1>3

(* Closing, by the browser or at the end of the output, leaves no request. *)
LEMMA CloseInv ==
    ASSUME ConnInv, EndOfFile \/ Close
    PROVE  ConnInv'
<1>1. /\ closed' = TRUE /\ pending' = {} /\ shut' = shut \cup Waiting
      /\ panicked' \in BOOLEAN
      /\ UNCHANGED <<seq, answer, calling, letter, message, readies, replies>>
      /\ reader' \in {reader, "ended"}
  BY DEF EndOfFile, Close, CloseAll, CloseChannels, Alive, reading
<1>2. ASSUME NEW c \in shut'
      PROVE  number[c] # 0 /\ c \in Calls
  BY <1>1 DEF Waiting, ConnInv, ConnTypes, ChannelsAreSettled
<1>3. ConnTypes'
  BY <1>1, <1>2 DEF ConnInv, ConnTypes, calling
<1>4. NumbersAreNew'
  BY <1>1 DEF ConnInv, NumbersAreNew, Numbered, calling
<1>5. ChannelsAreSettled'
  BY <1>1, <1>2 DEF ConnInv, ChannelsAreSettled, calling
<1>6. CallsGetTheirAnswer'
  BY <1>1 DEF ConnInv, CallsGetTheirAnswer, calling
<1> QED  BY <1>3, <1>4, <1>5, <1>6 DEF ConnInv

(* No call waits at first.                                                 *)
LEMMA ConnStart == ConnInit => ConnInv
<1> SUFFICES ASSUME ConnInit PROVE ConnInv
  OBVIOUS
<1>1. ConnTypes
  <2>1. 0 \in 0..MaxReplies /\ 0 \in 0..seq
    BY ConnectionAssumption DEF ConnInit, ConnectionAssumption
  <2>2. /\ number \in [Calls -> 0..seq] /\ answer \in [Calls -> 0..seq]
        /\ got \in [Calls -> 0..seq] /\ at \in [Calls -> Places]
    BY <2>1 DEF ConnInit, Places
  <2>3. /\ closed \in BOOLEAN /\ panicked \in BOOLEAN /\ seq \in Nat /\ pending \subseteq 1..seq
        /\ shut \subseteq Calls /\ late \subseteq Calls /\ letter \in Calls \cup {NoCall}
        /\ reader \in {"reading", "delivering", "ended"}
    BY DEF ConnInit
  <2>4. /\ readies \in 0..MaxReplies /\ replies \in 0..MaxReplies /\ readies <= replies
        /\ message \in 0..seq
    BY <2>1 DEF ConnInit
  <2> QED  BY <2>2, <2>3, <2>4 DEF ConnTypes
<1>2. NumbersAreNew
  <2>1. Numbered = {}
    BY DEF ConnInit, Numbered
  <2> QED  BY <2>1, FS_EmptySet DEF ConnInit, NumbersAreNew
<1>3. ChannelsAreSettled
  BY DEF ConnInit, ChannelsAreSettled
<1>4. CallsGetTheirAnswer
  BY DEF ConnInit, CallsGetTheirAnswer
<1> QED  BY <1>1, <1>2, <1>3, <1>4 DEF ConnInv

(* Every step of a call, the reader or the connection keeps it.            *)
LEMMA ConnInvStep ==
    ASSUME ConnInv, [ConnNext]_connVars
    PROVE  ConnInv'
<1>1. ASSUME NEW c \in Calls, CallStep(c)
      PROVE  ConnInv'
  <2>1. CASE Register(c)
    BY <2>1, RegisterInv
  <2>2. CASE Written(c) \/ WriteFails(c) \/ TimesOut(c) \/ Receives(c)
    BY <2>2, CallEndsInv
  <2> QED  BY <1>1, <2>1, <2>2 DEF CallStep
<1>2. CASE ReadsReady \/ ReadsAnswer \/ Delivers
  BY <1>2, ReaderInv
<1>3. CASE EndOfFile \/ Close
  BY <1>3, CloseInv
<1>4. CASE UNCHANGED connVars
  BY <1>4 DEF ConnInv, ConnTypes, NumbersAreNew, Numbered, ChannelsAreSettled,
                    CallsGetTheirAnswer, connVars, reading, calling
<1> QED  BY <1>1, <1>2, <1>3, <1>4 DEF ConnNext

(* The inductive invariant of a connection holds.                          *)
THEOREM ConnectionInvariant == ConnSpec => []ConnInv
<1>1. ConnInit => ConnInv
  BY ConnStart
<1>2. ConnInv /\ [ConnNext]_connVars => ConnInv'
  BY ConnInvStep
<1> QED  BY <1>1, <1>2, PTL DEF ConnSpec

(* A call returns the answer to its own request or none, no request is     *)
(* left behind, and the answers alone never bring the browser down.        *)
THEOREM AnswersReachTheirCalls == ConnSpec => []CallsGetTheirAnswer
<1>1. ConnInv => CallsGetTheirAnswer
  BY DEF ConnInv
<1> QED  BY <1>1, ConnectionInvariant, PTL

(* No more numbers are given out than there are calls, and nothing is kept *)
(* for a number that was not.                                              *)
LEMMA ConnectionTyped == ConnInv => ConnTypeOK
<1> SUFFICES ASSUME ConnInv PROVE ConnTypeOK
  OBVIOUS
<1>1. Numbered \subseteq Calls
  BY DEF Numbered
<1>2. /\ Cardinality(Numbered) <= Cardinality(Calls) /\ Cardinality(Calls) \in Nat
  BY <1>1, FS_Subset, FS_CardinalityType, ConnectionAssumption DEF ConnectionAssumption
<1>3. seq \in 0..Cardinality(Calls)
  BY <1>2 DEF ConnInv, ConnTypes, NumbersAreNew
<1> QED  BY <1>3 DEF ConnInv, ConnTypes, ConnTypeOK, Places

(* Every call is somewhere a call can be, under a number that was given.   *)
THEOREM ConnectionTypeCorrect == ConnSpec => []ConnTypeOK
  BY ConnectionTyped, ConnectionInvariant, PTL

-----------------------------------------------------------------------------
(* Content scripts.  A loader keeps every script twice.                    *)
Loaders(T) == [scripts : Seq(T), byExtID : [Authors -> Seq(T)]]

ScriptsKnown == UNION {ToSet(Manifest[e]) : e \in Authors}
SheetsKnown == {[ID |-> <<e, css>>, ExtID |-> e] : e \in Authors, css \in Sheets}

OwnLists(l) == \A e \in Authors : \A s \in ToSet(l.byExtID[e]) : s.ExtID = e

(* What an extension's own list has is in the list of all as its own.      *)
RegistryAgrees ==
    /\ registry \in Loaders(ScriptsKnown) /\ OwnLists(registry)
    /\ \A e \in Authors : \A s \in ToSet(registry.byExtID[e]) :
           \E x \in ToSet(registry.scripts) : x.ID = s.ID /\ x.ExtID = e
    /\ \A s \in ToSet(registry.scripts) : s.ExtID \in hosted

(* The sheets of e in the list of all are, in their order, those that come *)
(* after the n-th of its record.                                           *)
IsCopy(ss, e, list, n) ==
    \E h \in [n + 1..Len(list) -> 1..Len(ss)] :
        /\ \A i, j \in n + 1..Len(list) : i < j => h[i] < h[j]
        /\ \A i \in n + 1..Len(list) : ss[h[i]].ID = list[i]
        /\ \A p \in 1..Len(ss) : ss[p].ExtID = e => \E i \in n + 1..Len(list) : h[i] = p

SheetsAgree ==
    /\ sheets \in Loaders(SheetsKnown) /\ OwnLists(sheets)
    /\ injectedCSS \in [Authors -> Seq(Authors \X Sheets)]
    /\ \A e \in Authors : /\ \A i \in DOMAIN injectedCSS[e] : injectedCSS[e][i][1] = e
                          /\ Ids(sheets.byExtID[e]) = ToSet(injectedCSS[e])
                          /\ IsCopy(sheets.scripts, e, injectedCSS[e], 0)

(* A script that began and is not recorded as injected has an excuse.      *)
SandboxesAreKnown ==
    /\ page \in [Views -> Addresses \cup {Closed}]
    /\ injected = [t \in Views |-> injected[t]] /\ begun = [t \in Views |-> begun[t]]
    /\ again = [t \in Views |-> again[t]] /\ excused = [t \in Views |-> excused[t]]
    /\ \A t \in Views : /\ again[t] \cup injected[t] \subseteq begun[t]
                        /\ begun[t] \ injected[t] \subseteq excused[t]
                        /\ again[t] \subseteq excused[t]

ScriptsInv ==
    /\ active \subseteq hosted /\ hosted \subseteq Authors
    /\ RegistryAgrees /\ SheetsAgree /\ SandboxesAreKnown

LEMMA LoaderProperties ==
    ASSUME NEW T, NEW l \in Loaders(T)
    PROVE  /\ l.scripts \in Seq(T) /\ DOMAIN l.scripts = 1..Len(l.scripts) /\ Len(l.scripts) \in Nat
           /\ \A i \in 1..Len(l.scripts) : l.scripts[i] \in T
           /\ ToSet(l.scripts) \subseteq T
           /\ l.byExtID \in [Authors -> Seq(T)]
           /\ \A e \in Authors : l.byExtID[e] \in Seq(T) /\ ToSet(l.byExtID[e]) \subseteq T
<1>1. l.scripts \in Seq(T) /\ l.byExtID \in [Authors -> Seq(T)]
  BY DEF Loaders
<1>2. ASSUME NEW s \in Seq(T)
      PROVE  ToSet(s) \subseteq T /\ DOMAIN s = 1..Len(s) /\ Len(s) \in Nat /\ \A i \in 1..Len(s) : s[i] \in T
  BY ListProperties DEF ToSet
<1> QED  BY <1>1, <1>2

(* What RemoveScript leaves.                                               *)
LEMMA RemoveScriptProperties ==
    ASSUME NEW T, NEW l \in Loaders(T), NEW id, \A s \in T : s.ExtID \in Authors, OwnLists(l)
    PROVE  LET r == RemoveScript(l, id)
               first == FirstWith(l.scripts, id)
               e == l.scripts[first].ExtID
           IN /\ r \in Loaders(T) /\ OwnLists(r)
              /\ first = 0 => r = l
              /\ first # 0 => /\ r.scripts = RemoveAt(l.scripts, first)
                           /\ ToSet(r.byExtID[e]) = {s \in ToSet(l.byExtID[e]) : s.ID # id}
                           /\ \A f \in Authors \ {e} : r.byExtID[f] = l.byExtID[f]
<1> DEFINE r == RemoveScript(l, id)
           first == FirstWith(l.scripts, id)
           e == l.scripts[first].ExtID
<1>1. /\ l.scripts \in Seq(T) /\ l.byExtID \in [Authors -> Seq(T)]
      /\ \A i \in 1..Len(l.scripts) : l.scripts[i] \in T
  BY LoaderProperties
<1>2. first = 0 \/ (first \in 1..Len(l.scripts) /\ first # 0)
  BY FirstWithProperties
<1>3. CASE first = 0
  <2>1. r = l
    BY <1>3 DEF RemoveScript, FirstWith
  <2> QED  BY <1>3, <2>1
<1>4. CASE first # 0
  <2> DEFINE list == l.byExtID[e]
             rest == {s \in ToSet(list) : s.ID # id}
             kept == Chosen(list, rest)
  <2>1. r = [scripts |-> RemoveAt(l.scripts, first), byExtID |-> [l.byExtID EXCEPT ![e] = kept]]
    BY <1>4 DEF RemoveScript, FirstWith
  <2>2. first \in 1..Len(l.scripts) /\ e \in Authors
    BY <1>1, <1>2, <1>4
  <2>3. list \in Seq(T)
    BY <1>1, <2>2
  <2>4. kept \in Seq(T) /\ ToSet(kept) = rest
    <3>1. rest = ToSet(list) \cap rest
      OBVIOUS
    <3> HIDE DEF list, rest
    <3>2. kept \in Seq(T) /\ ToSet(kept) = ToSet(list) \cap rest
      BY <2>3, ChosenElements
    <3> QED  BY <3>1, <3>2
  <2>5. RemoveAt(l.scripts, first) \in Seq(T)
    <3> HIDE DEF first
    <3> QED  BY <1>1, <2>2, RemoveAtProperties
  <2> HIDE DEF kept, first, r
  <2>6. /\ r.scripts = RemoveAt(l.scripts, first) /\ r.byExtID = [l.byExtID EXCEPT ![e] = kept]
        /\ r.byExtID[e] = kept /\ \A f \in Authors \ {e} : r.byExtID[f] = l.byExtID[f]
    BY <1>1, <2>1, <2>2
  <2>7. r \in Loaders(T)
    BY <1>1, <2>1, <2>4, <2>5, <2>2 DEF Loaders
  <2>8. OwnLists(r)
    BY <2>2, <2>4, <2>6 DEF OwnLists
  <2>9. ToSet(r.byExtID[e]) = {s \in ToSet(l.byExtID[e]) : s.ID # id}
    BY <2>4, <2>6
  <2> QED  BY <1>4, <2>6, <2>7, <2>8, <2>9 DEF first, r
<1> QED  BY <1>3, <1>4

(* A list without its i-th element has the others.                         *)
LEMMA RemovedElements ==
    ASSUME NEW T, NEW s \in Seq(T), NEW i \in 1..Len(s)
    PROVE  /\ ToSet(RemoveAt(s, i)) \subseteq ToSet(s)
           /\ \A k \in 1..Len(s) : k # i => s[k] \in ToSet(RemoveAt(s, i))
<1> DEFINE r == RemoveAt(s, i)
<1>1. /\ r \in Seq(T) /\ Len(r) = Len(s) - 1
      /\ \A k \in 1..Len(s) - 1 : r[k] = IF k < i THEN s[k] ELSE s[k + 1]
  BY RemoveAtProperties
<1> HIDE DEF r
<1>2. DOMAIN r = 1..Len(s) - 1 /\ DOMAIN s = 1..Len(s) /\ Len(s) \in Nat
  BY <1>1, ListProperties
<1>3. \A k \in 1..Len(s) - 1 : r[k] \in ToSet(s)
  <2>1. \A k \in 1..Len(s) - 1 : k \in 1..Len(s) /\ k + 1 \in 1..Len(s)
    BY <1>2
  <2> QED  BY <1>1, <1>2, <2>1 DEF ToSet
<1>4. ASSUME NEW k \in 1..Len(s), k # i PROVE s[k] \in ToSet(r)
  <2>1. CASE k < i
    <3>1. k \in 1..Len(s) - 1
      BY <1>2, <2>1
    <3> QED  BY <1>1, <1>2, <2>1, <3>1 DEF ToSet
  <2>2. CASE ~ (k < i)
    <3>1. k - 1 \in 1..Len(s) - 1 /\ ~(k - 1 < i) /\ k - 1 + 1 = k
      BY <1>2, <1>4, <2>2
    <3>2. r[k - 1] = s[k]
      BY <1>1, <3>1
    <3> QED  BY <1>2, <3>1, <3>2 DEF ToSet
  <2> QED  BY <2>1, <2>2
<1> QED  BY <1>2, <1>3, <1>4 DEF r, ToSet

-----------------------------------------------------------------------------
(* The registry.                                                           *)
LEMMA ScriptsHaveAuthors ==
    /\ \A s \in ScriptsKnown : s.ExtID \in Authors
    /\ \A e \in Authors : /\ Manifest[e] \in Seq(ScriptsKnown)
                          /\ \A s \in ToSet(Manifest[e]) : s.ExtID = e
<1>1. \A e \in Authors : ToSet(Manifest[e]) \subseteq ScriptsKnown
  BY DEF ScriptsKnown
<1>2. \A e \in Authors : /\ Manifest[e] \in Seq(ToSet(Manifest[e]))
                         /\ \A s \in ToSet(Manifest[e]) : s.ExtID = e
  BY ScriptsAssumption DEF ScriptsAssumption, ToSet
<1>3. ASSUME NEW e \in Authors PROVE Manifest[e] \in Seq(ScriptsKnown)
  BY <1>1, <1>2, SeqMonotonic
<1> QED  BY <1>2, <1>3 DEF ScriptsKnown

LEMMA JoinedElements ==
    ASSUME NEW T, NEW s \in Seq(T), NEW t \in Seq(T)
    PROVE  s \o t \in Seq(T) /\ ToSet(s \o t) = ToSet(s) \cup ToSet(t)
<1>1. /\ s \o t \in Seq(T) /\ Len(s \o t) = Len(s) + Len(t)
      /\ \A i \in 1..Len(s) + Len(t) : (s \o t)[i] = IF i <= Len(s) THEN s[i] ELSE t[i - Len(s)]
  BY ConcatProperties
<1>2. /\ DOMAIN s = 1..Len(s) /\ Len(s) \in Nat /\ DOMAIN t = 1..Len(t) /\ Len(t) \in Nat
  BY ListProperties
<1> DEFINE u == s \o t
<1>3. DOMAIN u = 1..Len(s) + Len(t)
  BY <1>1, ListProperties
<1> HIDE DEF u
<1>4. \A i \in 1..Len(s) + Len(t) : u[i] = IF i <= Len(s) THEN s[i] ELSE t[i - Len(s)]
  BY <1>1 DEF u
<1>5. ASSUME NEW i \in 1..Len(s) + Len(t) PROVE u[i] \in ToSet(s) \cup ToSet(t)
  <2>1. CASE i <= Len(s)
    <3>1. i \in 1..Len(s) /\ u[i] = s[i]
      BY <1>2, <1>4, <2>1
    <3> QED  BY <1>2, <3>1 DEF ToSet
  <2>2. CASE ~(i <= Len(s))
    <3>1. i - Len(s) \in 1..Len(t) /\ u[i] = t[i - Len(s)]
      BY <1>2, <1>4, <2>2
    <3> QED  BY <1>2, <3>1 DEF ToSet
  <2> QED  BY <2>1, <2>2
<1>6. ASSUME NEW i \in 1..Len(s) PROVE s[i] \in ToSet(u)
  <2>1. i \in 1..Len(s) + Len(t) /\ i <= Len(s)
    BY <1>2
  <2> QED  BY <1>3, <1>4, <2>1 DEF ToSet
<1>7. ASSUME NEW i \in 1..Len(t) PROVE t[i] \in ToSet(u)
  <2>1. Len(s) + i \in 1..Len(s) + Len(t) /\ ~(Len(s) + i <= Len(s)) /\ Len(s) + i - Len(s) = i
    BY <1>2
  <2>2. u[Len(s) + i] = t[i]
    BY <1>4, <2>1
  <2> QED  BY <1>3, <2>1, <2>2 DEF ToSet
<1>8. ToSet(u) = ToSet(s) \cup ToSet(t)
  <2>1. ToSet(u) \subseteq ToSet(s) \cup ToSet(t)
    BY <1>3, <1>5 DEF ToSet
  <2>2. ToSet(s) \cup ToSet(t) \subseteq ToSet(u)
    BY <1>2, <1>6, <1>7 DEF ToSet
  <2> QED  BY <2>1, <2>2
<1> QED  BY <1>1, <1>8 DEF u

(* Registering what the manifest has, in both lists.                       *)
LEMMA HostedInv ==
    ASSUME ScriptsInv, Hosted
    PROVE  RegistryAgrees' /\ active' \subseteq hosted' /\ hosted' \subseteq Authors
<1>1. PICK e \in Authors \ hosted :
         /\ hosted' = hosted \cup {e} /\ active' = active \cup {e}
         /\ registry' = RegisterFromManifest(registry, e)
  BY DEF Hosted
<1> DEFINE l == registry
           r == RegisterFromManifest(l, e)
           m == Manifest[e]
           K == ScriptsKnown
<1>2. l \in Loaders(K) /\ OwnLists(l)
  BY DEF ScriptsInv, RegistryAgrees
<1>3. l.scripts \in Seq(K) /\ l.byExtID \in [Authors -> Seq(K)] /\ l.byExtID[e] \in Seq(K)
  BY <1>2, LoaderProperties
<1>4. m \in Seq(K) /\ \A s \in ToSet(m) : s.ExtID = e
  BY ScriptsHaveAuthors
<1> HIDE DEF m, K
<1>5. /\ l.scripts \o m \in Seq(K) /\ ToSet(l.scripts \o m) = ToSet(l.scripts) \cup ToSet(m)
      /\ l.byExtID[e] \o m \in Seq(K) /\ ToSet(l.byExtID[e] \o m) = ToSet(l.byExtID[e]) \cup ToSet(m)
  BY <1>3, <1>4, JoinedElements
<1>6. r = [scripts |-> l.scripts \o m, byExtID |-> [l.byExtID EXCEPT ![e] = l.byExtID[e] \o m]]
  BY DEF RegisterFromManifest, m
<1> HIDE DEF r, l
<1>7. /\ r.scripts = l.scripts \o m /\ r.byExtID[e] = l.byExtID[e] \o m
      /\ \A f \in Authors \ {e} : r.byExtID[f] = l.byExtID[f]
  BY <1>1, <1>3, <1>6
<1>8. r \in Loaders(K)
  BY <1>1, <1>3, <1>5, <1>6 DEF Loaders
<1>9. OwnLists(r)
  <2>1. \A s \in ToSet(r.byExtID[e]) : s.ExtID = e
    BY <1>1, <1>2, <1>4, <1>5, <1>7 DEF OwnLists
  <2> QED  BY <1>2, <1>7, <2>1 DEF OwnLists
<1>10. ASSUME NEW f \in Authors, NEW s \in ToSet(r.byExtID[f])
       PROVE  \E x \in ToSet(r.scripts) : x.ID = s.ID /\ x.ExtID = f
  <2>1. ASSUME s \in ToSet(l.byExtID[f]) PROVE \E x \in ToSet(l.scripts) : x.ID = s.ID /\ x.ExtID = f
    BY <2>1 DEF ScriptsInv, RegistryAgrees, l
  <2>2. s \in ToSet(l.byExtID[f]) \/ (f = e /\ s \in ToSet(m))
    BY <1>5, <1>7, <1>10
  <2> QED  BY <1>4, <1>5, <1>7, <2>1, <2>2
<1>11. \A s \in ToSet(r.scripts) : s.ExtID \in hosted'
  BY <1>1, <1>4, <1>5, <1>7 DEF ScriptsInv, RegistryAgrees, l
<1>12. registry' = r
  BY <1>1 DEF r, l
<1>13. RegistryAgrees'
  BY <1>8, <1>9, <1>10, <1>11, <1>12 DEF RegistryAgrees, OwnLists, Loaders, K
<1> QED  BY <1>1, <1>13 DEF ScriptsInv

(* A removed extension leaves nothing in either list.                      *)
LEMMA RemovedInv ==
    ASSUME ScriptsInv, Removed
    PROVE  RegistryAgrees' /\ active' \subseteq hosted' /\ hosted' \subseteq Authors
<1>1. PICK e \in hosted :
         /\ hosted' = hosted \ {e} /\ active' = active \ {e}
         /\ registry' = RemoveForExtension(registry, e)
  BY DEF Removed
<1> DEFINE l == registry
           r == RemoveForExtension(l, e)
           K == ScriptsKnown
           S == {s \in ToSet(l.scripts) : s.ExtID # e}
           kept == Chosen(l.scripts, S)
<1>2. l \in Loaders(K) /\ OwnLists(l) /\ e \in Authors
  BY DEF ScriptsInv, RegistryAgrees
<1>3. l.scripts \in Seq(K) /\ l.byExtID \in [Authors -> Seq(K)]
  BY <1>2, LoaderProperties
<1>4. kept \in Seq(K) /\ ToSet(kept) = S
  <2>1. S = ToSet(l.scripts) \cap S
    OBVIOUS
  <2> HIDE DEF S, l, K
  <2>2. kept \in Seq(K) /\ ToSet(kept) = ToSet(l.scripts) \cap S
    BY <1>3, ChosenElements
  <2> QED  BY <2>1, <2>2
<1>5. r = [scripts |-> kept, byExtID |-> [l.byExtID EXCEPT ![e] = <<>>]]
  BY DEF RemoveForExtension
<1> HIDE DEF r, l, kept, K
<1>6. <<>> \in Seq(K) /\ ToSet(<<>>) = {}
  BY DEF ToSet
<1>7. /\ r.scripts = kept /\ r.byExtID[e] = <<>>
      /\ \A f \in Authors \ {e} : r.byExtID[f] = l.byExtID[f]
  BY <1>2, <1>3, <1>5
<1>8. r \in Loaders(K)
  BY <1>2, <1>3, <1>4, <1>5, <1>6 DEF Loaders
<1>9. OwnLists(r)
  BY <1>2, <1>6, <1>7 DEF OwnLists
<1>10. ASSUME NEW f \in Authors, NEW s \in ToSet(r.byExtID[f])
       PROVE  \E x \in ToSet(r.scripts) : x.ID = s.ID /\ x.ExtID = f
  <2>1. f # e /\ s \in ToSet(l.byExtID[f])
    BY <1>6, <1>7, <1>10
  <2>2. PICK x \in ToSet(l.scripts) : x.ID = s.ID /\ x.ExtID = f
    BY <2>1 DEF ScriptsInv, RegistryAgrees, l
  <2> QED  BY <1>4, <1>7, <2>1, <2>2
<1>11. \A s \in ToSet(r.scripts) : s.ExtID \in hosted'
  BY <1>1, <1>4, <1>7 DEF ScriptsInv, RegistryAgrees, l
<1>12. registry' = r
  BY <1>1 DEF r, l
<1>13. RegistryAgrees'
  BY <1>8, <1>9, <1>10, <1>11, <1>12 DEF RegistryAgrees, OwnLists, Loaders, K
<1> QED  BY <1>1, <1>13 DEF ScriptsInv

(* Of several scripts with one id all leave the extension's own list, so   *)
(* that what stays in it is still in the list of all.                      *)
LEMMA UnregisterInv ==
    ASSUME ScriptsInv, UnregisterContentScripts
    PROVE  RegistryAgrees'
<1> DEFINE l == registry
           K == ScriptsKnown
<1>1. PICK c \in ToSet(l.scripts) : registry' = RemoveScript(l, c.ID) /\ hosted' = hosted
  BY DEF UnregisterContentScripts
<1> DEFINE r == RemoveScript(l, c.ID)
           first == FirstWith(l.scripts, c.ID)
           e == l.scripts[first].ExtID
<1>2. l \in Loaders(K) /\ OwnLists(l)
  BY DEF ScriptsInv, RegistryAgrees
<1>3. l.scripts \in Seq(K) /\ DOMAIN l.scripts = 1..Len(l.scripts)
  BY <1>2, LoaderProperties
<1>4. \A s \in K : s.ExtID \in Authors
  BY ScriptsHaveAuthors
<1>5. first \in 1..Len(l.scripts) /\ first # 0 /\ l.scripts[first].ID = c.ID
  <2>1. \E i \in 1..Len(l.scripts) : l.scripts[i].ID = c.ID
    BY <1>3 DEF ToSet
  <2> QED  BY <2>1, FirstWithProperties
<1>6. /\ r \in Loaders(K) /\ OwnLists(r)
      /\ r.scripts = RemoveAt(l.scripts, first)
      /\ ToSet(r.byExtID[e]) = {s \in ToSet(l.byExtID[e]) : s.ID # c.ID}
      /\ \A f \in Authors \ {e} : r.byExtID[f] = l.byExtID[f]
  <2> HIDE DEF l, K
  <2> QED  BY <1>2, <1>4, <1>5, RemoveScriptProperties
<1> HIDE DEF r, first, l, K
<1>7. /\ ToSet(r.scripts) \subseteq ToSet(l.scripts)
      /\ \A k \in 1..Len(l.scripts) : k # first => l.scripts[k] \in ToSet(r.scripts)
  BY <1>3, <1>5, <1>6, RemovedElements
<1>8. ASSUME NEW f \in Authors, NEW s \in ToSet(r.byExtID[f])
      PROVE  \E x \in ToSet(r.scripts) : x.ID = s.ID /\ x.ExtID = f
  <2>1. s \in ToSet(l.byExtID[f]) /\ (f = e => s.ID # c.ID)
    BY <1>6, <1>8
  <2>2. PICK x \in ToSet(l.scripts) : x.ID = s.ID /\ x.ExtID = f
    BY <2>1 DEF ScriptsInv, RegistryAgrees, l
  <2>3. PICK k \in 1..Len(l.scripts) : x = l.scripts[k]
    BY <1>3, <2>2 DEF ToSet
  <2>4. k # first
    BY <1>5, <2>1, <2>2, <2>3
  <2> QED  BY <1>7, <2>2, <2>3, <2>4
<1>9. \A s \in ToSet(r.scripts) : s.ExtID \in hosted'
  BY <1>1, <1>7 DEF ScriptsInv, RegistryAgrees, l
<1>10. registry' = r
  BY <1>1 DEF r, l
<1> QED  BY <1>6, <1>8, <1>9, <1>10 DEF RegistryAgrees, OwnLists, Loaders, K

-----------------------------------------------------------------------------
(* The tabs.  A script that runs is new to the record, and so it began     *)
(* before only with an excuse.                                             *)
LEMMA InjectInv ==
    ASSUME SandboxesAreKnown, NEW t \in Views, NEW ids, NEW n \in Nat, Inject(t, ids, n),
           page' \in [Views -> Addresses \cup {Closed}]
    PROVE  SandboxesAreKnown'
<1> DEFINE done == First(ids, n) \ injected[t]
           ran == First(ids, n + 1) \ injected[t]
<1>1. done \subseteq ran
  BY DEF First
<1>2. /\ injected' = [injected EXCEPT ![t] = @ \cup done]
      /\ begun' = [begun EXCEPT ![t] = @ \cup ran]
      /\ again' = [again EXCEPT ![t] = @ \cup (ran \cap begun[t])]
      /\ excused' = [excused EXCEPT ![t] = @ \cup (ran \ done)]
  BY DEF Inject
<1>3. ran \cap injected[t] = {}
  OBVIOUS
<1> HIDE DEF done, ran
<1>4. /\ injected = [u \in Views |-> injected[u]] /\ begun = [u \in Views |-> begun[u]]
      /\ again = [u \in Views |-> again[u]] /\ excused = [u \in Views |-> excused[u]]
  BY DEF SandboxesAreKnown
<1>5. /\ injected'[t] = injected[t] \cup done /\ begun'[t] = begun[t] \cup ran
      /\ again'[t] = again[t] \cup (ran \cap begun[t]) /\ excused'[t] = excused[t] \cup (ran \ done)
      /\ \A u \in Views \ {t} : /\ injected'[u] = injected[u] /\ begun'[u] = begun[u]
                                /\ again'[u] = again[u] /\ excused'[u] = excused[u]
  BY <1>2, <1>4
<1>6. /\ injected' = [u \in Views |-> injected'[u]] /\ begun' = [u \in Views |-> begun'[u]]
      /\ again' = [u \in Views |-> again'[u]] /\ excused' = [u \in Views |-> excused'[u]]
  BY <1>2, <1>4
<1>7. \A u \in Views : /\ again[u] \cup injected[u] \subseteq begun[u]
                       /\ begun[u] \ injected[u] \subseteq excused[u]
                       /\ again[u] \subseteq excused[u]
  BY DEF SandboxesAreKnown
<1>8. /\ again'[t] \cup injected'[t] \subseteq begun'[t]
      /\ begun'[t] \ injected'[t] \subseteq excused'[t]
      /\ again'[t] \subseteq excused'[t]
  BY <1>1, <1>3, <1>5, <1>7
<1>9. \A u \in Views : /\ again'[u] \cup injected'[u] \subseteq begun'[u]
                       /\ begun'[u] \ injected'[u] \subseteq excused'[u]
                       /\ again'[u] \subseteq excused'[u]
  BY <1>5, <1>7, <1>8
<1> QED  BY <1>6, <1>9 DEF SandboxesAreKnown

LEMMA NavigateInv ==
    ASSUME ScriptsInv, Navigate
    PROVE  SandboxesAreKnown'
<1>1. PICK t \in Views, url \in Addresses, order \in SetToSeqs(active) :
         LET ids == Matching(order, url) IN
         /\ page' = [page EXCEPT ![t] = url]
         /\ \E n \in Stops(t, ids) : Inject(t, ids, n)
  BY DEF Navigate
<1> DEFINE ids == Matching(order, url)
<1>2. PICK n \in Stops(t, ids) : Inject(t, ids, n)
  BY <1>1
<1> HIDE DEF ids
<1>3. n \in Nat
  BY DEF Stops
<1>4. SandboxesAreKnown /\ page' \in [Views -> Addresses \cup {Closed}]
  BY <1>1 DEF ScriptsInv, SandboxesAreKnown
<1> QED  BY <1>2, <1>3, <1>4, InjectInv

LEMMA CloseViewInv ==
    ASSUME SandboxesAreKnown, CloseView
    PROVE  SandboxesAreKnown'
<1>1. PICK t \in Views :
         /\ page' = [page EXCEPT ![t] = Closed]
         /\ injected' = [injected EXCEPT ![t] = {}]
         /\ excused' = [excused EXCEPT ![t] = @ \cup begun[t]]
         /\ begun' = begun /\ again' = again
  BY DEF CloseView
<1>2. /\ injected = [u \in Views |-> injected[u]] /\ excused = [u \in Views |-> excused[u]]
      /\ \A u \in Views : /\ again[u] \cup injected[u] \subseteq begun[u]
                          /\ begun[u] \ injected[u] \subseteq excused[u]
                          /\ again[u] \subseteq excused[u]
  BY DEF SandboxesAreKnown
<1>3. /\ injected'[t] = {} /\ excused'[t] = excused[t] \cup begun[t]
      /\ \A u \in Views \ {t} : injected'[u] = injected[u] /\ excused'[u] = excused[u]
      /\ injected' = [u \in Views |-> injected'[u]] /\ excused' = [u \in Views |-> excused'[u]]
  BY <1>1, <1>2
<1>4. \A u \in Views : /\ again'[u] \cup injected'[u] \subseteq begun'[u]
                       /\ begun'[u] \ injected'[u] \subseteq excused'[u]
                       /\ again'[u] \subseteq excused'[u]
  BY <1>1, <1>2, <1>3
<1>5. page' \in [Views -> Addresses \cup {Closed}]
  BY <1>1 DEF SandboxesAreKnown
<1> QED  BY <1>1, <1>3, <1>4, <1>5 DEF SandboxesAreKnown

-----------------------------------------------------------------------------
(* The style sheets.  The id of a sheet names its extension.               *)
LEMMA SheetsHaveAuthors ==
    \A s \in SheetsKnown : s.ExtID \in Authors /\ s.ID[1] = s.ExtID
  BY DEF SheetsKnown

LEMMA SheetIsKnown ==
    ASSUME NEW e \in Authors, NEW css \in Sheets
    PROVE  [ID |-> <<e, css>>, ExtID |-> e] \in SheetsKnown
<1> DEFINE c == [ID |-> <<e, css>>, ExtID |-> e]
<1>1. \E a \in Authors, b \in Sheets : c = [ID |-> <<a, b>>, ExtID |-> a]
  OBVIOUS
<1> HIDE DEF c
<1>2. c \in SheetsKnown
  BY <1>1 DEF SheetsKnown
<1> QED  BY <1>2 DEF c

LEMMA CopyExtended ==
    ASSUME NEW ss \in Seq(SheetsKnown), NEW e \in Authors, NEW css \in Sheets,
           NEW list \in Seq(Authors \X Sheets), IsCopy(ss, e, list, 0)
    PROVE  IsCopy(Append(ss, [ID |-> <<e, css>>, ExtID |-> e]), e, Append(list, <<e, css>>), 0)
<1> DEFINE c == [ID |-> <<e, css>>, ExtID |-> e]
           N == Len(list)
           M == Len(ss)
           tt == Append(ss, c)
           longer == Append(list, <<e, css>>)
<1>1. PICK h \in [0 + 1..N -> 1..M] :
        /\ \A i, j \in 0 + 1..N : i < j => h[i] < h[j]
        /\ \A i \in 0 + 1..N : ss[h[i]].ID = list[i]
        /\ \A p \in 1..M : ss[p].ExtID = e => \E i \in 0 + 1..N : h[i] = p
  BY DEF IsCopy
<1>2. c \in SheetsKnown /\ <<e, css>> \in Authors \X Sheets /\ c.ID = <<e, css>> /\ c.ExtID = e
  <2>1. c \in SheetsKnown
    BY SheetIsKnown
  <2>2. c.ID = <<e, css>> /\ c.ExtID = e
    OBVIOUS
  <2> QED  BY <2>1, <2>2
<1> HIDE DEF c
<1>3. /\ Len(tt) = M + 1 /\ tt[M + 1] = c /\ \A i \in 1..M : tt[i] = ss[i]
      /\ Len(longer) = N + 1 /\ longer[N + 1] = <<e, css>> /\ \A i \in 1..N : longer[i] = list[i]
      /\ M \in Nat /\ N \in Nat
  BY <1>2, AppendProperties, ListProperties
<1> HIDE DEF tt, longer, N, M
<1> DEFINE g == [i \in 0 + 1..N + 1 |-> IF i = N + 1 THEN M + 1 ELSE h[i]]
<1>4. \A i \in 0 + 1..N + 1 : i = N + 1 \/ (i # N + 1 /\ i \in 0 + 1..N)
  BY <1>3
<1>5. \A i \in 0 + 1..N : h[i] \in 1..M /\ h[i] < M + 1 /\ h[i] \in 1..M + 1
  BY <1>1, <1>3
<1>6. g \in [0 + 1..N + 1 -> 1..M + 1]
  BY <1>3, <1>4, <1>5
<1>7. /\ g[N + 1] = M + 1 /\ \A i \in 0 + 1..N : g[i] = h[i]
  BY <1>3
<1> HIDE DEF g
<1>8. \A i, j \in 0 + 1..N + 1 : i < j => g[i] < g[j]
  <2> SUFFICES ASSUME NEW i \in 0 + 1..N + 1, NEW j \in 0 + 1..N + 1, i < j PROVE g[i] < g[j]
    OBVIOUS
  <2>1. i \in 0 + 1..N
    BY <1>3, <1>4
  <2>2. CASE j = N + 1
    BY <1>5, <1>7, <2>1, <2>2
  <2>3. CASE j # N + 1
    BY <1>1, <1>4, <1>7, <2>1, <2>3
  <2> QED  BY <2>2, <2>3
<1>9. \A i \in 0 + 1..N + 1 : tt[g[i]].ID = longer[i]
  <2> SUFFICES ASSUME NEW i \in 0 + 1..N + 1 PROVE tt[g[i]].ID = longer[i]
    OBVIOUS
  <2>1. CASE i = N + 1
    BY <1>2, <1>3, <1>7, <2>1
  <2>2. CASE i # N + 1
    <3>1. i \in 0 + 1..N /\ 0 + 1..N = 1..N
      BY <1>4, <2>2
    <3>2. tt[g[i]] = ss[h[i]] /\ longer[i] = list[i]
      BY <1>3, <1>5, <1>7, <3>1
    <3> QED  BY <1>1, <3>1, <3>2
  <2> QED  BY <2>1, <2>2
<1>10. \A p \in 1..M + 1 : tt[p].ExtID = e => \E i \in 0 + 1..N + 1 : g[i] = p
  <2> SUFFICES ASSUME NEW p \in 1..M + 1, tt[p].ExtID = e PROVE \E i \in 0 + 1..N + 1 : g[i] = p
    OBVIOUS
  <2>1. CASE p = M + 1
    <3>1. N + 1 \in 0 + 1..N + 1
      BY <1>3
    <3> QED  BY <1>7, <2>1, <3>1
  <2>2. CASE p # M + 1
    <3>1. p \in 1..M /\ ss[p].ExtID = e
      BY <1>3, <2>2
    <3>2. PICK i \in 0 + 1..N : h[i] = p
      BY <1>1, <3>1
    <3>3. i \in 0 + 1..N + 1
      BY <1>3
    <3> QED  BY <1>7, <3>2, <3>3
  <2> QED  BY <2>1, <2>2
<1>11. IsCopy(tt, e, longer, 0)
  <2>1. /\ g \in [0 + 1..Len(longer) -> 1..Len(tt)]
        /\ \A i, j \in 0 + 1..Len(longer) : i < j => g[i] < g[j]
        /\ \A i \in 0 + 1..Len(longer) : tt[g[i]].ID = longer[i]
        /\ \A p \in 1..Len(tt) : tt[p].ExtID = e => \E i \in 0 + 1..Len(longer) : g[i] = p
    BY <1>3, <1>6, <1>8, <1>9, <1>10
  <2> QED  BY <2>1 DEF IsCopy
<1> QED  BY <1>11 DEF tt, longer, c

(* The sheets of another extension are as they were.                       *)
LEMMA CopyBeside ==
    ASSUME NEW ss \in Seq(SheetsKnown), NEW c \in SheetsKnown, NEW f \in Authors, c.ExtID # f,
           NEW list, IsCopy(ss, f, list, 0)
    PROVE  IsCopy(Append(ss, c), f, list, 0)
<1> DEFINE M == Len(ss)
           N == Len(list)
           tt == Append(ss, c)
<1>1. PICK h \in [0 + 1..N -> 1..M] :
        /\ \A i, j \in 0 + 1..N : i < j => h[i] < h[j]
        /\ \A i \in 0 + 1..N : ss[h[i]].ID = list[i]
        /\ \A p \in 1..M : ss[p].ExtID = f => \E i \in 0 + 1..N : h[i] = p
  BY DEF IsCopy
<1>2. Len(tt) = M + 1 /\ tt[M + 1] = c /\ (\A i \in 1..M : tt[i] = ss[i]) /\ M \in Nat
  BY AppendProperties, ListProperties
<1> HIDE DEF tt, M, N
<1>3. h \in [0 + 1..N -> 1..M + 1] /\ \A i \in 0 + 1..N : tt[h[i]].ID = list[i]
  BY <1>1, <1>2
<1>4. \A p \in 1..M + 1 : tt[p].ExtID = f => p \in 1..M /\ ss[p].ExtID = f
  <2>1. \A p \in 1..M + 1 : p \in 1..M \/ p = M + 1
    BY <1>2
  <2> QED  BY <1>2, <2>1
<1>5. IsCopy(tt, f, list, 0)
  <2>1. /\ h \in [0 + 1..N -> 1..Len(tt)]
        /\ \A i, j \in 0 + 1..N : i < j => h[i] < h[j]
        /\ \A i \in 0 + 1..N : tt[h[i]].ID = list[i]
        /\ \A p \in 1..Len(tt) : tt[p].ExtID = f => \E i \in 0 + 1..N : h[i] = p
    BY <1>1, <1>2, <1>3, <1>4
  <2> QED  BY <2>1 DEF IsCopy, N
<1> QED  BY <1>5 DEF tt

(* Without one script, at a position that is no position of f.             *)
LEMMA CopyUntouched ==
    ASSUME NEW ss \in Seq(SheetsKnown), NEW q \in 1..Len(ss), NEW f \in Authors, ss[q].ExtID # f,
           NEW list, \A i \in 1..Len(list) : list[i][1] = f, IsCopy(ss, f, list, 0)
    PROVE  IsCopy(RemoveAt(ss, q), f, list, 0)
<1> DEFINE M == Len(ss)
           N == Len(list)
           tt == RemoveAt(ss, q)
<1>1. PICK h \in [0 + 1..N -> 1..M] :
        /\ \A i, j \in 0 + 1..N : i < j => h[i] < h[j]
        /\ \A i \in 0 + 1..N : ss[h[i]].ID = list[i]
        /\ \A p \in 1..M : ss[p].ExtID = f => \E i \in 0 + 1..N : h[i] = p
  BY DEF IsCopy
<1>2. /\ Len(tt) = M - 1 /\ M \in Nat
      /\ \A k \in 1..M - 1 : tt[k] = IF k < q THEN ss[k] ELSE ss[k + 1]
      /\ \A k \in 1..M : ss[k] \in SheetsKnown
  BY RemoveAtProperties, ListProperties
<1>3. \A i \in 0 + 1..N : h[i] # q
  <2> SUFFICES ASSUME NEW i \in 0 + 1..N, h[i] = q PROVE FALSE
    OBVIOUS
  <2>1. ss[q].ID = list[i] /\ i \in 1..N
    BY <1>1
  <2>2. ss[q] \in SheetsKnown
    BY <1>2
  <2>3. ss[q].ID[1] = ss[q].ExtID
    BY <2>2, SheetsHaveAuthors
  <2> QED  BY <2>1, <2>3
<1> HIDE DEF tt, M, N
<1> DEFINE g == [i \in 0 + 1..N |-> IF h[i] < q THEN h[i] ELSE h[i] - 1]
<1>4. \A i \in 0 + 1..N : /\ h[i] \in 1..M
                          /\ h[i] < q => h[i] \in 1..M - 1
                          /\ ~(h[i] < q) => h[i] - 1 \in 1..M - 1 /\ ~(h[i] - 1 < q) /\ h[i] - 1 + 1 = h[i]
  <2> SUFFICES ASSUME NEW i \in 0 + 1..N
               PROVE  /\ h[i] \in 1..M
                      /\ h[i] < q => h[i] \in 1..M - 1
                      /\ ~(h[i] < q) => h[i] - 1 \in 1..M - 1 /\ ~(h[i] - 1 < q) /\ h[i] - 1 + 1 = h[i]
    OBVIOUS
  <2>1. h[i] \in 1..M /\ h[i] # q /\ q \in 1..M
    BY <1>1, <1>3 DEF M
  <2> QED  BY <1>2, <2>1
<1>5. g \in [0 + 1..N -> 1..M - 1]
  BY <1>4
<1>6. \A i \in 0 + 1..N : g[i] = IF h[i] < q THEN h[i] ELSE h[i] - 1
  OBVIOUS
<1> HIDE DEF g
<1>7. \A i, j \in 0 + 1..N : i < j => g[i] < g[j]
  <2> SUFFICES ASSUME NEW i \in 0 + 1..N, NEW j \in 0 + 1..N, i < j PROVE g[i] < g[j]
    OBVIOUS
  <2>1. h[i] < h[j] /\ h[i] \in 1..M /\ h[j] \in 1..M /\ h[i] # q /\ h[j] # q /\ q \in Int
    BY <1>1, <1>3, <1>4
  <2> QED  BY <1>2, <1>6, <2>1
<1>8. \A i \in 0 + 1..N : tt[g[i]] = ss[h[i]]
  <2> SUFFICES ASSUME NEW i \in 0 + 1..N PROVE tt[g[i]] = ss[h[i]]
    OBVIOUS
  <2>1. CASE h[i] < q
    BY <1>2, <1>4, <1>6, <2>1
  <2>2. CASE ~(h[i] < q)
    BY <1>2, <1>4, <1>6, <2>2
  <2> QED  BY <2>1, <2>2
<1>9. ASSUME NEW p \in 1..M - 1, tt[p].ExtID = f PROVE \E i \in 0 + 1..N : g[i] = p
  <2>1. CASE p < q
    <3>1. p \in 1..M /\ ss[p].ExtID = f
      BY <1>2, <1>9, <2>1
    <3>2. PICK i \in 0 + 1..N : h[i] = p
      BY <1>1, <3>1
    <3> QED  BY <1>6, <2>1, <3>2
  <2>2. CASE ~(p < q)
    <3>1. p + 1 \in 1..M /\ ss[p + 1].ExtID = f /\ ~(p + 1 < q) /\ p + 1 - 1 = p
      BY <1>2, <1>9, <2>2
    <3>2. PICK i \in 0 + 1..N : h[i] = p + 1
      BY <1>1, <3>1
    <3> QED  BY <1>6, <3>1, <3>2
  <2> QED  BY <2>1, <2>2
<1>10. \A i \in 0 + 1..N : tt[g[i]].ID = list[i]
  BY <1>1, <1>8
<1>11. IsCopy(tt, f, list, 0)
  <2>1. /\ g \in [0 + 1..N -> 1..Len(tt)]
        /\ \A i, j \in 0 + 1..N : i < j => g[i] < g[j]
        /\ \A i \in 0 + 1..N : tt[g[i]].ID = list[i]
        /\ \A p \in 1..Len(tt) : tt[p].ExtID = f => \E i \in 0 + 1..N : g[i] = p
    BY <1>2, <1>5, <1>7, <1>9, <1>10
  <2> QED  BY <2>1 DEF IsCopy, N
<1> QED  BY <1>11 DEF tt

(* The first script with the next id of the record is the first that is    *)
(* left of e, and what follows it is a copy of the rest of the record.     *)
LEMMA CopyCut ==
    ASSUME NEW ss \in Seq(SheetsKnown), NEW e \in Authors, NEW list \in Seq(Authors \X Sheets),
           \A i \in 1..Len(list) : list[i][1] = e,
           NEW n \in 0..Len(list) - 1, IsCopy(ss, e, list, n)
    PROVE  LET q == FirstWith(ss, list[n + 1]) IN
           /\ q \in 1..Len(ss) /\ q # 0 /\ ss[q].ExtID = e
           /\ IsCopy(RemoveAt(ss, q), e, list, n + 1)
<1> DEFINE M == Len(ss)
           N == Len(list)
           q == FirstWith(ss, list[n + 1])
           tt == RemoveAt(ss, q)
<1>1. PICK h \in [n + 1..N -> 1..M] :
        /\ \A i, j \in n + 1..N : i < j => h[i] < h[j]
        /\ \A i \in n + 1..N : ss[h[i]].ID = list[i]
        /\ \A p \in 1..M : ss[p].ExtID = e => \E i \in n + 1..N : h[i] = p
  BY DEF IsCopy
<1>2. /\ M \in Nat /\ N \in Nat /\ \A k \in 1..M : ss[k] \in SheetsKnown
  BY ListProperties
<1>3. n + 1 \in n + 1..N /\ n + 1 \in 1..N /\ n \in Nat
  BY <1>2
<1>4. h[n + 1] \in 1..M /\ ss[h[n + 1]].ID = list[n + 1]
  BY <1>1, <1>3
<1>5. /\ q \in 1..M /\ q # 0 /\ ss[q].ID = list[n + 1]
      /\ q <= h[n + 1]
  BY <1>4, FirstWithProperties
<1> HIDE DEF q
<1>6. ss[q].ExtID = e
  <2>1. ss[q] \in SheetsKnown /\ list[n + 1][1] = e
    BY <1>2, <1>3, <1>5
  <2> QED  BY <1>5, <2>1, SheetsHaveAuthors
<1>7. q = h[n + 1]
  <2>1. PICK i \in n + 1..N : h[i] = q
    BY <1>1, <1>5, <1>6
  <2>2. i = n + 1 \/ n + 1 < i
    BY <1>2, <1>3
  <2>3. n + 1 < i => h[n + 1] < h[i]
    BY <1>1, <1>3
  <2> QED  BY <1>2, <1>4, <1>5, <2>1, <2>2, <2>3
<1>8. /\ Len(tt) = M - 1
      /\ \A k \in 1..M - 1 : tt[k] = IF k < q THEN ss[k] ELSE ss[k + 1]
  BY <1>5, RemoveAtProperties
<1> HIDE DEF tt, M, N
<1>9. \A i \in n + 1 + 1..N : /\ i \in n + 1..N /\ h[i] \in 1..M /\ q < h[i]
                              /\ h[i] - 1 \in 1..M - 1 /\ ~(h[i] - 1 < q) /\ h[i] - 1 + 1 = h[i]
  <2> SUFFICES ASSUME NEW i \in n + 1 + 1..N
               PROVE  /\ i \in n + 1..N /\ h[i] \in 1..M /\ q < h[i]
                      /\ h[i] - 1 \in 1..M - 1 /\ ~(h[i] - 1 < q) /\ h[i] - 1 + 1 = h[i]
    OBVIOUS
  <2>1. i \in n + 1..N /\ n + 1 < i
    BY <1>2, <1>3
  <2>2. h[i] \in 1..M /\ h[n + 1] < h[i]
    BY <1>1, <1>3, <2>1
  <2> QED  BY <1>2, <1>5, <1>7, <2>1, <2>2
<1> DEFINE g == [i \in n + 1 + 1..N |-> h[i] - 1]
<1>10. g \in [n + 1 + 1..N -> 1..M - 1]
  BY <1>9
<1>11. \A i \in n + 1 + 1..N : g[i] = h[i] - 1
  OBVIOUS
<1> HIDE DEF g
<1>12. \A i, j \in n + 1 + 1..N : i < j => g[i] < g[j]
  <2> SUFFICES ASSUME NEW i \in n + 1 + 1..N, NEW j \in n + 1 + 1..N, i < j PROVE g[i] < g[j]
    OBVIOUS
  <2>1. h[i] < h[j] /\ h[i] \in 1..M /\ h[j] \in 1..M
    BY <1>1, <1>9
  <2> QED  BY <1>11, <2>1
<1>13. \A i \in n + 1 + 1..N : tt[g[i]].ID = list[i]
  <2> SUFFICES ASSUME NEW i \in n + 1 + 1..N PROVE tt[g[i]].ID = list[i]
    OBVIOUS
  <2>1. tt[g[i]] = ss[h[i]]
    BY <1>8, <1>9, <1>11
  <2> QED  BY <1>1, <1>9, <2>1
<1>14. ASSUME NEW p \in 1..M - 1, tt[p].ExtID = e PROVE \E i \in n + 1 + 1..N : g[i] = p
  <2> DEFINE o == IF p < q THEN p ELSE p + 1
  <2>1. o \in 1..M /\ o # q /\ tt[p] = ss[o]
    BY <1>2, <1>5, <1>8
  <2>2. PICK i \in n + 1..N : h[i] = o
    BY <1>1, <1>14, <2>1
  <2>3. i # n + 1
    BY <1>7, <2>1, <2>2
  <2>4. i \in n + 1 + 1..N
    BY <1>2, <1>3, <2>3
  <2>5. q < o
    BY <1>9, <2>2, <2>4
  <2>6. o = p + 1 /\ p + 1 - 1 = p
    BY <1>2, <1>5, <2>5
  <2> QED  BY <1>11, <2>2, <2>4, <2>6
<1>15. IsCopy(tt, e, list, n + 1)
  <2>1. /\ g \in [n + 1 + 1..N -> 1..Len(tt)]
        /\ \A i, j \in n + 1 + 1..N : i < j => g[i] < g[j]
        /\ \A i \in n + 1 + 1..N : tt[g[i]].ID = list[i]
        /\ \A p \in 1..Len(tt) : tt[p].ExtID = e => \E i \in n + 1 + 1..N : g[i] = p
    BY <1>8, <1>10, <1>12, <1>13, <1>14
  <2> QED  BY <2>1 DEF IsCopy, N
<1> QED  BY <1>5, <1>6, <1>15 DEF q, tt, M

(* A sheet is added to both lists and to the record of its extension.      *)
LEMMA InjectCSSInv ==
    ASSUME ScriptsInv, InjectCSS
    PROVE  SheetsAgree'
<1>1. PICK e \in active, css \in Sheets :
         /\ sheets' = Registered(sheets, [ID |-> <<e, css>>, ExtID |-> e])
         /\ injectedCSS' = [injectedCSS EXCEPT ![e] = Append(@, <<e, css>>)]
  BY DEF InjectCSS
<1> DEFINE c == [ID |-> <<e, css>>, ExtID |-> e]
           l == sheets
           K == SheetsKnown
           own == Append(l.byExtID[e], c)
           all == Append(l.scripts, c)
           list == injectedCSS[e]
           longer == Append(list, <<e, css>>)
<1>2. e \in Authors /\ <<e, css>> \in Authors \X Sheets
  BY DEF ScriptsInv
<1>3. c \in K /\ c.ExtID = e /\ c.ID = <<e, css>>
  <2>1. c \in K
    BY <1>2, SheetIsKnown
  <2>2. c.ExtID = e /\ c.ID = <<e, css>>
    OBVIOUS
  <2> QED  BY <2>1, <2>2
<1>4. l \in Loaders(K) /\ OwnLists(l) /\ injectedCSS \in [Authors -> Seq(Authors \X Sheets)]
  BY DEF ScriptsInv, SheetsAgree
<1>5. /\ l.scripts \in Seq(K) /\ l.byExtID \in [Authors -> Seq(K)] /\ l.byExtID[e] \in Seq(K)
      /\ list \in Seq(Authors \X Sheets)
  BY <1>2, <1>4, LoaderProperties
<1>6. \A f \in Authors : /\ \A i \in DOMAIN injectedCSS[f] : injectedCSS[f][i][1] = f
                         /\ Ids(l.byExtID[f]) = ToSet(injectedCSS[f])
                         /\ IsCopy(l.scripts, f, injectedCSS[f], 0)
  BY DEF ScriptsInv, SheetsAgree
<1>7. sheets' = [scripts |-> all, byExtID |-> [l.byExtID EXCEPT ![e] = own]]
  BY <1>1, <1>3 DEF Registered
<1>8. injectedCSS' = [injectedCSS EXCEPT ![e] = longer]
  BY <1>1
<1>9. /\ own \in Seq(K) /\ ToSet(own) = ToSet(l.byExtID[e]) \cup {c}
      /\ all \in Seq(K)
      /\ longer \in Seq(Authors \X Sheets) /\ ToSet(longer) = ToSet(list) \cup {<<e, css>>}
  <2> HIDE DEF c, K, list
  <2>1. own \in Seq(K) /\ all \in Seq(K)
    BY <1>3, <1>5, AppendProperties
  <2>2. longer \in Seq(Authors \X Sheets)
    BY <1>2, <1>5, AppendProperties
  <2>3. ToSet(own) = ToSet(l.byExtID[e]) \cup {c}
    BY <1>3, <1>5, AppendedElements
  <2>4. ToSet(longer) = ToSet(list) \cup {<<e, css>>}
    BY <1>2, <1>5, AppendedElements
  <2> QED  BY <2>1, <2>2, <2>3, <2>4
<1>10. IsCopy(all, e, longer, 0)
  <2>1. IsCopy(l.scripts, e, list, 0)
    BY <1>2, <1>6
  <2> QED  BY <1>2, <1>5, <2>1, CopyExtended
<1>11. ASSUME NEW f \in Authors, f # e PROVE IsCopy(all, f, injectedCSS[f], 0)
  <2>1. IsCopy(l.scripts, f, injectedCSS[f], 0) /\ c.ExtID # f
    BY <1>3, <1>6, <1>11
  <2> HIDE DEF c
  <2> QED  BY <1>3, <1>5, <2>1, CopyBeside
<1> HIDE DEF own, all, longer, c
<1>12. /\ sheets'.scripts = all /\ sheets'.byExtID[e] = own
       /\ \A f \in Authors \ {e} : sheets'.byExtID[f] = l.byExtID[f]
       /\ injectedCSS'[e] = longer
       /\ \A f \in Authors \ {e} : injectedCSS'[f] = injectedCSS[f]
  BY <1>2, <1>4, <1>5, <1>7, <1>8
<1>13. sheets' \in Loaders(K) /\ injectedCSS' \in [Authors -> Seq(Authors \X Sheets)]
  BY <1>2, <1>4, <1>5, <1>7, <1>8, <1>9 DEF Loaders
<1>14. OwnLists(sheets')
  <2>1. \A s \in ToSet(own) : s.ExtID = e
    BY <1>2, <1>3, <1>4, <1>9 DEF OwnLists
  <2> QED  BY <1>4, <1>12, <2>1 DEF OwnLists
<1>15. Ids(own) = ToSet(longer)
  <2>1. Ids(own) = Ids(l.byExtID[e]) \cup {c.ID}
    BY <1>9 DEF Ids
  <2> QED  BY <1>2, <1>3, <1>6, <1>9, <2>1
<1>16. \A i \in DOMAIN longer : longer[i][1] = e
  <2>1. \A x \in ToSet(longer) : x[1] = e
    BY <1>2, <1>6, <1>9 DEF ToSet
  <2> QED  BY <2>1 DEF ToSet
<1>17. ASSUME NEW f \in Authors
       PROVE  /\ \A i \in DOMAIN injectedCSS'[f] : injectedCSS'[f][i][1] = f
              /\ Ids(sheets'.byExtID[f]) = ToSet(injectedCSS'[f])
              /\ IsCopy(sheets'.scripts, f, injectedCSS'[f], 0)
  <2>1. CASE f = e
    BY <1>10, <1>12, <1>15, <1>16, <2>1
  <2>2. CASE f # e
    BY <1>6, <1>11, <1>12, <2>2
  <2> QED  BY <2>1, <2>2
<1> QED  BY <1>13, <1>14, <1>17 DEF SheetsAgree, OwnLists, Loaders, IsCopy, Ids

(* RemoveCSS removes one script for every id of the record.                *)
AreRemovals(f, v, list, T) ==
    /\ f[0] = v /\ RemoveScripts(v, list) = f[Len(list)]
    /\ \A n \in 0..Len(list) : f[n] \in Loaders(T) /\ OwnLists(f[n])
    /\ \A n \in 1..Len(list) : f[n] = RemoveScript(f[n - 1], list[n])

LEMMA RemovalSteps ==
    ASSUME NEW T, NEW v \in Loaders(T), \A s \in T : s.ExtID \in Authors, OwnLists(v),
           NEW I, NEW list \in Seq(I)
    PROVE  \E f : AreRemovals(f, v, list, T)
<1> DEFINE N == Len(list)
<1>0. N \in Nat
  BY ListProperties
<1> DEFINE V == {l \in Loaders(T) : OwnLists(l)}
           step == [n \in 1..N |-> [x \in V |-> RemoveScript(x, list[n])]]
           Upon(f) == [n \in 0..N |-> IF n = 0 THEN v ELSE RemoveScript(f[n - 1], list[n])]
<1>1. v \in V
  OBVIOUS
<1>2. ASSUME NEW x \in V, NEW n \in 1..N PROVE RemoveScript(x, list[n]) \in V
  <2>1. RemoveScript(x, list[n]) \in Loaders(T) /\ OwnLists(RemoveScript(x, list[n]))
    BY RemoveScriptProperties
  <2> QED  BY <2>1
<1>3. \A x \in V, n \in 1..N : step[n][x] = RemoveScript(x, list[n])
  OBVIOUS
<1>4. PICK f : IsRun(f, v, step, N, V)
  <2> HIDE DEF V, step
  <2>1. StaysIn(step, N, V)
    BY <1>2, <1>3 DEF StaysIn
  <2> QED  BY <1>1, <2>1, DefinedUpTo
<1>5. ASSUME NEW n \in 1..N PROVE f[n] = RemoveScript(f[n - 1], list[n])
  <2>1. n - 1 \in 0..N
    OBVIOUS
  <2> HIDE DEF step, V
  <2>2. f[n - 1] \in V /\ f[n] = step[n][f[n - 1]]
    BY <1>4, <2>1 DEF IsRun
  <2> QED  BY <1>3, <2>2
<1>6. f = Upon(f)
  <2>1. \A n \in 0..N : n # 0 => n \in 1..N
    OBVIOUS
  <2>2. f[0] = v /\ f = [n \in 0..N |-> f[n]]
    BY <1>4 DEF IsRun
  <2>3. \A n \in 0..N : f[n] = Upon(f)[n]
    BY <1>5, <2>1, <2>2
  <2> QED  BY <2>2, <2>3
<1> DEFINE F == CHOOSE g : g = Upon(g)
<1>7. F = Upon(F)
  <2> HIDE DEF Upon
  <2> QED  BY <1>6
<1>8. RemoveScripts(v, list) = F[N]
  BY DEF RemoveScripts
<1> HIDE DEF F, N
<1>9. /\ F[0] = v
      /\ \A n \in 1..N : F[n] = RemoveScript(F[n - 1], list[n])
  <2>1. 0 \in 0..N /\ \A n \in 1..N : n # 0 /\ n \in 0..N
    BY <1>0
  <2>2. F[0] = Upon(F)[0] /\ \A n \in 1..N : F[n] = Upon(F)[n]
    BY <1>7
  <2> QED  BY <2>1, <2>2
<1>10. \A n \in 0..N : F[n] \in V
  <2> DEFINE P == {n \in 0..N : F[n] \in V}
  <2>1. 0 \in P
    <3>1. 0 \in 0..N
      BY <1>0
    <3> HIDE DEF V
    <3> QED  BY <3>1, <1>1, <1>9
  <2>2. ASSUME NEW n \in 1..N, n - 1 \in P PROVE n \in P
    <3>1. n \in 0..N /\ F[n - 1] \in V
      BY <2>2
    <3> HIDE DEF V
    <3> QED  BY <1>2, <1>9, <3>1
  <2> HIDE DEF P
  <2>3. \A n \in 0..N : n \in P
    BY <1>0, <2>1, <2>2, AllUpTo
  <2> QED  BY <2>3 DEF P
<1>11. AreRemovals(F, v, list, T)
  BY <1>8, <1>9, <1>10 DEF N, AreRemovals
<1> QED  BY <1>11

(* What is left when the first n sheets of e's record have been removed.   *)
SheetsLeft(r, e, n) ==
    /\ IsCopy(r.scripts, e, injectedCSS[e], n)
    /\ \A f \in Authors \ {e} : /\ IsCopy(r.scripts, f, injectedCSS[f], 0)
                                /\ r.byExtID[f] = sheets.byExtID[f]
    /\ \A s \in ToSet(r.byExtID[e]) : /\ s \in ToSet(sheets.byExtID[e])
                                      /\ \A k \in 1..n : s.ID # injectedCSS[e][k]

LEMMA RemovalStep ==
    ASSUME SheetsAgree, NEW e \in Authors, NEW n \in 0..Len(injectedCSS[e]) - 1,
           NEW r \in Loaders(SheetsKnown), OwnLists(r), SheetsLeft(r, e, n)
    PROVE  SheetsLeft(RemoveScript(r, injectedCSS[e][n + 1]), e, n + 1)
<1> DEFINE list == injectedCSS[e]
           id == list[n + 1]
           q == FirstWith(r.scripts, id)
           x == RemoveScript(r, id)
           ss == r.scripts
<1>1. /\ ss \in Seq(SheetsKnown) /\ list \in Seq(Authors \X Sheets) /\ DOMAIN list = 1..Len(list)
      /\ \A f \in Authors : \A i \in 1..Len(injectedCSS[f]) : injectedCSS[f][i][1] = f
  <2>1. \A f \in Authors : injectedCSS[f] \in Seq(Authors \X Sheets)
    BY DEF SheetsAgree
  <2>2. \A f \in Authors : DOMAIN injectedCSS[f] = 1..Len(injectedCSS[f])
    BY <2>1, ListProperties
  <2> QED  BY <2>1, <2>2, LoaderProperties DEF SheetsAgree
<1>2. /\ q \in 1..Len(ss) /\ q # 0 /\ ss[q].ExtID = e
      /\ IsCopy(RemoveAt(ss, q), e, list, n + 1)
  <2>1. IsCopy(ss, e, list, n)
    BY DEF SheetsLeft
  <2>2. \A i \in 1..Len(list) : list[i][1] = e
    BY <1>1
  <2>3. n \in 0..Len(list) - 1
    OBVIOUS
  <2> HIDE DEF list
  <2> QED  BY <1>1, <2>1, <2>2, <2>3, CopyCut
<1>3. /\ x.scripts = RemoveAt(ss, q)
      /\ ToSet(x.byExtID[e]) = {s \in ToSet(r.byExtID[e]) : s.ID # id}
      /\ \A f \in Authors \ {e} : x.byExtID[f] = r.byExtID[f]
  <2>1. \A s \in SheetsKnown : s.ExtID \in Authors
    BY SheetsHaveAuthors
  <2> HIDE DEF id
  <2> QED  BY <1>2, <2>1, RemoveScriptProperties
<1> HIDE DEF x, q
<1>4. ASSUME NEW f \in Authors \ {e}
      PROVE  IsCopy(x.scripts, f, injectedCSS[f], 0) /\ x.byExtID[f] = sheets.byExtID[f]
  <2>1. IsCopy(ss, f, injectedCSS[f], 0) /\ r.byExtID[f] = sheets.byExtID[f]
    BY DEF SheetsLeft
  <2>2. \A i \in 1..Len(injectedCSS[f]) : injectedCSS[f][i][1] = f
    BY <1>1
  <2>3. ss[q].ExtID # f
    BY <1>2
  <2> HIDE DEF ss
  <2>4. IsCopy(RemoveAt(ss, q), f, injectedCSS[f], 0)
    BY <1>1, <1>2, <2>1, <2>2, <2>3, CopyUntouched
  <2> QED  BY <1>3, <2>1, <2>4
<1>5. ASSUME NEW s \in ToSet(x.byExtID[e])
      PROVE  s \in ToSet(sheets.byExtID[e]) /\ \A k \in 1..n + 1 : s.ID # list[k]
  <2>1. s \in ToSet(r.byExtID[e]) /\ s.ID # id
    BY <1>3
  <2>2. s \in ToSet(sheets.byExtID[e]) /\ \A k \in 1..n : s.ID # list[k]
    BY <2>1 DEF SheetsLeft
  <2>3. \A k \in 1..n + 1 : k \in 1..n \/ k = n + 1
    OBVIOUS
  <2> QED  BY <2>1, <2>2, <2>3
<1>6. SheetsLeft(x, e, n + 1)
  BY <1>2, <1>3, <1>4, <1>5 DEF SheetsLeft
<1> QED  BY <1>6 DEF x

(* RemoveCSS takes back all sheets of an extension and no others.          *)
LEMMA RemoveCSSInv ==
    ASSUME ScriptsInv, RemoveCSS
    PROVE  SheetsAgree'
<1> DEFINE K == SheetsKnown
<1>1. PICK e \in active :
         /\ sheets' = RemoveScripts(sheets, injectedCSS[e])
         /\ injectedCSS' = [injectedCSS EXCEPT ![e] = <<>>]
  BY DEF RemoveCSS
<1> DEFINE list == injectedCSS[e]
           N == Len(list)
<1>2. e \in Authors /\ SheetsAgree
  BY DEF ScriptsInv
<1>3. /\ sheets \in Loaders(K) /\ OwnLists(sheets) /\ injectedCSS \in [Authors -> Seq(Authors \X Sheets)]
      /\ list \in Seq(Authors \X Sheets) /\ N \in Nat /\ DOMAIN list = 1..N
  <2>1. /\ sheets \in Loaders(K) /\ OwnLists(sheets) /\ injectedCSS \in [Authors -> Seq(Authors \X Sheets)]
        /\ list \in Seq(Authors \X Sheets)
    BY <1>2 DEF SheetsAgree
  <2> QED  BY <2>1, ListProperties
<1>4. PICK R : /\ R[0] = sheets /\ sheets' = R[N]
               /\ \A n \in 0..N : R[n] \in Loaders(K) /\ OwnLists(R[n])
               /\ \A n \in 1..N : R[n] = RemoveScript(R[n - 1], list[n])
  <2>1. \A s \in K : s.ExtID \in Authors
    BY SheetsHaveAuthors
  <2>2. sheets' = RemoveScripts(sheets, list)
    BY <1>1
  <2> HIDE DEF K, N, list
  <2>3. PICK R : AreRemovals(R, sheets, list, K)
    BY <1>3, <2>1, RemovalSteps
  <2> QED  BY <2>2, <2>3 DEF AreRemovals, N
<1> DEFINE P == {n \in 0..N : SheetsLeft(R[n], e, n)}
<1>5. 0 \in P
  <2>1. 0 \in 0..N /\ 1..0 = {}
    BY <1>3
  <2>2. SheetsLeft(sheets, e, 0)
    BY <1>2, <2>1 DEF SheetsLeft, SheetsAgree
  <2> QED  BY <1>4, <2>1, <2>2
<1>6. ASSUME NEW n \in 1..N, n - 1 \in P PROVE n \in P
  <2>1. n - 1 \in 0..N - 1 /\ n - 1 \in 0..N /\ n - 1 + 1 = n /\ n \in 0..N
    BY <1>3
  <2>2. R[n - 1] \in Loaders(K) /\ OwnLists(R[n - 1]) /\ SheetsLeft(R[n - 1], e, n - 1)
    BY <1>4, <1>6, <2>1
  <2>3. SheetsLeft(RemoveScript(R[n - 1], list[n - 1 + 1]), e, n - 1 + 1)
    BY <1>2, <2>1, <2>2, RemovalStep
  <2>4. SheetsLeft(R[n], e, n)
    BY <1>4, <2>1, <2>3
  <2> QED  BY <2>1, <2>4
<1>7. SheetsLeft(sheets', e, N)
  <2>1. \A n \in 0..N : n \in P
    <3> HIDE DEF P, N
    <3> QED  BY <1>3, <1>5, <1>6, AllUpTo
  <2>2. N \in 0..N
    BY <1>3
  <2> QED  BY <1>4, <2>1, <2>2
<1> HIDE DEF P
<1>8. sheets' \in Loaders(K) /\ OwnLists(sheets')
  <2>1. N \in 0..N
    BY <1>3
  <2> QED  BY <1>4, <2>1
<1>9. /\ injectedCSS'[e] = <<>> /\ \A f \in Authors \ {e} : injectedCSS'[f] = injectedCSS[f]
      /\ injectedCSS' \in [Authors -> Seq(Authors \X Sheets)]
  BY <1>1, <1>2, <1>3
<1>10. ASSUME NEW f \in Authors \ {e}
       PROVE  /\ \A i \in DOMAIN injectedCSS'[f] : injectedCSS'[f][i][1] = f
              /\ Ids(sheets'.byExtID[f]) = ToSet(injectedCSS'[f])
              /\ IsCopy(sheets'.scripts, f, injectedCSS'[f], 0)
  <2>1. IsCopy(sheets'.scripts, f, injectedCSS[f], 0) /\ sheets'.byExtID[f] = sheets.byExtID[f]
    BY <1>7 DEF SheetsLeft
  <2>2. /\ \A i \in DOMAIN injectedCSS[f] : injectedCSS[f][i][1] = f
        /\ Ids(sheets.byExtID[f]) = ToSet(injectedCSS[f])
    BY <1>2 DEF SheetsAgree
  <2> QED  BY <1>9, <2>1, <2>2
<1>11. /\ \A i \in DOMAIN injectedCSS'[e] : injectedCSS'[e][i][1] = e
       /\ Ids(sheets'.byExtID[e]) = ToSet(injectedCSS'[e])
       /\ IsCopy(sheets'.scripts, e, injectedCSS'[e], 0)
  <2>1. ASSUME NEW s \in ToSet(sheets'.byExtID[e]) PROVE FALSE
    <3>1. s \in ToSet(sheets.byExtID[e]) /\ \A k \in 1..N : s.ID # list[k]
      BY <1>7 DEF SheetsLeft
    <3>2. s.ID \in ToSet(list)
      BY <1>2, <3>1 DEF SheetsAgree, Ids
    <3> QED  BY <1>3, <3>1, <3>2 DEF ToSet
  <2>2. ToSet(sheets'.byExtID[e]) = {}
    BY <2>1
  <2>3. Ids(sheets'.byExtID[e]) = {}
    BY <2>2 DEF Ids
  <2>4. DOMAIN <<>> = {} /\ Len(<<>>) = 0 /\ ToSet(<<>>) = {}
    BY DEF ToSet
  <2>5. IsCopy(sheets'.scripts, e, <<>>, 0)
    <3>1. ASSUME NEW p \in 1..Len(sheets'.scripts), sheets'.scripts[p].ExtID = e PROVE FALSE
      <4>1. N + 1..N = {}
        BY <1>3
      <4>2. IsCopy(sheets'.scripts, e, list, N)
        BY <1>7 DEF SheetsLeft
      <4>3. \E i \in N + 1..N : TRUE
        BY <3>1, <4>2 DEF IsCopy
      <4> QED  BY <4>1, <4>3
    <3>2. 0 + 1..Len(<<>>) = {}
      BY <2>4
    <3> DEFINE h == [i \in {} |-> 1]
    <3>3. h \in [{} -> 1..Len(sheets'.scripts)]
      OBVIOUS
    <3> HIDE DEF h
    <3> QED  BY <3>1, <3>2, <3>3 DEF IsCopy
  <2> QED  BY <1>9, <2>3, <2>4, <2>5
<1>12. \A f \in Authors : /\ \A i \in DOMAIN injectedCSS'[f] : injectedCSS'[f][i][1] = f
                          /\ Ids(sheets'.byExtID[f]) = ToSet(injectedCSS'[f])
                          /\ IsCopy(sheets'.scripts, f, injectedCSS'[f], 0)
  BY <1>10, <1>11
<1> QED  BY <1>8, <1>9, <1>12 DEF SheetsAgree, OwnLists, Loaders, IsCopy, Ids

-----------------------------------------------------------------------------
(* The inductive invariant of the content scripts holds.                   *)
LEMMA ScriptsInvStep ==
    ASSUME ScriptsInv, [ScriptsNext]_scriptVars
    PROVE  ScriptsInv'
<1> DEFINE Where == active \subseteq hosted /\ hosted \subseteq Authors
<1>1. Where /\ RegistryAgrees /\ SheetsAgree /\ SandboxesAreKnown
  BY DEF ScriptsInv
<1>2. UNCHANGED <<sheets, injectedCSS>> => SheetsAgree'
  <2> SUFFICES ASSUME UNCHANGED <<sheets, injectedCSS>> PROVE SheetsAgree'
    OBVIOUS
  <2>1. sheets' = sheets /\ injectedCSS' = injectedCSS
    OBVIOUS
  <2> QED  BY <1>1, <2>1 DEF SheetsAgree
<1>3. UNCHANGED <<hosted, registry>> => RegistryAgrees'
  BY <1>1 DEF RegistryAgrees, OwnLists
<1>4. UNCHANGED <<page, perTab>> => SandboxesAreKnown'
  BY <1>1 DEF SandboxesAreKnown, perTab
<1>5. UNCHANGED <<hosted, active>> => Where'
  BY <1>1
<1>6. CASE Hosted
  BY <1>2, <1>4, <1>6, HostedInv DEF Hosted, ScriptsInv
<1>7. CASE Toggled
  BY <1>1, <1>2, <1>3, <1>4, <1>7 DEF Toggled, ScriptsInv
<1>8. CASE Removed
  BY <1>2, <1>4, <1>8, RemovedInv DEF Removed, ScriptsInv
<1>9. CASE UnregisterContentScripts
  BY <1>2, <1>4, <1>5, <1>9, UnregisterInv DEF UnregisterContentScripts, ScriptsInv
<1>10. CASE InjectCSS
  BY <1>3, <1>4, <1>5, <1>10, InjectCSSInv DEF InjectCSS, ScriptsInv
<1>11. CASE RemoveCSS
  <2>1. UNCHANGED <<hosted, active, registry, page, perTab>>
    BY <1>11 DEF RemoveCSS
  <2> QED  BY <1>3, <1>4, <1>5, <1>11, <2>1, RemoveCSSInv DEF ScriptsInv
<1>12. CASE Navigate
  <2>1. UNCHANGED <<hosted, active, registry, sheets, injectedCSS>>
    BY <1>12 DEF Navigate
  <2> QED  BY <1>2, <1>3, <1>5, <1>12, <2>1, NavigateInv DEF ScriptsInv
<1>13. CASE ShowPage
  <2>1. PICK t \in Views, url \in Addresses : page' = [page EXCEPT ![t] = url]
    BY <1>13 DEF ShowPage
  <2>2. UNCHANGED <<hosted, active, registry, sheets, injectedCSS, perTab>>
    BY <1>13 DEF ShowPage
  <2>3. SandboxesAreKnown'
    BY <1>1, <2>1, <2>2 DEF SandboxesAreKnown, perTab
  <2> QED  BY <1>2, <1>3, <1>5, <2>2, <2>3 DEF ScriptsInv
<1>14. CASE CloseView
  BY <1>1, <1>2, <1>3, <1>5, <1>14, CloseViewInv DEF CloseView, ScriptsInv
<1>15. CASE UNCHANGED scriptVars
  BY <1>2, <1>3, <1>4, <1>5, <1>15 DEF scriptVars, perTab, ScriptsInv
<1> QED
  BY <1>6, <1>7, <1>8, <1>9, <1>10, <1>11, <1>12, <1>13, <1>14, <1>15 DEF ScriptsNext

LEMMA ScriptsStart == ScriptsInit => ScriptsInv
<1> SUFFICES ASSUME ScriptsInit PROVE ScriptsInv
  OBVIOUS
<1>1. \A T : <<>> \in Seq(T)
  OBVIOUS
<1>2. ToSet(<<>>) = {} /\ Len(<<>>) = 0 /\ DOMAIN <<>> = {} /\ 0 + 1..0 = {} /\ 1..0 = {}
  BY DEF ToSet
<1>3. /\ NewLoader.scripts = <<>> /\ \A e \in Authors : NewLoader.byExtID[e] = <<>>
      /\ \A T : NewLoader \in Loaders(T)
  BY <1>1 DEF NewLoader, Loaders
<1>4. Ids(<<>>) = {}
  BY <1>2 DEF Ids
<1>5. ASSUME NEW e PROVE IsCopy(<<>>, e, <<>>, 0)
  <2> DEFINE h == [i \in {} |-> 1]
  <2>1. h \in [{} -> {}]
    OBVIOUS
  <2> HIDE DEF h
  <2> QED  BY <1>2, <2>1 DEF IsCopy
<1>6. registry = NewLoader /\ sheets = NewLoader /\ hosted = {} /\ active = {}
  BY DEF ScriptsInit
<1>7. RegistryAgrees
  BY <1>2, <1>3, <1>6 DEF RegistryAgrees, OwnLists
<1>8. SheetsAgree
  <2>1. injectedCSS = [e \in Authors |-> <<>>]
    BY DEF ScriptsInit
  <2>2. injectedCSS \in [Authors -> Seq(Authors \X Sheets)] /\ \A e \in Authors : injectedCSS[e] = <<>>
    BY <1>1, <2>1
  <2> QED  BY <1>2, <1>3, <1>4, <1>5, <1>6, <2>2 DEF SheetsAgree, OwnLists
<1>9. SandboxesAreKnown
  BY DEF ScriptsInit, SandboxesAreKnown
<1> QED  BY <1>6, <1>7, <1>8, <1>9 DEF ScriptsInv

LEMMA ScriptsHold == ScriptsInv => ScriptsTypeOK /\ ScriptsRunOnce
<1> SUFFICES ASSUME ScriptsInv PROVE ScriptsTypeOK /\ ScriptsRunOnce
  OBVIOUS
<1>1. ScriptsTypeOK
  BY DEF ScriptsInv, RegistryAgrees, SheetsAgree, OwnLists, SandboxesAreKnown, ScriptsTypeOK
<1>2. \A e \in Authors : /\ Ids(registry.byExtID[e]) \subseteq Ids(registry.scripts)
                         /\ e \notin hosted => e \notin {s.ExtID : s \in ToSet(registry.scripts)}
                         /\ Ids(sheets.byExtID[e]) = ToSet(injectedCSS[e])
  BY DEF ScriptsInv, RegistryAgrees, SheetsAgree, Ids
<1>3. Ids(sheets.scripts) = UNION {ToSet(injectedCSS[e]) : e \in Authors}
  <2> DEFINE ss == sheets.scripts
  <2>1. /\ DOMAIN ss = 1..Len(ss) /\ \A p \in 1..Len(ss) : ss[p].ExtID \in Authors
    <3>1. sheets \in Loaders(SheetsKnown)
      BY DEF ScriptsInv, SheetsAgree
    <3>2. DOMAIN ss = 1..Len(ss) /\ \A p \in 1..Len(ss) : ss[p] \in SheetsKnown
      BY <3>1, LoaderProperties
    <3> QED  BY <3>2, SheetsHaveAuthors
  <2>2. \A e \in Authors : IsCopy(ss, e, injectedCSS[e], 0)
    BY DEF ScriptsInv, SheetsAgree
  <2>3. \A e \in Authors : DOMAIN injectedCSS[e] = 0 + 1..Len(injectedCSS[e])
    <3>1. \A e \in Authors : injectedCSS[e] \in Seq(Authors \X Sheets)
      BY DEF ScriptsInv, SheetsAgree
    <3> QED  BY <3>1, ListProperties
  <2> HIDE DEF ss
  <2>4. ASSUME NEW p \in 1..Len(ss) PROVE ss[p].ID \in UNION {ToSet(injectedCSS[e]) : e \in Authors}
    <3>1. PICK e \in Authors : e = ss[p].ExtID
      BY <2>1
    <3> DEFINE list == injectedCSS[e]
    <3>2. IsCopy(ss, e, list, 0) /\ DOMAIN list = 0 + 1..Len(list)
      BY <2>2, <2>3
    <3> HIDE DEF list
    <3>3. \E i \in DOMAIN list : ss[p].ID = list[i]
      BY <3>1, <3>2 DEF IsCopy
    <3> QED  BY <3>3 DEF ToSet, list
  <2>5. ASSUME NEW e \in Authors, NEW i \in DOMAIN injectedCSS[e] PROVE injectedCSS[e][i] \in Ids(ss)
    <3> DEFINE list == injectedCSS[e]
    <3>1. IsCopy(ss, e, list, 0) /\ i \in 0 + 1..Len(list)
      BY <2>2, <2>3
    <3> HIDE DEF list
    <3>2. \E p \in 1..Len(ss) : ss[p].ID = list[i]
      BY <3>1 DEF IsCopy
    <3> QED  BY <2>1, <3>2 DEF Ids, ToSet, list
  <2>6. Ids(ss) \subseteq UNION {ToSet(injectedCSS[e]) : e \in Authors}
    BY <2>1, <2>4 DEF Ids, ToSet
  <2>7. UNION {ToSet(injectedCSS[e]) : e \in Authors} \subseteq Ids(ss)
    BY <2>5 DEF ToSet
  <2> QED  BY <2>6, <2>7 DEF ss
<1>4. \A t \in Views : injected[t] \subseteq begun[t] /\ again[t] \subseteq excused[t]
  BY DEF ScriptsInv, SandboxesAreKnown
<1> QED  BY <1>1, <1>2, <1>3, <1>4 DEF ScriptsRunOnce

(* No script runs twice in a tab without a failure or a closing between,   *)
(* and the loader's two copies, the records of style sheets and what is    *)
(* installed agree, for every manifest and any order of calls.             *)
THEOREM PagesGetScriptsOnce == ScriptsSpec => []ScriptsRunOnce
<1>1. ScriptsInv /\ [ScriptsNext]_scriptVars => ScriptsInv'
  BY ScriptsInvStep
<1>2. ScriptsInv => ScriptsRunOnce
  BY ScriptsHold
<1> QED  BY <1>1, <1>2, ScriptsStart, PTL DEF ScriptsSpec

-----------------------------------------------------------------------------
(* The parts of the run together.  Of the manager's records there are left *)
(* the times of directories, what was discovered and the lazy loader.      *)
LazyStates == {"Unregistered", "NotLoaded", "Loading", "Loaded"}

DirectoriesInv ==
    /\ mtime \in [Exts -> 0..MaxEdits] /\ discovered \subseteq Exts
    /\ lazy \in [Exts -> LazyStates]

(* The last of a set of times is one of them.                              *)
LEMMA LastTime ==
    ASSUME NEW N \in Nat, NEW S \in SUBSET (0..N), S # {}
    PROVE  Max(S) \in S
<1> DEFINE R == {N - m : m \in S}
<1>1. R \in SUBSET Nat /\ R # {}
  <2>1. \A m \in S : N - m \in Nat
    OBVIOUS
  <2>2. PICK m : m \in S
    OBVIOUS
  <2>3. N - m \in R
    BY <2>2
  <2> QED  BY <2>1, <2>3
<1> HIDE DEF R
<1>2. PICK d \in R : \A r \in R : d <= r
  BY <1>1, LeastElement
<1>3. PICK m \in S : d = N - m
  BY <1>2 DEF R
<1>4. \A x \in S : x <= m
  <2> SUFFICES ASSUME NEW x \in S PROVE x <= m
    OBVIOUS
  <2>1. N - x \in R
    BY DEF R
  <2>2. d <= N - x /\ x \in Int /\ m \in Int
    BY <1>2, <2>1
  <2> QED  BY <1>3, <2>2
<1>5. \E x \in S : \A y \in S : y <= x
  BY <1>4
<1> QED  BY <1>5 DEF Max

LEMMA ExtractedTimes ==
    ASSUME DirectoriesInv, NEW e \in Exts, NEW manifest, Extracted(e, manifest)
    PROVE  mtime' \in [Exts -> 0..MaxEdits] /\ discovered' = discovered
<1> DEFINE S == {mtime[x] : x \in Exts}
<1>1. MaxEdits \in Nat
  BY ManagerAssumption DEF ManagerAssumption
<1>2. S \in SUBSET (0..MaxEdits) /\ S # {}
  BY DEF DirectoriesInv
<1>3. clock = Max(S)
  BY DEF clock
<1> HIDE DEF S
<1>4. clock \in 0..MaxEdits
  BY <1>1, <1>2, <1>3, LastTime
<1>5. clock + 1 \in 0..MaxEdits
  BY <1>1, <1>4 DEF Extracted
<1> QED  BY <1>5 DEF Extracted, DirectoriesInv

LEMMA DirectoriesKeep ==
    ASSUME DirectoriesInv, [ManagerNext]_managerVars
    PROVE  DirectoriesInv'
<1>1. UNCHANGED <<mtime, discovered, lazy>> => DirectoriesInv'
  BY DEF DirectoriesInv
<1>2. CASE Enable \/ Disable \/ Reload
  BY <1>1, <1>2 DEF Enable, Disable, Reload, stored, tools
<1>3. CASE Uninstall
  BY <1>1, <1>3 DEF Uninstall, tools
<1>4. CASE Scan
  <2>1. UNCHANGED <<mtime, lazy>> /\ discovered' \subseteq Exts
    BY <1>4 DEF Scan, tools, DirectoriesInv
  <2> QED  BY <2>1 DEF DirectoriesInv
<1>5. CASE Install \/ DownloadAndUpdate
  <2>1. \E e \in Exts, v \in Versions : Extracted(e, v) /\ UNCHANGED lazy
    <3>1. CASE Install
      BY <3>1 DEF Install, InstallPackage, tools
    <3>2. CASE DownloadAndUpdate
      BY <3>2 DEF DownloadAndUpdate, InstallPackage, tools
    <3> QED  BY <1>5, <3>1, <3>2
  <2> QED  BY <2>1, ExtractedTimes DEF DirectoriesInv
<1>6. CASE ExtractFails \/ WriteFiles
  <2>1. \E e \in Exts, manifest \in Versions \cup {Broken} : Extracted(e, manifest) /\ UNCHANGED lazy
    BY <1>6 DEF ExtractFails, WriteFiles, tools
  <2> QED  BY <2>1, ExtractedTimes DEF DirectoriesInv
<1>7. CASE EnableLazy \/ Unload \/ LoadBegins \/ LoadEnds
  <2>1. UNCHANGED <<mtime, discovered>>
    BY <1>7 DEF EnableLazy, Unload, LoadBegins, LoadEnds, stored
  <2>2. \E e, s : s \in LazyStates /\ lazy' = [lazy EXCEPT ![e] = s]
    <3>1. CASE EnableLazy
      BY <3>1 DEF EnableLazy, LazyStates
    <3>2. CASE Unload
      BY <3>2 DEF Unload, LazyStates
    <3>3. CASE LoadBegins
      BY <3>3 DEF LoadBegins, LazyStates
    <3>4. CASE LoadEnds
      BY <3>4 DEF LoadEnds, LazyStates
    <3> QED  BY <1>7, <3>1, <3>2, <3>3, <3>4
  <2> QED  BY <2>1, <2>2 DEF DirectoriesInv
<1>8. CASE WatchExtension \/ UnwatchExtension \/ Check
  BY <1>1, <1>8 DEF WatchExtension, UnwatchExtension, Check, stored
<1>9. CASE UNCHANGED managerVars
  BY <1>1, <1>9 DEF managerVars, stored, tools
<1> QED
  BY <1>2, <1>3, <1>4, <1>5, <1>6, <1>7, <1>8, <1>9 DEF ManagerNext

LEMMA ManagerTyped == ManagerInv /\ DirectoriesInv => ManagerTypeOK
<1> SUFFICES ASSUME ManagerInv, DirectoriesInv PROVE ManagerTypeOK
  OBVIOUS
<1>1. \A e \in Exts : object[e] = NotInstalled \/ object[e].version \in Versions
  BY DEF ManagerInv, Entries
<1>2. \A e \in Exts : lifecycle[e].on \in BOOLEAN /\ lifecycle[e].state \in {"Disabled", "Enabled"}
  BY DEF ManagerInv, LifecycleRecords
<1>3. \A e \in Exts : {engine[e].vm, engine[e].api, engine[e].worker} \subseteq 0..starts
  BY DEF ManagerInv, Engines
<1>4. \A e \in Exts : \A i \in DOMAIN loader[e] : loader[e][i] \in Versions
  BY ListProperties DEF ManagerInv
<1>5. /\ \A e \in Exts : disk[e] \in Versions \cup {Absent, Broken} /\ mtime[e] \in 0..MaxEdits
      /\ discovered \subseteq Exts /\ starts \in 0..MaxStarts
      /\ \A e \in Exts : lazy[e] \in {"Unregistered", "NotLoaded", "Loading", "Loaded"}
  BY DEF ManagerInv, DirectoriesInv, LazyStates
<1> QED  BY <1>1, <1>2, <1>3, <1>4, <1>5 DEF ManagerTypeOK

(* The sync manager has no more closures out than it was given.            *)
SyncInv ==
    /\ registered \in BOOLEAN /\ callback \in BOOLEAN
    /\ closures \in 0..MaxClosures /\ syncFile \in {"none", "good", "broken"}

LEMMA SyncKeeps ==
    ASSUME SyncInv, [SyncNext]_syncing
    PROVE  SyncInv'
<1>1. MaxClosures \in Nat
  BY ExtensionStorageAssumption DEF ExtensionStorageAssumption
<1>2. CASE RegisterExtension
  BY <1>2 DEF RegisterExtension, SyncInv
<1>3. CASE UnregisterExtension
  BY <1>3 DEF UnregisterExtension, SyncInv
<1>4. CASE SetChangeCallback
  <2>1. PICK accepted \in BOOLEAN : closures' = IF accepted THEN closures + 1 ELSE closures
    BY <1>4 DEF SetChangeCallback
  <2>2. closures' \in 0..MaxClosures
    BY <1>1, <1>4, <2>1 DEF SetChangeCallback, SyncInv
  <2> QED  BY <1>4, <2>2 DEF SetChangeCallback, SyncInv
<1>5. CASE WriteSyncData
  BY <1>5 DEF WriteSyncData, SyncInv
<1>6. CASE UNCHANGED syncing
  BY <1>6 DEF syncing, SyncInv
<1> QED  BY <1>2, <1>3, <1>4, <1>5, <1>6 DEF SyncNext

(* A step of one part leaves the others where they are.                    *)
allVars == <<part, managerVars, connVars, storageVars, syncing, alarmVars, scriptVars>>

LEMMA StepsOfExtensions ==
    ASSUME [Next]_allVars
    PROVE  /\ [ManagerNext]_managerVars /\ [ConnNext]_connVars /\ [StorageNext]_storageVars
           /\ [SyncNext]_syncing /\ [AlarmsNext]_alarmVars /\ [ScriptsNext]_scriptVars
           /\ part' = part
  BY DEF Next, allVars

ExtensionsInv ==
    /\ part \in Parts
    /\ ManagerInv /\ DirectoriesInv /\ ConnInv /\ StorageInv /\ SyncInv /\ AlarmsInv /\ ScriptsInv

(* Whatever the extension system keeps has its type: directories, records, *)
(* engines, calls, partitions, alarms, and the loaders' lists of scripts,  *)
(* each of the extension it is listed under; nothing is recorded in a tab  *)
(* as injected that did not begin.                                         *)
THEOREM ExtensionsTypeCorrect == Spec => []TypeOK
<1>1. Init => ExtensionsInv
  <2> SUFFICES ASSUME Init PROVE ExtensionsInv
    OBVIOUS
  <2>1. ManagerInv /\ ConnInv /\ StorageInv /\ AlarmsInv /\ ScriptsInv /\ part \in Parts
    BY ManagerStart, ConnStart, StorageStart, AlarmsStart, ScriptsStart DEF Init
  <2>2. DirectoriesInv
    BY ManagerAssumption DEF Init, ManagerInit, DirectoriesInv, LazyStates, ManagerAssumption
  <2>3. SyncInv
    <3>1. MaxClosures \in Nat
      BY ExtensionStorageAssumption DEF ExtensionStorageAssumption
    <3>2. registered = FALSE /\ callback = FALSE /\ closures = 0 /\ syncFile = "none"
      BY DEF Init, SyncInit
    <3>3. registered \in BOOLEAN /\ callback \in BOOLEAN
      BY <3>2, Zenon
    <3>4. closures \in 0..MaxClosures /\ syncFile \in {"none", "good", "broken"}
      BY <3>1, <3>2, SMT
    <3> QED  BY <3>3, <3>4, Zenon DEF SyncInv
  <2> QED  BY <2>1, <2>2, <2>3 DEF ExtensionsInv
<1>2. ExtensionsInv /\ [Next]_allVars => ExtensionsInv'
  <2> SUFFICES ASSUME ExtensionsInv, [Next]_allVars PROVE ExtensionsInv'
    OBVIOUS
  <2>1. /\ [ManagerNext]_managerVars /\ [ConnNext]_connVars /\ [StorageNext]_storageVars
        /\ [SyncNext]_syncing /\ [AlarmsNext]_alarmVars /\ [ScriptsNext]_scriptVars /\ part' = part
    BY StepsOfExtensions
  <2>2. /\ part \in Parts /\ ManagerInv /\ DirectoriesInv /\ ConnInv /\ StorageInv /\ SyncInv
        /\ AlarmsInv /\ ScriptsInv
    BY DEF ExtensionsInv
  <2>3. ManagerInv' /\ DirectoriesInv'
    BY <2>1, <2>2, ManagerInvStep, DirectoriesKeep
  <2>4. ConnInv' /\ StorageInv' /\ SyncInv'
    BY <2>1, <2>2, ConnInvStep, StorageInvStep, SyncKeeps
  <2>5. AlarmsInv' /\ ScriptsInv'
    BY <2>1, <2>2, AlarmsInvStep, ScriptsInvStep
  <2>6. part' \in Parts
    BY <2>1, <2>2 DEF Parts
  <2> QED  BY <2>3, <2>4, <2>5, <2>6 DEF ExtensionsInv
<1>3. ExtensionsInv => TypeOK
  <2> SUFFICES ASSUME ExtensionsInv PROVE TypeOK
    OBVIOUS
  <2>1. ManagerTypeOK /\ ConnTypeOK /\ ScriptsTypeOK
    BY ManagerTyped, ConnectionTyped, ScriptsHold DEF ExtensionsInv
  <2>2. AlarmsTypeOK
    BY DEF ExtensionsInv, AlarmsInv, AlarmsTypeOK
  <2>3. StorageTypeOK
    BY DEF ExtensionsInv, StorageInv, SyncInv, StorageTypeOK
  <2> QED  BY <2>1, <2>2, <2>3 DEF ExtensionsInv, TypeOK
<1> QED  BY <1>1, <1>2, <1>3, PTL DEF Spec, allVars
===============================================================================
