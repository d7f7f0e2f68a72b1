---------------------------- MODULE ServicesProofs ----------------------------
(***************************************************************************)
(* Theorems about the services around the pages and the extensions.  Each  *)
(* part has an inductive invariant of its own; as the parts share no state *)
(* and one moves at a time, the sum of MCServices keeps all of them.       *)
(***************************************************************************)
EXTENDS MCServices, FiniteSetTheorems, SequenceTheorems, WellFoundedInduction, TLAPS

(* The index set of a list, and its elements.                              *)
LEMMA ListProperties ==
    ASSUME NEW S, NEW s \in Seq(S)
    PROVE  /\ DOMAIN s = 1 .. Len(s) /\ Len(s) \in Nat
           /\ \A i \in 1 .. Len(s) : s[i] \in S
           /\ s = <<>> <=> Len(s) = 0
  BY LenProperties, ElementOfSeq, EmptySeq

(* A set of naturals has a least element: induction, told of sets.         *)
LEMMA LeastElement ==
    ASSUME NEW S \in SUBSET Nat, S # {}
    PROVE  \E m \in S : \A n \in S : m <= n
<1> DEFINE R == {ss \in Nat \X Nat : ss[1] < ss[2]}
<1>1. IsWellFoundedOn(R, Nat)
  BY NatLessThanWellFounded DEF OpToRel
<1>2. \A m, n \in S : /\ <<n, m>> \in R <=> n < m
                      /\ n < m \/ m <= n
  OBVIOUS
<1> HIDE DEF R
<1>3. \E m \in S : \A n \in S : ~ (<<n, m>> \in R)
  BY <1>1, WFMin
<1> QED BY <1>2, <1>3

(* Max of the community modules, on bounded sets of naturals: the least of *)
(* the upper bounds is one of the set.                                     *)
LEMMA MaxIsGreatest ==
    ASSUME NEW n \in Nat, NEW S \in SUBSET (0..n), S # {}
    PROVE  Max(S) \in S /\ \A m \in S : m <= Max(S)
<1> DEFINE bounds == {k \in Nat : \A m \in S : m <= k}
<1>1. PICK b \in bounds : \A k \in bounds : b <= k
  <2>1. bounds \in SUBSET Nat /\ n \in bounds
    OBVIOUS
  <2> HIDE DEF bounds
  <2> QED BY <2>1, LeastElement
<1>2. b \in S
  <2>1. SUFFICES ASSUME b \notin S PROVE FALSE
    OBVIOUS
  <2>2. PICK s \in S : s <= b /\ s # b
    BY <1>1, <2>1
  <2>3. b - 1 \in bounds
    BY <1>1, <2>1, <2>2
  <2> QED BY <1>1, <2>3
<1>3. \E x \in S : \A y \in S : x >= y
  BY <1>1, <1>2
<1>4. Max(S) \in S /\ \A y \in S : Max(S) >= y
  BY <1>3 DEF Max
<1> QED BY <1>4

(* Induction over a stretch of the naturals, told of sets.                 *)
LEMMA AllUpTo ==
    ASSUME NEW N \in Nat, NEW P, 0 \in P, \A n \in 1..N : n - 1 \in P => n \in P
    PROVE  \A n \in 0..N : n \in P
<1> SUFFICES ASSUME NEW k \in 0..N, k \notin P PROVE FALSE
  OBVIOUS
<1> DEFINE Bad == {n \in 0..N : n \notin P}
<1>1. PICK m \in Bad : \A n \in Bad : m <= n
  <2>1. Bad \in SUBSET Nat /\ Bad # {}
    OBVIOUS
  <2> HIDE DEF Bad
  <2> QED  BY <2>1, LeastElement
<1>2. m \in 1..N /\ m - 1 \in 0..N /\ m \notin P
  BY <1>1
<1>3. m - 1 \notin Bad
  BY <1>1, <1>2
<1> QED  BY <1>2, <1>3

(* A function can be defined by what it is at 0 and by a step from each    *)
(* number to the next.                                                     *)
StaysIn(step, N, V) == \A n \in 1..N : \A x \in V : step[n][x] \in V
IsRun(f, v, step, N, V) == f \in [0..N -> V] /\ f[0] = v /\ \A n \in 1..N : f[n] = step[n][f[n - 1]]

LEMMA DefinedUpTo ==
    ASSUME NEW N \in Nat, NEW V, NEW v \in V, NEW step, StaysIn(step, N, V)
    PROVE  \E f : IsRun(f, v, step, N, V)
<1> DEFINE P == {m \in 0..N : \E f : IsRun(f, v, step, m, V)}
<1>1. 0 \in P
  <2>1. IsRun([n \in 0..0 |-> v], v, step, 0, V)
    BY DEF IsRun
  <2>2. 0 \in 0..N
    OBVIOUS
  <2> QED  BY <2>1, <2>2
<1>2. ASSUME NEW m \in 1..N, m - 1 \in P PROVE m \in P
  <2>1. PICK f : IsRun(f, v, step, m - 1, V)
    BY <1>2
  <2> DEFINE g == [n \in 0..m |-> IF n = m THEN step[m][f[m - 1]] ELSE f[n]]
  <2>2. m \in Nat /\ m >= 1 /\ m - 1 \in 0..m - 1 /\ m \in 0..N
    OBVIOUS
  <2>3. f[m - 1] \in V
    BY <2>1, <2>2 DEF IsRun
  <2>4. step[m][f[m - 1]] \in V
    BY <2>3 DEF StaysIn
  <2>5. \A n \in 0..m : n # m => n \in 0..m - 1
    BY <2>2
  <2>6. g \in [0..m -> V]
    BY <2>1, <2>4, <2>5 DEF IsRun
  <2>7. g[0] = v
    BY <2>1, <2>2 DEF IsRun
  <2>8. ASSUME NEW n \in 1..m PROVE g[n] = step[n][g[n - 1]]
    <3>1. n - 1 \in 0..m /\ n - 1 # m /\ n \in 0..m /\ n - 1 \in 0..m - 1
      BY <2>2
    <3>2. g[n - 1] = f[n - 1]
      BY <3>1
    <3>3. CASE n = m
      BY <3>1, <3>2, <3>3
    <3>4. CASE n # m
      <4>1. n \in 1..m - 1
        BY <2>2, <3>4
      <4>2. g[n] = f[n] /\ f[n] = step[n][f[n - 1]]
        BY <2>1, <3>1, <3>4, <4>1 DEF IsRun
      <4> QED  BY <3>2, <4>2
    <3> QED  BY <3>3, <3>4
  <2> HIDE DEF g
  <2>9. IsRun(g, v, step, m, V)
    BY <2>6, <2>7, <2>8 DEF IsRun
  <2> QED  BY <2>2, <2>9
<1>3. N \in P
  <2> HIDE DEF P
  <2>1. \A n \in 0..N : n \in P
    BY <1>1, <1>2, AllUpTo
  <2> QED  BY <2>1
<1> QED  BY <1>3

(* The list of the elements chosen among the first n.                      *)
LEMMA ChosenSteps ==
    ASSUME NEW T, NEW s \in Seq(T), NEW S
    PROVE  \E f \in [0..Len(s) -> Seq(T)] :
               /\ f[0] = <<>> /\ Chosen(s, S) = f[Len(s)]
               /\ \A n \in 1..Len(s) : f[n] = IF s[n] \in S THEN Append(f[n - 1], s[n]) ELSE f[n - 1]
<1> DEFINE N == Len(s)
           V == Seq(T)
           step == [n \in 1..N |-> [x \in V |-> IF s[n] \in S THEN Append(x, s[n]) ELSE x]]
           Upon(f) == [n \in 0..N |-> IF n = 0 THEN <<>>
                                      ELSE IF s[n] \in S THEN Append(f[n - 1], s[n]) ELSE f[n - 1]]
<1>1. N \in Nat /\ \A n \in 1..N : s[n] \in T
  BY ListProperties
<1>2. <<>> \in V
  OBVIOUS
<1>3. \A x \in V, n \in 1..N : (IF s[n] \in S THEN Append(x, s[n]) ELSE x) \in V
  BY <1>1, AppendProperties
<1>4. \A x \in V, n \in 1..N : step[n][x] = IF s[n] \in S THEN Append(x, s[n]) ELSE x
  OBVIOUS
<1>5. StaysIn(step, N, V)
  <2> HIDE DEF step, V, N
  <2> QED  BY <1>3, <1>4 DEF StaysIn
<1>6. PICK f : IsRun(f, <<>>, step, N, V)
  <2> HIDE DEF N, V, step
  <2> QED  BY <1>1, <1>2, <1>5, DefinedUpTo
<1>7. ASSUME NEW n \in 1..N PROVE f[n] = IF s[n] \in S THEN Append(f[n - 1], s[n]) ELSE f[n - 1]
  <2>1. n - 1 \in 0..N
    BY <1>1
  <2> HIDE DEF step, V, N
  <2>2. f[n - 1] \in V /\ f[n] = step[n][f[n - 1]]
    BY <1>6, <2>1 DEF IsRun
  <2> QED  BY <1>4, <2>2
<1>8. f = Upon(f)
  <2>1. \A n \in 0..N : n # 0 => n \in 1..N
    BY <1>1
  <2>2. f[0] = <<>> /\ f = [n \in 0..N |-> f[n]]
    BY <1>6 DEF IsRun
  <2>3. \A n \in 0..N : f[n] = Upon(f)[n]
    BY <1>7, <2>1, <2>2
  <2> HIDE DEF N
  <2> QED  BY <2>2, <2>3
<1> DEFINE F == CHOOSE g : g = Upon(g)
<1>9. F = Upon(F)
  <2> HIDE DEF Upon
  <2> QED  BY <1>8
<1>10. Chosen(s, S) = F[N]
  BY DEF Chosen
<1> HIDE DEF F
<1>11. /\ F[0] = <<>>
       /\ \A n \in 1..N : F[n] = IF s[n] \in S THEN Append(F[n - 1], s[n]) ELSE F[n - 1]
  <2>1. 0 \in 0..N /\ \A n \in 1..N : n # 0 /\ n \in 0..N
    BY <1>1
  <2>2. F[0] = Upon(F)[0] /\ \A n \in 1..N : F[n] = Upon(F)[n]
    BY <1>9
  <2> QED  BY <2>1, <2>2
<1>12. DOMAIN F = 0..N /\ F = [n \in 0..N |-> F[n]]
  BY <1>9
<1>13. \A n \in 0..N : F[n] \in V
  <2> DEFINE P == {n \in 0..N : F[n] \in V}
  <2>1. 0 \in P
    <3>1. 0 \in 0..N
      BY <1>1
    <3> HIDE DEF V, N
    <3> QED  BY <3>1, <1>2, <1>11
  <2>2. ASSUME NEW n \in 1..N, n - 1 \in P PROVE n \in P
    <3>1. n \in 0..N /\ F[n - 1] \in V
      BY <1>1, <2>2
    <3> HIDE DEF V
    <3> QED  BY <1>3, <1>11, <3>1
  <2> HIDE DEF P
  <2>3. \A n \in 0..N : n \in P
    BY <1>1, <2>1, <2>2, AllUpTo
  <2> QED  BY <2>3 DEF P
<1> HIDE DEF V
<1>14. F \in [0..N -> V]
  BY <1>12, <1>13
<1> QED  BY <1>10, <1>11, <1>14 DEF V

LEMMA AppendedElements ==
    ASSUME NEW T, NEW s \in Seq(T), NEW x \in T
    PROVE  ToSet(Append(s, x)) = ToSet(s) \cup {x}
<1>1. /\ DOMAIN s = 1..Len(s) /\ Len(s) \in Nat
  BY ListProperties
<1>2. /\ Append(s, x) \in Seq(T) /\ Len(Append(s, x)) = Len(s) + 1
      /\ \A i \in 1..Len(s) : Append(s, x)[i] = s[i]
      /\ Append(s, x)[Len(s) + 1] = x
  BY AppendProperties
<1>3. DOMAIN Append(s, x) = 1..Len(s) + 1
  BY <1>2, ListProperties
<1>4. \A i \in 1..Len(s) + 1 : i \in 1..Len(s) \/ i = Len(s) + 1
  BY <1>1
<1>5. 1..Len(s) \subseteq 1..Len(s) + 1 /\ Len(s) + 1 \in 1..Len(s) + 1
  BY <1>1
<1> QED  BY <1>1, <1>2, <1>3, <1>4, <1>5 DEF ToSet

(* Chosen keeps of a list what is in the set, and nothing else.            *)
LEMMA ChosenElements ==
    ASSUME NEW T, NEW s \in Seq(T), NEW S
    PROVE  Chosen(s, S) \in Seq(T) /\ ToSet(Chosen(s, S)) = ToSet(s) \cap S
<1> DEFINE N == Len(s)
           Upto(n) == {s[k] : k \in 1..n}
<1>1. N \in Nat /\ DOMAIN s = 1..N /\ \A n \in 1..N : s[n] \in T
  BY ListProperties
<1>2. PICK f \in [0..N -> Seq(T)] :
          /\ f[0] = <<>> /\ Chosen(s, S) = f[N]
          /\ \A n \in 1..N : f[n] = IF s[n] \in S THEN Append(f[n - 1], s[n]) ELSE f[n - 1]
  BY ChosenSteps
<1> HIDE DEF N
<1> DEFINE P == {n \in 0..N : ToSet(f[n]) = Upto(n) \cap S}
<1>3. 0 \in P
  <2>1. 0 \in 0..N /\ ToSet(f[0]) = {} /\ 1..0 = {}
    BY <1>1, <1>2 DEF ToSet
  <2> QED  BY <2>1
<1>4. ASSUME NEW n \in 1..N, n - 1 \in P PROVE n \in P
  <2>1. n \in 0..N /\ n - 1 \in 0..N /\ s[n] \in T
    BY <1>1
  <2>2. ToSet(f[n - 1]) = Upto(n - 1) \cap S
    BY <1>4
  <2>3. Upto(n) = Upto(n - 1) \cup {s[n]}
    BY <2>1
  <2>4. f[n] = IF s[n] \in S THEN Append(f[n - 1], s[n]) ELSE f[n - 1]
    BY <1>2
  <2>5. ToSet(Append(f[n - 1], s[n])) = ToSet(f[n - 1]) \cup {s[n]}
    <3>1. f[n - 1] \in Seq(T)
      BY <1>2, <2>1
    <3> QED  BY <2>1, <3>1, AppendedElements
  <2>6. ToSet(f[n]) = Upto(n) \cap S
    <3> HIDE DEF Upto
    <3>1. CASE s[n] \in S
      BY <2>2, <2>3, <2>4, <2>5, <3>1
    <3>2. CASE s[n] \notin S
      BY <2>2, <2>3, <2>4, <3>2
    <3> QED  BY <3>1, <3>2
  <2> QED  BY <2>1, <2>6
<1>5. N \in P
  <2> HIDE DEF P
  <2>1. \A n \in 0..N : n \in P
    BY <1>1, <1>3, <1>4, AllUpTo
  <2> QED  BY <1>1, <2>1
<1>6. Upto(N) = ToSet(s)
  BY <1>1 DEF ToSet
<1>7. f[N] \in Seq(T)
  BY <1>1, <1>2
<1> QED  BY <1>2, <1>5, <1>6, <1>7

-----------------------------------------------------------------------------
(* Containers and cookie jars.  A place is a partition of the jar that     *)
(* extensions use, or of the jar of the window.                            *)

BoxesTyped ==
    /\ containers \in [BoxIDs -> BoxNames \cup {NoBox}] /\ onDisk \in [BoxIDs -> BoxNames \cup {NoBox}]
    /\ nextID \in 1..(MaxBoxes + 1)

BoxInv == BoxesTyped /\ ContainersAreOnDisk

LEMMA BoxesStart == ContainersInit => BoxInv
<1> SUFFICES ASSUME ContainersInit PROVE BoxInv
  OBVIOUS
<1>1. containers = [c \in BoxIDs |-> NoBox] /\ onDisk = containers /\ nextID = 1
  BY DEF ContainersInit
<1>2. BoxesTyped
  BY <1>1, ContainersAssumption DEF ContainersAssumption, BoxesTyped, BoxIDs
<1>3. ContainersAreOnDisk
  BY <1>1 DEF ContainersAreOnDisk, Known, BoxIDs
<1> QED BY <1>2, <1>3 DEF BoxInv

LEMMA BoxesKeep == BoxInv /\ [ContainersNext]_containerVars => BoxInv'
<1> SUFFICES ASSUME BoxInv, [ContainersNext]_containerVars PROVE BoxInv'
  OBVIOUS
<1> USE ContainersAssumption DEF ContainersAssumption, BoxInv, BoxesTyped, ContainersAreOnDisk, Known, BoxIDs
<1>1. CASE Create
  <2>1. PICK name \in BoxNames, saved \in BOOLEAN :
           /\ nextID <= MaxBoxes /\ nextID' = nextID + 1
           /\ containers' = [containers EXCEPT ![nextID] = name]
           /\ onDisk' = IF saved THEN containers' ELSE onDisk
           /\ unsaved' = ~saved
    BY <1>1 DEF Create, Saved
  <2>2. BoxesTyped'
    BY <2>1 DEF BoxesTyped
  <2>3. ~unsaved' => onDisk' = containers'
    BY <2>1
  <2>4. \A c \in BoxIDs : containers'[c] # NoBox => c < nextID'
    BY <2>1
  <2> QED BY <2>2, <2>3, <2>4
<1>2. CASE Update
  BY <1>2 DEF Update, Saved
<1>3. CASE RemoveBox
  BY <1>3 DEF RemoveBox, Saved
<1>4. CASE RestartContainers
  <2> DEFINE left == {0} \cup {c \in BoxIDs : onDisk[c] # NoBox}
  <2>1. left \in SUBSET (0..MaxBoxes) /\ left # {}
    OBVIOUS
  <2>2. Max(left) \in 0..MaxBoxes /\ \A m \in left : m <= Max(left)
    <3> HIDE DEF left
    <3> QED BY <2>1, MaxIsGreatest
  <2>3. nextID' = Max(left) + 1 /\ containers' = onDisk /\ onDisk' = onDisk /\ unsaved' = FALSE
    BY <1>4 DEF RestartContainers
  <2>4. \A c \in BoxIDs : onDisk[c] # NoBox => c \in left
    OBVIOUS
  <2> HIDE DEF left
  <2>5. BoxesTyped'
    BY <2>2, <2>3
  <2>6. ContainersAreOnDisk'
    BY <2>2, <2>3, <2>4
  <2> QED BY <2>5, <2>6
<1>5. CASE SetCookie \/ ClearCookies \/ ResponseSetsCookie \/ ResponseRemovesCookie
  BY <1>5 DEF SetCookie, ClearCookies, ResponseSetsCookie, ResponseRemovesCookie, boxVars
<1>6. CASE MoveTab \/ VisitSite \/ WindowEnds
  BY <1>6 DEF MoveTab, VisitSite, WindowEnds, boxVars
<1>7. CASE UNCHANGED containerVars
  BY <1>7 DEF containerVars, boxVars
<1> QED BY <1>1, <1>2, <1>3, <1>4, <1>5, <1>6, <1>7 DEF ContainersNext

-----------------------------------------------------------------------------
(* Cookie jars.  A spot is a partition of the jar that extensions use, or  *)
(* of the jar of the window.  In general, for a table at of things over    *)
(* spots that have a site each: a thing is where its site is and not gone, *)
(* no two spots hold one thing, and each thing that is not gone has a spot.*)

OneSpotEach(P, site, at, of, g, k) ==
    /\ \A p \in P : at[p] \in 0..k
    /\ \A p \in P : at[p] # 0 => of[at[p]] = site[p] /\ at[p] \notin g
    /\ \A p, q \in P : at[p] # 0 /\ at[p] = at[q] => p = q
    /\ \A n \in 1..k : n \in g \/ \E p \in P : at[p] = n

(* A new thing takes the place of an old one. *)
LEMMA PutKeeps ==
    ASSUME NEW P, NEW site, NEW at, NEW of, NEW g, NEW k \in Nat, OneSpotEach(P, site, at, of, g, k),
           NEW p \in P, NEW at2, NEW of2, NEW g2,
           \A q \in P : at2[q] = IF q = p THEN k + 1 ELSE at[q],
           \A n \in 1..k : of2[n] = of[n] /\ (n \in g2 <=> n \in g \/ n = at[p]),
           of2[k + 1] = site[p], k + 1 \notin g2
    PROVE  OneSpotEach(P, site, at2, of2, g2, k + 1)
<1>1. \A q \in P : at[q] \in 0..k
  BY DEF OneSpotEach
<1>2. \A q \in P : at2[q] \in 0..k + 1
  BY <1>1
<1>3. ASSUME NEW q \in P, at2[q] # 0 PROVE of2[at2[q]] = site[q] /\ at2[q] \notin g2
  <2>1. CASE q = p
    BY <2>1
  <2>2. CASE q # p
    <3>1. at2[q] = at[q] /\ at[q] \in 1..k
      BY <1>1, <1>3, <2>2
    <3>2. of[at[q]] = site[q] /\ at[q] \notin g /\ at[q] # at[p]
      BY <3>1, <2>2 DEF OneSpotEach
    <3> QED BY <3>1, <3>2
  <2> QED BY <2>1, <2>2
<1>4. ASSUME NEW q \in P, NEW r \in P, at2[q] # 0, at2[q] = at2[r] PROVE q = r
  BY <1>1, <1>4 DEF OneSpotEach
<1>5. ASSUME NEW n \in 1..k + 1, n \notin g2 PROVE \E q \in P : at2[q] = n
  <2>1. CASE n = k + 1
    BY <2>1
  <2>2. CASE n # k + 1
    <3>1. n \in 1..k /\ n \notin g /\ n # at[p]
      BY <1>5, <2>2
    <3>2. PICK q \in P : at[q] = n
      BY <3>1 DEF OneSpotEach
    <3> QED BY <3>1, <3>2
  <2> QED BY <2>1, <2>2
<1> QED BY <1>2, <1>3, <1>4, <1>5 DEF OneSpotEach

(* Spots are emptied. *)
LEMMA DropKeeps ==
    ASSUME NEW P, NEW site, NEW at, NEW of, NEW g, NEW k \in Nat, OneSpotEach(P, site, at, of, g, k),
           NEW at2, NEW g2,
           \A q \in P : at2[q] \in {at[q], 0},
           \A n \in 1..k : n \in g2 <=> n \in g \/ \E q \in P : at[q] = n /\ at2[q] = 0
    PROVE  OneSpotEach(P, site, at2, of, g2, k)
<1>1. \A q \in P : at[q] \in 0..k
  BY DEF OneSpotEach
<1>2. \A q \in P : at2[q] \in 0..k
  BY <1>1
<1>3. ASSUME NEW q \in P, at2[q] # 0 PROVE of[at2[q]] = site[q] /\ at2[q] \notin g2
  <2>1. at2[q] = at[q] /\ at[q] \in 1..k /\ at[q] \notin g /\ of[at[q]] = site[q]
    BY <1>1, <1>3 DEF OneSpotEach
  <2>2. \A r \in P : at[r] = at[q] => r = q
    BY <2>1 DEF OneSpotEach
  <2> QED BY <1>3, <2>1, <2>2
<1>4. ASSUME NEW q \in P, NEW r \in P, at2[q] # 0, at2[q] = at2[r] PROVE q = r
  BY <1>4 DEF OneSpotEach
<1>5. ASSUME NEW n \in 1..k, n \notin g2 PROVE \E q \in P : at2[q] = n
  <2>1. PICK q \in P : at[q] = n
    BY <1>5 DEF OneSpotEach
  <2> QED BY <1>5, <2>1
<1> QED BY <1>2, <1>3, <1>4, <1>5 DEF OneSpotEach

(* A thing goes from one spot to another of its site, over an old one.     *)
LEMMA ShiftKeeps ==
    ASSUME NEW P, NEW site, NEW at, NEW of, NEW g, NEW k \in Nat, OneSpotEach(P, site, at, of, g, k),
           NEW p \in P, NEW r \in P, p # r, site[p] = site[r], at[p] # 0,
           NEW at2, NEW g2,
           \A q \in P : at2[q] = IF q = p THEN 0 ELSE IF q = r THEN at[p] ELSE at[q],
           \A n \in 1..k : n \in g2 <=> n \in g \/ n = at[r]
    PROVE  OneSpotEach(P, site, at2, of, g2, k)
<1>1. \A q \in P : at[q] \in 0..k
  BY DEF OneSpotEach
<1>2. \A q \in P : at2[q] \in 0..k
  BY <1>1
<1>3. at[p] \in 1..k /\ at[p] \notin g /\ of[at[p]] = site[p] /\ at[p] # at[r]
  BY <1>1 DEF OneSpotEach
<1>4. ASSUME NEW q \in P, at2[q] # 0 PROVE of[at2[q]] = site[q] /\ at2[q] \notin g2
  <2>1. CASE q = r
    BY <1>3, <2>1
  <2>2. CASE q # r
    <3>1. at2[q] = at[q] /\ at[q] \in 1..k
      BY <1>1, <1>4, <2>2
    <3>2. of[at[q]] = site[q] /\ at[q] \notin g /\ at[q] # at[r]
      BY <3>1, <2>2 DEF OneSpotEach
    <3> QED BY <3>1, <3>2
  <2> QED BY <2>1, <2>2
<1>5. ASSUME NEW q \in P, NEW s \in P, at2[q] # 0, at2[q] = at2[s] PROVE q = s
  BY <1>3, <1>5 DEF OneSpotEach
<1>6. ASSUME NEW n \in 1..k, n \notin g2 PROVE \E q \in P : at2[q] = n
  <2>1. n # at[r] /\ n \notin g
    BY <1>6
  <2>2. PICK q \in P : at[q] = n
    BY <2>1 DEF OneSpotEach
  <2>3. CASE q = p
    BY <2>2, <2>3
  <2>4. CASE q # p
    BY <2>1, <2>2, <2>4
  <2> QED BY <2>3, <2>4
<1> QED BY <1>2, <1>4, <1>5, <1>6 DEF OneSpotEach

-----------------------------------------------------------------------------
Spots == (Stores \cup {Window}) \X Sites
SiteOfSpot == [p \in Spots |-> p[2]]
Table == [p \in Spots |-> IF p[1] = Window THEN windowJar[p[2]] ELSE extJar[p[1]][p[2]]]

TabTyped == DOMAIN tab = {"box", "site", "window"} /\ tab.box \in Stores /\ tab.site \in Sites

JarsTyped ==
    /\ cookies \in Nat /\ cookies <= MaxCookies
    /\ siteOf \in [1..MaxCookies -> Sites]
    /\ extJar \in [Stores -> [Sites -> Nat]] /\ windowJar \in [Sites -> Nat]
    /\ TabTyped

JarInv == JarsTyped /\ gone \subseteq 1..cookies /\ OneSpotEach(Spots, SiteOfSpot, Table, siteOf, gone, cookies)

LEMMA WindowIsNoStore == Window \notin Stores /\ NoContainer \in Stores /\ BoxIDs \subseteq Stores
  BY ContainersAssumption DEF ContainersAssumption, Window, Stores, NoContainer, DefaultStore, BoxIDs

LEMMA TableEntries ==
    /\ \A b \in Stores, s \in Sites :
          /\ <<b, s>> \in Spots /\ SiteOfSpot[<<b, s>>] = s
          /\ Table[<<b, s>>] = extJar[b][s] /\ Table'[<<b, s>>] = extJar'[b][s]
    /\ \A s \in Sites :
          /\ <<Window, s>> \in Spots /\ SiteOfSpot[<<Window, s>>] = s
          /\ Table[<<Window, s>>] = windowJar[s] /\ Table'[<<Window, s>>] = windowJar'[s]
    /\ \A q \in Spots : \E b \in Stores \cup {Window}, s \in Sites : q = <<b, s>>
  BY WindowIsNoStore DEF Table, Spots, SiteOfSpot

LEMMA JarsStart == ContainersInit => JarInv
<1> SUFFICES ASSUME ContainersInit PROVE JarInv
  OBVIOUS
<1>1. JarsTyped
  BY ContainersAssumption, WindowIsNoStore DEF ContainersAssumption, ContainersInit, JarsTyped, TabTyped
<1>2. \A q \in Spots : Table[q] = 0
  BY TableEntries DEF ContainersInit
<1>3. cookies = 0 /\ gone = {}
  BY DEF ContainersInit
<1>4. OneSpotEach(Spots, SiteOfSpot, Table, siteOf, gone, cookies)
  BY <1>2, <1>3 DEF OneSpotEach
<1> QED BY <1>1, <1>3, <1>4 DEF JarInv

(* Writing one entry of a jar of jars. *)
LEMMA WrittenEntry ==
    ASSUME NEW jar \in [Stores -> [Sites -> Nat]], NEW b \in Stores, NEW s \in Sites, NEW n \in Nat,
           NEW new, new = [jar EXCEPT ![b][s] = n]
    PROVE  /\ new \in [Stores -> [Sites -> Nat]]
           /\ \A c \in Stores, t \in Sites : new[c][t] = IF c = b /\ t = s THEN n ELSE jar[c][t]
  OBVIOUS

LEMMA NewCookieFits ==
    ASSUME JarInv, NEW p \in Spots, NewCookie(SiteOfSpot[p], Table[p]), SiteOfSpot[p] \in Sites,
           \A q \in Spots : Table'[q] = IF q = p THEN cookies + 1 ELSE Table[q]
    PROVE  /\ cookies' \in Nat /\ cookies' <= MaxCookies
           /\ siteOf' \in [1..MaxCookies -> Sites] /\ gone' \subseteq 1..cookies'
           /\ OneSpotEach(Spots, SiteOfSpot, Table', siteOf', gone', cookies')
<1>1. /\ cookies \in Nat /\ cookies < MaxCookies /\ cookies' = cookies + 1 /\ MaxCookies \in Nat
      /\ siteOf' = [siteOf EXCEPT ![cookies + 1] = SiteOfSpot[p]] /\ siteOf \in [1..MaxCookies -> Sites]
      /\ gone' = gone \cup ({Table[p]} \ {0}) /\ gone \subseteq 1..cookies
      /\ Table[p] \in 0..cookies
  BY ContainersAssumption DEF ContainersAssumption, JarInv, JarsTyped, NewCookie, OneSpotEach
<1>2. siteOf' \in [1..MaxCookies -> Sites] /\ siteOf'[cookies + 1] = SiteOfSpot[p]
  BY <1>1
<1>3. gone' \subseteq 1..cookies' /\ cookies + 1 \notin gone'
  <2>1. \A n \in gone' : n \in 1..cookies
    BY <1>1
  <2>2. cookies \in Nat /\ cookies' = cookies + 1
    BY <1>1
  <2>3. PICK k, l, g : k \in Nat /\ k = cookies /\ l = cookies' /\ g = gone'
    BY <2>2
  <2>4. \A n \in g : n \in 1..l /\ n # k + 1
    BY <2>1, <2>2, <2>3
  <2> QED BY <2>3, <2>4
<1>4. \A n \in 1..cookies : siteOf'[n] = siteOf[n] /\ (n \in gone' <=> n \in gone \/ n = Table[p])
  BY <1>1
<1>5. OneSpotEach(Spots, SiteOfSpot, Table, siteOf, gone, cookies)
  BY DEF JarInv
<1>6. PICK k \in Nat : k = cookies
  BY <1>1
<1>7. PICK new, of2, g2 : new = Table' /\ of2 = siteOf' /\ g2 = gone'
  OBVIOUS
<1>8. OneSpotEach(Spots, SiteOfSpot, new, of2, g2, k + 1)
  <2>1. PICK at, of, g : at = Table /\ of = siteOf /\ g = gone
    OBVIOUS
  <2>2. /\ OneSpotEach(Spots, SiteOfSpot, at, of, g, k)
        /\ \A q \in Spots : new[q] = IF q = p THEN k + 1 ELSE at[q]
        /\ \A n \in 1..k : of2[n] = of[n] /\ (n \in g2 <=> n \in g \/ n = at[p])
        /\ of2[k + 1] = SiteOfSpot[p] /\ k + 1 \notin g2
    BY <1>2, <1>3, <1>4, <1>5, <1>6, <1>7, <2>1
  <2> QED BY <2>2, PutKeeps
<1> QED BY <1>1, <1>2, <1>3, <1>6, <1>7, <1>8

LEMMA SetCookieKeeps == JarInv /\ SetCookie => JarInv'
<1> SUFFICES ASSUME JarInv, SetCookie PROVE JarInv'
  OBVIOUS
<1>1. PICK b \in Stores, s \in Sites :
         /\ NewCookie(s, extJar[b][s])
         /\ extJar' = [extJar EXCEPT ![b][s] = cookies + 1]
         /\ windowJar' = windowJar /\ tab' = tab
  BY DEF SetCookie
<1>2. /\ cookies + 1 \in Nat /\ extJar \in [Stores -> [Sites -> Nat]] /\ windowJar \in [Sites -> Nat]
      /\ TabTyped
  BY DEF JarInv, JarsTyped
<1>3. /\ extJar' \in [Stores -> [Sites -> Nat]]
      /\ \A c \in Stores, t \in Sites :
            extJar'[c][t] = IF c = b /\ t = s THEN cookies + 1 ELSE extJar[c][t]
  <2>0. PICK jar \in [Stores -> [Sites -> Nat]], n \in Nat : jar = extJar /\ n = cookies + 1
    BY <1>2
  <2>1. PICK new : /\ jar = extJar /\ n = cookies + 1 /\ new = extJar'
    BY <2>0
  <2>2. new = [jar EXCEPT ![b][s] = n]
    BY <1>1, <2>1
  <2>3. /\ new \in [Stores -> [Sites -> Nat]]
        /\ \A c \in Stores, t \in Sites : new[c][t] = IF c = b /\ t = s THEN n ELSE jar[c][t]
    BY <2>2, WrittenEntry
  <2> QED BY <2>1, <2>3
<1>4. PICK p \in Spots : p = <<b, s>> /\ SiteOfSpot[p] = s /\ Table[p] = extJar[b][s]
  BY TableEntries
<1>5. \A q \in Spots : Table'[q] = IF q = p THEN cookies + 1 ELSE Table[q]
  <2> SUFFICES ASSUME NEW c \in Stores \cup {Window}, NEW t \in Sites
               PROVE  Table'[<<c, t>>] = IF <<c, t>> = p THEN cookies + 1 ELSE Table[<<c, t>>]
    BY TableEntries
  <2>1. CASE c = Window
    BY <1>1, <1>4, <2>1, TableEntries, WindowIsNoStore
  <2>2. CASE c \in Stores
    BY <1>3, <1>4, <2>2, TableEntries
  <2> QED BY <2>1, <2>2
<1>6. /\ cookies' \in Nat /\ cookies' <= MaxCookies
      /\ siteOf' \in [1..MaxCookies -> Sites] /\ gone' \subseteq 1..cookies'
      /\ OneSpotEach(Spots, SiteOfSpot, Table', siteOf', gone', cookies')
  BY <1>1, <1>4, <1>5, NewCookieFits
<1>7. JarsTyped'
  BY <1>1, <1>2, <1>3, <1>6 DEF JarsTyped, TabTyped
<1> QED BY <1>6, <1>7 DEF JarInv


(* Places are emptied, and what was in them is gone. *)
LEMMA DroppingKeeps ==
    ASSUME JarInv, cookies' = cookies, siteOf' = siteOf, TabTyped',
           extJar' \in [Stores -> [Sites -> Nat]], windowJar' \in [Sites -> Nat],
           \A q \in Spots : Table'[q] \in {Table[q], 0},
           \A n \in gone' : n \in 1..cookies,
           \A n \in 1..cookies : n \in gone' <=> n \in gone \/ \E q \in Spots : Table[q] = n /\ Table'[q] = 0
    PROVE  JarInv'
<1>1. JarsTyped'
  BY DEF JarInv, JarsTyped
<1>2. gone' \subseteq 1..cookies'
  OBVIOUS
<1>3. OneSpotEach(Spots, SiteOfSpot, Table', siteOf', gone', cookies')
  <2>1. PICK at, of, g, at2, g2 : at = Table /\ of = siteOf /\ g = gone /\ at2 = Table' /\ g2 = gone'
    OBVIOUS
  <2>2. PICK k \in Nat : k = cookies
    BY DEF JarInv, JarsTyped
  <2>3. /\ OneSpotEach(Spots, SiteOfSpot, at, of, g, k)
        /\ \A q \in Spots : at2[q] \in {at[q], 0}
        /\ \A n \in 1..k : n \in g2 <=> n \in g \/ \E q \in Spots : at[q] = n /\ at2[q] = 0
    BY <2>1, <2>2 DEF JarInv
  <2>4. OneSpotEach(Spots, SiteOfSpot, at2, of, g2, k)
    BY <2>3, DropKeeps
  <2> QED BY <2>1, <2>2, <2>4
<1> QED BY <1>1, <1>2, <1>3 DEF JarInv


LEMMA ClearCookiesKeeps == JarInv /\ ClearCookies => JarInv'
<1> SUFFICES ASSUME JarInv, ClearCookies PROVE JarInv'
  OBVIOUS
<1>1. PICK b \in Stores :
         /\ extJar' = [extJar EXCEPT ![b] = [s \in Sites |-> 0]]
         /\ gone' = gone \cup ({extJar[b][s] : s \in Sites} \ {0})
         /\ windowJar' = windowJar /\ cookies' = cookies /\ siteOf' = siteOf /\ tab' = tab
  BY DEF ClearCookies
<1>2. /\ extJar \in [Stores -> [Sites -> Nat]] /\ windowJar \in [Sites -> Nat] /\ TabTyped
      /\ \A q \in Spots : Table[q] \in 0..cookies
      /\ gone \subseteq 1..cookies /\ cookies \in Nat
  BY DEF JarInv, JarsTyped, OneSpotEach
<1>3. /\ extJar' \in [Stores -> [Sites -> Nat]]
      /\ \A c \in Stores, s \in Sites : extJar'[c][s] = IF c = b THEN 0 ELSE extJar[c][s]
  BY <1>1, <1>2
<1>4. /\ \A s \in Sites : Table'[<<Window, s>>] = Table[<<Window, s>>]
      /\ \A c \in Stores, s \in Sites : Table'[<<c, s>>] = IF c = b THEN 0 ELSE Table[<<c, s>>]
  BY <1>1, <1>3, TableEntries
<1>5. \A q \in Spots : Table'[q] \in {Table[q], 0}
  BY <1>4, TableEntries
<1>6. \A s \in Sites : Table[<<b, s>>] = extJar[b][s] /\ <<b, s>> \in Spots /\ Table'[<<b, s>>] = 0
  BY <1>4, TableEntries
<1>7. ASSUME NEW n \in 1..cookies
      PROVE  n \in gone' <=> n \in gone \/ \E q \in Spots : Table[q] = n /\ Table'[q] = 0
  <2>1. ASSUME n \in gone', n \notin gone PROVE \E q \in Spots : Table[q] = n /\ Table'[q] = 0
    <3>1. PICK s \in Sites : n = extJar[b][s]
      BY <1>1, <2>1
    <3> QED BY <1>6, <3>1
  <2>2. ASSUME NEW q \in Spots, Table[q] = n, Table'[q] = 0 PROVE n \in gone'
    <3>1. PICK s \in Sites : q = <<b, s>>
      BY <1>2, <1>4, <2>2, TableEntries
    <3> QED BY <1>1, <1>2, <1>6, <2>2, <3>1
  <2> QED BY <1>1, <2>1, <2>2
<1>8. \A n \in gone' : n \in 1..cookies
  <2> SUFFICES ASSUME NEW n \in gone', n \notin gone PROVE n \in 1..cookies
    BY <1>2
  <2>1. PICK s \in Sites : n = extJar[b][s] /\ n # 0
    BY <1>1
  <2>2. PICK q \in Spots : Table[q] = n
    BY <1>6, <2>1
  <2> QED BY <1>2, <2>1, <2>2
<1> QED BY <1>1, <1>2, <1>3, <1>5, <1>7, <1>8, DroppingKeeps DEF TabTyped

(* The jar of the window is emptied, at one place or at all. *)
LEMMA WindowJarEmptied ==
    ASSUME JarInv, NEW T \in SUBSET Sites,
           windowJar' = [s \in Sites |-> IF s \in T THEN 0 ELSE windowJar[s]],
           gone' = gone \cup ({windowJar[s] : s \in T} \ {0}),
           extJar' = extJar, cookies' = cookies, siteOf' = siteOf, TabTyped'
    PROVE  JarInv'
<1>1. /\ extJar \in [Stores -> [Sites -> Nat]] /\ windowJar \in [Sites -> Nat]
      /\ \A q \in Spots : Table[q] \in 0..cookies
      /\ gone \subseteq 1..cookies /\ cookies \in Nat
  BY DEF JarInv, JarsTyped, OneSpotEach
<1>2. windowJar' \in [Sites -> Nat]
  BY <1>1
<1>3. /\ \A s \in Sites : Table'[<<Window, s>>] = IF s \in T THEN 0 ELSE Table[<<Window, s>>]
      /\ \A c \in Stores, s \in Sites : Table'[<<c, s>>] = Table[<<c, s>>]
  BY TableEntries
<1>4. \A q \in Spots : Table'[q] \in {Table[q], 0}
  BY <1>3, TableEntries
<1>5. \A s \in T : Table[<<Window, s>>] = windowJar[s] /\ <<Window, s>> \in Spots /\ Table'[<<Window, s>>] = 0
  BY <1>3, TableEntries
<1>6. ASSUME NEW n \in 1..cookies
      PROVE  n \in gone' <=> n \in gone \/ \E q \in Spots : Table[q] = n /\ Table'[q] = 0
  <2>1. ASSUME n \in gone', n \notin gone PROVE \E q \in Spots : Table[q] = n /\ Table'[q] = 0
    <3>1. PICK s \in T : n = windowJar[s]
      BY <2>1
    <3> QED BY <1>5, <3>1
  <2>2. ASSUME NEW q \in Spots, Table[q] = n, Table'[q] = 0 PROVE n \in gone'
    <3>1. PICK s \in T : q = <<Window, s>>
      BY <1>1, <1>3, <2>2, TableEntries
    <3> QED BY <1>1, <1>5, <2>2, <3>1
  <2> QED BY <2>1, <2>2
<1>7. \A n \in gone' : n \in 1..cookies
  <2> SUFFICES ASSUME NEW n \in gone', n \notin gone PROVE n \in 1..cookies
    BY <1>1
  <2>1. PICK s \in T : n = windowJar[s] /\ n # 0
    OBVIOUS
  <2>2. PICK q \in Spots : Table[q] = n
    BY <1>5, <2>1
  <2> QED BY <1>1, <2>1, <2>2
<1> QED BY <1>1, <1>2, <1>4, <1>6, <1>7, DroppingKeeps

LEMMA ResponseRemovesKeeps == JarInv /\ ResponseRemovesCookie => JarInv'
<1> SUFFICES ASSUME JarInv, ResponseRemovesCookie PROVE JarInv'
  OBVIOUS
<1>1. windowJar \in [Sites -> Nat] /\ TabTyped
  BY DEF JarInv, JarsTyped
<1>2. PICK T \in SUBSET Sites : T = {tab.site}
  BY <1>1 DEF TabTyped
<1>3. windowJar' = [s \in Sites |-> IF s \in T THEN 0 ELSE windowJar[s]]
  BY <1>1, <1>2 DEF ResponseRemovesCookie
<1>4. gone' = gone \cup ({windowJar[s] : s \in T} \ {0})
  BY <1>2 DEF ResponseRemovesCookie
<1>5. extJar' = extJar /\ cookies' = cookies /\ siteOf' = siteOf /\ TabTyped'
  BY <1>1 DEF ResponseRemovesCookie, TabTyped
<1> QED BY <1>3, <1>4, <1>5, WindowJarEmptied

LEMMA WindowEndsKeeps == JarInv /\ WindowEnds => JarInv'
<1> SUFFICES ASSUME JarInv, WindowEnds PROVE JarInv'
  OBVIOUS
<1>1. windowJar \in [Sites -> Nat] /\ TabTyped
  BY DEF JarInv, JarsTyped
<1>2. PICK T \in SUBSET Sites : T = Sites
  OBVIOUS
<1>3. windowJar' = [s \in Sites |-> IF s \in T THEN 0 ELSE windowJar[s]]
  BY <1>1, <1>2 DEF WindowEnds
<1>4. gone' = gone \cup ({windowJar[s] : s \in T} \ {0})
  BY <1>2 DEF WindowEnds
<1>5. extJar' = extJar /\ cookies' = cookies /\ siteOf' = siteOf /\ TabTyped'
  BY <1>1 DEF WindowEnds, TabTyped
<1> QED BY <1>3, <1>4, <1>5, WindowJarEmptied

LEMMA RestartKeepsJars == JarInv /\ RestartContainers => JarInv'
<1> SUFFICES ASSUME JarInv, RestartContainers PROVE JarInv'
  OBVIOUS
<1>1. /\ extJar' = [b \in Stores |-> [s \in Sites |-> 0]] /\ windowJar' = [s \in Sites |-> 0]
      /\ gone' = 1..cookies /\ cookies' = cookies /\ siteOf' = siteOf
      /\ tab' = [tab EXCEPT !.window = FALSE]
  BY DEF RestartContainers
<1>2. TabTyped'
  BY <1>1 DEF JarInv, JarsTyped, TabTyped
<1>3. extJar' \in [Stores -> [Sites -> Nat]] /\ windowJar' \in [Sites -> Nat]
  BY <1>1
<1>4. \A q \in Spots : Table'[q] = 0
  BY <1>1, TableEntries
<1>5. \A n \in 1..cookies : n \in gone \/ \E q \in Spots : Table[q] = n /\ Table'[q] = 0
  BY <1>4 DEF JarInv, OneSpotEach
<1> QED BY <1>1, <1>2, <1>3, <1>4, <1>5, DroppingKeeps


LEMMA ResponseSetsKeeps == JarInv /\ ResponseSetsCookie => JarInv'
<1> SUFFICES ASSUME JarInv, ResponseSetsCookie PROVE JarInv'
  OBVIOUS
<1>1. PICK s \in Sites :
         /\ NewCookie(s, windowJar[s])
         /\ windowJar' = [windowJar EXCEPT ![s] = cookies + 1]
         /\ extJar' = extJar /\ tab' = tab
  BY DEF ResponseSetsCookie, JarInv, JarsTyped, TabTyped
<1>2. /\ cookies + 1 \in Nat /\ extJar \in [Stores -> [Sites -> Nat]] /\ windowJar \in [Sites -> Nat]
      /\ TabTyped
  BY DEF JarInv, JarsTyped
<1>3. /\ windowJar' \in [Sites -> Nat]
      /\ \A t \in Sites : windowJar'[t] = IF t = s THEN cookies + 1 ELSE windowJar[t]
  BY <1>1, <1>2
<1>4. PICK p \in Spots : p = <<Window, s>> /\ SiteOfSpot[p] = s /\ Table[p] = windowJar[s]
  BY TableEntries
<1>5. \A q \in Spots : Table'[q] = IF q = p THEN cookies + 1 ELSE Table[q]
  <2> SUFFICES ASSUME NEW c \in Stores \cup {Window}, NEW t \in Sites
               PROVE  Table'[<<c, t>>] = IF <<c, t>> = p THEN cookies + 1 ELSE Table[<<c, t>>]
    BY TableEntries
  <2>1. CASE c = Window
    BY <1>3, <1>4, <2>1, TableEntries
  <2>2. CASE c \in Stores
    BY <1>1, <1>4, <2>2, TableEntries, WindowIsNoStore
  <2> QED BY <2>1, <2>2
<1>6. /\ cookies' \in Nat /\ cookies' <= MaxCookies
      /\ siteOf' \in [1..MaxCookies -> Sites] /\ gone' \subseteq 1..cookies'
      /\ OneSpotEach(Spots, SiteOfSpot, Table', siteOf', gone', cookies')
  BY <1>1, <1>4, <1>5, NewCookieFits
<1>7. JarsTyped'
  BY <1>1, <1>2, <1>3, <1>6 DEF JarsTyped, TabTyped
<1> QED BY <1>6, <1>7 DEF JarInv

(* TransferOrigin moves the cookie of one partition to that of another     *)
(* container, over the cookie that is there.                               *)
LEMMA MoveTabKeeps == JarInv /\ MoveTab => JarInv'
<1> SUFFICES ASSUME JarInv, MoveTab PROVE JarInv'
  OBVIOUS
<1>1. PICK to \in Stores :
         /\ to # tab.box /\ TransferOrigin(tab.box, to, tab.site)
         /\ tab' = [tab EXCEPT !.box = to]
         /\ windowJar' = windowJar /\ cookies' = cookies /\ siteOf' = siteOf
  BY WindowIsNoStore DEF MoveTab
<1>2. /\ cookies \in Nat /\ extJar \in [Stores -> [Sites -> Nat]] /\ windowJar \in [Sites -> Nat]
      /\ TabTyped
  BY DEF JarInv, JarsTyped
<1>3. TabTyped'
  BY <1>1, <1>2 DEF TabTyped
<1>4. PICK from \in Stores, s \in Sites : from = tab.box /\ s = tab.site /\ from # to
  BY <1>1, <1>2 DEF TabTyped
<1>5. CASE extJar[from][s] = 0
  <2>1. extJar' = extJar /\ gone' = gone
    BY <1>1, <1>4, <1>5 DEF TransferOrigin
  <2>2. Table' = Table
    BY <1>1, <2>1 DEF Table
  <2> QED BY <1>1, <1>3, <2>1, <2>2 DEF JarInv, JarsTyped
<1>6. CASE extJar[from][s] # 0
  <2>1. /\ extJar' = [extJar EXCEPT ![to][s] = extJar[from][s], ![from][s] = 0]
        /\ gone' = gone \cup ({extJar[to][s]} \ {0})
    BY <1>1, <1>4, <1>6 DEF TransferOrigin
  <2>2. /\ extJar' \in [Stores -> [Sites -> Nat]]
        /\ \A c \in Stores, t \in Sites :
              extJar'[c][t] = IF c = from /\ t = s THEN 0
                              ELSE IF c = to /\ t = s THEN extJar[from][s] ELSE extJar[c][t]
    <3>1. PICK jar, n, mid, new :
             /\ jar \in [Stores -> [Sites -> Nat]] /\ n \in Nat
             /\ jar = extJar /\ n = extJar[from][s] /\ new = extJar'
             /\ mid = [jar EXCEPT ![to][s] = n]
      BY <1>2
    <3>2. /\ mid \in [Stores -> [Sites -> Nat]]
          /\ \A c \in Stores, t \in Sites : mid[c][t] = IF c = to /\ t = s THEN n ELSE jar[c][t]
      BY <3>1, WrittenEntry
    <3>3. new = [mid EXCEPT ![from][s] = 0]
      BY <2>1, <3>1
    <3>4. /\ new \in [Stores -> [Sites -> Nat]]
          /\ \A c \in Stores, t \in Sites : new[c][t] = IF c = from /\ t = s THEN 0 ELSE mid[c][t]
      BY <3>2, <3>3, WrittenEntry
    <3> QED BY <3>1, <3>2, <3>4
  <2>3. PICK p \in Spots, r \in Spots :
           /\ p = <<from, s>> /\ SiteOfSpot[p] = s /\ Table[p] = extJar[from][s]
           /\ r = <<to, s>> /\ SiteOfSpot[r] = s /\ Table[r] = extJar[to][s] /\ p # r
    <3>1. <<from, s>> # <<to, s>>
      BY <1>4
    <3>a. /\ <<from, s>> \in Spots /\ SiteOfSpot[<<from, s>>] = s /\ Table[<<from, s>>] = extJar[from][s]
          /\ <<to, s>> \in Spots /\ SiteOfSpot[<<to, s>>] = s /\ Table[<<to, s>>] = extJar[to][s]
      BY TableEntries
    <3>2. PICK p \in Spots : p = <<from, s>>
      BY <3>a
    <3>3. PICK r \in Spots : r = <<to, s>>
      BY <3>a
    <3> QED BY <3>a, <3>1, <3>2, <3>3
  <2>4. \A q \in Spots : Table'[q] = IF q = p THEN 0 ELSE IF q = r THEN Table[p] ELSE Table[q]
    <3> SUFFICES ASSUME NEW c \in Stores \cup {Window}, NEW t \in Sites
                 PROVE  Table'[<<c, t>>] = IF <<c, t>> = p THEN 0
                                           ELSE IF <<c, t>> = r THEN Table[p] ELSE Table[<<c, t>>]
      BY TableEntries
    <3>1. CASE c = Window
      BY <1>1, <2>3, <3>1, TableEntries, WindowIsNoStore
    <3>2. CASE c \in Stores
      BY <2>2, <2>3, <3>2, TableEntries
    <3> QED BY <3>1, <3>2
  <2>5. /\ OneSpotEach(Spots, SiteOfSpot, Table, siteOf, gone, cookies)
        /\ \A q \in Spots : Table[q] \in 0..cookies
        /\ gone \subseteq 1..cookies
    BY DEF JarInv, OneSpotEach
  <2>6. gone' = gone \cup ({Table[r]} \ {0})
    BY <2>1, <2>3
  <2>7. \A n \in 1..cookies : n \in gone' <=> n \in gone \/ n = Table[r]
    BY <1>2, <2>6
  <2>8. gone' \subseteq 1..cookies
    <3>1. \A n \in gone' : n \in gone \/ (n = Table[r] /\ n # 0)
      BY <2>6
    <3>2. Table[r] \in 0..cookies
      BY <2>5
    <3>3. SUFFICES ASSUME NEW n \in gone' PROVE n \in 1..cookies
      OBVIOUS
    <3>4. PICK k \in Nat : k = cookies
      BY <1>2
    <3>5. CASE n \in gone
      BY <2>5, <3>5
    <3>6. CASE n = Table[r] /\ n # 0
      BY <3>2, <3>4, <3>6
    <3> QED BY <3>1, <3>5, <3>6
  <2>9. OneSpotEach(Spots, SiteOfSpot, Table', siteOf, gone', cookies)
    <3>1. PICK at, g, at2, g2 : at = Table /\ g = gone /\ at2 = Table' /\ g2 = gone'
      OBVIOUS
    <3>2. PICK k \in Nat : k = cookies
      BY <1>2
    <3>3. /\ OneSpotEach(Spots, SiteOfSpot, at, siteOf, g, k)
          /\ SiteOfSpot[p] = SiteOfSpot[r] /\ at[p] # 0
          /\ \A q \in Spots : at2[q] = IF q = p THEN 0 ELSE IF q = r THEN at[p] ELSE at[q]
          /\ \A n \in 1..k : n \in g2 <=> n \in g \/ n = at[r]
      BY <1>6, <2>3, <2>4, <2>5, <2>7, <3>1, <3>2
    <3>4. OneSpotEach(Spots, SiteOfSpot, at2, siteOf, g2, k)
      BY <2>3, <3>3, ShiftKeeps
    <3> QED BY <3>1, <3>2, <3>4
  <2>10. JarsTyped'
    BY <1>1, <1>2, <1>3, <2>2 DEF JarInv, JarsTyped
  <2> QED BY <1>1, <2>8, <2>9, <2>10 DEF JarInv
<1> QED BY <1>5, <1>6

LEMMA JarsKeep == JarInv /\ [ContainersNext]_containerVars => JarInv'
<1> SUFFICES ASSUME JarInv, [ContainersNext]_containerVars PROVE JarInv'
  OBVIOUS
<1>1. ASSUME UNCHANGED jarVars, TabTyped' PROVE JarInv'
  <2>1. Table' = Table
    BY <1>1 DEF jarVars, Table
  <2> QED BY <1>1, <2>1 DEF jarVars, JarInv, JarsTyped
<1>2. CASE Create \/ Update \/ RemoveBox \/ VisitSite \/ UNCHANGED containerVars
  <2>1. UNCHANGED jarVars
    BY <1>2 DEF Create, Update, RemoveBox, VisitSite, containerVars
  <2>2. TabTyped'
    <3>1. CASE VisitSite
      BY <3>1 DEF VisitSite, JarInv, JarsTyped, TabTyped
    <3>2. CASE tab' = tab
      BY <3>2 DEF JarInv, JarsTyped, TabTyped
    <3> QED BY <1>2, <3>1, <3>2 DEF Create, Update, RemoveBox, containerVars
  <2> QED BY <1>1, <2>1, <2>2
<1> QED BY <1>2, RestartKeepsJars, SetCookieKeeps, ClearCookiesKeeps, ResponseSetsKeeps,
           ResponseRemovesKeeps, MoveTabKeeps, WindowEndsKeeps DEF ContainersNext

LEMMA JarsAreInOnePlace == JarInv => CookiesInOnePlace
<1> SUFFICES ASSUME JarInv PROVE CookiesInOnePlace
  OBVIOUS
<1> DEFINE Places(n) == {p \in Stores \X Sites : extJar[p[1]][p[2]] = n}
                        \cup {<<Window, s>> : s \in {s \in Sites : windowJar[s] = n}}
<1>1. \A n \in 1..cookies : Places(n) = {p \in Spots : Table[p] = n}
  <2> SUFFICES ASSUME NEW n \in 1..cookies, NEW p
               PROVE  p \in Places(n) <=> p \in Spots /\ Table[p] = n
    OBVIOUS
  <2>1. p \in Places(n) => p \in Spots /\ Table[p] = n
    BY TableEntries, WindowIsNoStore
  <2>2. p \in Spots /\ Table[p] = n => p \in Places(n)
    BY TableEntries, WindowIsNoStore
  <2> QED BY <2>1, <2>2
<1>2. ASSUME NEW n \in 1..cookies, n \in gone PROVE Places(n) = {}
  BY <1>1, <1>2 DEF JarInv, JarsTyped, OneSpotEach
<1>3. ASSUME NEW n \in 1..cookies, n \notin gone
      PROVE  Cardinality(Places(n)) = 1 /\ \A p \in Places(n) : p[2] = siteOf[n]
  <2>1. PICK p \in Spots : Table[p] = n /\ n # 0
    BY <1>3 DEF JarInv, JarsTyped, OneSpotEach
  <2>2. Places(n) = {p} /\ siteOf[n] = SiteOfSpot[p]
    BY <1>1, <2>1 DEF JarInv, OneSpotEach
  <2>3. SiteOfSpot[p] = p[2]
    BY DEF SiteOfSpot
  <2>4. Cardinality({p}) = 1
    BY FS_Singleton
  <2> HIDE DEF Places
  <2> QED BY <2>2, <2>3, <2>4
<1> QED BY <1>2, <1>3 DEF CookiesInOnePlace

-----------------------------------------------------------------------------
(* Certificate pins.  The memory of a store that was not opened is empty,  *)
(* and so is what a missing file stands for: that is why opening leaves    *)
(* the two equal.                                                          *)

PinsInv ==
    /\ tofuStore = "unopened" => pins = Unpinned
    /\ fileIs = "missing" => pinFile = Unpinned /\ pins = Unpinned /\ tofuStore # "open"
    /\ PinsAreOnDisk

LEMMA PinsStart == PinsInit => PinsInv
  BY DEF PinsInit, PinsInv, PinsAreOnDisk, NoConnection

LEMMA PinsKeep == PinsInv /\ [PinsNext]_pinVars => PinsInv'
<1> SUFFICES ASSUME PinsInv, [PinsNext]_pinVars PROVE PinsInv'
  OBVIOUS
<1> USE DEF PinsInv, PinsAreOnDisk
<1>1. CASE OpenStore
  BY <1>1 DEF OpenStore
<1>2. CASE TrustCertificate
  BY <1>2 DEF TrustCertificate, PersistedOrUndone
<1>3. CASE RemoveCertificate
  BY <1>3 DEF RemoveCertificate, PersistedOrUndone
<1>4. CASE Handshake
  BY <1>4 DEF Handshake, Accepts, IsTrusted
<1>5. CASE RestartPins
  BY <1>5 DEF RestartPins, NoConnection
<1>6. CASE Inspect \/ CertificateExpires \/ UNCHANGED pinVars
  BY <1>6 DEF Inspect, CertificateExpires, pinVars
<1> QED BY <1>1, <1>2, <1>3, <1>4, <1>5, <1>6 DEF PinsNext

-----------------------------------------------------------------------------
(* Context menus.  A key has one item at most, and the ID an item is kept  *)
(* under is that of its key; so the items of one ID are those of its keys, *)
(* which are two for the ID that items without one get.                    *)

MenusInv ==
    /\ \A m \in menuItems : DOMAIN m = {"key", "id", "named"} /\ m.id = KeptAs(m.key)
    /\ \A m, o \in menuItems : m.key = o.key => m = o
    /\ \A id \in missed : UnderKey(id) = {}

LEMMA MenusStart == RecordsInit => MenusInv
  BY DEF RecordsInit, MenusInv

LEMMA MenusKeep == MenusInv /\ [MenusNext]_menuVars => MenusInv'
<1> SUFFICES ASSUME MenusInv, [MenusNext]_menuVars PROVE MenusInv'
  OBVIOUS
<1>1. CASE CreateContextMenu
  <2>1. PICK id, new : /\ new = [key |-> id, id |-> KeptAs(id), named |-> TRUE]
                       /\ menuItems' = {m \in menuItems : m.key # id \/ m.id # KeptAs(id)} \cup {new}
                       /\ missed' = {}
    BY <1>1 DEF CreateContextMenu
  <2>2. DOMAIN new = {"key", "id", "named"} /\ new.key = id /\ new.id = KeptAs(new.key)
    BY <2>1
  <2>3. \A m \in menuItems' : (m \in menuItems /\ m.key # id) \/ m = new
    BY <2>1 DEF MenusInv
  <2>4. \A m \in menuItems' : DOMAIN m = {"key", "id", "named"} /\ m.id = KeptAs(m.key)
    BY <2>2, <2>3 DEF MenusInv
  <2>5. \A m, o \in menuItems' : m.key = o.key => m = o
    BY <2>2, <2>3 DEF MenusInv
  <2>6. \A name \in missed' : UnderKey(name)' = {}
    BY <2>1
  <2> QED BY <2>4, <2>5, <2>6 DEF MenusInv
<1>2. CASE UpdateContextMenu
  <2>1. PICK id : IF UnderKey(id) = {} THEN missed' = {id} /\ UNCHANGED menuItems
                  ELSE \E m \in UnderKey(id) :
                       menuItems' = (menuItems \ {m}) \cup {[m EXCEPT !.named = FALSE]} /\ missed' = {}
    BY <1>2 DEF UpdateContextMenu
  <2>2. CASE UnderKey(id) = {}
    BY <2>1, <2>2 DEF MenusInv, UnderKey
  <2>3. CASE UnderKey(id) # {}
    <3>1. PICK m \in menuItems :
             menuItems' = (menuItems \ {m}) \cup {[m EXCEPT !.named = FALSE]} /\ missed' = {}
      BY <2>1, <2>3 DEF UnderKey
    <3>2. PICK o : o = [m EXCEPT !.named = FALSE]
      OBVIOUS
    <3>3. DOMAIN o = {"key", "id", "named"} /\ o.id = m.id /\ o.key = m.key
      BY <3>2 DEF MenusInv
    <3>4. \A n \in menuItems' : n = o \/ (n \in menuItems /\ n # m)
      BY <3>1, <3>2
    <3>5. \A n \in menuItems' : DOMAIN n = {"key", "id", "named"} /\ n.id = KeptAs(n.key)
      BY <3>3, <3>4 DEF MenusInv
    <3>6. \A n, q \in menuItems' : n.key = q.key => n = q
      BY <3>3, <3>4 DEF MenusInv
    <3>7. \A name \in missed' : UnderKey(name)' = {}
      BY <3>1
    <3> QED BY <3>5, <3>6, <3>7 DEF MenusInv
  <2> QED BY <2>2, <2>3
<1>3. CASE RemoveContextMenu
  <2>1. PICK id : IF UnderKey(id) = {} THEN missed' = {id} /\ UNCHANGED menuItems
                  ELSE \E m \in UnderKey(id) : menuItems' = menuItems \ {m} /\ missed' = {}
    BY <1>3 DEF RemoveContextMenu
  <2>2. CASE UnderKey(id) = {}
    BY <2>1, <2>2 DEF MenusInv, UnderKey
  <2>3. CASE UnderKey(id) # {}
    BY <2>1, <2>3 DEF MenusInv
  <2> QED BY <2>2, <2>3
<1>4. CASE RemoveAllContextMenus
  BY <1>4 DEF RemoveAllContextMenus, MenusInv
<1>5. CASE UNCHANGED menuVars
  BY <1>5 DEF menuVars, MenusInv, UnderKey
<1> QED BY <1>1, <1>2, <1>3, <1>4, <1>5 DEF MenusNext

LEMMA MenusAreKept ==
    ASSUME MenusInv, NEW m \in menuItems
    PROVE  m.id = KeptAs(m.key) /\ Cardinality(UnderKey(m.id)) <= IF m.id = "menu-1" THEN 2 ELSE 1
<1>1. \A o \in menuItems : o.id = KeptAs(o.key)
  BY DEF MenusInv
<1>2. \A o, p \in menuItems : o.key = p.key => o = p
  BY DEF MenusInv
<1>3. \A S : \A o : Cardinality({o}) = 1 /\ IsFiniteSet({o})
  BY FS_Singleton
<1>4. CASE m.id # "menu-1"
  <2>1. UnderKey(m.id) = {m}
    BY <1>1, <1>2, <1>4 DEF UnderKey, KeptAs
  <2> QED BY <1>1, <1>3, <1>4, <2>1
<1>5. CASE m.id = "menu-1"
  <2>1. \A o \in UnderKey(m.id) : o.key \in {"", "menu-1"}
    BY <1>1, <1>5 DEF UnderKey, KeptAs
  <2>2. \E o, p : UnderKey(m.id) \subseteq {o, p}
    <3>1. PICK o : \A u \in UnderKey(m.id) : u.key = "" => u = o
      BY <1>2 DEF UnderKey
    <3>2. PICK p : \A u \in UnderKey(m.id) : u.key = "menu-1" => u = p
      BY <1>2 DEF UnderKey
    <3> QED BY <2>1, <3>1, <3>2
  <2>3. PICK o, p : UnderKey(m.id) \subseteq {o, p}
    BY <2>2
  <2>4. IsFiniteSet({o} \cup {p}) /\ Cardinality({o} \cup {p}) \in Nat /\ Cardinality({o} \cup {p}) <= 2
    <3>1. PICK one : one = {o} /\ IsFiniteSet(one) /\ Cardinality(one) = 1
      BY FS_Singleton
    <3>2. IsFiniteSet(one \cup {p})
          /\ Cardinality(one \cup {p}) = IF p \in one THEN Cardinality(one) ELSE Cardinality(one) + 1
      BY <3>1, FS_AddElement
    <3>3. Cardinality(one \cup {p}) = 1 \/ Cardinality(one \cup {p}) = 2
      BY <3>1, <3>2
    <3>4. one \cup {p} = {o} \cup {p}
      BY <3>1
    <3>5. \A k : k = 1 \/ k = 2 => k \in Nat /\ k <= 2
      OBVIOUS
    <3> QED BY <3>2, <3>3, <3>4, <3>5
  <2>5. UnderKey(m.id) \in SUBSET ({o} \cup {p})
    BY <2>3
  <2>6. IsFiniteSet(UnderKey(m.id)) /\ Cardinality(UnderKey(m.id)) <= Cardinality({o} \cup {p})
    BY <2>4, <2>5, FS_Subset
  <2>7. Cardinality(UnderKey(m.id)) \in Nat
    BY <2>6, FS_CardinalityType
  <2>8. Cardinality(UnderKey(m.id)) <= 2
    BY <2>4, <2>6, <2>7
  <2> QED BY <1>1, <1>5, <2>8
<1> QED BY <1>4, <1>5

(* Permissions: what the manifest declares was declared by some manifest.  *)
GrantsInv == declares.permissions \subseteq onceDeclared /\ given \subseteq onceDeclared

LEMMA GrantsStart == RecordsInit => GrantsInv
  BY DEF RecordsInit, GrantsInv, Uninstalled

LEMMA GrantsKeep == GrantsInv /\ [GrantsNext]_grantVars => GrantsInv'
<1> SUFFICES ASSUME GrantsInv, [GrantsNext]_grantVars PROVE GrantsInv'
  OBVIOUS
<1>1. CASE ManifestChanges
  BY <1>1 DEF ManifestChanges, GrantsInv
<1>2. CASE RequestPermissions
  BY <1>2 DEF RequestPermissions, GrantsInv
<1>3. CASE RemovePermissions
  BY <1>3 DEF RemovePermissions, GrantsInv
<1>4. CASE UNCHANGED grantVars
  BY <1>4 DEF grantVars, GrantsInv
<1> QED BY <1>1, <1>2, <1>3, <1>4 DEF GrantsNext


-----------------------------------------------------------------------------
(* Notifications.  A caller holds an event of a notification of its own ID *)
(* and kind; the onClosed events that callers still have to fire, those    *)
(* that were fired and the notification shown are as many as were made at  *)
(* most: clearing turns a notification shown into an event to fire.        *)
Closed(n) == [fires |-> "onClosed", id |-> n]
Closers(n) == {c \in Callers : toFire[c] = Closed(n)}
Shown(n) == IF n \in notes THEN 1 ELSE 0

NotesTyped ==
    /\ made \in [NoteIDs -> Nat] /\ fired \in [NoteIDs -> Nat] /\ notes \subseteq NoteIDs
    /\ toFire \in [Callers -> {NoEvent} \cup [fires : {"onClicked", "onClosed"}, id : NoteIDs]]

NotesInv ==
    /\ NotesTyped
    /\ \A n \in NoteIDs : fired[n] + Cardinality(Closers(n)) + Shown(n) <= made[n]

LEMMA ClosersAreFinite == \A n : IsFiniteSet(Closers(n)) /\ Cardinality(Closers(n)) \in Nat
<1> TAKE n
<1>1. Closers(n) \in SUBSET Callers
  BY DEF Closers
<1>2. IsFiniteSet(Closers(n))
  BY <1>1, FS_Subset, RecordsAssumption DEF RecordsAssumption
<1> QED BY <1>2, FS_CardinalityType

LEMMA NotesStart == RecordsInit => NotesInv
<1> SUFFICES ASSUME RecordsInit PROVE NotesInv
  OBVIOUS
<1>1. NotesTyped
  BY DEF RecordsInit, NotesTyped
<1>2. ASSUME NEW n \in NoteIDs PROVE fired[n] + Cardinality(Closers(n)) + Shown(n) <= made[n]
  <2>1. Closers(n) = {}
    BY DEF RecordsInit, Closers, Closed, NoEvent
  <2>2. Cardinality(Closers(n)) = 0
    BY <2>1, FS_EmptySet
  <2>3. fired[n] = 0 /\ made[n] = 0 /\ Shown(n) = 0
    BY DEF RecordsInit, Shown
  <2> QED BY <2>2, <2>3
<1> QED BY <1>1, <1>2 DEF NotesInv

(* The events to close that one caller's change of hands adds or removes.  *)
LEMMA OneCallerChanges ==
    ASSUME NotesTyped, NEW c \in Callers, NEW e, toFire' = [toFire EXCEPT ![c] = e], NEW n
    PROVE  /\ Closers(n)' = IF e = Closed(n) THEN Closers(n) \cup {c} ELSE Closers(n) \ {c}
           /\ Cardinality(Closers(n)') =
                  Cardinality(Closers(n)) + (IF e = Closed(n) THEN 1 ELSE 0)
                                          - (IF toFire[c] = Closed(n) THEN 1 ELSE 0)
<1>1. \A d \in Callers : toFire'[d] = IF d = c THEN e ELSE toFire[d]
  BY DEF NotesTyped
<1>2. Closers(n)' = IF e = Closed(n) THEN Closers(n) \cup {c} ELSE Closers(n) \ {c}
  BY <1>1 DEF Closers, Closed
<1>3. c \in Closers(n) <=> toFire[c] = Closed(n)
  BY DEF Closers
<1>0. PICK S : S = Closers(n) /\ IsFiniteSet(S) /\ Cardinality(S) \in Nat
  BY ClosersAreFinite
<1>4. PICK k \in Nat : S = Closers(n) /\ IsFiniteSet(S) /\ k = Cardinality(S)
  BY <1>0
<1>5. Cardinality(S \cup {c}) = IF c \in S THEN k ELSE k + 1
  BY <1>4, FS_AddElement
<1>6. Cardinality(S \ {c}) = IF c \in S THEN k - 1 ELSE k
  BY <1>4, FS_RemoveElement
<1>7. CASE e = Closed(n)
  <2>1. Cardinality(Closers(n)') = IF c \in S THEN k ELSE k + 1
    BY <1>2, <1>4, <1>5, <1>7
  <2> QED BY <1>2, <1>3, <1>4, <1>7, <2>1
<1>8. CASE e # Closed(n)
  <2>1. Cardinality(Closers(n)') = IF c \in S THEN k - 1 ELSE k
    BY <1>2, <1>4, <1>6, <1>8
  <2> QED BY <1>2, <1>3, <1>4, <1>8, <2>1
<1> QED BY <1>7, <1>8

LEMMA NotesKeep == NotesInv /\ [NotesNext]_noteVars => NotesInv'
<1> SUFFICES ASSUME NotesInv, [NotesNext]_noteVars PROVE NotesInv'
  OBVIOUS
<1>1. NotesTyped /\ \A n \in NoteIDs : fired[n] + Cardinality(Closers(n)) + Shown(n) <= made[n]
  BY DEF NotesInv
<1>2. \A n \in NoteIDs : fired[n] \in Nat /\ made[n] \in Nat
  BY <1>1 DEF NotesTyped
<1>3. CASE CreateNotification
  <2>1. PICK c \in Callers, m \in NoteIDs :
           /\ toFire[c] = NoEvent
           /\ notes' = notes \cup {m} /\ made' = [made EXCEPT ![m] = @ + 1] /\ fired' = fired
           /\ toFire' = [toFire EXCEPT ![c] = [fires |-> "onClicked", id |-> m]]
    BY <1>3 DEF CreateNotification
  <2>2. NotesTyped'
    BY <1>1, <2>1 DEF NotesTyped
  <2>3. ASSUME NEW n \in NoteIDs PROVE fired'[n] + Cardinality(Closers(n)') + Shown(n)' <= made'[n]
    <3>1. Cardinality(Closers(n)') = Cardinality(Closers(n))
      <4>1. [fires |-> "onClicked", id |-> m] # Closed(n) /\ NoEvent # Closed(n)
        BY DEF Closed, NoEvent
      <4>2. PICK k \in Nat : k = Cardinality(Closers(n))
        BY ClosersAreFinite
      <4>3. PICK e : e = [fires |-> "onClicked", id |-> m] /\ toFire' = [toFire EXCEPT ![c] = e]
        BY <2>1
      <4>4. Cardinality(Closers(n)') =
                Cardinality(Closers(n)) + (IF e = Closed(n) THEN 1 ELSE 0)
                                        - (IF toFire[c] = Closed(n) THEN 1 ELSE 0)
        BY <1>1, <4>3, OneCallerChanges
      <4> QED BY <2>1, <4>1, <4>2, <4>3, <4>4
    <3>2. made'[n] = (IF n = m THEN made[n] + 1 ELSE made[n]) /\ fired'[n] = fired[n]
      BY <1>1, <2>1 DEF NotesTyped
    <3>3. IF n = m THEN Shown(n)' = 1 ELSE Shown(n)' = Shown(n)
      BY <2>1 DEF Shown
    <3>4. Shown(n) \in 0..1
      BY DEF Shown
    <3> QED BY <1>1, <1>2, <3>1, <3>2, <3>3, <3>4, ClosersAreFinite
  <2> QED BY <2>2, <2>3 DEF NotesInv
<1>4. CASE ClearNotification
  <2>1. PICK c \in Callers, m \in notes :
           /\ toFire[c] = NoEvent /\ notes' = notes \ {m} /\ made' = made /\ fired' = fired
           /\ toFire' = [toFire EXCEPT ![c] = Closed(m)]
    BY <1>4 DEF ClearNotification, Closed
  <2>2. NotesTyped'
    BY <1>1, <2>1 DEF NotesTyped, Closed
  <2>3. ASSUME NEW n \in NoteIDs PROVE fired'[n] + Cardinality(Closers(n)') + Shown(n)' <= made'[n]
    <3>1. Cardinality(Closers(n)') = Cardinality(Closers(n)) + (IF n = m THEN 1 ELSE 0)
      <4>1. NoEvent # Closed(n) /\ (Closed(m) = Closed(n) <=> n = m)
        BY DEF Closed, NoEvent
      <4>2. PICK k \in Nat : k = Cardinality(Closers(n))
        BY ClosersAreFinite
      <4>3. PICK e : e = Closed(m) /\ toFire' = [toFire EXCEPT ![c] = e]
        BY <2>1
      <4>4. Cardinality(Closers(n)') =
                Cardinality(Closers(n)) + (IF e = Closed(n) THEN 1 ELSE 0)
                                        - (IF toFire[c] = Closed(n) THEN 1 ELSE 0)
        BY <1>1, <4>3, OneCallerChanges
      <4> QED BY <2>1, <4>1, <4>2, <4>3, <4>4
    <3>2. IF n = m THEN Shown(n) = 1 /\ Shown(n)' = 0 ELSE Shown(n)' = Shown(n)
      BY <2>1 DEF Shown
    <3>3. Shown(n) \in 0..1
      BY DEF Shown
    <3> QED BY <1>1, <1>2, <2>1, <3>1, <3>2, <3>3, ClosersAreFinite
  <2> QED BY <2>2, <2>3 DEF NotesInv
<1>5. CASE FireNotification
  <2>1. PICK c \in Callers, runs \in BOOLEAN :
           /\ toFire[c] # NoEvent /\ notes' = notes /\ made' = made
           /\ toFire' = [toFire EXCEPT ![c] = NoEvent]
           /\ fired' = IF runs /\ toFire[c].fires = "onClosed"
                       THEN [fired EXCEPT ![toFire[c].id] = @ + 1] ELSE fired
    BY <1>5 DEF FireNotification
  <2>2. PICK m \in NoteIDs, event \in {"onClicked", "onClosed"} : toFire[c] = [fires |-> event, id |-> m]
    BY <1>1, <2>1 DEF NotesTyped
  <2>3. fired' = fired \/ (event = "onClosed" /\ fired' = [fired EXCEPT ![m] = @ + 1])
    BY <2>1, <2>2
  <2>4. NotesTyped'
    BY <1>1, <2>1, <2>3 DEF NotesTyped
  <2>5. ASSUME NEW n \in NoteIDs PROVE fired'[n] + Cardinality(Closers(n)') + Shown(n)' <= made'[n]
    <3>1. Cardinality(Closers(n)') =
              Cardinality(Closers(n)) - (IF n = m /\ event = "onClosed" THEN 1 ELSE 0)
      <4>1. NoEvent # Closed(n)
        BY DEF Closed, NoEvent
      <4>2. toFire[c] = Closed(n) <=> n = m /\ event = "onClosed"
        <5>1. Closed(n).fires = "onClosed" /\ Closed(n).id = n
          BY DEF Closed
        <5>2. toFire[c].fires = event /\ toFire[c].id = m
          BY <2>2
        <5>3. n = m /\ event = "onClosed" => toFire[c] = Closed(n)
          BY <2>2 DEF Closed
        <5> QED BY <5>1, <5>2, <5>3
      <4>3. PICK k \in Nat : k = Cardinality(Closers(n))
        BY ClosersAreFinite
      <4>4. PICK e : e = NoEvent /\ toFire' = [toFire EXCEPT ![c] = e]
        BY <2>1
      <4>5. Cardinality(Closers(n)') =
                Cardinality(Closers(n)) + (IF e = Closed(n) THEN 1 ELSE 0)
                                        - (IF toFire[c] = Closed(n) THEN 1 ELSE 0)
        BY <1>1, <4>4, OneCallerChanges
      <4> QED BY <4>1, <4>2, <4>3, <4>4, <4>5
    <3>2. fired'[n] = fired[n] \/ (n = m /\ event = "onClosed" /\ fired'[n] = fired[n] + 1)
      BY <1>1, <2>3 DEF NotesTyped
    <3>3. Shown(n)' = Shown(n) /\ Shown(n) \in 0..1
      BY <2>1 DEF Shown
    <3> QED BY <1>1, <1>2, <2>1, <3>1, <3>2, <3>3, ClosersAreFinite
  <2> QED BY <2>4, <2>5 DEF NotesInv
<1>6. CASE UNCHANGED noteVars
  BY <1>6 DEF noteVars, NotesInv, NotesTyped, Closers, Closed, Shown
<1> QED BY <1>3, <1>4, <1>5, <1>6 DEF NotesNext

-----------------------------------------------------------------------------
(* Calls of chrome.*.  The tables first: of all methods only those of      *)
(* messages throw once they have begun, and these look for no callback.    *)

ShapeRecords ==
    [least : Nat, few : {"throws", "ignored"}, looks : {"none", "last", "any", "second", "first"},
     error : {"tells", "hides", "throws"}, fires : {"always", "success", "perhaps", "never"}]
MildShapes == {s \in ShapeRecords : s.error # "throws"}
KnownShapes == {s \in ShapeRecords : s.error = "throws" => s.looks = "none"}
KnownTable(ns) == \A method \in ns : method[2] \in KnownShapes

LEMMA TablesJoin ==
    ASSUME NEW f, NEW g, KnownTable(f), KnownTable(g)
    PROVE  KnownTable(f \cup g)
  BY DEF KnownTable

LEMMA OneShapeForAll ==
    ASSUME NEW names, NEW s \in KnownShapes PROVE KnownTable(All(names, s))
  BY DEF KnownTable, All

LEMMA MildAreKnown == MildShapes \subseteq KnownShapes
  BY DEF MildShapes, KnownShapes

LEMMA MildStay ==
    ASSUME NEW s \in MildShapes, NEW n \in Nat, NEW few \in {"throws", "ignored"}
    PROVE  /\ Needs(n, few, s) \in MildShapes /\ Careful(s) \in MildShapes /\ Hides(s) \in MildShapes
           /\ Fires(s) \in MildShapes /\ MayFire(s) \in MildShapes
           /\ At("first", s) \in MildShapes /\ At("second", s) \in MildShapes
  BY DEF MildShapes, ShapeRecords, Needs, Careful, Hides, Fires, MayFire, At

LEMMA FirstShapes == Plain \in MildShapes /\ Quiet \in MildShapes
  BY DEF Plain, Quiet, Shape, MildShapes, ShapeRecords

LEMMA SomeShapes ==
    ASSUME NEW names
    PROVE  KnownTable(Throwing(names)) /\ KnownTable(Lax(names))
<1>1. Needs(1, "throws", Plain) \in KnownShapes /\ Needs(1, "ignored", Plain) \in KnownShapes
  BY FirstShapes, MildStay, MildAreKnown
<1> QED  BY <1>1, OneShapeForAll DEF Throwing, Lax


LEMMA TablesAreKnown == \A ns \in Namespaces : KnownTable(ns)
<1>1. /\ Plain \in KnownShapes /\ Quiet \in KnownShapes
      /\ Careful(Plain) \in KnownShapes /\ Hides(Plain) \in KnownShapes
      /\ Fires(Plain) \in KnownShapes /\ MayFire(Plain) \in KnownShapes
      /\ At("first", Plain) \in KnownShapes
  BY FirstShapes, MildStay, MildAreKnown
<1>2. \A s \in MildShapes : /\ Needs(1, "ignored", s) \in KnownShapes
                            /\ Needs(1, "throws", s) \in KnownShapes
                            /\ Needs(2, "throws", s) \in KnownShapes
                            /\ Needs(3, "throws", s) \in KnownShapes
  BY MildStay, MildAreKnown
<1>3. /\ Hides(Plain) \in MildShapes /\ Fires(Plain) \in MildShapes
      /\ MayFire(Plain) \in MildShapes /\ At("second", Plain) \in MildShapes
  BY FirstShapes, MildStay
<1>4. /\ Shape(1, "throws", "none", "throws", "always") \in KnownShapes
      /\ Shape(2, "throws", "none", "throws", "always") \in KnownShapes
      /\ Shape(1, "ignored", "second", "hides", "always") \in KnownShapes
      /\ Shape(1, "ignored", "second", "hides", "never") \in MildShapes
  BY DEF Shape, KnownShapes, MildShapes, ShapeRecords
<1>5. /\ Shape(1, "ignored", "second", "hides", "never") \in KnownShapes
      /\ Fires(Shape(1, "ignored", "second", "hides", "never")) \in KnownShapes
  BY <1>4, MildStay, MildAreKnown
<1>6. KnownTable(bindRuntime)
  BY <1>1, <1>4, TablesJoin, OneShapeForAll DEF bindRuntime
<1>7. KnownTable(bindStorage)
  BY <1>1, TablesJoin, OneShapeForAll DEF bindStorage
<1>8. KnownTable(readTabs)
  BY <1>1, <1>2, <1>3, TablesJoin, OneShapeForAll DEF readTabs
<1>9. KnownTable(bindTabs)
  BY <1>1, <1>4, <1>8, TablesJoin, OneShapeForAll DEF bindTabs
<1>10. KnownTable(bindWindows)
  BY <1>1, <1>5, TablesJoin, OneShapeForAll DEF bindWindows
<1>11. KnownTable(bindContextualIdentities)
  <2>1. KnownTable(All({"query"}, Plain)) /\ KnownTable(All({"create"}, Fires(Plain)))
    BY <1>1, OneShapeForAll
  <2>2. KnownTable(All({"get"}, Needs(1, "ignored", At("second", Plain))))
    BY <1>2, <1>3, OneShapeForAll
  <2>3. KnownTable(All({"update"}, Needs(1, "ignored", Fires(Plain))))
    BY <1>2, <1>3, OneShapeForAll
  <2>4. KnownTable(All({"remove"}, Fires(Shape(1, "ignored", "second", "hides", "never"))))
    BY <1>5, OneShapeForAll
  <2> QED  BY <2>1, <2>2, <2>3, <2>4, TablesJoin DEF bindContextualIdentities
<1>12. KnownTable(oneCookie) /\ KnownTable(bindCookies)
  <2>1. KnownTable(All({"set"}, Fires(Needs(1, "ignored", Plain))))
    BY FirstShapes, MildStay, MildAreKnown, OneShapeForAll
  <2>2. KnownTable(All({"remove"}, Fires(Needs(1, "ignored", Plain))))
    BY FirstShapes, MildStay, MildAreKnown, OneShapeForAll
  <2>3. KnownTable(oneCookie)
    BY <2>1, SomeShapes, TablesJoin DEF oneCookie
  <2> QED  BY <1>1, <2>2, <2>3, OneShapeForAll, TablesJoin DEF bindCookies
<1>13. KnownTable(inject) /\ KnownTable(bindScripting)
  <2>1. KnownTable(All({"executeScriptFile"}, Needs(3, "throws", Plain))) /\ KnownTable(All({"removeCSS"}, Careful(Plain)))
    BY <1>1, <1>2, FirstShapes, OneShapeForAll
  <2>2. KnownTable(inject)
    BY <2>1, SomeShapes, TablesJoin DEF inject
  <2> QED  BY <2>2, SomeShapes, TablesJoin DEF bindScripting
<1>14. KnownTable(bindContextMenus)
  <2>1. KnownTable(All({"update"}, Needs(2, "throws", Plain))) /\ KnownTable(All({"removeAll"}, Plain))
    BY <1>1, <1>2, FirstShapes, OneShapeForAll
  <2> QED  BY <2>1, SomeShapes, TablesJoin DEF bindContextMenus
<1>15. KnownTable(bindPermissions)
  <2>1. KnownTable(All({"request"}, MayFire(Needs(1, "throws", Plain)))) /\ KnownTable(All({"getAll"}, Plain))
    BY <1>1, FirstShapes, MildStay, MildAreKnown, OneShapeForAll
  <2> QED  BY <2>1, SomeShapes, TablesJoin DEF bindPermissions
<1>16. KnownTable(bindAlarms)
  <2>1. KnownTable(All({"clear"}, Hides(Needs(1, "throws", Plain)))) /\ KnownTable(All({"getAll"}, Plain))
        /\ KnownTable(All({"clearAll"}, Hides(Plain)))
    BY <1>1, FirstShapes, MildStay, MildAreKnown, OneShapeForAll
  <2> QED  BY <2>1, SomeShapes, TablesJoin DEF bindAlarms
<1>17. KnownTable(bindI18n)
  BY <1>1, OneShapeForAll, SomeShapes, TablesJoin DEF bindI18n
<1>18. KnownTable(bindNotifications)
  BY <1>1, OneShapeForAll, TablesJoin DEF bindNotifications
<1>19. KnownTable(oneDownload) /\ KnownTable(bindDownloads)
  <2>1. KnownTable(oneDownload)
    BY <1>1, OneShapeForAll, TablesJoin DEF oneDownload
  <2> QED  BY <1>1, <2>1, OneShapeForAll, SomeShapes, TablesJoin DEF bindDownloads
<1>20. KnownTable(placeBookmarks) /\ KnownTable(bindBookmarks)
  <2>1. KnownTable(All({"move"}, Needs(2, "throws", Plain))) /\ KnownTable(All({"getChildren"}, Plain))
    BY <1>1, <1>2, FirstShapes, OneShapeForAll
  <2>2. KnownTable(placeBookmarks)
    BY <2>1, SomeShapes, TablesJoin DEF placeBookmarks
  <2>3. KnownTable(All({"remove"}, Hides(Needs(1, "throws", Plain))))
    BY FirstShapes, MildStay, MildAreKnown, OneShapeForAll
  <2> QED  BY <2>2, <2>3, SomeShapes, TablesJoin DEF bindBookmarks
<1>21. KnownTable(bindHistory)
  BY SomeShapes DEF bindHistory
<1>22. KnownTable(bindAction)
  BY <1>1, <1>2, FirstShapes, OneShapeForAll, TablesJoin DEF bindAction
<1> QED  BY <1>6, <1>7, <1>9, <1>10, <1>11, <1>12, <1>13, <1>14, <1>15, <1>16, <1>17, <1>18,
            <1>19, <1>20, <1>21, <1>22 DEF Namespaces

LEMMA ShapesAreKnown == Shapes \subseteq KnownShapes
  BY TablesAreKnown DEF Shapes, KnownTable

-----------------------------------------------------------------------------
(* The machine.  Each call keeps account of what it has told its callback; *)
(* all but the innermost run a listener or a callback.                     *)

CallRecords ==
    [shape : KnownShapes, enough : BOOLEAN, callback : BOOLEAN,
     at : {"asked", "event", "callback", "done"}, how : {"throws", "returns"},
     worked : BOOLEAN, told : {0, 1}, heard : {0, 1}]

CallKept(c) ==
    /\ ~c.enough => c.at = "done" /\ c.told = 0 /\ c.heard = 0
    /\ c.enough /\ c.callback => c.shape.error # "throws"
    /\ c.at = "asked" => c.told = 0 /\ c.heard = 0 /\ c.how = "returns"
    /\ c.at = "event" => c.told = 0 /\ c.heard = 1 /\ (c.shape.fires = "success" => c.worked)
    /\ c.at = "callback" => c.told = 1
    /\ c.at = "done" /\ c.enough /\ c.callback => c.told = 1
    /\ c.told = 1 => /\ c.callback
                     /\ c.shape.fires = "success" => (c.heard = 1 <=> c.worked)
                     /\ c.shape.fires = "always" => c.heard = 1
    /\ c.how = "throws" => c.shape.error = "throws" \/ ~c.enough

CallsInv ==
    /\ frames \in Seq(CallRecords)
    /\ \A i \in 1 .. Len(frames) : CallKept(frames[i])
    /\ \A i \in 1 .. Len(frames) : i < Len(frames) => frames[i].at \in {"event", "callback"}

LEMMA AfterListeners ==
    ASSUME NEW c \in CallRecords, CallKept(c), c.at = "event"
    PROVE  After(c) \in CallRecords /\ CallKept(After(c))
<1>1. c.enough /\ c.told = 0 /\ c.heard = 1 /\ (c.shape.fires = "success" => c.worked)
  BY DEF CallKept
<1>2. CASE c.callback
  <2>1. PICK d : d = [c EXCEPT !.at = "callback", !.told = 1]
    OBVIOUS
  <2>2. d = After(c)
    BY <1>1, <1>2, <2>1 DEF After
  <2>3. d \in CallRecords
    BY <2>1 DEF CallRecords
  <2>4. CallKept(d)
    BY <1>1, <1>2, <2>1 DEF CallRecords, CallKept
  <2> QED  BY <2>2, <2>3, <2>4
<1>3. CASE ~c.callback
  <2>1. PICK d : d = [c EXCEPT !.at = "done"]
    OBVIOUS
  <2>2. d = After(c) /\ d \in CallRecords
    BY <1>3, <2>1 DEF After, CallRecords
  <2>3. CallKept(d)
    BY <1>1, <1>3, <2>1 DEF CallRecords, CallKept
  <2> QED  BY <2>2, <2>3
<1> QED  BY <1>2, <1>3

LEMMA AfterWork ==
    ASSUME NEW c \in CallRecords, CallKept(c), c.at = "asked", NEW works \in BOOLEAN,
           NEW d \in Performed([c EXCEPT !.worked = works])
    PROVE  d \in CallRecords /\ CallKept(d)
<1>1. PICK b \in CallRecords : /\ b = [c EXCEPT !.worked = works]
                               /\ b.at = "asked" /\ b.told = 0 /\ b.heard = 0 /\ b.how = "returns"
                               /\ b.enough /\ (b.callback => b.shape.error # "throws")
  BY DEF CallRecords, CallKept
<1>2. b.shape.fires \in {"always", "success", "perhaps", "never"}
  BY DEF CallRecords, KnownShapes, ShapeRecords
<1>3. \/ d = Announced(b) /\ (b.shape.fires = "success" => b.worked)
      \/ d = After(b) /\ b.shape.fires # "always" /\ (b.shape.fires = "success" => ~b.worked)
  BY <1>1, <1>2 DEF Performed, CallRecords
<1>4. CASE d = Announced(b) /\ (b.shape.fires = "success" => b.worked)
  <2>1. d = [b EXCEPT !.at = "event", !.heard = 1]
    BY <1>1, <1>4 DEF Announced
  <2>2. d \in CallRecords
    BY <2>1 DEF CallRecords
  <2>3. CallKept(d)
    BY <1>1, <1>4, <2>1 DEF CallRecords, CallKept
  <2> QED  BY <2>2, <2>3
<1>5. CASE d = After(b) /\ b.shape.fires # "always" /\ (b.shape.fires = "success" => ~b.worked)
  <2>1. d = IF b.callback THEN [b EXCEPT !.at = "callback", !.told = 1] ELSE [b EXCEPT !.at = "done"]
    BY <1>1, <1>5 DEF After
  <2>2. CASE b.callback
    <3>1. d \in CallRecords
      BY <2>1, <2>2 DEF CallRecords
    <3>2. /\ d.enough = b.enough /\ d.callback = b.callback /\ d.shape = b.shape /\ d.worked = b.worked
          /\ d.at = "callback" /\ d.told = 1 /\ d.heard = 0 /\ d.how = "returns"
      BY <1>1, <2>1, <2>2 DEF CallRecords
    <3>3. d.shape.fires # "always" /\ (d.shape.fires = "success" => ~d.worked) /\ d.shape.error # "throws"
      BY <1>1, <1>5, <2>2, <3>2
    <3>4. CallKept(d)
      BY <1>1, <2>2, <3>2, <3>3 DEF CallKept
    <3> QED  BY <3>1, <3>4
  <2>3. CASE ~b.callback
    <3>1. d \in CallRecords
      BY <2>1, <2>3 DEF CallRecords
    <3>2. CallKept(d)
      BY <1>1, <1>5, <2>1, <2>3 DEF CallRecords, CallKept
    <3> QED  BY <3>1, <3>2
  <2> QED  BY <2>2, <2>3
<1> QED  BY <1>3, <1>4, <1>5

(* The innermost call changes, and may go on to any stage.                 *)
LEMMA InnerChanges ==
    ASSUME CallsInv, frames # <<>>, NEW c \in CallRecords, CallKept(c), Becomes(c)
    PROVE  CallsInv'
<1>1. PICK n \in Nat : n = Len(frames) /\ n \in 1 .. n
  BY EmptySeq, LenProperties DEF CallsInv
<1>2. /\ frames' \in Seq(CallRecords) /\ Len(frames') = n
      /\ \A i \in 1 .. n : frames'[i] = IF i = n THEN c ELSE frames[i]
  BY <1>1, ExceptSeq DEF Becomes, CallsInv
<1> QED  BY <1>1, <1>2 DEF CallsInv

LEMMA InnerIsKept ==
    ASSUME CallsInv, frames # <<>> PROVE Inner \in CallRecords /\ CallKept(Inner)
<1>1. Len(frames) \in 1 .. Len(frames)
  BY EmptySeq, LenProperties DEF CallsInv
<1> QED  BY <1>1, ElementOfSeq DEF CallsInv, Inner

LEMMA CallBegins == CallsInv /\ Begin => CallsInv'
<1> SUFFICES ASSUME CallsInv, Begin PROVE CallsInv'
  OBVIOUS
<1>1. PICK shape \in Shapes, count \in 0..MaxArguments, function \in 0..MaxArguments :
        /\ ScriptRuns
        /\ \/ UNCHANGED frames
           \/ frames' = Append(frames,
                   [shape |-> shape, enough |-> count >= shape.least,
                    callback |-> function # 0 /\ function = Tried(shape, count),
                    at |-> IF count >= shape.least THEN "asked" ELSE "done",
                    how |-> IF count < shape.least /\ shape.few = "throws" THEN "throws" ELSE "returns",
                    worked |-> FALSE, told |-> 0, heard |-> 0])
  BY DEF Begin
<1>2. CASE UNCHANGED frames
  BY <1>2 DEF CallsInv
<1>3. ASSUME NEW c, c = [shape |-> shape, enough |-> count >= shape.least,
                    callback |-> function # 0 /\ function = Tried(shape, count),
                    at |-> IF count >= shape.least THEN "asked" ELSE "done",
                    how |-> IF count < shape.least /\ shape.few = "throws" THEN "throws" ELSE "returns",
                    worked |-> FALSE, told |-> 0, heard |-> 0],
             frames' = Append(frames, c)
      PROVE  CallsInv'
  <2>1. shape \in KnownShapes /\ shape.least \in Nat /\ count \in Nat
    BY ShapesAreKnown, CallsAssumption DEF KnownShapes, ShapeRecords, CallsAssumption
  <2>2. shape.error = "throws" => Tried(shape, count) = 0
    BY <2>1 DEF KnownShapes, Tried
  <2>3. c \in CallRecords
    BY <1>3, <2>1 DEF CallRecords
  <2>4. CallKept(c)
    <3>1. c.shape.error = "throws" => ~c.callback
      BY <1>3, <2>2
    <3>2. c.how = "throws" => ~c.enough
      <4>1. c.enough <=> count >= shape.least
        BY <1>3
      <4>2. c.how = "throws" => count < shape.least
        BY <1>3
      <4>3. count < shape.least => ~(count >= shape.least)
        BY <2>1
      <4> QED  BY <4>1, <4>2, <4>3
    <3>3. c.told = 0 /\ c.heard = 0 /\ c.at = IF c.enough THEN "asked" ELSE "done"
      BY <1>3
    <3>4. c.how \in {"throws", "returns"}
      BY <2>3 DEF CallRecords
    <3> QED  BY <2>3, <3>1, <3>2, <3>3, <3>4 DEF CallKept, CallRecords
  <2>5. PICK n \in Nat : n = Len(frames)
    BY LenProperties DEF CallsInv
  <2>6. /\ frames' \in Seq(CallRecords) /\ Len(frames') = n + 1
        /\ (\A i \in 1 .. n : frames'[i] = frames[i]) /\ frames'[n + 1] = c
    BY <1>3, <2>3, <2>5, AppendProperties DEF CallsInv
  <2>7. n # 0 => frames[n].at \in {"event", "callback"}
    BY <1>1, <2>5, EmptySeq DEF ScriptRuns, Inner
  <2> QED  BY <2>4, <2>5, <2>6, <2>7 DEF CallsInv
<1> QED  BY <1>1, <1>2, <1>3

LEMMA CallEnds == CallsInv /\ Finish => CallsInv'
<1> SUFFICES ASSUME CallsInv, Finish PROVE CallsInv'
  OBVIOUS
<1>1. PICK n \in Nat : n = Len(frames) - 1 /\ Len(frames) = n + 1 /\ n <= Len(frames)
  BY EmptySeq, LenProperties DEF CallsInv, Finish
<1>2. \A m \in Nat : m <= n => /\ SubSeq(frames, 1, m) \in Seq(CallRecords)
                               /\ Len(SubSeq(frames, 1, m)) = m
                               /\ \A i \in 1 .. m : SubSeq(frames, 1, m)[i] = frames[i]
  <2> SUFFICES ASSUME NEW m \in Nat, m <= n
               PROVE  /\ SubSeq(frames, 1, m) \in Seq(CallRecords)
                      /\ Len(SubSeq(frames, 1, m)) = m
                      /\ \A i \in 1 .. m : SubSeq(frames, 1, m)[i] = frames[i]
    OBVIOUS
  <2>1. \A i \in 1 .. m : frames[i] \in CallRecords
    BY <1>1, ElementOfSeq DEF CallsInv
  <2>2. /\ SubSeq(frames, 1, m) \in Seq(CallRecords)
        /\ Len(SubSeq(frames, 1, m)) = IF 1 <= m THEN m - 1 + 1 ELSE 0
        /\ \A i \in 1 .. m - 1 + 1 : SubSeq(frames, 1, m)[i] = frames[1 + i - 1]
    BY <2>1, SubSeqProperties
  <2> QED  BY <2>2
<1>3. CASE frames' = SubSeq(frames, 1, n)
  BY <1>1, <1>2, <1>3 DEF CallsInv
<1>4. CASE n # 0 /\ \E c : /\ frames' = Append(SubSeq(frames, 1, n - 1), c)
                           /\ c = IF frames[n].at = "callback" THEN [frames[n] EXCEPT !.at = "done"]
                                  ELSE IF frames[n].shape.error = "throws"
                                  THEN [frames[n] EXCEPT !.at = "done", !.how = "throws"]
                                  ELSE After(frames[n])
  <2>1. PICK k \in Nat : n = k + 1
    BY <1>4
  <2>2. PICK b \in CallRecords : b = frames[n] /\ CallKept(b) /\ b.at \in {"event", "callback"}
    BY <1>1, <2>1, ElementOfSeq DEF CallsInv
  <2>7. k = n - 1
    BY <2>1
  <2>3. PICK c : /\ frames' = Append(SubSeq(frames, 1, k), c)
                 /\ c = IF b.at = "callback" THEN [b EXCEPT !.at = "done"]
                        ELSE IF b.shape.error = "throws" THEN [b EXCEPT !.at = "done", !.how = "throws"]
                        ELSE After(b)
    BY <1>4, <2>2, <2>7
  <2>4. c \in CallRecords /\ CallKept(c)
    <3>1. CASE b.at = "callback"
      BY <2>2, <2>3, <3>1 DEF CallRecords, CallKept
    <3>2. CASE b.at = "event" /\ b.shape.error = "throws"
      BY <2>2, <2>3, <3>2 DEF CallRecords, CallKept
    <3>3. CASE b.at = "event" /\ b.shape.error # "throws"
      BY <2>2, <2>3, <3>3, AfterListeners
    <3> QED  BY <2>2, <3>1, <3>2, <3>3
  <2>5. /\ SubSeq(frames, 1, k) \in Seq(CallRecords) /\ Len(SubSeq(frames, 1, k)) = k
        /\ \A i \in 1 .. k : SubSeq(frames, 1, k)[i] = frames[i]
    BY <1>1, <1>2, <2>1
  <2>6. /\ frames' \in Seq(CallRecords) /\ Len(frames') = k + 1
        /\ (\A i \in 1 .. k : frames'[i] = frames[i]) /\ frames'[k + 1] = c
    BY <2>3, <2>4, <2>5, AppendProperties
  <2> QED  BY <1>1, <2>1, <2>4, <2>6 DEF CallsInv
<1> QED  BY <1>1, <1>3, <1>4 DEF Finish

LEMMA CallsStart == CallsInit => CallsInv
  BY EmptySeq DEF CallsInit, CallsInv

LEMMA CallsKeep == CallsInv /\ [CallsNext]_stackVars => CallsInv'
<1> SUFFICES ASSUME CallsInv, [CallsNext]_stackVars PROVE CallsInv'
  OBVIOUS
<1>1. CASE Perform
  <2>1. PICK works \in BOOLEAN : \E d \in Performed([Inner EXCEPT !.worked = works]) : Becomes(d)
    BY <1>1 DEF Perform
  <2>2. PICK d \in Performed([Inner EXCEPT !.worked = works]) : Becomes(d)
    BY <2>1
  <2>3. PICK c \in CallRecords : c = Inner /\ CallKept(c) /\ c.at = "asked"
    BY <1>1, InnerIsKept DEF Perform
  <2>4. d \in CallRecords /\ CallKept(d)
    BY <2>2, <2>3, AfterWork
  <2> QED  BY <1>1, <2>2, <2>4, InnerChanges DEF Perform
<1>2. CASE ListenersEnd
  <2>1. PICK c \in CallRecords : c = Inner /\ CallKept(c) /\ c.at = "event"
    BY <1>2, InnerIsKept DEF ListenersEnd
  <2>2. After(c) \in CallRecords /\ CallKept(After(c))
    BY <2>1, AfterListeners
  <2>3. ASSUME c.shape.error = "throws"
        PROVE  /\ [c EXCEPT !.at = "done", !.how = "throws"] \in CallRecords
               /\ CallKept([c EXCEPT !.at = "done", !.how = "throws"])
    BY <2>1, <2>3 DEF CallRecords, CallKept
  <2>4. \/ Becomes(After(c))
        \/ c.shape.error = "throws" /\ Becomes([c EXCEPT !.at = "done", !.how = "throws"])
    BY <1>2, <2>1 DEF ListenersEnd
  <2> QED  BY <1>2, <2>2, <2>3, <2>4, InnerChanges DEF ListenersEnd
<1>3. CASE CallbackEnds
  <2>1. PICK c \in CallRecords : c = Inner /\ CallKept(c) /\ c.at = "callback"
    BY <1>3, InnerIsKept DEF CallbackEnds
  <2>2. [c EXCEPT !.at = "done"] \in CallRecords /\ CallKept([c EXCEPT !.at = "done"])
    BY <2>1 DEF CallRecords, CallKept
  <2> QED  BY <1>3, <2>1, <2>2, InnerChanges DEF CallbackEnds
<1>4. CASE UNCHANGED stackVars
  BY <1>4 DEF stackVars, CallsInv
<1> QED  BY <1>1, <1>2, <1>3, <1>4, CallBegins, CallEnds DEF CallsNext

LEMMA CallsHold == CallsInv => CallbacksAreTold
<1> SUFFICES ASSUME CallsInv PROVE CallbacksAreTold
  OBVIOUS
<1>1. DOMAIN frames = 1 .. Len(frames)
  BY LenProperties DEF CallsInv
<1>2. ASSUME NEW i \in DOMAIN frames
      PROVE  /\ frames[i].told = 1 => frames[i].callback
             /\ frames[i].told = 1 /\ frames[i].shape.fires = "success" => (frames[i].heard = 1 <=> frames[i].worked)
             /\ frames[i].told = 1 /\ frames[i].shape.fires = "always" => frames[i].heard = 1
             /\ frames[i].at = "done" /\ frames[i].enough /\ frames[i].callback => frames[i].told = 1
             /\ ~frames[i].enough => frames[i].told = 0 /\ frames[i].heard = 0
             /\ frames[i].how = "throws" => frames[i].shape.error = "throws" \/ ~frames[i].enough
             /\ {frames[i].told, frames[i].heard} \subseteq {0, 1}
  <2>1. PICK c \in CallRecords : c = frames[i] /\ CallKept(c)
    BY <1>1, <1>2, ElementOfSeq DEF CallsInv
  <2>2. {c.told, c.heard} \subseteq {0, 1}
    BY DEF CallRecords
  <2> QED  BY <2>1, <2>2 DEF CallKept
<1> QED  BY <1>2 DEF CallbacksAreTold

-----------------------------------------------------------------------------
(* Events of chrome.*.  A goroutine that changes the two tables of request *)
(* listeners does nothing in between, and as long as one goroutine at a    *)
(* time is inside an extension, that extension's two tables differ only in *)
(* between.                                                                *)

Rounds ==
    [ext : Exts, event : Events \cup {"script", "message", "adding", "removing"},
     left : Nat, holds : {"none", "router", "permissions"}]
Locked == {"router", "permissions"}
Between(f) == f.event \in {"adding", "removing"}
HasCalls(g) == calling[g] # <<>>

EventsTyped ==
    /\ started \subseteq Exts /\ granted \subseteq Exts
    /\ listeners \in [Exts -> [Events -> Nat]]
    /\ handlers \in [Exts -> Nat] /\ entries \in [Exts -> Nat] /\ announced \in [Exts -> Nat]
    /\ calling \in [Goroutines -> Seq(Rounds)]

OneHolderEach ==
    \A g, h \in Goroutines, lock \in Locked : HeldBy(g, lock) /\ HeldBy(h, lock) => g = h

BetweenIsInnermost ==
    \A g \in Goroutines : \A i \in DOMAIN calling[g] : Between(calling[g][i]) => i = Len(calling[g])

AloneUnlessShared ==
    \A e \in Exts \ shared : \A g, h \in Goroutines : Inside(g, e) /\ Inside(h, e) => g = h

Adding(g, e) == HasCalls(g) /\ Innermost(g).ext = e /\ Innermost(g).event = "adding"
Removing(g, e) == HasCalls(g) /\ Innermost(g).ext = e /\ Innermost(g).event = "removing"

(* Removing cuts the entries first, adding makes one first.                *)
TablesAgree ==
    \A e \in Exts \ shared :
        /\ listeners[e]["request"] > 0 => entries[e] > 0 \/ \E g \in Goroutines : Removing(g, e)
        /\ \A g \in Goroutines : Adding(g, e) => entries[e] > 0

AnnouncedWhenGranted == \A e \in Exts : announced[e] <= IF e \in granted THEN 1 ELSE 0

EventsInv ==
    /\ EventsTyped /\ OneHolderEach /\ BetweenIsInnermost /\ AloneUnlessShared
    /\ TablesAgree /\ AnnouncedWhenGranted

LEMMA EventsStart == EventsInit => EventsInv
<1> SUFFICES ASSUME EventsInit PROVE EventsInv
  OBVIOUS
<1>1. \A g \in Goroutines : calling[g] = <<>> /\ DOMAIN calling[g] = {}
  BY EmptySeq, ListProperties DEF EventsInit
<1>2. \A e \in Exts : ~(listeners[e]["request"] > 0)
  BY DEF EventsInit, NoListeners, Events
<1>3. EventsTyped
  BY EmptySeq DEF EventsInit, EventsTyped, NoListeners
<1>4. AnnouncedWhenGranted
  BY DEF EventsInit, AnnouncedWhenGranted
<1> QED  BY <1>1, <1>2, <1>3, <1>4 DEF EventsInv, OneHolderEach, BetweenIsInnermost, AloneUnlessShared,
                                       TablesAgree, HeldBy, Inside, HasCalls, Adding

(* What the end of a list of calls is.                                     *)
LEMMA InnermostCall ==
    ASSUME EventsTyped, NEW g \in Goroutines, HasCalls(g)
    PROVE  /\ Len(calling[g]) \in Nat /\ Len(calling[g]) >= 1 /\ Len(calling[g]) \in DOMAIN calling[g]
           /\ DOMAIN calling[g] = 1 .. Len(calling[g])
           /\ Innermost(g) = calling[g][Len(calling[g])] /\ Innermost(g) \in Rounds
  BY ListProperties DEF EventsTyped, HasCalls, Innermost

(* A goroutine calls a list of listeners.                                  *)
LEMMA RoundBegins ==
    ASSUME EventsTyped, NEW g \in Goroutines, NEW called \in Seq(Rounds), Calling(g, called)
    PROVE  /\ calling' \in [Goroutines -> Seq(Rounds)]
           /\ \A h \in Goroutines \ {g} : calling'[h] = calling[h]
           /\ Len(calling[g]) \in Nat /\ Len(called) \in Nat
           /\ DOMAIN calling[g] = 1 .. Len(calling[g]) /\ DOMAIN called = 1 .. Len(called)
           /\ Len(calling'[g]) = Len(calling[g]) + Len(called)
           /\ DOMAIN calling'[g] = 1 .. Len(calling[g]) + Len(called)
           /\ \A i \in 1 .. Len(calling[g]) + Len(called) :
                 calling'[g][i] = IF i <= Len(calling[g]) THEN calling[g][i]
                                  ELSE called[i - Len(calling[g])]
<1>1. PICK s \in Seq(Rounds) : s = calling[g]
  BY DEF EventsTyped
<1>2. /\ s \o called \in Seq(Rounds) /\ Len(s \o called) = Len(s) + Len(called)
      /\ \A i \in 1 .. Len(s) + Len(called) :
            (s \o called)[i] = IF i <= Len(s) THEN s[i] ELSE called[i - Len(s)]
  BY ConcatProperties
<1>3. calling' = [calling EXCEPT ![g] = s \o called]
  BY <1>1 DEF Calling
<1>4. calling' \in [Goroutines -> Seq(Rounds)] /\ calling'[g] = s \o called
      /\ \A h \in Goroutines \ {g} : calling'[h] = calling[h]
  BY <1>2, <1>3 DEF EventsTyped
<1>5. /\ DOMAIN s = 1 .. Len(s) /\ DOMAIN called = 1 .. Len(called) /\ Len(s) \in Nat /\ Len(called) \in Nat
  BY ListProperties
<1>6. DOMAIN (s \o called) = 1 .. Len(s) + Len(called)
  BY <1>2, ListProperties
<1> QED  BY <1>1, <1>2, <1>4, <1>5, <1>6

(* Who is inside an extension then, and who holds a mutex.                 *)
LEMMA RoundEnters ==
    ASSUME EventsTyped, NEW g \in Goroutines, NEW called \in Seq(Rounds), Calling(g, called)
    PROVE  /\ \A h \in Goroutines \ {g} : \A e : Inside(h, e)' <=> Inside(h, e)
           /\ \A e : Inside(g, e)' <=> Inside(g, e) \/ \E i \in DOMAIN called : called[i].ext = e
           /\ \A h \in Goroutines \ {g} : \A lock : HeldBy(h, lock)' <=> HeldBy(h, lock)
           /\ \A lock : HeldBy(g, lock)' <=> HeldBy(g, lock) \/ \E i \in DOMAIN called : called[i].holds = lock
           /\ \A e \in Exts \ shared' : (\E i \in DOMAIN called : called[i].ext = e)
                                        => \A h \in Goroutines \ {g} : ~Inside(h, e)
<1>1. PICK m \in Nat, n \in Nat :
         /\ m = Len(calling[g]) /\ n = Len(called)
         /\ DOMAIN calling[g] = 1 .. m /\ DOMAIN called = 1 .. n /\ DOMAIN calling'[g] = 1 .. m + n
         /\ \A i \in 1 .. m + n : calling'[g][i] = IF i <= m THEN calling[g][i] ELSE called[i - m]
         /\ \A h \in Goroutines \ {g} : calling'[h] = calling[h]
  BY RoundBegins
<1>2. ASSUME NEW i \in 1 .. m
      PROVE  i \in 1 .. m + n /\ calling'[g][i] = calling[g][i]
  BY <1>1
<1>3. ASSUME NEW j \in 1 .. n
      PROVE  j + m \in 1 .. m + n /\ calling'[g][j + m] = called[j]
  <2>1. j + m \in 1 .. m + n /\ ~(j + m <= m) /\ (j + m) - m = j
    OBVIOUS
  <2> QED  BY <1>1, <2>1
<1>4. ASSUME NEW i \in 1 .. m + n
      PROVE  \/ i \in 1 .. m /\ calling'[g][i] = calling[g][i]
             \/ \E j \in 1 .. n : calling'[g][i] = called[j]
  <2>1. CASE i <= m
    BY <1>1, <2>1
  <2>2. CASE ~(i <= m)
    <3>1. i - m \in 1 .. n
      BY <2>2
    <3> QED  BY <1>1, <2>2, <3>1
  <2> QED  BY <2>1, <2>2
<1>5. \A e : Inside(g, e)' <=> Inside(g, e) \/ \E i \in DOMAIN called : called[i].ext = e
  <2> SUFFICES ASSUME NEW e
               PROVE  Inside(g, e)' <=> Inside(g, e) \/ \E i \in DOMAIN called : called[i].ext = e
    OBVIOUS
  <2>1. Inside(g, e)' => Inside(g, e) \/ \E i \in DOMAIN called : called[i].ext = e
    <3> SUFFICES ASSUME NEW i \in 1 .. m + n, calling'[g][i].ext = e
                 PROVE  Inside(g, e) \/ \E j \in DOMAIN called : called[j].ext = e
      BY <1>1 DEF Inside
    <3>1. CASE i \in 1 .. m /\ calling'[g][i] = calling[g][i]
      BY <1>1, <3>1 DEF Inside
    <3>2. CASE \E j \in 1 .. n : calling'[g][i] = called[j]
      BY <1>1, <3>2
    <3> QED  BY <1>4, <3>1, <3>2
  <2>2. Inside(g, e) => Inside(g, e)'
    BY <1>1, <1>2 DEF Inside
  <2>3. (\E i \in DOMAIN called : called[i].ext = e) => Inside(g, e)'
    <3> SUFFICES ASSUME NEW j \in 1 .. n, called[j].ext = e
                 PROVE  \E i \in 1 .. m + n : calling'[g][i].ext = e
      BY <1>1 DEF Inside
    <3> QED  BY <1>3
  <2> QED  BY <2>1, <2>2, <2>3
<1>6. \A lock : HeldBy(g, lock)' <=> HeldBy(g, lock) \/ \E i \in DOMAIN called : called[i].holds = lock
  <2> SUFFICES ASSUME NEW lock
               PROVE  HeldBy(g, lock)' <=> HeldBy(g, lock) \/ \E i \in DOMAIN called : called[i].holds = lock
    OBVIOUS
  <2>1. HeldBy(g, lock)' => HeldBy(g, lock) \/ \E i \in DOMAIN called : called[i].holds = lock
    <3> SUFFICES ASSUME NEW i \in 1 .. m + n, calling'[g][i].holds = lock
                 PROVE  HeldBy(g, lock) \/ \E j \in DOMAIN called : called[j].holds = lock
      BY <1>1 DEF HeldBy
    <3>1. CASE i \in 1 .. m /\ calling'[g][i] = calling[g][i]
      BY <1>1, <3>1 DEF HeldBy
    <3>2. CASE \E j \in 1 .. n : calling'[g][i] = called[j]
      BY <1>1, <3>2
    <3> QED  BY <1>4, <3>1, <3>2
  <2>2. HeldBy(g, lock) => HeldBy(g, lock)'
    BY <1>1, <1>2 DEF HeldBy
  <2>3. (\E i \in DOMAIN called : called[i].holds = lock) => HeldBy(g, lock)'
    <3> SUFFICES ASSUME NEW j \in 1 .. n, called[j].holds = lock
                 PROVE  \E i \in 1 .. m + n : calling'[g][i].holds = lock
      BY <1>1 DEF HeldBy
    <3> QED  BY <1>3
  <2> QED  BY <2>1, <2>2, <2>3
<1>7. \A h \in Goroutines \ {g} : \A x : (Inside(h, x)' <=> Inside(h, x)) /\ (HeldBy(h, x)' <=> HeldBy(h, x))
  BY <1>1 DEF Inside, HeldBy
<1>8. ASSUME NEW e \in Exts \ shared', NEW i \in DOMAIN called, called[i].ext = e, NEW h \in Goroutines \ {g}
      PROVE  ~Inside(h, e)
  BY <1>8 DEF Calling
<1> QED  BY <1>5, <1>6, <1>7, <1>8

(* The parts of the invariant after such a step: the list holds at most    *)
(* the mutex that was free, and is not begun in between.                   *)
LEMMA RoundKeeps ==
    ASSUME EventsInv, NEW g \in Goroutines, NEW called \in Seq(Rounds), Calling(g, called),
           HasCalls(g) => ~Between(Innermost(g)),
           \A i \in DOMAIN called : called[i].holds \in Locked => Free(called[i].holds),
           \A i, j \in DOMAIN called : called[i].holds \in Locked /\ called[j].holds \in Locked => i = j,
           \A i \in DOMAIN called : Between(called[i]) => i = Len(called)
    PROVE  OneHolderEach' /\ BetweenIsInnermost' /\ AloneUnlessShared'
<1>1. EventsTyped
  BY DEF EventsInv
<1>2. OneHolderEach'
  BY <1>1, RoundEnters DEF EventsInv, OneHolderEach, Free
<1>3. AloneUnlessShared'
  <2>1. shared \subseteq shared'
    BY DEF Calling
  <2> QED  BY <1>1, <2>1, RoundEnters DEF EventsInv, AloneUnlessShared
<1>4. BetweenIsInnermost'
  <2> SUFFICES ASSUME NEW h \in Goroutines, NEW i \in DOMAIN calling'[h], Between(calling'[h][i])
               PROVE  i = Len(calling'[h])
    BY DEF BetweenIsInnermost, Between
  <2>1. CASE h # g
    BY <1>1, <2>1, RoundBegins DEF EventsInv, BetweenIsInnermost
  <2>2. CASE h = g
    <3>1. PICK m \in Nat, n \in Nat :
             /\ m = Len(calling[g]) /\ n = Len(called)
             /\ DOMAIN calling[g] = 1 .. m /\ DOMAIN called = 1 .. n /\ DOMAIN calling'[g] = 1 .. m + n
             /\ Len(calling'[g]) = m + n
             /\ \A k \in 1 .. m + n : calling'[g][k] = IF k <= m THEN calling[g][k] ELSE called[k - m]
      BY <1>1, RoundBegins
    <3>2. CASE i <= m
      <4>1. i \in DOMAIN calling[g] /\ Between(calling[g][i])
        BY <2>2, <3>1, <3>2
      <4>2. i = m
        BY <3>1, <4>1 DEF EventsInv, BetweenIsInnermost
      <4>3. HasCalls(g) /\ Innermost(g) = calling[g][i]
        BY <3>1, <4>1, <4>2, EmptySeq DEF HasCalls, Innermost
      <4> QED  BY <4>1, <4>3
    <3>3. CASE ~(i <= m)
      <4>0. i \in 1 .. m + n
        BY <2>2, <3>1
      <4>1. i - m \in 1 .. n /\ calling'[g][i] = called[i - m]
        BY <2>2, <3>1, <3>3, <4>0
      <4>2. i - m = n
        BY <2>2, <3>1, <4>1
      <4> QED  BY <2>2, <3>1, <4>1, <4>2
    <3> QED  BY <3>2, <3>3
  <2> QED  BY <2>1, <2>2
<1> QED  BY <1>2, <1>3, <1>4


(* Nothing of the two tables changes, but that a new ChromeAPI has none.   *)
LEMMA RoundKeepsTables ==
    ASSUME EventsInv, NEW g \in Goroutines, NEW called \in Seq(Rounds), Calling(g, called),
           HasCalls(g) => ~Between(Innermost(g)),
           \A i \in DOMAIN called : ~Between(called[i]),
           entries' = entries,
           \A e \in Exts : listeners'[e]["request"] \in {0, listeners[e]["request"]}
    PROVE  TablesAgree'
<1>1. PICK m \in Nat, n \in Nat :
         /\ m = Len(calling[g]) /\ n = Len(called)
         /\ DOMAIN called = 1 .. n
         /\ calling'[g] \in Seq(Rounds) /\ Len(calling'[g]) = m + n
         /\ \A k \in 1 .. m + n : calling'[g][k] = IF k <= m THEN calling[g][k] ELSE called[k - m]
         /\ \A h \in Goroutines \ {g} : calling'[h] = calling[h]
  BY RoundBegins DEF EventsInv
<1>2. HasCalls(g)' => ~Between(Innermost(g))'
  <2> SUFFICES ASSUME HasCalls(g)' PROVE ~Between(calling'[g][m + n])
    BY <1>1 DEF Innermost, Between
  <2>1. m + n # 0
    BY <1>1, EmptySeq DEF HasCalls
  <2>2. CASE n = 0
    <3>1. m # 0 /\ m + n = m /\ m \in 1 .. m + n
      BY <2>1, <2>2
    <3>2. HasCalls(g) /\ Innermost(g) = calling[g][m]
      BY <1>1, <3>1, EmptySeq DEF HasCalls, Innermost
    <3> QED  BY <1>1, <3>1, <3>2
  <2>3. CASE n # 0
    <3>1. ~(m + n <= m) /\ (m + n) - m = n /\ m + n \in 1 .. m + n /\ n \in 1 .. n
      BY <2>3
    <3> QED  BY <1>1, <3>1
  <2> QED  BY <2>2, <2>3
<1>3. \A h \in Goroutines : \A e : (Adding(h, e)' <=> Adding(h, e)) /\ (Removing(h, e)' <=> Removing(h, e))
  BY <1>1, <1>2 DEF Adding, Removing, HasCalls, Innermost, Between
<1>4. shared \subseteq shared'
  BY DEF Calling
<1> QED  BY <1>3, <1>4 DEF EventsInv, TablesAgree

(* A goroutine's list gets shorter, or a round of it: g is not in between. *)
LEMMA RoundEnds ==
    ASSUME EventsInv, NEW g \in Goroutines, NEW s \in Seq(Rounds),
           calling' = [calling EXCEPT ![g] = s], shared' = shared,
           \A i \in DOMAIN s : /\ i \in DOMAIN calling[g] /\ ~Between(s[i])
                               /\ s[i].ext = calling[g][i].ext /\ s[i].holds = calling[g][i].holds
    PROVE  /\ OneHolderEach' /\ BetweenIsInnermost' /\ AloneUnlessShared'
           /\ calling' \in [Goroutines -> Seq(Rounds)]
           /\ \A e : ~Adding(g, e)' /\ ~Removing(g, e)'
           /\ \A h \in Goroutines \ {g} : \A e : (Adding(h, e)' <=> Adding(h, e)) /\ (Removing(h, e)' <=> Removing(h, e))
<1>1. /\ calling' \in [Goroutines -> Seq(Rounds)] /\ calling'[g] = s
      /\ \A h \in Goroutines \ {g} : calling'[h] = calling[h]
  BY DEF EventsInv, EventsTyped
<1>2. \A h \in Goroutines : \A x : (Inside(h, x)' => Inside(h, x)) /\ (HeldBy(h, x)' => HeldBy(h, x))
  <2> SUFFICES ASSUME NEW h \in Goroutines, NEW x
               PROVE  (Inside(h, x)' => Inside(h, x)) /\ (HeldBy(h, x)' => HeldBy(h, x))
    OBVIOUS
  <2>1. CASE h = g
    BY <1>1, <2>1 DEF Inside, HeldBy
  <2>2. CASE h # g
    BY <1>1, <2>2 DEF Inside, HeldBy
  <2> QED  BY <2>1, <2>2
<1>3. OneHolderEach' /\ AloneUnlessShared'
  BY <1>2 DEF EventsInv, OneHolderEach, AloneUnlessShared
<1>4. BetweenIsInnermost'
  BY <1>1 DEF EventsInv, BetweenIsInnermost, Between
<1>5. HasCalls(g)' => ~Between(s[Len(s)]) /\ Innermost(g)' = s[Len(s)]
  <2>1. s # <<>> => Len(s) \in DOMAIN s
    BY ListProperties
  <2> QED  BY <1>1, <2>1 DEF HasCalls, Innermost
<1>6. \A e : ~Adding(g, e)' /\ ~Removing(g, e)'
  BY <1>5 DEF Adding, Removing, Between
<1>7. \A h \in Goroutines \ {g} : \A e : (Adding(h, e)' <=> Adding(h, e)) /\ (Removing(h, e)' <=> Removing(h, e))
  BY <1>1 DEF Adding, Removing, HasCalls, Innermost
<1> QED  BY <1>1, <1>3, <1>4, <1>6, <1>7

(* Steps that call nobody and change no request listener.                  *)
LEMMA NobodyIsCalled ==
    ASSUME EventsInv, calling' = calling, shared' = shared, entries' = entries,
           \A e \in Exts : listeners'[e]["request"] = listeners[e]["request"]
    PROVE  OneHolderEach' /\ BetweenIsInnermost' /\ AloneUnlessShared' /\ TablesAgree'
  BY DEF EventsInv, OneHolderEach, BetweenIsInnermost, AloneUnlessShared, TablesAgree,
         HeldBy, Inside, Adding, Removing, HasCalls, Innermost, Between

(* A round of one extension's listeners, or of none.                       *)
Causes == Events \cup {"script", "message"}
Mutexes == {"none", "router", "permissions"}

LEMMA RoundIsTyped ==
    ASSUME NEW e \in Exts, NEW event \in Causes, NEW count \in Nat,
           NEW lock \in Mutexes
    PROVE  /\ <<>> \in Seq(Rounds) /\ DOMAIN <<>> = {}
           /\ \E r \in Seq(Rounds) :
                 /\ r = Round(e, event, count, lock)
                 /\ \A i \in DOMAIN r : i = 1 /\ ~Between(r[i]) /\ r[i].holds = lock
<1>1. <<>> \in Seq(Rounds) /\ DOMAIN <<>> = {}
  BY EmptySeq, ListProperties
<1>2. PICK f \in Rounds : f = Frame(e, event, count, lock) /\ f.holds = lock /\ ~Between(f)
  <2>1. Frame(e, event, count, lock) \in Rounds
    BY DEF Frame, Rounds, Causes, Mutexes
  <2>2. Frame(e, event, count, lock).holds = lock /\ Frame(e, event, count, lock).event = event
    BY DEF Frame
  <2>3. event \notin {"adding", "removing"}
    BY DEF Events, Causes
  <2> QED  BY <2>1, <2>2, <2>3 DEF Between
<1>3. <<f>> \in Seq(Rounds) /\ DOMAIN <<f>> = {1} /\ <<f>>[1] = f
  OBVIOUS
<1>4. PICK r \in Seq(Rounds) : r = IF count > 0 THEN <<f>> ELSE <<>>
  BY <1>1, <1>3
<1>5. r = Round(e, event, count, lock)
  BY <1>2, <1>4 DEF Round
<1>6. \A i \in DOMAIN r : i = 1 /\ r[i] = f
  BY <1>1, <1>3, <1>4
<1> QED  BY <1>1, <1>2, <1>5, <1>6

(* A goroutine whose script makes a call is in one of its listeners.       *)
LEMMA ScriptingCalls ==
    ASSUME EventsInv, NEW g \in Goroutines, Scripting(g)
    PROVE  HasCalls(g) /\ ~Between(Innermost(g)) /\ Caller(g) \in Exts /\ Inside(g, Caller(g))
<1>1. HasCalls(g)
  BY DEF Scripting, HasCalls
<1> QED  BY <1>1, InnermostCall DEF EventsInv, Scripting, Between, Caller, Inside, Rounds


(* Any step that begins a round and leaves the two tables as they are.     *)
LEMMA RoundStep ==
    ASSUME EventsInv, NEW g \in Goroutines, NEW called \in Seq(Rounds), Calling(g, called),
           HasCalls(g) => ~Between(Innermost(g)),
           \A i \in DOMAIN called : ~Between(called[i]),
           \A i \in DOMAIN called : called[i].holds \in Locked => Free(called[i].holds),
           \A i, j \in DOMAIN called : called[i].holds \in Locked /\ called[j].holds \in Locked => i = j,
           entries' = entries, handlers' = handlers,
           listeners' \in [Exts -> [Events -> Nat]],
           \A e \in Exts : listeners'[e]["request"] \in {0, listeners[e]["request"]},
           started' \subseteq Exts, granted' \subseteq Exts,
           announced' \in [Exts -> Nat], AnnouncedWhenGranted'
    PROVE  EventsInv'
<1>1. OneHolderEach' /\ BetweenIsInnermost' /\ AloneUnlessShared'
  BY RoundKeeps
<1>2. TablesAgree'
  BY RoundKeepsTables
<1>3. calling' \in [Goroutines -> Seq(Rounds)]
  BY RoundBegins DEF EventsInv
<1>4. EventsTyped'
  BY <1>3 DEF EventsInv, EventsTyped
<1> QED  BY <1>1, <1>2, <1>4 DEF EventsInv

LEMMA StartKeeps == EventsInv /\ StartExtension => EventsInv'
<1> SUFFICES ASSUME EventsInv, StartExtension PROVE EventsInv'
  OBVIOUS
<1>1. PICK g \in Goroutines, e \in Exts \ started :
         /\ Idle(g) /\ started' = started \cup {e} /\ listeners' = [listeners EXCEPT ![e] = NoListeners]
         /\ Calling(g, <<Frame(e, "script", 1, "none")>>)
         /\ UNCHANGED <<handlers, entries, granted, wanted, observing, spent, announced>>
  BY DEF StartExtension
<1>2. PICK called \in Seq(Rounds) :
         /\ called = <<Frame(e, "script", 1, "none")>>
         /\ \A i \in DOMAIN called : i = 1 /\ ~Between(called[i]) /\ called[i].holds = "none"
  <2>1. PICK r \in Seq(Rounds) :
           /\ r = Round(e, "script", 1, "none")
           /\ \A i \in DOMAIN r : i = 1 /\ ~Between(r[i]) /\ r[i].holds = "none"
    BY RoundIsTyped DEF Causes, Mutexes
  <2>2. r = <<Frame(e, "script", 1, "none")>>
    BY <2>1 DEF Round
  <2> QED  BY <2>1, <2>2
<1>3. Calling(g, called) /\ ~HasCalls(g)
  BY <1>1, <1>2 DEF Idle, HasCalls
<1>4. /\ listeners' \in [Exts -> [Events -> Nat]]
      /\ \A x \in Exts : listeners'[x]["request"] \in {0, listeners[x]["request"]}
  BY <1>1 DEF EventsInv, EventsTyped, NoListeners, Events
<1>5. AnnouncedWhenGranted' /\ announced' \in [Exts -> Nat] /\ started' \subseteq Exts /\ granted' \subseteq Exts
  BY <1>1 DEF EventsInv, EventsTyped, AnnouncedWhenGranted
<1> QED  BY <1>1, <1>2, <1>3, <1>4, <1>5, RoundStep DEF Locked

(* A step that begins a round of one extension, or none, and changes       *)
(* nothing else that the invariant reads.                                  *)
LEMMA OneRoundStep ==
    ASSUME EventsInv, NEW g \in Goroutines, HasCalls(g) => ~Between(Innermost(g)),
           NEW e \in Exts, NEW event \in Causes, NEW count \in Nat,
           NEW lock \in Mutexes, lock \in Locked => Free(lock),
           Calling(g, Round(e, event, count, lock)) \/ Calling(g, <<>>),
           entries' = entries, handlers' = handlers, listeners' = listeners, started' = started,
           granted' \subseteq Exts, announced' \in [Exts -> Nat], AnnouncedWhenGranted'
    PROVE  EventsInv'
<1>1. PICK called \in Seq(Rounds) :
         /\ Calling(g, called)
         /\ \A i \in DOMAIN called : i = 1 /\ ~Between(called[i]) /\ called[i].holds = lock
  <2>1. PICK r \in Seq(Rounds) :
           /\ r = Round(e, event, count, lock)
           /\ \A i \in DOMAIN r : i = 1 /\ ~Between(r[i]) /\ r[i].holds = lock
    BY RoundIsTyped
  <2>2. PICK none \in Seq(Rounds) : none = <<>> /\ DOMAIN none = {}
    BY RoundIsTyped
  <2>3. Calling(g, r) \/ Calling(g, none)
    BY <2>1, <2>2
  <2> QED  BY <2>1, <2>2, <2>3
<1>2. /\ listeners' \in [Exts -> [Events -> Nat]] /\ started' \subseteq Exts
      /\ \A x \in Exts : listeners'[x]["request"] \in {0, listeners[x]["request"]}
  BY DEF EventsInv, EventsTyped
<1> QED  BY <1>1, <1>2, RoundStep

LEMMA RoundsKeep ==
    ASSUME EventsInv, Occurs \/ OwnEvent \/ SendMessage \/ ObserverCalls
    PROVE  EventsInv'
<1>1. /\ AnnouncedWhenGranted /\ announced \in [Exts -> Nat] /\ started \subseteq Exts /\ granted \subseteq Exts
      /\ handlers \in [Exts -> Nat] /\ \A e \in Exts, event \in Events : listeners[e][event] \in Nat
      /\ {"own", "all", "added", "request"} = Events
  BY DEF EventsInv, EventsTyped, Events
<1>2. UNCHANGED <<announced, granted>> => AnnouncedWhenGranted'
  BY <1>1 DEF AnnouncedWhenGranted
<1>3. CASE Occurs
  <2>1. PICK g \in Goroutines, e \in started :
           /\ Idle(g) /\ listeners[e]["own"] > 0
           /\ Calling(g, <<Frame(e, "own", listeners[e]["own"], "none")>>)
           /\ UNCHANGED <<tables, wanted, observing, spent, announced>>
    BY <1>3 DEF Occurs
  <2>2. Calling(g, Round(e, "own", listeners[e]["own"], "none")) /\ ~HasCalls(g) /\ listeners[e]["own"] \in Nat
    BY <1>1, <2>1 DEF Round, Idle, HasCalls
  <2> QED  BY <1>1, <1>2, <2>1, <2>2, OneRoundStep DEF Causes, Mutexes, tables, Locked
<1>4. CASE OwnEvent
  <2>1. PICK g \in Goroutines :
           /\ Scripting(g)
           /\ Calling(g, IF Caller(g) \in started
                         THEN Round(Caller(g), "own", listeners[Caller(g)]["own"], "none") ELSE <<>>)
           /\ UNCHANGED <<tables, wanted, observing, announced>>
    BY <1>4 DEF OwnEvent, Calls
  <2>2. HasCalls(g) /\ ~Between(Innermost(g)) /\ Caller(g) \in Exts /\ listeners[Caller(g)]["own"] \in Nat
    BY <1>1, <2>1, ScriptingCalls
  <2> QED  BY <1>1, <1>2, <2>1, <2>2, OneRoundStep DEF Causes, Mutexes, tables, Locked
<1>5. CASE SendMessage
  <2>1. PICK g \in Goroutines :
           /\ Scripting(g) /\ Free("router")
           /\ Calling(g, Round(Caller(g), "message", handlers[Caller(g)], "router"))
           /\ UNCHANGED <<tables, observing, announced>>
    BY <1>5 DEF SendMessage, Locks
  <2>2. HasCalls(g) /\ ~Between(Innermost(g)) /\ Caller(g) \in Exts /\ handlers[Caller(g)] \in Nat
    BY <1>1, <2>1, ScriptingCalls
  <2> QED  BY <1>1, <1>2, <2>1, <2>2, OneRoundStep DEF Causes, Mutexes, tables, Locked
<1>6. CASE ObserverCalls
  <2>1. PICK g \in Goroutines, e \in Exts :
           /\ calling[g] = <<>>
           /\ Calling(g, IF e \in started THEN Round(e, "request", listeners[e]["request"], "none") ELSE <<>>)
           /\ UNCHANGED <<tables, wanted, spent, announced>>
    BY <1>6 DEF ObserverCalls
  <2>2. ~HasCalls(g) /\ listeners[e]["request"] \in Nat
    BY <1>1, <2>1 DEF HasCalls
  <2> QED  BY <1>1, <1>2, <2>1, <2>2, OneRoundStep DEF Causes, Mutexes, tables, Locked
<1> QED  BY <1>3, <1>4, <1>5, <1>6

LEMMA EventForAllKeeps == EventsInv /\ EventForAll => EventsInv'
<1> SUFFICES ASSUME EventsInv, EventForAll PROVE EventsInv'
  OBVIOUS
<1> DEFINE hearers == {e \in started : listeners[e]["all"] > 0}
<1>1. PICK g \in Goroutines, turn \in Orders(hearers) :
         /\ Scripting(g)
         /\ Calling(g, [i \in DOMAIN turn |-> Frame(turn[i], "all", listeners[turn[i]]["all"], "none")])
         /\ UNCHANGED <<tables, wanted, observing, announced>>
  BY DEF EventForAll, Calls
<1>2. PICK n \in Nat : n = Cardinality(hearers) /\ turn \in [1 .. n -> hearers]
  <2>1. hearers \subseteq Exts
    BY DEF EventsInv, EventsTyped
  <2>2. IsFiniteSet(hearers)
    BY <2>1, EventsAssumption, FS_Subset DEF EventsAssumption
  <2> QED  BY <2>2, FS_CardinalityType DEF Orders
<1>3. PICK called \in Seq(Rounds) :
         /\ Calling(g, called)
         /\ \A i \in DOMAIN called : ~Between(called[i]) /\ called[i].holds = "none"
  <2> DEFINE called == [i \in 1 .. n |-> Frame(turn[i], "all", listeners[turn[i]]["all"], "none")]
  <2>1. ASSUME NEW i \in 1 .. n
        PROVE  Frame(turn[i], "all", listeners[turn[i]]["all"], "none") \in Rounds
    <3>1. turn[i] \in Exts /\ listeners[turn[i]]["all"] \in Nat
      BY <1>2 DEF EventsInv, EventsTyped, Events
    <3> QED  BY <3>1 DEF Frame, Rounds, Events
  <2>2. called \in Seq(Rounds) /\ DOMAIN called = 1 .. n
    BY <2>1, IsASeq
  <2>3. \A i \in DOMAIN called : ~Between(called[i]) /\ called[i].holds = "none"
    BY DEF Frame, Between
  <2>4. Calling(g, called)
    BY <1>1, <1>2
  <2> QED  BY <2>2, <2>3, <2>4
<1>4. HasCalls(g) /\ ~Between(Innermost(g))
  BY <1>1, ScriptingCalls
<1>5. /\ entries' = entries /\ handlers' = handlers
      /\ listeners' \in [Exts -> [Events -> Nat]]
      /\ \A e \in Exts : listeners'[e]["request"] \in {0, listeners[e]["request"]}
      /\ started' \subseteq Exts /\ granted' \subseteq Exts
      /\ announced' \in [Exts -> Nat] /\ AnnouncedWhenGranted'
  BY <1>1 DEF tables, EventsInv, EventsTyped, AnnouncedWhenGranted
<1> QED  BY <1>3, <1>4, <1>5, RoundStep DEF Locked

LEMMA AskPermissionKeeps == EventsInv /\ AskPermission => EventsInv'
<1> SUFFICES ASSUME EventsInv, AskPermission PROVE EventsInv'
  OBVIOUS
<1>1. PICK g \in Goroutines :
         /\ Scripting(g) /\ Free("permissions")
         /\ RequestPermission(g) \/ UNCHANGED <<granted, calling, announced, shared>>
         /\ UNCHANGED <<started, listeners, handlers, entries, observing>>
  BY DEF AskPermission, Locks
<1>2. CASE UNCHANGED <<granted, calling, announced, shared>>
  <2>1. EventsTyped' /\ AnnouncedWhenGranted'
    BY <1>1, <1>2 DEF EventsInv, EventsTyped, AnnouncedWhenGranted
  <2> QED  BY <1>1, <1>2, <2>1, NobodyIsCalled DEF EventsInv
<1>3. CASE RequestPermission(g)
  <2>1. PICK e \in Exts : e = Caller(g) /\ HasCalls(g) /\ ~Between(Innermost(g))
    BY <1>1, ScriptingCalls
  <2>2. /\ granted' = granted \cup {e}
        /\ announced' = IF e \in granted THEN announced ELSE [announced EXCEPT ![e] = @ + 1]
        /\ \/ Calling(g, Round(e, "added", listeners[e]["added"], "permissions"))
           \/ Calling(g, <<>>)
    BY <1>3, <2>1 DEF RequestPermission
  <2>3. listeners[e]["added"] \in Nat /\ granted' \subseteq Exts /\ announced' \in [Exts -> Nat]
    BY <2>2 DEF EventsInv, EventsTyped, Events
  <2>4. AnnouncedWhenGranted'
    BY <2>2 DEF EventsInv, EventsTyped, AnnouncedWhenGranted
  <2> QED  BY <1>1, <2>1, <2>2, <2>3, <2>4, OneRoundStep DEF Causes, Mutexes, Events
<1> QED  BY <1>1, <1>2, <1>3

(* The entries change first, and the other table after the script has      *)
(* begun to wait for it.                                                   *)
LEMMA RequestListenersKeep ==
    ASSUME EventsInv, AddRequestListener \/ RemoveRequestListeners
    PROVE  EventsInv'
<1>1. PICK g \in Goroutines, e \in Exts, event \in {"adding", "removing"} :
         /\ HasCalls(g) /\ ~Between(Innermost(g)) /\ e = Caller(g) /\ Inside(g, e)
         /\ Calling(g, <<Frame(e, event, 1, "none")>>)
         /\ entries' = [entries EXCEPT ![e] = IF event = "adding" THEN @ + 1 ELSE 0]
         /\ UNCHANGED <<started, listeners, handlers, granted, announced>>
  <2>1. CASE AddRequestListener
    BY <2>1, ScriptingCalls DEF AddRequestListener, Calls
  <2>2. CASE RemoveRequestListeners
    BY <2>2, ScriptingCalls DEF RemoveRequestListeners, Calls
  <2> QED  BY <2>1, <2>2
<1>2. PICK f \in Rounds : f = Frame(e, event, 1, "none") /\ f.ext = e /\ f.event = event /\ f.holds = "none"
  <2>1. Frame(e, event, 1, "none") \in Rounds
    BY DEF Frame, Rounds
  <2> QED  BY <2>1 DEF Frame
<1>3. PICK called \in Seq(Rounds) :
         called = <<f>> /\ DOMAIN called = {1} /\ called[1] = f /\ Len(called) = 1 /\ Calling(g, called)
  <2>1. <<f>> \in Seq(Rounds) /\ DOMAIN <<f>> = {1} /\ <<f>>[1] = f /\ Len(<<f>>) = 1
    OBVIOUS
  <2> QED  BY <1>1, <1>2, <2>1
<1>4. OneHolderEach' /\ BetweenIsInnermost' /\ AloneUnlessShared'
  <2>1. \A i \in DOMAIN called : i = 1 /\ called[i] = f
    BY <1>3
  <2>2. \A i \in DOMAIN called : called[i].holds \notin Locked /\ (Between(called[i]) => i = Len(called))
    BY <1>2, <1>3, <2>1 DEF Locked
  <2> QED  BY <1>1, <1>3, <2>2, RoundKeeps
<1>5. EventsTyped' /\ AnnouncedWhenGranted'
  <2>1. calling' \in [Goroutines -> Seq(Rounds)]
    BY <1>3, RoundBegins DEF EventsInv
  <2>2. entries' \in [Exts -> Nat]
    BY <1>1 DEF EventsInv, EventsTyped
  <2> QED  BY <1>1, <2>1, <2>2 DEF EventsInv, EventsTyped, AnnouncedWhenGranted
<1>6. HasCalls(g)' /\ Innermost(g)' = f
  <2>1. PICK m \in Nat : /\ m = Len(calling[g]) /\ Len(calling'[g]) = m + 1
                         /\ calling'[g][m + 1] = f
                         /\ calling'[g] \in Seq(Rounds)
    <3>1. PICK m \in Nat : /\ m = Len(calling[g]) /\ Len(calling'[g]) = m + 1
                           /\ calling' \in [Goroutines -> Seq(Rounds)]
                           /\ \A i \in 1 .. m + 1 : calling'[g][i] = IF i <= m THEN calling[g][i] ELSE called[i - m]
      BY <1>3, RoundBegins DEF EventsInv
    <3>2. ~(m + 1 <= m) /\ (m + 1) - m = 1 /\ m + 1 \in 1 .. m + 1
      OBVIOUS
    <3> QED  BY <1>3, <3>1, <3>2
  <2> QED  BY <2>1, EmptySeq DEF HasCalls, Innermost
<1>7. \A h \in Goroutines \ {g} : \A x : (Adding(h, x)' <=> Adding(h, x)) /\ (Removing(h, x)' <=> Removing(h, x))
  <2>1. \A h \in Goroutines \ {g} : calling'[h] = calling[h]
    BY <1>3, RoundBegins DEF EventsInv
  <2> QED  BY <2>1 DEF Adding, Removing, HasCalls, Innermost
<1>8. TablesAgree'
  <2> SUFFICES ASSUME NEW x \in Exts \ shared'
               PROVE  /\ listeners'[x]["request"] > 0 => entries'[x] > 0 \/ \E h \in Goroutines : Removing(h, x)'
                      /\ \A h \in Goroutines : Adding(h, x)' => entries'[x] > 0
    BY DEF TablesAgree, Adding, Removing
  <2>1. x \in Exts \ shared
    BY <1>3 DEF Calling
  <2>2. ~Adding(g, x) /\ ~Removing(g, x)
    BY <1>1 DEF Adding, Removing, Between
  <2>3. CASE x # e
    <3>1. ~Adding(g, x)' /\ ~Removing(g, x)'
      BY <1>2, <1>6, <2>3 DEF Adding, Removing
    <3>2. entries'[x] = entries[x] /\ listeners' = listeners
      BY <1>1, <2>3 DEF EventsInv, EventsTyped
    <3> QED  BY <1>7, <2>1, <2>2, <3>1, <3>2 DEF EventsInv, TablesAgree
  <2>4. CASE x = e /\ event = "adding"
    <3>1. entries'[x] > 0
      BY <1>1, <2>4 DEF EventsInv, EventsTyped
    <3> QED  BY <3>1
  <2>5. CASE x = e /\ event = "removing"
    <3>1. Removing(g, x)' /\ ~Adding(g, x)'
      BY <1>2, <1>6, <2>5 DEF Adding, Removing
    <3>2. \A h \in Goroutines \ {g} : ~Adding(h, x)
      <4>1. \A h \in Goroutines \ {g} : ~Inside(h, x)
        <5>1. x \in Exts \ shared' /\ 1 \in DOMAIN called /\ called[1].ext = x
          BY <1>2, <1>3, <2>5
        <5>2. \A y \in Exts \ shared' : (\E i \in DOMAIN called : called[i].ext = y)
                                       => \A h \in Goroutines \ {g} : ~Inside(h, y)
          <6>1. EventsTyped /\ called \in Seq(Rounds) /\ Calling(g, called)
            BY <1>3 DEF EventsInv
          <6> QED  BY <6>1, RoundEnters
        <5> QED  BY <5>1, <5>2
      <4>2. \A h \in Goroutines : Adding(h, x) => Inside(h, x)
        BY InnermostCall DEF EventsInv, Adding, Inside
      <4> QED  BY <4>1, <4>2
    <3> QED  BY <1>7, <3>1, <3>2
  <2> QED  BY <2>3, <2>4, <2>5
<1> QED  BY <1>4, <1>5, <1>8 DEF EventsInv


(* The list without its last call, or with one listener less to call.      *)
LEMMA ShorterList ==
    ASSUME EventsTyped, NEW g \in Goroutines, HasCalls(g)
    PROVE  /\ SubSeq(calling[g], 1, Len(calling[g]) - 1) \in Seq(Rounds)
           /\ \A i \in DOMAIN SubSeq(calling[g], 1, Len(calling[g]) - 1) :
                 /\ i \in DOMAIN calling[g] /\ i # Len(calling[g])
                 /\ SubSeq(calling[g], 1, Len(calling[g]) - 1)[i] = calling[g][i]
<1>1. PICK s \in Seq(Rounds), n \in Nat : s = calling[g] /\ Len(s) = n + 1 /\ DOMAIN s = 1 .. n + 1
  <2>1. Len(calling[g]) - 1 \in Nat /\ Len(calling[g]) = (Len(calling[g]) - 1) + 1
        /\ DOMAIN calling[g] = 1 .. Len(calling[g])
    BY InnermostCall
  <2>2. calling[g] \in Seq(Rounds)
    BY DEF EventsTyped
  <2> QED  BY <2>1, <2>2
<1>2. \A i \in 1 .. n : s[i] \in Rounds
  BY <1>1, ElementOfSeq
<1>3. /\ SubSeq(s, 1, n) \in Seq(Rounds)
      /\ Len(SubSeq(s, 1, n)) = IF 1 <= n THEN n - 1 + 1 ELSE 0
      /\ \A i \in 1 .. n - 1 + 1 : SubSeq(s, 1, n)[i] = s[1 + i - 1]
  BY <1>2, SubSeqProperties
<1>4. DOMAIN SubSeq(s, 1, n) = 1 .. Len(SubSeq(s, 1, n))
  BY <1>3, ListProperties
<1>5. Len(s) - 1 = n /\ DOMAIN SubSeq(s, 1, n) = 1 .. n /\ \A i \in 1 .. n : SubSeq(s, 1, n)[i] = s[i]
  BY <1>1, <1>3, <1>4
<1> QED  BY <1>1, <1>3, <1>5

LEMMA ReturnKeeps == EventsInv /\ ListenerReturns => EventsInv'
<1> SUFFICES ASSUME EventsInv, ListenerReturns PROVE EventsInv'
  OBVIOUS
<1>1. PICK g \in Goroutines :
         /\ Scripting(g)
         /\ \/ /\ Innermost(g).left > 1
               /\ calling' = [calling EXCEPT ![g] =
                     [calling[g] EXCEPT ![Len(calling[g])] =
                        [calling[g][Len(calling[g])] EXCEPT !.left = calling[g][Len(calling[g])].left - 1]]]
            \/ calling' = [calling EXCEPT ![g] = SubSeq(calling[g], 1, Len(calling[g]) - 1)]
         /\ UNCHANGED <<tables, wanted, observing, spent, announced, shared>>
  BY DEF ListenerReturns
<1>2. /\ HasCalls(g) /\ ~Between(Innermost(g)) /\ EventsTyped
      /\ calling[g] \in Seq(Rounds)
  BY <1>1, ScriptingCalls DEF EventsInv, EventsTyped
<1>3. \A i \in DOMAIN calling[g] : ~Between(calling[g][i])
  BY <1>2, InnermostCall DEF EventsInv, BetweenIsInnermost
<1>4. PICK s \in Seq(Rounds) :
         /\ calling' = [calling EXCEPT ![g] = s]
         /\ \A i \in DOMAIN s : /\ i \in DOMAIN calling[g] /\ ~Between(s[i])
                                /\ s[i].ext = calling[g][i].ext /\ s[i].holds = calling[g][i].holds
  <2>1. CASE calling' = [calling EXCEPT ![g] = SubSeq(calling[g], 1, Len(calling[g]) - 1)]
    <3> DEFINE s == SubSeq(calling[g], 1, Len(calling[g]) - 1)
    <3>1. s \in Seq(Rounds) /\ \A i \in DOMAIN s : i \in DOMAIN calling[g] /\ s[i] = calling[g][i]
      BY <1>2, ShorterList
    <3>2. calling' = [calling EXCEPT ![g] = s]
      BY <2>1
    <3> HIDE DEF s
    <3>3. \A i \in DOMAIN s : ~Between(s[i])
      BY <1>3, <3>1
    <3> QED  BY <3>1, <3>2, <3>3
  <2>2. CASE /\ Innermost(g).left > 1
             /\ calling' = [calling EXCEPT ![g] =
                   [calling[g] EXCEPT ![Len(calling[g])] =
                      [calling[g][Len(calling[g])] EXCEPT !.left = calling[g][Len(calling[g])].left - 1]]]
    <3>1. PICK n \in DOMAIN calling[g], f \in Rounds :
             n = Len(calling[g]) /\ f = calling[g][n] /\ f.left > 1 /\ DOMAIN calling[g] = 1 .. n
      BY <1>2, <2>2, InnermostCall
    <3>2. PICK r \in Rounds : /\ r = [f EXCEPT !.left = f.left - 1]
                              /\ r.ext = f.ext /\ r.event = f.event /\ r.holds = f.holds
      <4>1. PICK k \in Nat : k = f.left - 1
        BY <3>1 DEF Rounds
      <4>2. [f EXCEPT !.left = k] \in Rounds
        BY DEF Rounds
      <4>3. /\ [f EXCEPT !.left = k].ext = f.ext /\ [f EXCEPT !.left = k].event = f.event
            /\ [f EXCEPT !.left = k].holds = f.holds
        BY DEF Rounds
      <4> QED  BY <4>1, <4>2, <4>3
    <3>3. /\ [calling[g] EXCEPT ![n] = r] \in Seq(Rounds)
          /\ DOMAIN [calling[g] EXCEPT ![n] = r] = 1 .. n
          /\ \A i \in 1 .. n : [calling[g] EXCEPT ![n] = r][i] = IF i = n THEN r ELSE calling[g][i]
      BY <1>2, <3>1, <3>2, ExceptSeq
    <3>4. calling' = [calling EXCEPT ![g] = [calling[g] EXCEPT ![n] = r]]
      BY <2>2, <3>1, <3>2
    <3> DEFINE s == [calling[g] EXCEPT ![n] = r]
    <3>5. /\ s \in Seq(Rounds) /\ DOMAIN s = DOMAIN calling[g]
          /\ \A i \in DOMAIN s : s[i] = IF i = n THEN r ELSE calling[g][i]
      BY <3>1, <3>3
    <3>6. calling' = [calling EXCEPT ![g] = s]
      BY <3>4
    <3> HIDE DEF s
    <3>7. \A i \in DOMAIN s : /\ ~Between(s[i]) /\ s[i].ext = calling[g][i].ext
                              /\ s[i].holds = calling[g][i].holds
      BY <1>3, <3>1, <3>2, <3>5 DEF Between
    <3> QED  BY <3>5, <3>6, <3>7
  <2> QED  BY <1>1, <2>1, <2>2
<1>5. /\ OneHolderEach' /\ BetweenIsInnermost' /\ AloneUnlessShared'
      /\ calling' \in [Goroutines -> Seq(Rounds)]
      /\ \A e : ~Adding(g, e)' /\ ~Removing(g, e)'
      /\ \A h \in Goroutines \ {g} : \A e : (Adding(h, e)' <=> Adding(h, e)) /\ (Removing(h, e)' <=> Removing(h, e))
  <2>1. shared' = shared
    BY <1>1
  <2> QED  BY <1>4, <2>1, RoundEnds
<1>6. \A e : ~Adding(g, e) /\ ~Removing(g, e)
  BY <1>2 DEF Adding, Removing, Between
<1>7. TablesAgree'
  <2>1. UNCHANGED <<listeners, entries, shared>>
    BY <1>1 DEF tables
  <2>2. \A h \in Goroutines : \A e : (Adding(h, e)' <=> Adding(h, e)) /\ (Removing(h, e)' <=> Removing(h, e))
    BY <1>5, <1>6
  <2> QED  BY <2>1, <2>2 DEF EventsInv, TablesAgree
<1>8. EventsTyped' /\ AnnouncedWhenGranted'
  BY <1>1, <1>5 DEF EventsInv, EventsTyped, AnnouncedWhenGranted, tables
<1> QED  BY <1>5, <1>7, <1>8 DEF EventsInv

LEMMA SecondTableKeeps == EventsInv /\ SecondTable => EventsInv'
<1> SUFFICES ASSUME EventsInv, SecondTable PROVE EventsInv'
  OBVIOUS
<1>1. PICK g \in Goroutines :
         /\ TableFollows(g)
         /\ calling' = [calling EXCEPT ![g] = SubSeq(calling[g], 1, Len(calling[g]) - 1)]
         /\ UNCHANGED <<started, handlers, entries, granted, wanted, observing, spent, announced, shared>>
  BY DEF SecondTable
<1>2. HasCalls(g) /\ Innermost(g) \in Rounds /\ EventsTyped /\ calling[g] \in Seq(Rounds)
  BY <1>1, InnermostCall DEF EventsInv, EventsTyped, TableFollows, HasCalls
<1>3. PICK e \in Exts, event \in {"adding", "removing"} :
         /\ e = Caller(g) /\ e = Innermost(g).ext /\ event = Innermost(g).event
         /\ listeners' = [listeners EXCEPT ![e]["request"] = IF event = "adding" THEN @ + 1 ELSE 0]
  BY <1>1, <1>2 DEF TableFollows, Scripting, HasCalls, Caller, Rounds
<1>4. PICK s \in Seq(Rounds) :
         /\ calling' = [calling EXCEPT ![g] = s]
         /\ \A i \in DOMAIN s : /\ i \in DOMAIN calling[g] /\ ~Between(s[i])
                                /\ s[i].ext = calling[g][i].ext /\ s[i].holds = calling[g][i].holds
  <2>1. \A i \in DOMAIN calling[g] : i # Len(calling[g]) => ~Between(calling[g][i])
    BY DEF EventsInv, BetweenIsInnermost
  <2> DEFINE s == SubSeq(calling[g], 1, Len(calling[g]) - 1)
  <2>2. /\ s \in Seq(Rounds)
        /\ \A i \in DOMAIN s : i \in DOMAIN calling[g] /\ i # Len(calling[g]) /\ s[i] = calling[g][i]
    BY <1>2, ShorterList
  <2>3. calling' = [calling EXCEPT ![g] = s]
    BY <1>1
  <2> HIDE DEF s
  <2>4. \A i \in DOMAIN s : ~Between(s[i])
    BY <2>1, <2>2
  <2> QED  BY <2>2, <2>3, <2>4
<1>5. /\ OneHolderEach' /\ BetweenIsInnermost' /\ AloneUnlessShared'
      /\ calling' \in [Goroutines -> Seq(Rounds)]
      /\ \A x : ~Adding(g, x)' /\ ~Removing(g, x)'
      /\ \A h \in Goroutines \ {g} : \A x : (Adding(h, x)' <=> Adding(h, x)) /\ (Removing(h, x)' <=> Removing(h, x))
  <2>1. shared' = shared
    BY <1>1
  <2> QED  BY <1>4, <2>1, RoundEnds
<1>6. /\ listeners' \in [Exts -> [Events -> Nat]]
      /\ listeners'[e]["request"] = IF event = "adding" THEN listeners[e]["request"] + 1 ELSE 0
      /\ \A x \in Exts \ {e} : listeners'[x] = listeners[x]
  <2>1. listeners \in [Exts -> [Events -> Nat]] /\ "request" \in Events
    BY DEF EventsInv, EventsTyped, Events
  <2>2. PICK v \in Nat : v = IF event = "adding" THEN listeners[e]["request"] + 1 ELSE 0
    BY <2>1
  <2>3. listeners' = [listeners EXCEPT ![e]["request"] = v]
    BY <1>3, <2>1, <2>2
  <2> QED  BY <2>1, <2>2, <2>3
<1>7. TablesAgree'
  <2> SUFFICES ASSUME NEW x \in Exts \ shared
               PROVE  /\ listeners'[x]["request"] > 0 => entries[x] > 0 \/ \E h \in Goroutines : Removing(h, x)'
                      /\ \A h \in Goroutines : Adding(h, x)' => entries[x] > 0
    BY <1>1 DEF TablesAgree, Adding, Removing
  <2>1. \A h \in Goroutines : Adding(h, x)' => entries[x] > 0
    BY <1>5 DEF EventsInv, TablesAgree
  <2>2. CASE x # e
    <3>1. ~Removing(g, x)
      BY <1>3, <2>2 DEF Removing
    <3> QED  BY <1>5, <1>6, <2>1, <2>2, <3>1 DEF EventsInv, TablesAgree
  <2>3. CASE x = e /\ event = "adding"
    <3>1. Adding(g, x)
      BY <1>2, <1>3, <2>3 DEF Adding
    <3> QED  BY <2>1, <3>1 DEF EventsInv, TablesAgree
  <2>4. CASE x = e /\ event = "removing"
    BY <1>6, <2>1, <2>4
  <2> QED  BY <2>2, <2>3, <2>4
<1>8. EventsTyped' /\ AnnouncedWhenGranted'
  BY <1>1, <1>5, <1>6 DEF EventsInv, EventsTyped, AnnouncedWhenGranted
<1> QED  BY <1>5, <1>7, <1>8 DEF EventsInv

LEMMA EventsKeep == EventsInv /\ [EventsNext]_eventVars => EventsInv'
<1> SUFFICES ASSUME EventsInv, [EventsNext]_eventVars PROVE EventsInv'
  OBVIOUS
<1>1. CASE StopExtension \/ Blocks \/ RequestObserved \/ UNCHANGED eventVars
  <2>1. /\ started' \subseteq started
        /\ UNCHANGED <<listeners, handlers, entries, granted, calling, announced, shared>>
    BY <1>1 DEF StopExtension, Blocks, RequestObserved, eventVars, tables
  <2>2. EventsTyped' /\ AnnouncedWhenGranted'
    BY <2>1 DEF EventsInv, EventsTyped, AnnouncedWhenGranted
  <2> QED  BY <2>1, <2>2, NobodyIsCalled DEF EventsInv
<1>2. CASE AddListener
  <2>1. PICK g \in Goroutines, k \in Events \ {"request"} :
           /\ Caller(g) \in started
           /\ listeners' = [listeners EXCEPT ![Caller(g)][k] = @ + 1]
           /\ UNCHANGED <<started, handlers, entries, granted, calling, wanted, observing, announced, shared>>
    BY <1>2 DEF AddListener
  <2>2. listeners' \in [Exts -> [Events -> Nat]] /\ \A e \in Exts : listeners'[e]["request"] = listeners[e]["request"]
    BY <2>1 DEF EventsInv, EventsTyped, Events
  <2>3. EventsTyped' /\ AnnouncedWhenGranted'
    BY <2>1, <2>2 DEF EventsInv, EventsTyped, AnnouncedWhenGranted
  <2> QED  BY <2>1, <2>2, <2>3, NobodyIsCalled DEF EventsInv
<1>3. CASE AddMessageListener
  <2>1. PICK g \in Goroutines :
           /\ Scripting(g)
           /\ handlers' = [handlers EXCEPT ![Caller(g)] = handlers[Caller(g)] + 1]
           /\ UNCHANGED <<started, listeners, entries, granted, calling, observing, announced, shared>>
    BY <1>3 DEF AddMessageListener, Locks
  <2>a. handlers' \in [Exts -> Nat]
    <3>1. PICK e \in Exts : e = Caller(g)
      BY <2>1, ScriptingCalls
    <3>2. handlers[e] + 1 \in Nat
      BY DEF EventsInv, EventsTyped
    <3> QED  BY <2>1, <3>1, <3>2 DEF EventsInv, EventsTyped
  <2>2. EventsTyped' /\ AnnouncedWhenGranted'
    BY <2>1, <2>a DEF EventsInv, EventsTyped, AnnouncedWhenGranted
  <2> QED  BY <2>1, <2>2, NobodyIsCalled DEF EventsInv
<1> QED  BY <1>1, <1>2, <1>3, StartKeeps, RoundsKeep, EventForAllKeeps, AskPermissionKeeps,
            RequestListenersKeep, ReturnKeeps, SecondTableKeeps DEF EventsNext

LEMMA EventsHold == EventsInv => ListenersAreKnown
<1> SUFFICES ASSUME EventsInv PROVE ListenersAreKnown
  OBVIOUS
<1>1. \A e \in Exts : announced[e] <= 1
  BY DEF EventsInv, AnnouncedWhenGranted, EventsTyped
<1>2. ASSUME NEW e \in started \ shared, Settled(e), listeners[e]["request"] > 0
      PROVE  entries[e] > 0
  <2>1. e \in Exts \ shared
    BY DEF EventsInv, EventsTyped
  <2>2. \A g \in Goroutines : ~Removing(g, e)
    BY <1>2, InnermostCall DEF EventsInv, Settled, Removing
  <2> QED  BY <1>2, <2>1, <2>2 DEF EventsInv, TablesAgree
<1> QED  BY <1>1, <1>2 DEF EventsInv, OneHolderEach, Locked, ListenersAreKnown

-----------------------------------------------------------------------------
(* Messages between windows.  A message for a window is in one place: with *)
(* the call that is to bring it there, in the window's queue, or heard.    *)

Doings == {"script", "drain", "deliver", "listen"}
WindowCalls ==
    [win : Windows, does : Doings, message : Nat, left : Nat,
     posting : Nat, todo : SUBSET Windows]
Letters == [message : Nat, page : Nat]
Hearings == [message : Nat, again : BOOLEAN, late : BOOLEAN]

MessagesTyped ==
    /\ registered \subseteq Windows /\ running \in [Windows -> BOOLEAN]
    /\ page \in [Windows -> Nat] /\ bound \in [Windows -> Nat] /\ sent \in Nat
    /\ mailbox \in [Windows -> Seq(Letters)]
    /\ stack \in [Workers -> Seq(WindowCalls)]
    /\ heard \in [Windows -> SUBSET Hearings]
    /\ waits = [g \in Workers |-> {}]

OneHolderOfWindow == \A w \in Windows : \A g, h \in Workers : Holds(g, w) /\ Holds(h, w) => g = h

OneCallBrings ==
    \A g, h \in Workers : \A i \in DOMAIN stack[g] : \A j \in DOMAIN stack[h] :
        \A w \in Windows, m \in Nat :
            Brings(stack[g][i], w, m) /\ Brings(stack[h][j], w, m) => g = h /\ i = j

(* A queue holds the messages of the page that is shown, each once.        *)
QueuesAreNew ==
    \A w \in Windows :
        /\ bound[w] <= page[w]
        /\ \A i \in DOMAIN mailbox[w] : mailbox[w][i].page = page[w]
        /\ \A i, j \in DOMAIN mailbox[w] : mailbox[w][i].message = mailbox[w][j].message => i = j

OnePlaceOnly ==
    \A w \in Windows, m \in Nat :
        /\ ~(Brought(w, m) /\ Waiting(w, m))
        /\ ~(Brought(w, m) /\ WasHeard(w, m))
        /\ ~(Waiting(w, m) /\ WasHeard(w, m))
        /\ Brought(w, m) \/ Waiting(w, m) \/ WasHeard(w, m) => m <= sent

(* What a drain delivers was queued for the page the runtime is bound to,  *)
(* or for one to come.                                                     *)
NotOvertaken ==
    \A g \in Workers : \A i \in DOMAIN stack[g] :
        i - 1 \in DOMAIN stack[g] /\ stack[g][i].does = "deliver" /\ stack[g][i - 1].does = "drain"
            => bound[stack[g][i].win] <= stack[g][i].left

HeardOnce == \A w \in Windows : \A h \in heard[w] : ~h.again /\ ~h.late

MessagesInv ==
    /\ MessagesTyped /\ OneHolderOfWindow /\ OneCallBrings /\ QueuesAreNew
    /\ OnePlaceOnly /\ NotOvertaken /\ HeardOnce

LEMMA MessagesStart == MessagesInit => MessagesInv
<1> SUFFICES ASSUME MessagesInit PROVE MessagesInv
  OBVIOUS
<1>1. /\ \A g \in Workers : stack[g] = <<>> /\ DOMAIN stack[g] = {}
      /\ \A w \in Windows : mailbox[w] = <<>> /\ DOMAIN mailbox[w] = {} /\ heard[w] = {}
  BY EmptySeq, ListProperties DEF MessagesInit
<1>2. MessagesTyped
  BY EmptySeq DEF MessagesInit, MessagesTyped, windowVars
<1>3. QueuesAreNew
  BY <1>1 DEF MessagesInit, QueuesAreNew
<1> QED  BY <1>1, <1>2, <1>3 DEF MessagesInv, OneHolderOfWindow, OneCallBrings, OnePlaceOnly,
                                 NotOvertaken, HeardOnce, Holds, Brought, Waiting, WasHeard

-----------------------------------------------------------------------------
(* The end of a list, changed.                                             *)

LEMMA FrontProperties ==
    ASSUME NEW S, NEW s \in Seq(S), s # <<>>
    PROVE  /\ Last(s) \in S /\ Last(s) = s[Len(s)] /\ Len(s) \in Nat /\ Len(s) >= 1
           /\ DOMAIN s = 1 .. Len(s) /\ Len(s) \in DOMAIN s
           /\ Front(s) \in Seq(S) /\ Len(Front(s)) = Len(s) - 1 /\ DOMAIN Front(s) = 1 .. Len(s) - 1
           /\ \A k \in 1 .. Len(s) - 1 : Front(s)[k] = s[k]
<1>1. Len(s) \in Nat /\ Len(s) >= 1 /\ DOMAIN s = 1 .. Len(s) /\ Len(s) \in 1 .. Len(s)
  BY ListProperties
<1>2. \A k \in 1 .. Len(s) : s[k] \in S
  BY ElementOfSeq
<1>3. PICK n \in Nat : n = Len(s) - 1
  <2>1. Len(s) - 1 \in Nat
    BY <1>1
  <2> QED  BY <2>1
<1> DEFINE f == SubSeq(s, 1, n)
<1>4. f \in Seq(S) /\ Len(f) = n /\ \A k \in 1 .. n : f[k] = s[k]
  <2>1. 1 \in Int /\ n \in Int /\ \A i \in 1 .. n : s[i] \in S
    BY <1>1, <1>2, <1>3
  <2>2. f \in Seq(S)
    BY <2>1, SubSeqProperties
  <2>3. Len(f) = n
    BY <2>1, SubSeqProperties
  <2>4. \A k \in 1 .. n : f[k] = s[k]
    BY <2>1, SubSeqProperties
  <2> QED  BY <2>2, <2>3, <2>4
<1> HIDE DEF f
<1>5. Front(s) = f
  BY <1>3 DEF Front, f
<1>6. DOMAIN f = 1 .. n
  BY <1>4, LenProperties
<1> QED  BY <1>1, <1>2, <1>3, <1>4, <1>5, <1>6 DEF Last

LEMMA LastReplaced ==
    ASSUME NEW S, NEW s \in Seq(S), s # <<>>, NEW c \in S
    PROVE  /\ Front(s) \o <<c>> \in Seq(S) /\ Len(Front(s) \o <<c>>) = Len(s)
           /\ DOMAIN (Front(s) \o <<c>>) = DOMAIN s
           /\ \A k \in DOMAIN s : (Front(s) \o <<c>>)[k] = IF k = Len(s) THEN c ELSE s[k]
<1>1. PICK f \in Seq(S), n \in Nat :
         /\ f = Front(s) /\ n = Len(s) /\ n >= 1 /\ DOMAIN s = 1 .. n /\ Len(f) = n - 1
         /\ \A k \in 1 .. n - 1 : f[k] = s[k]
  BY FrontProperties
<1>2. <<c>> \in Seq(S) /\ Len(<<c>>) = 1 /\ <<c>>[1] = c
  OBVIOUS
<1>3. /\ f \o <<c>> \in Seq(S) /\ Len(f \o <<c>>) = n
      /\ \A k \in 1 .. n : (f \o <<c>>)[k] = IF k = n THEN c ELSE f[k]
  <2>1. /\ f \o <<c>> \in Seq(S) /\ Len(f \o <<c>>) = Len(f) + Len(<<c>>)
        /\ \A k \in 1 .. Len(f) + Len(<<c>>) :
              (f \o <<c>>)[k] = IF k <= Len(f) THEN f[k] ELSE <<c>>[k - Len(f)]
    BY <1>2, ConcatProperties
  <2> QED  BY <1>1, <1>2, <2>1
<1>4. DOMAIN (f \o <<c>>) = 1 .. n
  BY <1>3, ListProperties
<1>5. \A k \in 1 .. n : k # n => k \in 1 .. n - 1
  BY <1>1
<1> QED  BY <1>1, <1>3, <1>4, <1>5

LEMMA ListExtended ==
    ASSUME NEW S, NEW s \in Seq(S), NEW c \in S
    PROVE  /\ Append(s, c) \in Seq(S) /\ Len(s) \in Nat /\ DOMAIN s = 1 .. Len(s)
           /\ Len(Append(s, c)) = Len(s) + 1 /\ DOMAIN Append(s, c) = 1 .. Len(s) + 1
           /\ Append(s, c)[Len(s) + 1] = c
           /\ \A k \in DOMAIN s : Append(s, c)[k] = s[k]
           /\ \A k \in DOMAIN Append(s, c) : k \in DOMAIN s \/ k = Len(s) + 1
<1>1. /\ Append(s, c) \in Seq(S) /\ Len(Append(s, c)) = Len(s) + 1
      /\ \A k \in 1 .. Len(s) : Append(s, c)[k] = s[k]
      /\ Append(s, c)[Len(s) + 1] = c
  BY AppendProperties
<1>2. DOMAIN Append(s, c) = 1 .. Len(s) + 1 /\ DOMAIN s = 1 .. Len(s) /\ Len(s) \in Nat
  BY <1>1, ListProperties
<1>3. \A k \in 1 .. Len(s) + 1 : k \in 1 .. Len(s) \/ k = Len(s) + 1
  BY <1>2
<1> QED  BY <1>1, <1>2, <1>3

LEMMA NumbersUpTo ==
    ASSUME NEW n \in Nat
    PROVE  Cardinality(1..n) = n /\ IsFiniteSet(1..n)
<1>1. IsFiniteSet(1..n) /\ Cardinality(1..n) = IF 1 > n THEN 0 ELSE n - 1 + 1
  BY FS_Interval
<1>2. (IF 1 > n THEN 0 ELSE n - 1 + 1) = n
  OBVIOUS
<1> QED  BY <1>1, <1>2

-----------------------------------------------------------------------------
(* A goroutine's calls become s: at most the call at k brings something    *)
(* new, message q to windows of T, and nothing else brings that.           *)
Fresh(g, s, k, T, q) ==
    /\ \A i \in DOMAIN s : \A w \in Windows, m \in Nat :
          Brings(s[i], w, m) => \/ i \in DOMAIN stack[g] /\ Brings(stack[g][i], w, m)
                                \/ i = k /\ w \in T /\ m = q
    /\ \A w \in T : \A i \in DOMAIN s : i # k => ~Brings(s[i], w, q)
    /\ \A w \in T : \A h \in Workers \ {g} : \A i \in DOMAIN stack[h] : ~Brings(stack[h][i], w, q)

(* It is in windows it was in already, or that were free.                  *)
StaysOrFree(g, s) ==
    \A i \in DOMAIN s : Holds(g, s[i].win) \/ FreeFor(g, s[i].win)

Prompt(g, s) ==
    \A i \in DOMAIN s : i - 1 \in DOMAIN s /\ s[i].does = "deliver" /\ s[i - 1].does = "drain"
                        => bound[s[i].win] <= s[i].left

(* A step that has calls bring only more of message q, to windows of T.    *)
OnlyMore(T, q) == \A w \in Windows, m \in Nat : Brought(w, m)' => Brought(w, m) \/ (w \in T /\ m = q)

LEMMA CallsMove ==
    ASSUME MessagesInv, NEW g \in Workers, NEW s \in Seq(WindowCalls),
           stack' = [stack EXCEPT ![g] = s], bound' = bound,
           NEW k \in Nat, NEW T \in SUBSET Windows, NEW q \in Nat,
           Fresh(g, s, k, T, q), StaysOrFree(g, s), Prompt(g, s)
    PROVE  /\ stack' \in [Workers -> Seq(WindowCalls)]
           /\ OneHolderOfWindow' /\ OneCallBrings' /\ NotOvertaken' /\ OnlyMore(T, q)
<1>1. /\ stack' \in [Workers -> Seq(WindowCalls)] /\ stack'[g] = s
      /\ \A h \in Workers \ {g} : stack'[h] = stack[h]
  BY DEF MessagesInv, MessagesTyped
<1>2. OneHolderOfWindow'
  <2>1. \A h \in Workers \ {g} : \A w : Holds(h, w)' <=> Holds(h, w)
    BY <1>1 DEF Holds
  <2>2. \A w : Holds(g, w)' => Holds(g, w) \/ FreeFor(g, w)
    BY <1>1 DEF Holds, StaysOrFree
  <2> QED  BY <2>1, <2>2 DEF MessagesInv, OneHolderOfWindow, FreeFor
<1>3. NotOvertaken'
  BY <1>1 DEF MessagesInv, NotOvertaken, Prompt
<1>4. OneCallBrings'
  <2> SUFFICES ASSUME NEW g1 \in Workers, NEW g2 \in Workers,
                      NEW i \in DOMAIN stack'[g1], NEW j \in DOMAIN stack'[g2],
                      NEW w \in Windows, NEW m \in Nat,
                      Brings(stack'[g1][i], w, m), Brings(stack'[g2][j], w, m)
               PROVE  g1 = g2 /\ i = j
    BY DEF OneCallBrings, Brings
  <2> DEFINE Old(h, n) == n \in DOMAIN stack[h] /\ Brings(stack[h][n], w, m)
             New(h, n) == h = g /\ n = k /\ w \in T /\ m = q
  <2>1. /\ Old(g1, i) \/ New(g1, i)
        /\ Old(g2, j) \/ New(g2, j)
    <3>1. ASSUME NEW h \in Workers, NEW n \in DOMAIN stack'[h], Brings(stack'[h][n], w, m)
          PROVE  Old(h, n) \/ New(h, n)
      <4>1. CASE h = g
        BY <1>1, <3>1, <4>1 DEF Fresh
      <4>2. CASE h # g
        BY <1>1, <3>1, <4>2
      <4> QED  BY <4>1, <4>2
    <3> QED  BY <3>1
  <2>2. CASE Old(g1, i) /\ Old(g2, j)
    BY <2>2 DEF MessagesInv, OneCallBrings
  <2>3. CASE New(g1, i)
    <3>1. CASE g2 = g
      BY <1>1, <2>3, <3>1 DEF Fresh
    <3>2. CASE g2 # g
      BY <1>1, <2>3, <3>2 DEF Fresh
    <3> QED  BY <3>1, <3>2
  <2>4. CASE New(g2, j)
    <3>1. CASE g1 = g
      BY <1>1, <2>4, <3>1 DEF Fresh
    <3>2. CASE g1 # g
      BY <1>1, <2>4, <3>2 DEF Fresh
    <3> QED  BY <3>1, <3>2
  <2> QED  BY <2>1, <2>2, <2>3, <2>4
<1>5. OnlyMore(T, q)
  <2> SUFFICES ASSUME NEW w \in Windows, NEW m \in Nat, NEW h \in Workers, NEW i \in DOMAIN stack'[h],
                      Brings(stack'[h][i], w, m)
               PROVE  Brought(w, m) \/ (w \in T /\ m = q)
    BY DEF OnlyMore, Brought, Brings
  <2>1. CASE h = g
    BY <1>1, <2>1 DEF Fresh, Brought
  <2>2. CASE h # g
    BY <1>1, <2>2 DEF Brought
  <2> QED  BY <2>1, <2>2
<1> QED  BY <1>1, <1>2, <1>3, <1>4, <1>5

(* Nothing new is brought, and a call more or less changes no more.        *)
LEMMA NothingBrought ==
    ASSUME MessagesInv, NEW g \in Workers, NEW s \in Seq(WindowCalls),
           stack' = [stack EXCEPT ![g] = s],
           \A i \in DOMAIN s : \A w \in Windows, m \in Nat :
              Brings(s[i], w, m) => i \in DOMAIN stack[g] /\ Brings(stack[g][i], w, m),
           StaysOrFree(g, s), Prompt(g, s),
           UNCHANGED <<windowVars, mailbox, waits, sent, heard>>
    PROVE  MessagesInv'
<1> PICK T \in SUBSET Windows, q \in Nat : T = {} /\ q = 0
  OBVIOUS
<1>1. Fresh(g, s, q, T, q)
  BY DEF Fresh
<1>2. /\ stack' \in [Workers -> Seq(WindowCalls)]
      /\ OneHolderOfWindow' /\ OneCallBrings' /\ NotOvertaken'
      /\ \A w \in Windows, m \in Nat : Brought(w, m)' => Brought(w, m)
  <2>1. bound' = bound
    BY DEF windowVars
  <2>2. /\ stack' \in [Workers -> Seq(WindowCalls)]
        /\ OneHolderOfWindow' /\ OneCallBrings' /\ NotOvertaken' /\ OnlyMore(T, q)
    BY <1>1, <2>1, CallsMove
  <2> QED  BY <2>2 DEF OnlyMore
<1>3. MessagesTyped' /\ QueuesAreNew' /\ HeardOnce'
  BY <1>2 DEF MessagesInv, MessagesTyped, QueuesAreNew, HeardOnce, windowVars
<1>4. OnePlaceOnly'
  BY <1>2 DEF MessagesInv, OnePlaceOnly, Waiting, WasHeard
<1> QED  BY <1>2, <1>3, <1>4 DEF MessagesInv

(* What a goroutine is at.                                                 *)
LEMMA TopCall ==
    ASSUME MessagesInv, NEW g \in Workers, stack[g] # <<>>
    PROVE  /\ stack[g] \in Seq(WindowCalls) /\ Top(g) \in WindowCalls
           /\ Len(stack[g]) \in Nat /\ DOMAIN stack[g] = 1 .. Len(stack[g])
           /\ Len(stack[g]) \in DOMAIN stack[g] /\ Top(g) = stack[g][Len(stack[g])]
           /\ Top(g).win \in Windows /\ Holds(g, Top(g).win)
           /\ Top(g).message \in Nat /\ Top(g).left \in Nat
           /\ Top(g).posting \in Nat /\ Top(g).todo \subseteq Windows
<1>1. /\ stack[g] \in Seq(WindowCalls) /\ Top(g) \in WindowCalls
      /\ Len(stack[g]) \in Nat /\ DOMAIN stack[g] = 1 .. Len(stack[g])
      /\ Len(stack[g]) \in DOMAIN stack[g] /\ Top(g) = stack[g][Len(stack[g])]
  BY FrontProperties DEF MessagesInv, MessagesTyped, Top
<1>2. Holds(g, Top(g).win)
  BY <1>1 DEF Holds
<1>3. /\ Top(g).win \in Windows /\ Top(g).message \in Nat /\ Top(g).left \in Nat
      /\ Top(g).posting \in Nat /\ Top(g).todo \subseteq Windows
  BY <1>1 DEF WindowCalls
<1> QED  BY <1>1, <1>2, <1>3

LEMMA NewCall ==
    ASSUME NEW w \in Windows, NEW does \in Doings,
           NEW m \in Nat, NEW n \in Nat
    PROVE  /\ Call(w, does, m, n) \in WindowCalls
           /\ Call(w, does, m, n).win = w /\ Call(w, does, m, n).does = does
           /\ Call(w, does, m, n).left = n
           /\ \A v, k : Brings(Call(w, does, m, n), v, k) <=> does = "deliver" /\ v = w /\ k = m
  BY DEF Call, WindowCalls, Brings

(* The last call is changed, ...                                           *)
LEMMA TopChanges ==
    ASSUME MessagesInv, NEW g \in Workers, stack[g] # <<>>, NEW c \in WindowCalls,
           c.win = Top(g).win, c.does # "deliver"
    PROVE  \E s \in Seq(WindowCalls) :
              /\ s = Instead(g, c)
              /\ DOMAIN s = DOMAIN stack[g] /\ Len(s) = Len(stack[g])
              /\ \A i \in DOMAIN s : s[i] = IF i = Len(stack[g]) THEN c ELSE stack[g][i]
              /\ StaysOrFree(g, s) /\ Prompt(g, s)
<1>1. PICK s \in Seq(WindowCalls) :
      /\ s = Instead(g, c) /\ DOMAIN s = DOMAIN stack[g] /\ Len(s) = Len(stack[g])
      /\ \A i \in DOMAIN s : s[i] = IF i = Len(stack[g]) THEN c ELSE stack[g][i]
  <2>1. PICK old \in Seq(WindowCalls) : old = stack[g] /\ old # <<>>
    BY TopCall
  <2>2. /\ Front(old) \o <<c>> \in Seq(WindowCalls) /\ Len(Front(old) \o <<c>>) = Len(old)
        /\ DOMAIN (Front(old) \o <<c>>) = DOMAIN old
        /\ \A k \in DOMAIN old : (Front(old) \o <<c>>)[k] = IF k = Len(old) THEN c ELSE old[k]
    BY <2>1, LastReplaced
  <2>3. Instead(g, c) = Front(old) \o <<c>>
    BY <2>1 DEF Instead
  <2> QED  BY <2>1, <2>2, <2>3
<1>2. StaysOrFree(g, s)
  BY <1>1, TopCall DEF StaysOrFree, Holds
<1>3. Prompt(g, s)
  <2> SUFFICES ASSUME NEW i \in DOMAIN s, i - 1 \in DOMAIN s, s[i].does = "deliver", s[i - 1].does = "drain"
               PROVE  bound[s[i].win] <= s[i].left
    BY DEF Prompt
  <2>1. i # Len(stack[g]) /\ s[i] = stack[g][i]
    BY <1>1
  <2>2. i - 1 # Len(stack[g]) /\ s[i - 1] = stack[g][i - 1]
    <3>1. i \in 1 .. Len(stack[g]) /\ Len(stack[g]) \in Nat
      BY <1>1, TopCall
    <3> QED  BY <1>1, <3>1
  <2> QED  BY <1>1, <2>1, <2>2 DEF MessagesInv, NotOvertaken
<1> QED  BY <1>1, <1>2, <1>3

(* ... or one more is made.                                                *)
LEMMA CallMade ==
    ASSUME NEW g \in Workers, NEW s \in Seq(WindowCalls), StaysOrFree(g, s), Prompt(g, s),
           NEW d \in WindowCalls, Holds(g, d.win) \/ FreeFor(g, d.win),
           Len(s) \in DOMAIN s /\ d.does = "deliver" /\ s[Len(s)].does = "drain" => bound[d.win] <= d.left
    PROVE  StaysOrFree(g, Append(s, d)) /\ Prompt(g, Append(s, d))
<1>1. PICK r \in Seq(WindowCalls), n \in Nat :
         /\ r = Append(s, d) /\ n = Len(s) /\ DOMAIN s = 1 .. n
         /\ DOMAIN r = 1 .. n + 1 /\ r[n + 1] = d
         /\ \A k \in 1 .. n : r[k] = s[k]
         /\ \A k \in 1 .. n + 1 : k \in 1 .. n \/ k = n + 1
  <2>1. /\ Append(s, d) \in Seq(WindowCalls) /\ Len(s) \in Nat /\ DOMAIN s = 1 .. Len(s)
        /\ DOMAIN Append(s, d) = 1 .. Len(s) + 1
        /\ Append(s, d)[Len(s) + 1] = d
        /\ \A k \in DOMAIN s : Append(s, d)[k] = s[k]
        /\ \A k \in DOMAIN Append(s, d) : k \in DOMAIN s \/ k = Len(s) + 1
    BY ListExtended
  <2> QED  BY <2>1
<1>2. StaysOrFree(g, r)
  BY <1>1 DEF StaysOrFree
<1>3. Prompt(g, r)
  <2> SUFFICES ASSUME NEW i \in DOMAIN r, i - 1 \in DOMAIN r, r[i].does = "deliver", r[i - 1].does = "drain"
               PROVE  bound[r[i].win] <= r[i].left
    BY DEF Prompt
  <2>1. i - 1 \in 1 .. n
    BY <1>1
  <2>2. CASE i \in 1 .. n
    BY <1>1, <2>1, <2>2 DEF Prompt
  <2>3. CASE i = n + 1
    <3>1. i - 1 = n
      BY <2>3
    <3> QED  BY <1>1, <2>1, <2>3, <3>1
  <2> QED  BY <1>1, <2>2, <2>3
<1> QED  BY <1>1, <1>2, <1>3

LEMMA CallDropped ==
    ASSUME MessagesInv, NEW g \in Workers, stack[g] # <<>>, Return(g),
           UNCHANGED <<windowVars, mailbox, waits, sent, heard>>
    PROVE  MessagesInv'
<1>1. PICK s \in Seq(WindowCalls), n \in Nat :
         /\ s = Front(stack[g]) /\ n = Len(stack[g]) /\ n >= 1 /\ DOMAIN stack[g] = 1 .. n
         /\ DOMAIN s = 1 .. n - 1 /\ \A k \in 1 .. n - 1 : s[k] = stack[g][k]
  <2>1. stack[g] \in Seq(WindowCalls)
    BY TopCall
  <2>2. /\ Len(stack[g]) \in Nat /\ Len(stack[g]) >= 1 /\ DOMAIN stack[g] = 1 .. Len(stack[g])
        /\ Front(stack[g]) \in Seq(WindowCalls) /\ DOMAIN Front(stack[g]) = 1 .. Len(stack[g]) - 1
        /\ \A k \in 1 .. Len(stack[g]) - 1 : Front(stack[g])[k] = stack[g][k]
    BY <2>1, FrontProperties
  <2>3. PICK n \in Nat : n = Len(stack[g])
    BY <2>2
  <2>4. PICK s \in Seq(WindowCalls) : s = Front(stack[g])
    BY <2>2
  <2> QED  BY <2>2, <2>3, <2>4
<1>2. \A i \in DOMAIN s : i \in DOMAIN stack[g] /\ s[i] = stack[g][i]
  BY <1>1
<1>3. StaysOrFree(g, s) /\ Prompt(g, s)
  BY <1>2 DEF MessagesInv, NotOvertaken, StaysOrFree, Prompt, Holds
<1>4. stack' = [stack EXCEPT ![g] = s]
  BY <1>1 DEF Return
<1> QED  BY <1>2, <1>3, <1>4, NothingBrought

(* A goroutine with no call begins a script, or a drain.                   *)
LEMMA FirstCallKeeps ==
    ASSUME MessagesInv, NEW g \in Workers, NEW w \in Windows, stack[g] = <<>>, FreeFor(g, w),
           NEW does \in {"script", "drain"}, NEW n \in Nat,
           Push(g, Call(w, does, 0, n)),
           UNCHANGED <<windowVars, mailbox, waits, sent, heard>>
    PROVE  MessagesInv'
<1>1. PICK c \in WindowCalls :
         /\ c = Call(w, does, 0, n) /\ c.win = w /\ c.does = does /\ \A v, k : ~Brings(c, v, k)
  <2>1. does \in Doings /\ 0 \in Nat /\ does # "deliver"
    BY DEF Doings
  <2>2. /\ Call(w, does, 0, n) \in WindowCalls
        /\ Call(w, does, 0, n).win = w /\ Call(w, does, 0, n).does = does
        /\ \A v, k : Brings(Call(w, does, 0, n), v, k) <=> does = "deliver" /\ v = w /\ k = 0
    BY <2>1, NewCall
  <2> QED  BY <2>1, <2>2
<1>2. stack[g] \in Seq(WindowCalls) /\ DOMAIN stack[g] = {} /\ Len(stack[g]) = 0
  BY ListProperties DEF MessagesInv, MessagesTyped
<1>3. PICK s \in Seq(WindowCalls) : s = Append(stack[g], c) /\ DOMAIN s = 1 .. 1 /\ s[1] = c
  <2>1. PICK old \in Seq(WindowCalls) : old = stack[g] /\ Len(old) = 0
    BY <1>2
  <2>2. /\ Append(old, c) \in Seq(WindowCalls) /\ DOMAIN Append(old, c) = 1 .. Len(old) + 1
        /\ Append(old, c)[Len(old) + 1] = c
    BY ListExtended
  <2>3. Len(old) + 1 = 1
    BY <2>1
  <2> QED  BY <2>1, <2>2, <2>3
<1>4. \A i \in DOMAIN s : s[i] = c
  BY <1>3
<1>5. StaysOrFree(g, s) /\ Prompt(g, s)
  BY <1>1, <1>4 DEF StaysOrFree, Prompt
<1>6. stack' = [stack EXCEPT ![g] = s]
  BY <1>1, <1>3 DEF Push
<1> QED  BY <1>1, <1>4, <1>5, <1>6, NothingBrought

(* The drain takes the oldest message of the queue.                        *)
LEMMA DrainTakesKeeps == MessagesInv /\ DrainTakes => MessagesInv'
<1> SUFFICES ASSUME MessagesInv, DrainTakes PROVE MessagesInv'
  OBVIOUS
<1>1. PICK g \in Workers : /\ stack[g] # <<>> /\ Top(g).does = "drain"
                           /\ UNCHANGED <<windowVars, waits, sent, heard>>
                           /\ \/ Return(g) /\ UNCHANGED mailbox
                              \/ LET w == Top(g).win IN
                                 /\ Top(g).left > 0 /\ running[w] /\ mailbox[w] # <<>>
                                 /\ stack' = [stack EXCEPT ![g] =
                                       Append(Instead(g, [Top(g) EXCEPT !.left = Top(g).left - 1]),
                                              Call(w, "deliver", Head(mailbox[w]).message, Head(mailbox[w]).page))]
                                 /\ mailbox' = [mailbox EXCEPT ![w] = Tail(mailbox[w])]
  BY DEF DrainTakes
<1>2. CASE Return(g) /\ UNCHANGED mailbox
  BY <1>1, <1>2, CallDropped
<1>3. CASE ~(Return(g) /\ UNCHANGED mailbox)
  <2> DEFINE w == Top(g).win
             box == mailbox[w]
             c == [Top(g) EXCEPT !.left = Top(g).left - 1]
             d == Call(w, "deliver", Head(box).message, Head(box).page)
             r == Instead(g, c)
             s == Append(r, d)
             n == Len(stack[g])
             q == Head(box).message
  <2>1. /\ Top(g).left > 0 /\ box # <<>> /\ stack' = [stack EXCEPT ![g] = s]
        /\ mailbox' = [mailbox EXCEPT ![w] = Tail(box)]
    BY <1>1, <1>3
  <2>2. /\ w \in Windows /\ Holds(g, w) /\ n \in Nat /\ DOMAIN stack[g] = 1 .. n /\ n \in DOMAIN stack[g]
        /\ Top(g) \in WindowCalls /\ Top(g).left \in Nat /\ Top(g).left > 0
        /\ Top(g).does = "drain" /\ Top(g) = stack[g][n]
    BY <1>1, <2>1, TopCall
  <2>3. /\ box \in Seq(Letters) /\ Head(box) \in Letters /\ Tail(box) \in Seq(Letters)
        /\ Len(box) \in Nat /\ DOMAIN box = 1 .. Len(box) /\ Len(box) >= 1 /\ Head(box) = box[1]
        /\ DOMAIN Tail(box) = 1 .. Len(box) - 1
        /\ \A i \in 1 .. Len(box) - 1 : Tail(box)[i] = box[i + 1]
    <3>1. box \in Seq(Letters)
      BY <2>2 DEF MessagesInv, MessagesTyped
    <3>2. /\ Head(box) \in Letters /\ Tail(box) \in Seq(Letters) /\ Len(Tail(box)) = Len(box) - 1
          /\ \A i \in 1 .. Len(Tail(box)) : Tail(box)[i] = box[i + 1]
      BY <2>1, <3>1, HeadTailProperties
    <3>3. Len(box) \in Nat /\ DOMAIN box = 1 .. Len(box) /\ Len(box) >= 1
      BY <2>1, <3>1, ListProperties
    <3>4. Head(box) = box[1]
      OBVIOUS
    <3>5. DOMAIN Tail(box) = 1 .. Len(Tail(box))
      BY <3>2, ListProperties
    <3> QED  BY <3>1, <3>2, <3>3, <3>4, <3>5
  <2>4. /\ c \in WindowCalls /\ c.win = w /\ c.does = "drain"
        /\ \A v, k : Brings(c, v, k) => Brings(stack[g][n], v, k)
    <3>1. PICK a \in WindowCalls, l \in Nat : a = Top(g) /\ l = a.left - 1
      BY <2>2
    <3>2. c = [a EXCEPT !.left = l] /\ a.does = "drain" /\ a.win = w /\ a = stack[g][n]
      BY <2>2, <3>1
    <3>3. [a EXCEPT !.left = l] \in WindowCalls /\ [a EXCEPT !.left = l].win = a.win
          /\ [a EXCEPT !.left = l].does = a.does /\ [a EXCEPT !.left = l].message = a.message
          /\ [a EXCEPT !.left = l].posting = a.posting /\ [a EXCEPT !.left = l].todo = a.todo
      BY DEF WindowCalls
    <3> QED  BY <3>2, <3>3 DEF Brings
  <2>5. /\ q \in Nat /\ d \in WindowCalls /\ d.win = w /\ d.does = "deliver" /\ d.left = Head(box).page
        /\ \A v, k : Brings(d, v, k) <=> v = w /\ k = q
    <3>1. q \in Nat /\ Head(box).page \in Nat
      BY <2>3 DEF Letters
    <3>2. PICK v \in Windows, m \in Nat, k \in Nat : v = w /\ m = q /\ k = Head(box).page
      BY <2>2, <3>1
    <3>3. "deliver" \in Doings
      BY DEF Doings
    <3>4. /\ Call(v, "deliver", m, k) \in WindowCalls
          /\ Call(v, "deliver", m, k).win = v /\ Call(v, "deliver", m, k).does = "deliver"
          /\ Call(v, "deliver", m, k).left = k
          /\ \A x, y : Brings(Call(v, "deliver", m, k), x, y) <=> x = v /\ y = m
      BY <3>3, NewCall
    <3>5. d = Call(v, "deliver", m, k)
      BY <3>2
    <3> HIDE DEF d, q, w, box
    <3> QED  BY <3>1, <3>2, <3>4, <3>5
  <2>6. /\ r \in Seq(WindowCalls) /\ DOMAIN r = 1 .. n /\ Len(r) = n
        /\ \A i \in 1 .. n : r[i] = IF i = n THEN c ELSE stack[g][i]
        /\ StaysOrFree(g, r) /\ Prompt(g, r)
    <3>1. c.win = Top(g).win /\ c.does # "deliver"
      BY <2>4
    <3> HIDE DEF c, w
    <3>2. PICK l \in Seq(WindowCalls) :
             /\ l = Instead(g, c) /\ DOMAIN l = DOMAIN stack[g] /\ Len(l) = Len(stack[g])
             /\ \A i \in DOMAIN l : l[i] = IF i = Len(stack[g]) THEN c ELSE stack[g][i]
             /\ StaysOrFree(g, l) /\ Prompt(g, l)
      BY <1>1, <2>4, <3>1, TopChanges
    <3>3. r = l
      BY <3>2
    <3> HIDE DEF r, n
    <3> QED  BY <2>2, <3>2, <3>3 DEF n
  <2>7. /\ s \in Seq(WindowCalls) /\ DOMAIN s = 1 .. n + 1 /\ s[n + 1] = d
        /\ \A i \in 1 .. n : s[i] = r[i]
        /\ \A i \in 1 .. n + 1 : i \in 1 .. n \/ i = n + 1
    <3> HIDE DEF d, r
    <3> QED  BY <2>5, <2>6, ListExtended
  <2>8. bound[w] <= Head(box).page
    BY <2>2, <2>3 DEF MessagesInv, QueuesAreNew
  <2>9. StaysOrFree(g, s) /\ Prompt(g, s)
    <3> HIDE DEF d, r, w
    <3> QED  BY <2>2, <2>5, <2>6, <2>8, CallMade
  <2>10. ~Brought(w, q) /\ Waiting(w, q)
    <3>1. 1 \in DOMAIN box /\ box[1].message = q
      BY <2>3
    <3> HIDE DEF q, w
    <3>2. Waiting(w, q)
      BY <3>1 DEF Waiting
    <3> QED  BY <2>2, <2>5, <3>2 DEF MessagesInv, OnePlaceOnly
  <2> HIDE DEF w, c, d, r, s, n, q
  <2>11. ASSUME NEW i \in DOMAIN s, NEW v \in Windows, NEW m \in Nat, Brings(s[i], v, m)
         PROVE  \/ i \in DOMAIN stack[g] /\ Brings(stack[g][i], v, m)
                \/ i = n + 1 /\ v = w /\ m = q
    BY <2>2, <2>4, <2>5, <2>6, <2>7, <2>11
  <2>12. \A h \in Workers : \A i \in DOMAIN stack[h] : ~Brings(stack[h][i], w, q)
    BY <2>10 DEF Brought
  <2> PICK T \in SUBSET Windows : T = {w}
    BY <2>2
  <2> PICK last \in Nat : last = n + 1
    BY <2>2
  <2>13. Fresh(g, s, last, T, q)
    <3>1. \A v \in T : v = w
      OBVIOUS
    <3>2. \A i \in DOMAIN s : i # n + 1 => ~Brings(s[i], w, q)
      BY <2>2, <2>4, <2>6, <2>7, <2>12
    <3> QED  BY <2>11, <2>12, <3>1, <3>2 DEF Fresh
  <2>14. /\ stack' \in [Workers -> Seq(WindowCalls)]
         /\ OneHolderOfWindow' /\ OneCallBrings' /\ NotOvertaken'
         /\ \A v \in Windows, m \in Nat : Brought(v, m)' => Brought(v, m) \/ (v \in T /\ m = q)
    <3>1. q \in Nat /\ bound' = bound
      BY <1>1, <2>5 DEF windowVars
    <3>2. s \in Seq(WindowCalls) /\ stack' = [stack EXCEPT ![g] = s]
      BY <2>1, <2>7
    <3>3. PICK m \in Nat, l \in Seq(WindowCalls) : m = q /\ l = s
      BY <3>1, <3>2
    <3>4. /\ stack' = [stack EXCEPT ![g] = l] /\ bound' = bound
          /\ Fresh(g, l, last, T, m) /\ StaysOrFree(g, l) /\ Prompt(g, l)
      BY <2>9, <2>13, <3>1, <3>2, <3>3
    <3>5. stack' \in [Workers -> Seq(WindowCalls)]
      BY <3>4, CallsMove
    <3>6. OneHolderOfWindow' /\ OneCallBrings' /\ NotOvertaken'
      BY <3>4, CallsMove
    <3>7. OnlyMore(T, m)
      BY <3>4, CallsMove
    <3> QED  BY <3>3, <3>5, <3>6, <3>7 DEF OnlyMore
  <2>15. /\ mailbox' \in [Windows -> Seq(Letters)] /\ mailbox'[w] = Tail(box)
         /\ \A v \in Windows \ {w} : mailbox'[v] = mailbox[v]
    BY <2>1, <2>2, <2>3 DEF MessagesInv, MessagesTyped
  <2>16. \A i \in DOMAIN mailbox'[w] :
            /\ i + 1 \in DOMAIN box /\ mailbox'[w][i] = box[i + 1] /\ i + 1 # 1 /\ 1 \in DOMAIN box
    BY <2>3, <2>15
  <2> HIDE DEF box
  <2>17. box = mailbox[w] /\ q = box[1].message
    BY <2>3 DEF box, q
  <2>18. QueuesAreNew'
    <3>1. page' = page /\ bound' = bound
      BY <1>1 DEF windowVars
    <3>2. \A i, j \in DOMAIN mailbox'[w] : i + 1 = j + 1 => i = j
      BY <2>3, <2>15
    <3>3. /\ \A i \in DOMAIN box : box[i].page = page[w]
          /\ \A i, j \in DOMAIN box : box[i].message = box[j].message => i = j
      BY <2>2, <2>17 DEF MessagesInv, QueuesAreNew
    <3>4. \A i \in DOMAIN mailbox'[w] : mailbox'[w][i].page = page[w]
      BY <2>16, <3>3
    <3>5. \A i, j \in DOMAIN mailbox'[w] : mailbox'[w][i].message = mailbox'[w][j].message => i = j
      BY <2>16, <3>2, <3>3
    <3> QED  BY <2>15, <3>1, <3>4, <3>5 DEF MessagesInv, QueuesAreNew
  <2>19. \A v \in Windows, m \in Nat : Waiting(v, m)' => Waiting(v, m) /\ ~(v = w /\ m = q)
    <3> SUFFICES ASSUME NEW v \in Windows, NEW m \in Nat, NEW i \in DOMAIN mailbox'[v],
                        mailbox'[v][i].message = m
                 PROVE  Waiting(v, m) /\ ~(v = w /\ m = q)
      BY DEF Waiting
    <3>1. CASE v = w
      BY <2>2, <2>16, <2>17, <3>1 DEF Waiting, MessagesInv, QueuesAreNew
    <3>2. CASE v # w
      BY <2>15, <3>2 DEF Waiting
    <3> QED  BY <3>1, <3>2
  <2>20. OnePlaceOnly'
    <3>1. heard' = heard /\ sent' = sent
      BY <1>1
    <3> QED  BY <2>2, <2>10, <2>14, <2>19, <3>1 DEF MessagesInv, OnePlaceOnly, WasHeard
  <2>21. MessagesTyped' /\ HeardOnce'
    BY <1>1, <2>14, <2>15 DEF MessagesInv, MessagesTyped, HeardOnce, windowVars
  <2> QED  BY <2>14, <2>18, <2>20, <2>21 DEF MessagesInv
<1> QED  BY <1>2, <1>3

(* The message has gone to t: no call brings it there any more.            *)
LEMMA VisitedList ==
    ASSUME MessagesInv, NEW g \in Workers, InScript(g), NEW t \in Windows, t \in Top(g).todo,
           NEW q \in Nat, q = Top(g).posting
    PROVE  \E s \in Seq(WindowCalls) :
              /\ s = Visited(g, t)
              /\ DOMAIN s = DOMAIN stack[g] /\ DOMAIN s = 1 .. Len(s)
              /\ Len(s) \in DOMAIN s /\ s[Len(s)].does # "drain"
              /\ StaysOrFree(g, s) /\ Prompt(g, s)
              /\ \A i \in DOMAIN s : \A w \in Windows, m \in Nat :
                    Brings(s[i], w, m) => Brings(stack[g][i], w, m)
              /\ \A i \in DOMAIN s : ~Brings(s[i], t, q)
              /\ \A h \in Workers \ {g} : \A i \in DOMAIN stack[h] : ~Brings(stack[h][i], t, q)
              /\ Brought(t, q)
<1>1. PICK a \in WindowCalls, n \in Nat :
         /\ a = Top(g) /\ n = Len(stack[g]) /\ n \in DOMAIN stack[g] /\ DOMAIN stack[g] = 1 .. n
         /\ stack[g] # <<>> /\ a = stack[g][n] /\ a.does \in {"script", "listen"}
         /\ a.posting = q /\ t \in a.todo
  BY TopCall DEF InScript
<1>2. PICK c \in WindowCalls :
         /\ c = [Top(g) EXCEPT !.todo = Top(g).todo \ {t}]
         /\ c.win = a.win /\ c.does = a.does
         /\ \A w, m : Brings(c, w, m) <=> a.posting = m /\ w \in a.todo /\ w # t
  <2>1. PICK rest \in SUBSET Windows : rest = a.todo \ {t}
    BY <1>1 DEF WindowCalls
  <2>2. /\ [a EXCEPT !.todo = rest] \in WindowCalls /\ [a EXCEPT !.todo = rest].todo = rest
        /\ [a EXCEPT !.todo = rest].win = a.win /\ [a EXCEPT !.todo = rest].does = a.does
        /\ [a EXCEPT !.todo = rest].posting = a.posting
    BY DEF WindowCalls
  <2>3. PICK c \in WindowCalls :
           c = [a EXCEPT !.todo = rest] /\ c.todo = rest /\ c.win = a.win /\ c.does = a.does /\ c.posting = a.posting
    BY <2>2
  <2>4. \A w, m : Brings(c, w, m) <=> a.posting = m /\ w \in a.todo /\ w # t
    BY <1>1, <2>1, <2>3 DEF Brings
  <2> QED  BY <1>1, <2>1, <2>3, <2>4
<1>3. PICK s \in Seq(WindowCalls) :
         /\ s = Visited(g, t) /\ DOMAIN s = DOMAIN stack[g] /\ Len(s) = n
         /\ \A i \in DOMAIN s : s[i] = IF i = n THEN c ELSE stack[g][i]
         /\ StaysOrFree(g, s) /\ Prompt(g, s)
  <2>1. c.win = Top(g).win /\ c.does # "deliver"
    BY <1>1, <1>2
  <2>2. PICK s \in Seq(WindowCalls) :
           /\ s = Instead(g, c) /\ DOMAIN s = DOMAIN stack[g] /\ Len(s) = Len(stack[g])
           /\ \A i \in DOMAIN s : s[i] = IF i = Len(stack[g]) THEN c ELSE stack[g][i]
           /\ StaysOrFree(g, s) /\ Prompt(g, s)
    BY <1>1, <2>1, TopChanges
  <2>3. s = Visited(g, t)
    BY <1>2, <2>2 DEF Visited
  <2> QED  BY <1>1, <2>2, <2>3
<1>4. Brings(stack[g][n], t, q)
  BY <1>1 DEF Brings
<1>5. /\ \A i \in DOMAIN stack[g] : Brings(stack[g][i], t, q) => i = n
      /\ \A h \in Workers \ {g} : \A i \in DOMAIN stack[h] : ~Brings(stack[h][i], t, q)
  BY <1>1, <1>4 DEF MessagesInv, OneCallBrings
<1>6. \A i \in DOMAIN s : \A w \in Windows, m \in Nat : Brings(s[i], w, m) => Brings(stack[g][i], w, m)
  <2> SUFFICES ASSUME NEW i \in DOMAIN s, NEW w \in Windows, NEW m \in Nat, Brings(s[i], w, m)
               PROVE  Brings(stack[g][i], w, m)
    OBVIOUS
  <2>1. CASE i = n
    BY <1>1, <1>2, <1>3, <2>1 DEF Brings
  <2>2. CASE i # n
    BY <1>3, <2>2
  <2> QED  BY <2>1, <2>2
<1>7. \A i \in DOMAIN s : ~Brings(s[i], t, q)
  <2> SUFFICES ASSUME NEW i \in DOMAIN s, Brings(s[i], t, q) PROVE FALSE
    OBVIOUS
  <2>1. i = n
    BY <1>3, <1>5, <1>6
  <2> QED  BY <1>2, <1>3, <2>1
<1>8. Brought(t, q)
  BY <1>1, <1>4 DEF Brought
<1>9. s[Len(s)].does # "drain" /\ Len(s) \in DOMAIN s /\ DOMAIN s = 1 .. Len(s)
  BY <1>1, <1>2, <1>3
<1> QED  BY <1>3, <1>5, <1>6, <1>7, <1>8, <1>9

LEMMA ReachKeeps ==
    ASSUME MessagesInv, NEW g \in Workers, InScript(g), NEW t \in Windows, t \in Top(g).todo,
           Reach(g, t), UNCHANGED <<windowVars, sent, heard>>
    PROVE  MessagesInv'
<1>1. PICK q \in Nat : q = Top(g).posting
  BY TopCall DEF InScript
<1>2. PICK s \in Seq(WindowCalls) :
         /\ s = Visited(g, t)
         /\ DOMAIN s = DOMAIN stack[g] /\ DOMAIN s = 1 .. Len(s)
         /\ Len(s) \in DOMAIN s /\ s[Len(s)].does # "drain"
         /\ StaysOrFree(g, s) /\ Prompt(g, s)
         /\ \A i \in DOMAIN s : \A w \in Windows, m \in Nat :
               Brings(s[i], w, m) => Brings(stack[g][i], w, m)
         /\ \A i \in DOMAIN s : ~Brings(s[i], t, q)
         /\ \A h \in Workers \ {g} : \A i \in DOMAIN stack[h] : ~Brings(stack[h][i], t, q)
         /\ Brought(t, q)
  BY <1>1, VisitedList
<1>3. CASE stack' = [stack EXCEPT ![g] = s] /\ UNCHANGED <<mailbox, waits>>
  <2>1. \A i \in DOMAIN s : \A w \in Windows, m \in Nat :
           Brings(s[i], w, m) => i \in DOMAIN stack[g] /\ Brings(stack[g][i], w, m)
    BY <1>2
  <2> QED  BY <1>2, <1>3, <2>1, NothingBrought
<1>4. CASE /\ FreeFor(g, t)
           /\ stack' = [stack EXCEPT ![g] = Append(s, Call(t, "deliver", Top(g).posting, page[t]))]
           /\ UNCHANGED <<mailbox, waits>>
  <2>1. PICK d \in WindowCalls :
           /\ d = Call(t, "deliver", Top(g).posting, page[t]) /\ d.win = t
           /\ \A w, m : Brings(d, w, m) <=> w = t /\ m = q
    <3>1. PICK p \in Nat : p = page[t]
      BY DEF MessagesInv, MessagesTyped
    <3>2. "deliver" \in Doings
      BY DEF Doings
    <3>3. /\ Call(t, "deliver", q, p) \in WindowCalls /\ Call(t, "deliver", q, p).win = t
          /\ \A w, m : Brings(Call(t, "deliver", q, p), w, m) <=> w = t /\ m = q
      BY <3>2, NewCall
    <3> QED  BY <1>1, <3>1, <3>3
  <2>2. PICK r \in Seq(WindowCalls), n \in Nat :
           /\ r = Append(s, d) /\ n = Len(s) /\ DOMAIN s = 1 .. n
           /\ DOMAIN r = 1 .. n + 1 /\ r[n + 1] = d
           /\ \A k \in 1 .. n : r[k] = s[k]
           /\ \A k \in 1 .. n + 1 : k \in 1 .. n \/ k = n + 1
    <3>1. /\ Append(s, d) \in Seq(WindowCalls) /\ Len(s) \in Nat /\ DOMAIN s = 1 .. Len(s)
          /\ DOMAIN Append(s, d) = 1 .. Len(s) + 1
          /\ Append(s, d)[Len(s) + 1] = d
          /\ \A k \in DOMAIN s : Append(s, d)[k] = s[k]
          /\ \A k \in DOMAIN Append(s, d) : k \in DOMAIN s \/ k = Len(s) + 1
      BY ListExtended
    <3> QED  BY <3>1
  <2>3. StaysOrFree(g, r) /\ Prompt(g, r)
    <3>1. StaysOrFree(g, Append(s, d)) /\ Prompt(g, Append(s, d))
      BY <1>2, <1>4, <2>1, CallMade
    <3> QED  BY <2>2, <3>1
  <2> PICK T \in SUBSET Windows : T = {t}
    OBVIOUS
  <2> PICK last \in Nat : last = n + 1
    OBVIOUS
  <2>4. Fresh(g, r, last, T, q)
    <3>1. ASSUME NEW i \in DOMAIN r, NEW w \in Windows, NEW m \in Nat, Brings(r[i], w, m)
          PROVE  \/ i \in DOMAIN stack[g] /\ Brings(stack[g][i], w, m)
                 \/ i = last /\ w \in T /\ m = q
      <4>1. CASE i \in 1 .. n
        BY <1>2, <2>2, <3>1, <4>1
      <4>2. CASE i = n + 1
        BY <2>1, <2>2, <3>1, <4>2
      <4> QED  BY <2>2, <4>1, <4>2
    <3>2. \A i \in DOMAIN r : i # last => ~Brings(r[i], t, q)
      BY <1>2, <2>2
    <3>3. \A w \in T : w = t
      OBVIOUS
    <3> QED  BY <1>2, <3>1, <3>2, <3>3 DEF Fresh
  <2>5. stack' = [stack EXCEPT ![g] = r] /\ bound' = bound
    BY <1>4, <2>1, <2>2 DEF windowVars
  <2>6. stack' \in [Workers -> Seq(WindowCalls)]
    BY <2>3, <2>4, <2>5, CallsMove
  <2>7. OneHolderOfWindow' /\ OneCallBrings' /\ NotOvertaken'
    BY <2>3, <2>4, <2>5, CallsMove
  <2>8. OnlyMore(T, q)
    BY <2>3, <2>4, <2>5, CallsMove
  <2>9. \A w \in Windows, m \in Nat : Brought(w, m)' => Brought(w, m)
    BY <1>2, <2>8 DEF OnlyMore
  <2>10. MessagesTyped' /\ QueuesAreNew' /\ HeardOnce'
    BY <1>4, <2>6 DEF MessagesInv, MessagesTyped, QueuesAreNew, HeardOnce, windowVars
  <2>11. OnePlaceOnly'
    BY <1>4, <2>9 DEF MessagesInv, OnePlaceOnly, Waiting, WasHeard
  <2> QED  BY <2>7, <2>10, <2>11 DEF MessagesInv
<1>5. CASE /\ stack' = [stack EXCEPT ![g] = s] /\ UNCHANGED waits
           /\ mailbox' = [mailbox EXCEPT ![t] = Append(mailbox[t], [message |-> Top(g).posting, page |-> page[t]])]
  <2> PICK T \in SUBSET Windows, k \in Nat : T = {} /\ k = 0
    OBVIOUS
  <2>1. Fresh(g, s, k, T, q)
    BY <1>2 DEF Fresh
  <2>2. bound' = bound /\ page' = page
    BY DEF windowVars
  <2>3. stack' \in [Workers -> Seq(WindowCalls)]
    BY <1>2, <1>5, <2>1, <2>2, CallsMove
  <2>4. OneHolderOfWindow' /\ OneCallBrings' /\ NotOvertaken'
    BY <1>2, <1>5, <2>1, <2>2, CallsMove
  <2>5. OnlyMore(T, q)
    BY <1>2, <1>5, <2>1, <2>2, CallsMove
  <2>6. \A w \in Windows, m \in Nat : Brought(w, m)' => Brought(w, m)
    BY <2>5 DEF OnlyMore
  <2>7. ~Brought(t, q)'
    <3>1. \A h \in Workers \ {g} : stack'[h] = stack[h]
      BY <1>5 DEF MessagesInv, MessagesTyped
    <3>2. stack'[g] = s
      BY <1>5 DEF MessagesInv, MessagesTyped
    <3>3. \A h \in Workers : \A i \in DOMAIN stack'[h] : ~Brings(stack'[h][i], t, q)
      BY <1>2, <3>1, <3>2
    <3> QED  BY <3>3 DEF Brought, Brings
  <2>8. PICK letter \in Letters : letter = [message |-> q, page |-> page[t]] /\ letter.message = q /\ letter.page = page[t]
    <3>1. page[t] \in Nat
      BY DEF MessagesInv, MessagesTyped
    <3>2. [message |-> q, page |-> page[t]] \in Letters
      BY <3>1 DEF Letters
    <3> QED  BY <3>2
  <2>9. PICK box \in Seq(Letters), n \in Nat, more \in Seq(Letters) :
           /\ box = mailbox[t] /\ n = Len(box) /\ DOMAIN box = 1 .. n /\ more = Append(box, letter)
           /\ DOMAIN more = 1 .. n + 1 /\ more[n + 1] = letter
           /\ \A i \in 1 .. n : more[i] = box[i]
           /\ \A i \in 1 .. n + 1 : i \in 1 .. n \/ i = n + 1
    <3>1. PICK box \in Seq(Letters) : box = mailbox[t]
      BY DEF MessagesInv, MessagesTyped
    <3>2. /\ Append(box, letter) \in Seq(Letters) /\ Len(box) \in Nat /\ DOMAIN box = 1 .. Len(box)
          /\ DOMAIN Append(box, letter) = 1 .. Len(box) + 1
          /\ Append(box, letter)[Len(box) + 1] = letter
          /\ \A i \in DOMAIN box : Append(box, letter)[i] = box[i]
          /\ \A i \in DOMAIN Append(box, letter) : i \in DOMAIN box \/ i = Len(box) + 1
      BY ListExtended
    <3> QED  BY <3>1, <3>2
  <2>10. /\ mailbox' \in [Windows -> Seq(Letters)] /\ mailbox'[t] = more
         /\ \A w \in Windows \ {t} : mailbox'[w] = mailbox[w]
    <3>1. mailbox' = [mailbox EXCEPT ![t] = more]
      BY <1>1, <1>5, <2>8, <2>9
    <3> QED  BY <3>1 DEF MessagesInv, MessagesTyped
  <2>11. ~Waiting(t, q) /\ ~WasHeard(t, q) /\ q <= sent
    BY <1>2 DEF MessagesInv, OnePlaceOnly
  <2>12. \A i \in 1 .. n : box[i].message # q
    BY <2>9, <2>11 DEF Waiting
  <2>13. QueuesAreNew'
    <3>1. /\ \A i \in 1 .. n : box[i].page = page[t]
          /\ \A i, j \in 1 .. n : box[i].message = box[j].message => i = j
      BY <2>9 DEF MessagesInv, QueuesAreNew
    <3>2. \A i \in DOMAIN more : more[i].page = page[t]
      BY <2>8, <2>9, <3>1
    <3>3. \A i, j \in DOMAIN more : more[i].message = more[j].message => i = j
      BY <2>8, <2>9, <2>12, <3>1
    <3> SUFFICES ASSUME NEW w \in Windows
                 PROVE  /\ bound[w] <= page[w]
                        /\ \A i \in DOMAIN mailbox'[w] : mailbox'[w][i].page = page[w]
                        /\ \A i, j \in DOMAIN mailbox'[w] : mailbox'[w][i].message = mailbox'[w][j].message => i = j
      BY <2>2 DEF QueuesAreNew
    <3>4. CASE w = t
      BY <2>10, <3>2, <3>3, <3>4 DEF MessagesInv, QueuesAreNew
    <3>5. CASE w # t
      BY <2>10, <3>5 DEF MessagesInv, QueuesAreNew
    <3> QED  BY <3>4, <3>5
  <2>14. \A w \in Windows, m \in Nat : Waiting(w, m)' => Waiting(w, m) \/ (w = t /\ m = q)
    <3> SUFFICES ASSUME NEW w \in Windows, NEW m \in Nat, NEW i \in DOMAIN mailbox'[w], mailbox'[w][i].message = m
                 PROVE  Waiting(w, m) \/ (w = t /\ m = q)
      BY DEF Waiting
    <3>1. CASE w = t /\ i \in 1 .. n
      BY <2>9, <2>10, <3>1 DEF Waiting
    <3>2. CASE w = t /\ i = n + 1
      BY <2>8, <2>9, <2>10, <3>2
    <3>3. CASE w # t
      BY <2>10, <3>3 DEF Waiting
    <3> QED  BY <2>9, <2>10, <3>1, <3>2, <3>3
  <2>15. OnePlaceOnly'
    BY <2>6, <2>7, <2>11, <2>14 DEF MessagesInv, OnePlaceOnly, WasHeard
  <2>16. MessagesTyped' /\ HeardOnce'
    BY <1>5, <2>3, <2>10 DEF MessagesInv, MessagesTyped, HeardOnce, windowVars
  <2> QED  BY <2>4, <2>13, <2>15, <2>16 DEF MessagesInv
<1> QED  BY <1>2, <1>3, <1>4, <1>5 DEF Reach

(* The message is a new one.                                               *)
LEMMA PostKeeps == MessagesInv /\ PostMessage => MessagesInv'
<1> SUFFICES ASSUME MessagesInv, PostMessage PROVE MessagesInv'
  OBVIOUS
<1>1. PICK g \in Workers, T \in Targets :
         /\ InScript(g) /\ Top(g).todo = {}
         /\ sent' = sent + 1
         /\ stack' = [stack EXCEPT ![g] = Instead(g, [Top(g) EXCEPT !.posting = sent + 1, !.todo = T])]
         /\ UNCHANGED <<windowVars, mailbox, waits, heard>>
  BY DEF PostMessage
<1>2. PICK a \in WindowCalls, n \in Nat, q \in Nat :
         /\ a = Top(g) /\ n = Len(stack[g]) /\ stack[g] # <<>>
         /\ a.does \in {"script", "listen"} /\ q = sent + 1 /\ sent \in Nat
  <2>1. sent + 1 \in Nat /\ sent \in Nat
    BY DEF MessagesInv, MessagesTyped
  <2> QED  BY <1>1, <2>1, TopCall DEF InScript
<1>3. T \in SUBSET Windows
  BY <1>1 DEF Targets, MessagesInv, MessagesTyped
<1>4. PICK c \in WindowCalls :
         /\ c = [Top(g) EXCEPT !.posting = sent + 1, !.todo = T] /\ c.win = a.win /\ c.does # "deliver"
         /\ \A w, m : Brings(c, w, m) <=> m = q /\ w \in T
  <2>1. /\ [a EXCEPT !.posting = q, !.todo = T] \in WindowCalls
        /\ [a EXCEPT !.posting = q, !.todo = T].todo = T /\ [a EXCEPT !.posting = q, !.todo = T].posting = q
        /\ [a EXCEPT !.posting = q, !.todo = T].win = a.win /\ [a EXCEPT !.posting = q, !.todo = T].does = a.does
    BY <1>3 DEF WindowCalls
  <2>2. PICK c \in WindowCalls :
           /\ c = [a EXCEPT !.posting = q, !.todo = T] /\ c.todo = T /\ c.posting = q
           /\ c.win = a.win /\ c.does = a.does
    BY <2>1
  <2>3. \A w, m : Brings(c, w, m) <=> m = q /\ w \in T
    BY <1>2, <2>2 DEF Brings
  <2> QED  BY <1>2, <2>2, <2>3
<1>5. PICK s \in Seq(WindowCalls) :
         /\ s = Instead(g, c) /\ DOMAIN s = DOMAIN stack[g]
         /\ \A i \in DOMAIN s : s[i] = IF i = n THEN c ELSE stack[g][i]
         /\ StaysOrFree(g, s) /\ Prompt(g, s)
  <2>1. PICK s \in Seq(WindowCalls) :
           /\ s = Instead(g, c) /\ DOMAIN s = DOMAIN stack[g] /\ Len(s) = Len(stack[g])
           /\ \A i \in DOMAIN s : s[i] = IF i = Len(stack[g]) THEN c ELSE stack[g][i]
           /\ StaysOrFree(g, s) /\ Prompt(g, s)
    <3>1. stack[g] # <<>> /\ c.win = Top(g).win /\ c.does # "deliver"
      BY <1>2, <1>4
    <3> QED  BY <3>1, TopChanges
  <2> QED  BY <1>2, <2>1
<1>6. \A w \in Windows : ~Brought(w, q) /\ ~Waiting(w, q) /\ ~WasHeard(w, q)
  <2>1. ~(q <= sent)
    BY <1>2
  <2> QED  BY <2>1 DEF MessagesInv, OnePlaceOnly
<1>7. Fresh(g, s, n, T, q)
  <2>1. \A w \in Windows : \A h \in Workers : \A i \in DOMAIN stack[h] : ~Brings(stack[h][i], w, q)
    BY <1>6 DEF Brought
  <2>2. ASSUME NEW i \in DOMAIN s, NEW w \in Windows, NEW m \in Nat, Brings(s[i], w, m)
        PROVE  \/ i \in DOMAIN stack[g] /\ Brings(stack[g][i], w, m)
               \/ i = n /\ w \in T /\ m = q
    <3>1. CASE i = n
      BY <1>4, <1>5, <2>2, <3>1
    <3>2. CASE i # n
      BY <1>5, <2>2, <3>2
    <3> QED  BY <3>1, <3>2
  <2>3. \A w \in T : \A i \in DOMAIN s : i # n => ~Brings(s[i], w, q)
    BY <1>3, <1>5, <2>1
  <2> QED  BY <1>3, <2>1, <2>2, <2>3 DEF Fresh
<1>8. stack' = [stack EXCEPT ![g] = s] /\ bound' = bound
  BY <1>1, <1>4, <1>5 DEF windowVars
<1>9. stack' \in [Workers -> Seq(WindowCalls)]
  BY <1>3, <1>5, <1>7, <1>8, CallsMove
<1>10. OneHolderOfWindow' /\ OneCallBrings' /\ NotOvertaken'
  BY <1>3, <1>5, <1>7, <1>8, CallsMove
<1>11. OnlyMore(T, q)
  BY <1>3, <1>5, <1>7, <1>8, CallsMove
<1>12. MessagesTyped' /\ QueuesAreNew' /\ HeardOnce'
  BY <1>1, <1>2, <1>9 DEF MessagesInv, MessagesTyped, QueuesAreNew, HeardOnce, windowVars
<1>13. OnePlaceOnly'
  <2> SUFFICES ASSUME NEW w \in Windows, NEW m \in Nat
               PROVE  /\ ~(Brought(w, m)' /\ Waiting(w, m))
                      /\ ~(Brought(w, m)' /\ WasHeard(w, m))
                      /\ ~(Waiting(w, m) /\ WasHeard(w, m))
                      /\ Brought(w, m)' \/ Waiting(w, m) \/ WasHeard(w, m) => m <= sent'
    BY <1>1 DEF OnePlaceOnly, Waiting, WasHeard
  <2>1. Brought(w, m)' => Brought(w, m) \/ m = q
    BY <1>11 DEF OnlyMore
  <2>2. /\ ~(Brought(w, m) /\ Waiting(w, m)) /\ ~(Brought(w, m) /\ WasHeard(w, m))
        /\ ~(Waiting(w, m) /\ WasHeard(w, m))
        /\ Brought(w, m) \/ Waiting(w, m) \/ WasHeard(w, m) => m <= sent
    BY DEF MessagesInv, OnePlaceOnly
  <2>3. m <= sent => m <= sent'
    BY <1>1, <1>2
  <2>4. m = q => m <= sent'
    BY <1>1, <1>2
  <2> QED  BY <1>6, <2>1, <2>2, <2>3, <2>4
<1> QED  BY <1>10, <1>12, <1>13 DEF MessagesInv

(* What was queued is not late: its page's runtime was not bound again.    *)
LEMMA DeliverKeeps == MessagesInv /\ Deliver => MessagesInv'
<1> SUFFICES ASSUME MessagesInv, Deliver PROVE MessagesInv'
  OBVIOUS
<1>1. PICK g \in Workers :
         /\ stack[g] # <<>> /\ Top(g).does = "deliver"
         /\ UNCHANGED <<windowVars, mailbox, waits, sent>>
         /\ \/ Return(g) /\ UNCHANGED heard
            \/ /\ stack' = [stack EXCEPT ![g] = Instead(g, Call(Top(g).win, "listen", Top(g).message, 0))]
               /\ Heard(Top(g).win, Top(g), Len(stack[g]) > 1 /\ stack[g][Len(stack[g]) - 1].does = "drain")
  BY DEF Deliver
<1>2. CASE Return(g) /\ UNCHANGED heard
  BY <1>1, <1>2, CallDropped
<1>3. CASE /\ stack' = [stack EXCEPT ![g] = Instead(g, Call(Top(g).win, "listen", Top(g).message, 0))]
           /\ Heard(Top(g).win, Top(g), Len(stack[g]) > 1 /\ stack[g][Len(stack[g]) - 1].does = "drain")
  <2>1. PICK a \in WindowCalls, n \in Nat, v \in Windows, q \in Nat :
           /\ a = Top(g) /\ n = Len(stack[g]) /\ n \in DOMAIN stack[g] /\ DOMAIN stack[g] = 1 .. n
           /\ a = stack[g][n] /\ a.does = "deliver" /\ v = a.win /\ q = a.message
    BY <1>1, TopCall
  <2>2. Brings(stack[g][n], v, q) /\ Brought(v, q)
    BY <2>1 DEF Brings, Brought
  <2>3. ~Waiting(v, q) /\ ~WasHeard(v, q) /\ q <= sent
    BY <2>2 DEF MessagesInv, OnePlaceOnly
  <2>4. PICK c \in WindowCalls :
           /\ c = Call(v, "listen", q, 0) /\ c.win = v /\ c.does = "listen" /\ \A w, m : ~Brings(c, w, m)
    <3>1. "listen" \in Doings /\ 0 \in Nat /\ "listen" # "deliver"
      BY DEF Doings
    <3>2. /\ Call(v, "listen", q, 0) \in WindowCalls
          /\ Call(v, "listen", q, 0).win = v /\ Call(v, "listen", q, 0).does = "listen"
          /\ \A w, m : Brings(Call(v, "listen", q, 0), w, m) <=> "listen" = "deliver" /\ w = v /\ m = q
      BY <3>1, NewCall
    <3> QED  BY <3>1, <3>2
  <2>5. PICK s \in Seq(WindowCalls) :
           /\ s = Instead(g, c) /\ DOMAIN s = DOMAIN stack[g]
           /\ \A i \in DOMAIN s : s[i] = IF i = n THEN c ELSE stack[g][i]
           /\ StaysOrFree(g, s) /\ Prompt(g, s)
    <3>1. c.win = Top(g).win /\ c.does # "deliver"
      BY <2>1, <2>4
    <3>2. PICK s \in Seq(WindowCalls) :
             /\ s = Instead(g, c) /\ DOMAIN s = DOMAIN stack[g] /\ Len(s) = Len(stack[g])
             /\ \A i \in DOMAIN s : s[i] = IF i = Len(stack[g]) THEN c ELSE stack[g][i]
             /\ StaysOrFree(g, s) /\ Prompt(g, s)
      <4>1. stack[g] # <<>>
        BY <1>1
      <4> QED  BY <3>1, <4>1, TopChanges
    <3> QED  BY <2>1, <3>2
  <2> PICK T \in SUBSET Windows, k \in Nat : T = {} /\ k = 0
    OBVIOUS
  <2>6. Fresh(g, s, k, T, q)
    <3>1. ASSUME NEW i \in DOMAIN s, NEW w \in Windows, NEW m \in Nat, Brings(s[i], w, m)
          PROVE  i \in DOMAIN stack[g] /\ Brings(stack[g][i], w, m) /\ i # n
      BY <2>4, <2>5, <3>1
    <3> QED  BY <3>1 DEF Fresh
  <2>7. stack' = [stack EXCEPT ![g] = s] /\ bound' = bound
    BY <1>1, <1>3, <2>1, <2>4, <2>5 DEF windowVars
  <2>8. stack' \in [Workers -> Seq(WindowCalls)]
    BY <2>5, <2>6, <2>7, CallsMove
  <2>9. OneHolderOfWindow' /\ OneCallBrings' /\ NotOvertaken'
    BY <2>5, <2>6, <2>7, CallsMove
  <2>10. OnlyMore(T, q)
    BY <2>5, <2>6, <2>7, CallsMove
  <2>11. ~Brought(v, q)'
    <3>1. stack'[g] = s /\ \A h \in Workers \ {g} : stack'[h] = stack[h]
      BY <2>7 DEF MessagesInv, MessagesTyped
    <3>2. \A h \in Workers : \A i \in DOMAIN stack[h] : Brings(stack[h][i], v, q) => h = g /\ i = n
      BY <2>1, <2>2 DEF MessagesInv, OneCallBrings
    <3>3. \A i \in DOMAIN s : ~Brings(s[i], v, q)
      BY <2>4, <2>5, <3>2
    <3>4. \A h \in Workers : \A i \in DOMAIN stack'[h] : ~Brings(stack'[h][i], v, q)
      BY <3>1, <3>2, <3>3
    <3> QED  BY <3>4 DEF Brought, Brings
  <2>12. PICK entry \in Hearings :
            /\ entry.message = q /\ ~entry.again /\ ~entry.late
            /\ heard' = [heard EXCEPT ![v] = heard[v] \cup {entry}]
    <3> DEFINE again == \E h \in heard[v] : h.message = q
               late == (n > 1 /\ stack[g][n - 1].does = "drain") /\ bound[v] > a.left
               entry == [message |-> q, again |-> again, late |-> late]
    <3>1. again = FALSE
      BY <2>3 DEF WasHeard
    <3>2. late = FALSE
      <4> SUFFICES ASSUME n > 1, stack[g][n - 1].does = "drain" PROVE ~(bound[v] > a.left)
        OBVIOUS
      <4>1. n - 1 \in DOMAIN stack[g]
        BY <2>1
      <4>2. bound[v] <= a.left
        BY <2>1, <4>1 DEF MessagesInv, NotOvertaken
      <4>3. bound[v] \in Nat /\ a.left \in Nat
        BY DEF MessagesInv, MessagesTyped, WindowCalls
      <4> QED  BY <4>2, <4>3
    <3>3. heard' = [heard EXCEPT ![v] = heard[v] \cup {entry}]
      BY <1>3, <2>1 DEF Heard
    <3> HIDE DEF again, late
    <3>4. entry = [message |-> q, again |-> FALSE, late |-> FALSE]
      BY <3>1, <3>2
    <3>5. entry \in Hearings /\ entry.message = q /\ ~entry.again /\ ~entry.late
      BY <3>4 DEF Hearings
    <3> QED  BY <3>3, <3>5
  <2>13. /\ heard' \in [Windows -> SUBSET Hearings] /\ heard'[v] = heard[v] \cup {entry}
         /\ \A w \in Windows \ {v} : heard'[w] = heard[w]
    BY <2>12 DEF MessagesInv, MessagesTyped
  <2>14. \A w \in Windows, m \in Nat : WasHeard(w, m)' => WasHeard(w, m) \/ (w = v /\ m = q)
    BY <2>12, <2>13 DEF WasHeard
  <2>15. HeardOnce'
    BY <2>12, <2>13 DEF MessagesInv, HeardOnce
  <2>16. MessagesTyped' /\ QueuesAreNew'
    BY <1>1, <2>8, <2>13 DEF MessagesInv, MessagesTyped, QueuesAreNew, windowVars
  <2>17. OnePlaceOnly'
    <3>1. mailbox' = mailbox /\ sent' = sent
      BY <1>1
    <3>2. \A w \in Windows, m \in Nat : Brought(w, m)' => Brought(w, m)
      BY <2>10 DEF OnlyMore
    <3> QED  BY <2>3, <2>11, <2>14, <3>1, <3>2 DEF MessagesInv, OnePlaceOnly, Waiting
  <2> QED  BY <2>9, <2>15, <2>16, <2>17 DEF MessagesInv
<1> QED  BY <1>1, <1>2, <1>3

(* What happens to windows moves no message but into nowhere.              *)
LEMMA WindowsKeep ==
    ASSUME MessagesInv, Toggle \/ LoadPage \/ BindPage \/ Destroyed
    PROVE  MessagesInv'
<1>1. UNCHANGED <<stack, waits, sent, heard>>
  BY DEF Toggle, LoadPage, BindPage, Destroyed
<1>2. PICK w \in Windows :
         /\ running' \in [Windows -> BOOLEAN] /\ registered' \subseteq Windows
         /\ mailbox' = mailbox \/ mailbox' = [mailbox EXCEPT ![w] = <<>>]
         /\ \/ UNCHANGED <<page, bound>>
            \/ /\ page' = [page EXCEPT ![w] = page[w] + 1] /\ bound' = bound
               /\ mailbox' = [mailbox EXCEPT ![w] = <<>>]
            \/ /\ bound' = [bound EXCEPT ![w] = page[w]] /\ page' = page
               /\ \A g \in Workers : ~Holds(g, w)
  <2>1. registered \subseteq Windows /\ running \in [Windows -> BOOLEAN]
    BY DEF MessagesInv, MessagesTyped
  <2>2. CASE Toggle
    BY <2>1, <2>2 DEF Toggle
  <2>3. CASE LoadPage
    BY <2>1, <2>3 DEF LoadPage
  <2>4. CASE BindPage
    BY <2>1, <2>4 DEF BindPage
  <2>5. CASE Destroyed
    BY <2>1, <2>5 DEF Destroyed
  <2> QED  BY <2>2, <2>3, <2>4, <2>5
<1>3. /\ mailbox' \in [Windows -> Seq(Letters)]
      /\ \A v \in Windows \ {w} : mailbox'[v] = mailbox[v]
      /\ mailbox'[w] = mailbox[w] \/ mailbox'[w] = <<>>
  <2>1. <<>> \in Seq(Letters)
    BY EmptySeq
  <2> QED  BY <1>2, <2>1 DEF MessagesInv, MessagesTyped
<1>4. \A v \in Windows : mailbox'[v] = mailbox[v] \/ DOMAIN mailbox'[v] = {}
  BY <1>3, ListProperties
<1>5. /\ page' \in [Windows -> Nat] /\ bound' \in [Windows -> Nat]
      /\ \A v \in Windows : bound'[v] <= page'[v]
      /\ \A v \in Windows : page'[v] = page[v] \/ DOMAIN mailbox'[v] = {}
      /\ \A v \in Windows : bound'[v] = bound[v] \/ \A g \in Workers : ~Holds(g, v)
  <2>1. /\ page \in [Windows -> Nat] /\ bound \in [Windows -> Nat]
        /\ \A v \in Windows : bound[v] <= page[v] /\ bound[v] \in Nat /\ page[v] \in Nat
    BY DEF MessagesInv, MessagesTyped, QueuesAreNew
  <2>2. CASE UNCHANGED <<page, bound>>
    BY <2>1, <2>2
  <2>3. CASE /\ page' = [page EXCEPT ![w] = page[w] + 1] /\ bound' = bound
             /\ mailbox' = [mailbox EXCEPT ![w] = <<>>]
    <3>1. mailbox'[w] = <<>>
      BY <2>3 DEF MessagesInv, MessagesTyped
    <3>2. DOMAIN mailbox'[w] = {}
      BY <1>3, <3>1, ListProperties
    <3> QED  BY <2>1, <2>3, <3>2
  <2>4. CASE /\ bound' = [bound EXCEPT ![w] = page[w]] /\ page' = page
             /\ \A g \in Workers : ~Holds(g, w)
    BY <2>1, <2>4
  <2> QED  BY <1>2, <2>2, <2>3, <2>4
<1>6. MessagesTyped'
  BY <1>1, <1>2, <1>3, <1>5 DEF MessagesInv, MessagesTyped
<1>7. QueuesAreNew'
  BY <1>4, <1>5 DEF MessagesInv, QueuesAreNew
<1>8. \A v \in Windows, m \in Nat : Waiting(v, m)' => Waiting(v, m)
  BY <1>4 DEF Waiting
<1>9. OnePlaceOnly'
  BY <1>1, <1>8 DEF MessagesInv, OnePlaceOnly, Brought, WasHeard
<1>10. NotOvertaken'
  <2> SUFFICES ASSUME NEW g \in Workers, NEW i \in DOMAIN stack[g], i - 1 \in DOMAIN stack[g],
                      stack[g][i].does = "deliver", stack[g][i - 1].does = "drain"
               PROVE  bound'[stack[g][i].win] <= stack[g][i].left
    BY <1>1 DEF NotOvertaken
  <2>1. Holds(g, stack[g][i].win)
    BY DEF Holds
  <2>2. stack[g][i].win \in Windows
    <3>1. stack[g] \in Seq(WindowCalls)
      BY DEF MessagesInv, MessagesTyped
    <3>2. stack[g][i] \in WindowCalls
      BY <3>1, ListProperties
    <3> QED  BY <3>2 DEF WindowCalls
  <2>3. bound[stack[g][i].win] <= stack[g][i].left
    BY DEF MessagesInv, NotOvertaken
  <2> QED  BY <1>5, <2>1, <2>2, <2>3
<1>11. OneHolderOfWindow' /\ OneCallBrings' /\ HeardOnce'
  BY <1>1 DEF MessagesInv, OneHolderOfWindow, OneCallBrings, HeardOnce, Holds
<1> QED  BY <1>6, <1>7, <1>9, <1>10, <1>11 DEF MessagesInv

LEMMA MessagesKeep == MessagesInv /\ [MessagesNext]_messageVars => MessagesInv'
<1> SUFFICES ASSUME MessagesInv, [MessagesNext]_messageVars PROVE MessagesInv'
  OBVIOUS
<1>0. registered \subseteq Windows
  BY DEF MessagesInv, MessagesTyped
<1>1. CASE RunsScript
  <2>1. PICK g \in Workers, w \in registered :
           /\ stack[g] = <<>> /\ FreeFor(g, w) /\ Push(g, Call(w, "script", 0, 0))
           /\ UNCHANGED <<windowVars, mailbox, waits, sent, heard>>
    BY <1>1 DEF RunsScript
  <2>2. PICK does \in {"script", "drain"}, n \in Nat : does = "script" /\ n = 0
    OBVIOUS
  <2>3. w \in Windows /\ Push(g, Call(w, does, 0, n))
    BY <1>0, <2>1, <2>2
  <2> QED  BY <2>1, <2>3, FirstCallKeeps
<1>2. CASE DrainStarts
  <2>1. PICK g \in Workers, w \in registered :
           /\ stack[g] = <<>> /\ FreeFor(g, w) /\ Push(g, Call(w, "drain", 0, Len(mailbox[w])))
           /\ UNCHANGED <<windowVars, mailbox, waits, sent, heard>>
    BY <1>2 DEF DrainStarts
  <2>2. Len(mailbox[w]) \in Nat
    <3>1. mailbox[w] \in Seq(Letters)
      BY <1>0 DEF MessagesInv, MessagesTyped
    <3> QED  BY <3>1, ListProperties
  <2>3. PICK does \in {"script", "drain"}, n \in Nat : does = "drain" /\ n = Len(mailbox[w])
    BY <2>2
  <2>4. w \in Windows /\ Push(g, Call(w, does, 0, n))
    BY <1>0, <2>1, <2>3
  <2> QED  BY <2>1, <2>4, FirstCallKeeps
<1>3. CASE ReachesTarget
  <2>1. PICK g \in Workers : /\ InScript(g) /\ \E t \in Top(g).todo : Reach(g, t)
                             /\ UNCHANGED <<windowVars, sent, heard>>
    BY <1>3 DEF ReachesTarget
  <2>2. PICK t \in Top(g).todo : Reach(g, t)
    BY <2>1
  <2>3. t \in Windows
    BY <2>1, TopCall DEF InScript
  <2> QED  BY <2>1, <2>2, <2>3, ReachKeeps
<1>4. CASE ScriptEnds
  BY <1>4, CallDropped DEF ScriptEnds, InScript
<1>5. CASE UNCHANGED messageVars
  BY <1>5 DEF MessagesInv, MessagesTyped, OneHolderOfWindow, OneCallBrings, QueuesAreNew, OnePlaceOnly,
              NotOvertaken, HeardOnce, Holds, Brought, Waiting, WasHeard, messageVars, windowVars
<1> QED  BY <1>1, <1>2, <1>3, <1>4, <1>5, DrainTakesKeeps, PostKeeps, DeliverKeeps, WindowsKeep
         DEF MessagesNext

-----------------------------------------------------------------------------
(* No message that is owed to a window goes missing.                       *)

OwedTyped == owed \in [Windows -> SUBSET Nat]

OwedAreKept ==
    \A w \in Windows : \A m \in owed[w] : Brought(w, m) \/ Waiting(w, m) \/ WasHeard(w, m)

\* Nothing has to be brought to a window that does not run, ...
PausedAreOwedLess ==
    \A w \in Windows : ~running[w] => \A m \in owed[w] : Waiting(w, m) \/ WasHeard(w, m)

\* ... and nothing is owed to one that is gone.
GoneAreOwedNothing == \A w \in Windows : w \notin registered => owed[w] = {}

\* Only a script has messages to post.
OnlyScriptsPost ==
    \A g \in Workers : \A i \in DOMAIN stack[g] :
        stack[g][i].does \notin {"script", "listen"} => stack[g][i].todo = {}

OwedInv == OwedTyped /\ OwedAreKept /\ PausedAreOwedLess /\ GoneAreOwedNothing /\ OnlyScriptsPost

LEMMA OwedStart == MessagesInit => OwedInv
<1> SUFFICES ASSUME MessagesInit PROVE OwedInv
  OBVIOUS
<1>1. \A g \in Workers : DOMAIN stack[g] = {}
  BY EmptySeq, ListProperties DEF MessagesInit
<1> QED  BY <1>1 DEF MessagesInit, OwedInv, OwedTyped, OwedAreKept, PausedAreOwedLess,
                     GoneAreOwedNothing, OnlyScriptsPost

(* The calls of g become s: what they brought, one of them brings still,   *)
(* or it has come; a message leaves a queue for a call only while the      *)
(* window runs; and only scripts post.                                     *)
BroughtBy(s, w, m) == \E j \in DOMAIN s : Brings(s[j], w, m)

Accounted(g, s) ==
    /\ \A w \in Windows : \A m \in owed[w] :
          /\ \A i \in DOMAIN stack[g] : Brings(stack[g][i], w, m)
                => BroughtBy(s, w, m) \/ Waiting(w, m)' \/ WasHeard(w, m)'
                                      \/ ~running[w] \/ w \notin registered
          /\ Waiting(w, m) => Waiting(w, m)' \/ (running[w] /\ BroughtBy(s, w, m))
          /\ WasHeard(w, m) => WasHeard(w, m)'
    /\ \A j \in DOMAIN s : s[j].does \notin {"script", "listen"} => s[j].todo = {}

LEMMA CallsKeepOwed ==
    ASSUME MessagesInv, OwedInv, NEW g \in Workers, NEW s \in Seq(WindowCalls),
           stack' = [stack EXCEPT ![g] = s], UNCHANGED windowVars, Accounted(g, s),
           OwedTyped', GoneAreOwedNothing',
           \A w \in Windows : \A m \in owed'[w] : m \in owed[w] \/ (running[w] /\ BroughtBy(s, w, m))
    PROVE  OwedInv'
<1>1. stack'[g] = s /\ \A h \in Workers \ {g} : stack'[h] = stack[h]
  BY DEF MessagesInv, MessagesTyped
<1>2. OnlyScriptsPost'
  BY <1>1 DEF OwedInv, OnlyScriptsPost, Accounted
<1>3. running' = running /\ registered' = registered
  BY DEF windowVars
<1>4. ASSUME NEW w \in Windows, NEW m, BroughtBy(s, w, m)
      PROVE  Brought(w, m)'
  BY <1>1, <1>4 DEF Brought, Brings, BroughtBy
<1>5. ASSUME NEW w \in Windows, NEW m \in owed[w], Brought(w, m), running[w], w \in registered
      PROVE  Brought(w, m)' \/ Waiting(w, m)' \/ WasHeard(w, m)'
  <2>1. PICK h \in Workers : \E i \in DOMAIN stack[h] : Brings(stack[h][i], w, m)
    BY <1>5 DEF Brought
  <2>2. CASE h = g
    BY <1>4, <1>5, <2>1, <2>2 DEF Accounted
  <2>3. CASE h # g
    BY <1>1, <2>1, <2>3 DEF Brought, Brings
  <2> QED  BY <2>2, <2>3
<1>6. OwedAreKept'
  <2> SUFFICES ASSUME NEW w \in Windows, NEW m \in owed'[w]
               PROVE  Brought(w, m)' \/ Waiting(w, m)' \/ WasHeard(w, m)'
    BY DEF OwedAreKept, Waiting, WasHeard, Brought, Brings
  <2>1. CASE m \notin owed[w]
    BY <1>4, <2>1
  <2>2. CASE m \in owed[w]
    <3>1. w \in registered
      BY <2>2 DEF OwedInv, GoneAreOwedNothing
    <3>2. (Brought(w, m) /\ running[w]) \/ Waiting(w, m) \/ WasHeard(w, m)
      BY <2>2 DEF OwedInv, OwedAreKept, PausedAreOwedLess
    <3> QED  BY <1>4, <1>5, <2>2, <3>1, <3>2 DEF Accounted
  <2> QED  BY <2>1, <2>2
<1>7. PausedAreOwedLess'
  <2> SUFFICES ASSUME NEW w \in Windows, ~running[w], NEW m \in owed'[w]
               PROVE  Waiting(w, m)' \/ WasHeard(w, m)'
    BY <1>3 DEF PausedAreOwedLess, Waiting, WasHeard
  <2>1. m \in owed[w]
    OBVIOUS
  <2>2. Waiting(w, m) \/ WasHeard(w, m)
    BY <2>1 DEF OwedInv, PausedAreOwedLess
  <2> QED  BY <2>1, <2>2 DEF Accounted
<1> QED  BY <1>2, <1>6, <1>7 DEF OwedInv

(* The same of a step that owes nothing new, and leaves the queues and     *)
(* what was heard.                                                         *)
LEMMA CallsKeepOld ==
    ASSUME MessagesInv, OwedInv, NEW g \in Workers, NEW s \in Seq(WindowCalls),
           stack' = [stack EXCEPT ![g] = s], UNCHANGED <<windowVars, mailbox, heard, owed>>,
           \A w \in Windows : \A m \in owed[w] : \A i \in DOMAIN stack[g] :
              Brings(stack[g][i], w, m) => BroughtBy(s, w, m) \/ ~running[w] \/ w \notin registered,
           \A j \in DOMAIN s : s[j].does \notin {"script", "listen"} => s[j].todo = {}
    PROVE  OwedInv'
<1>1. Accounted(g, s)
  BY DEF Accounted, Waiting, WasHeard
<1>2. OwedTyped' /\ GoneAreOwedNothing'
  BY DEF OwedInv, OwedTyped, GoneAreOwedNothing, windowVars
<1> QED  BY <1>1, <1>2, CallsKeepOwed

\* A call that brings nothing is over, or one to a window that is paused or gone.
LEMMA ReturnKeepsOwed ==
    ASSUME MessagesInv, OwedInv, NEW g \in Workers, stack[g] # <<>>, Return(g),
           UNCHANGED <<windowVars, mailbox, heard, owed>>, Top(g).todo = {},
           Top(g).does = "deliver" => Top(g).win \notin registered \/ ~running[Top(g).win]
    PROVE  OwedInv'
<1>1. PICK s \in Seq(WindowCalls), n \in Nat, a \in WindowCalls :
         /\ s = Front(stack[g]) /\ n = Len(stack[g]) /\ n >= 1 /\ DOMAIN stack[g] = 1 .. n
         /\ DOMAIN s = 1 .. n - 1 /\ \A k \in 1 .. n - 1 : s[k] = stack[g][k]
         /\ a = Top(g) /\ a = stack[g][n]
  <2>1. PICK old \in Seq(WindowCalls) : old = stack[g] /\ old # <<>>
    BY TopCall
  <2>2. /\ Len(old) \in Nat /\ Len(old) >= 1 /\ DOMAIN old = 1 .. Len(old)
        /\ Front(old) \in Seq(WindowCalls) /\ DOMAIN Front(old) = 1 .. Len(old) - 1
        /\ \A k \in 1 .. Len(old) - 1 : Front(old)[k] = old[k]
    BY <2>1, FrontProperties
  <2>3. PICK n \in Nat : n = Len(old)
    BY <2>2
  <2>4. PICK s \in Seq(WindowCalls) : s = Front(old)
    BY <2>2
  <2>5. Top(g) \in WindowCalls /\ Top(g) = stack[g][Len(stack[g])]
    BY TopCall
  <2> QED  BY <2>1, <2>2, <2>3, <2>4, <2>5
<1>2. ASSUME NEW w \in Windows, NEW m \in owed[w], NEW i \in DOMAIN stack[g], Brings(stack[g][i], w, m)
      PROVE  BroughtBy(s, w, m) \/ ~running[w] \/ w \notin registered
  <2>1. CASE i = n
    BY <1>1, <1>2, <2>1 DEF Brings
  <2>2. CASE i # n
    <3>1. i \in 1 .. n - 1
      BY <1>1, <2>2
    <3> QED  BY <1>1, <1>2, <3>1 DEF BroughtBy
  <2> QED  BY <2>1, <2>2
<1>3. \A j \in DOMAIN s : s[j].does \notin {"script", "listen"} => s[j].todo = {}
  <2>1. \A j \in DOMAIN s : j \in DOMAIN stack[g] /\ s[j] = stack[g][j]
    BY <1>1
  <2> QED  BY <2>1 DEF OwedInv, OnlyScriptsPost
<1>4. stack' = [stack EXCEPT ![g] = s]
  BY <1>1 DEF Return
<1> QED  BY <1>2, <1>3, <1>4, CallsKeepOld

LEMMA FirstCallKeepsOwed ==
    ASSUME MessagesInv, OwedInv, NEW g \in Workers, NEW w \in Windows, stack[g] = <<>>,
           NEW does \in {"script", "drain"}, NEW n \in Nat, Push(g, Call(w, does, 0, n)),
           UNCHANGED <<windowVars, mailbox, heard, owed>>
    PROVE  OwedInv'
<1>1. PICK c \in WindowCalls : c = Call(w, does, 0, n) /\ c.todo = {}
  BY NewCall DEF Doings, Call
<1>2. PICK old \in Seq(WindowCalls) : old = stack[g] /\ DOMAIN old = {} /\ Len(old) = 0
  BY ListProperties DEF MessagesInv, MessagesTyped
<1>3. PICK s \in Seq(WindowCalls) : s = Append(old, c) /\ DOMAIN s = 1 .. 1 /\ s[1] = c
  <2>1. /\ Append(old, c) \in Seq(WindowCalls) /\ DOMAIN Append(old, c) = 1 .. Len(old) + 1
        /\ Append(old, c)[Len(old) + 1] = c
    BY ListExtended
  <2>2. Len(old) + 1 = 1
    BY <1>2
  <2> QED  BY <2>1, <2>2
<1>4. \A j \in DOMAIN s : s[j].todo = {}
  BY <1>1, <1>3
<1>5. stack' = [stack EXCEPT ![g] = s]
  BY <1>1, <1>2, <1>3 DEF Push
<1> QED  BY <1>2, <1>4, <1>5, CallsKeepOld

\* The last call changed, as a list.
LEMMA TopReplaced ==
    ASSUME MessagesInv, NEW g \in Workers, stack[g] # <<>>, NEW c \in WindowCalls
    PROVE  \E s \in Seq(WindowCalls), n \in Nat :
              /\ s = Instead(g, c) /\ n = Len(stack[g]) /\ n \in DOMAIN stack[g] /\ Top(g) = stack[g][n]
              /\ DOMAIN s = DOMAIN stack[g] /\ DOMAIN s = 1 .. n /\ Len(s) = n
              /\ \A i \in DOMAIN s : s[i] = IF i = n THEN c ELSE stack[g][i]
<1>1. PICK old \in Seq(WindowCalls), n \in Nat :
         /\ old = stack[g] /\ old # <<>> /\ n = Len(old) /\ n \in DOMAIN old /\ DOMAIN old = 1 .. n
         /\ Top(g) = old[n]
  BY TopCall
<1>2. /\ Front(old) \o <<c>> \in Seq(WindowCalls) /\ Len(Front(old) \o <<c>>) = Len(old)
      /\ DOMAIN (Front(old) \o <<c>>) = DOMAIN old
      /\ \A k \in DOMAIN old : (Front(old) \o <<c>>)[k] = IF k = Len(old) THEN c ELSE old[k]
  BY <1>1, LastReplaced
<1>3. PICK s \in Seq(WindowCalls) : s = Front(old) \o <<c>>
  BY <1>2
<1>4. s = Instead(g, c)
  BY <1>1, <1>3 DEF Instead
<1>5. /\ DOMAIN s = DOMAIN old /\ Len(s) = n
      /\ \A i \in DOMAIN s : s[i] = IF i = n THEN c ELSE old[i]
  BY <1>1, <1>2, <1>3
<1> QED  BY <1>1, <1>4, <1>5

LEMMA DrainKeepsOwed == MessagesInv /\ OwedInv /\ DrainTakes => OwedInv'
<1> SUFFICES ASSUME MessagesInv, OwedInv, DrainTakes PROVE OwedInv'
  OBVIOUS
<1>1. PICK g \in Workers : /\ stack[g] # <<>> /\ Top(g).does = "drain"
                           /\ UNCHANGED <<windowVars, heard, owed>>
                           /\ \/ Return(g) /\ UNCHANGED mailbox
                              \/ LET w == Top(g).win IN
                                 /\ Top(g).left > 0 /\ running[w] /\ mailbox[w] # <<>>
                                 /\ stack' = [stack EXCEPT ![g] =
                                       Append(Instead(g, [Top(g) EXCEPT !.left = Top(g).left - 1]),
                                              Call(w, "deliver", Head(mailbox[w]).message, Head(mailbox[w]).page))]
                                 /\ mailbox' = [mailbox EXCEPT ![w] = Tail(mailbox[w])]
  BY DEF DrainTakes
<1>2. PICK a \in WindowCalls, w \in Windows :
         /\ a = Top(g) /\ w = a.win /\ a.does = "drain" /\ a.todo = {} /\ a.left \in Nat
  BY <1>1, TopCall DEF OwedInv, OnlyScriptsPost
<1>3. CASE Return(g) /\ UNCHANGED mailbox
  BY <1>1, <1>2, <1>3, ReturnKeepsOwed
<1>4. CASE /\ a.left > 0 /\ running[w] /\ mailbox[w] # <<>>
           /\ stack' = [stack EXCEPT ![g] =
                 Append(Instead(g, [a EXCEPT !.left = a.left - 1]),
                        Call(w, "deliver", Head(mailbox[w]).message, Head(mailbox[w]).page))]
           /\ mailbox' = [mailbox EXCEPT ![w] = Tail(mailbox[w])]
  <2>1. PICK box \in Seq(Letters) :
           /\ box = mailbox[w] /\ Head(box) = box[1] /\ Head(box) \in Letters /\ Tail(box) \in Seq(Letters)
           /\ Len(box) \in Nat /\ DOMAIN box = 1 .. Len(box) /\ DOMAIN Tail(box) = 1 .. Len(box) - 1
           /\ \A i \in 1 .. Len(box) - 1 : Tail(box)[i] = box[i + 1]
    <3>1. PICK box \in Seq(Letters) : box = mailbox[w] /\ box # <<>>
      BY <1>4 DEF MessagesInv, MessagesTyped
    <3>2. /\ Head(box) \in Letters /\ Tail(box) \in Seq(Letters) /\ Len(Tail(box)) = Len(box) - 1
          /\ \A i \in 1 .. Len(Tail(box)) : Tail(box)[i] = box[i + 1]
      BY <3>1, HeadTailProperties
    <3>3. Len(box) \in Nat /\ DOMAIN box = 1 .. Len(box) /\ DOMAIN Tail(box) = 1 .. Len(Tail(box))
      BY <3>1, <3>2, ListProperties
    <3>4. Head(box) = box[1]
      OBVIOUS
    <3> QED  BY <3>1, <3>2, <3>3, <3>4
  <2>2. PICK c \in WindowCalls :
           /\ c = [a EXCEPT !.left = a.left - 1] /\ c.does = "drain" /\ c.todo = {}
    <3>1. PICK l \in Nat : l = a.left - 1
      BY <1>2, <1>4
    <3>2. /\ [a EXCEPT !.left = l] \in WindowCalls
          /\ [a EXCEPT !.left = l].does = a.does /\ [a EXCEPT !.left = l].todo = a.todo
      BY DEF WindowCalls
    <3> QED  BY <1>2, <3>1, <3>2
  <2>3. PICK d \in WindowCalls, q \in Nat :
           /\ q = box[1].message /\ d = Call(w, "deliver", Head(box).message, Head(box).page)
           /\ d.todo = {} /\ \A v, k : Brings(d, v, k) <=> v = w /\ k = q
    <3>1. PICK q \in Nat, p \in Nat : q = Head(box).message /\ p = Head(box).page
      BY <2>1 DEF Letters
    <3>2. "deliver" \in Doings
      BY DEF Doings
    <3>3. /\ Call(w, "deliver", q, p) \in WindowCalls
          /\ \A v, k : Brings(Call(w, "deliver", q, p), v, k) <=> v = w /\ k = q
      BY <3>2, NewCall
    <3>4. Call(w, "deliver", q, p).todo = {}
      BY DEF Call
    <3> QED  BY <2>1, <3>1, <3>3, <3>4
  <2>4. PICK r \in Seq(WindowCalls), n \in Nat :
           /\ r = Instead(g, c) /\ n \in DOMAIN stack[g] /\ a = stack[g][n]
           /\ DOMAIN r = DOMAIN stack[g] /\ DOMAIN r = 1 .. n /\ Len(r) = n
           /\ \A i \in DOMAIN r : r[i] = IF i = n THEN c ELSE stack[g][i]
    BY <1>1, <1>2, TopReplaced
  <2>5. PICK s \in Seq(WindowCalls) :
           /\ s = Append(r, d) /\ DOMAIN s = 1 .. n + 1 /\ s[n + 1] = d
           /\ \A i \in 1 .. n : s[i] = r[i]
           /\ \A i \in 1 .. n + 1 : i \in 1 .. n \/ i = n + 1
    <3>1. /\ Append(r, d) \in Seq(WindowCalls) /\ DOMAIN r = 1 .. Len(r)
          /\ DOMAIN Append(r, d) = 1 .. Len(r) + 1
          /\ Append(r, d)[Len(r) + 1] = d
          /\ \A k \in DOMAIN r : Append(r, d)[k] = r[k]
          /\ \A k \in DOMAIN Append(r, d) : k \in DOMAIN r \/ k = Len(r) + 1
      BY ListExtended
    <3> QED  BY <2>4, <3>1
  <2>6. stack' = [stack EXCEPT ![g] = s]
    BY <1>4, <2>1, <2>2, <2>3, <2>4, <2>5
  <2>7. /\ mailbox'[w] = Tail(box)
        /\ \A v \in Windows \ {w} : mailbox'[v] = mailbox[v]
    BY <1>4, <2>1 DEF MessagesInv, MessagesTyped
  <2>8. BroughtBy(s, w, q)
    <3>1. n + 1 \in DOMAIN s /\ Brings(s[n + 1], w, q)
      BY <2>3, <2>4, <2>5
    <3> QED  BY <3>1 DEF BroughtBy
  <2>9. ASSUME NEW v \in Windows, NEW m \in owed[v], Waiting(v, m)
        PROVE  Waiting(v, m)' \/ (running[v] /\ BroughtBy(s, v, m))
    <3>1. CASE v # w
      BY <2>7, <2>9, <3>1 DEF Waiting
    <3>2. CASE v = w
      <4>1. PICK i \in DOMAIN box : box[i].message = m
        BY <2>1, <2>9, <3>2 DEF Waiting
      <4>2. CASE i = 1
        BY <1>4, <2>3, <2>8, <3>2, <4>1, <4>2
      <4>3. CASE i # 1
        <5>1. i - 1 \in 1 .. Len(box) - 1 /\ (i - 1) + 1 = i
          BY <2>1, <4>3
        <5>2. i - 1 \in DOMAIN mailbox'[w] /\ mailbox'[w][i - 1].message = m
          BY <2>1, <2>7, <4>1, <5>1
        <5> QED  BY <3>2, <5>2 DEF Waiting
      <4> QED  BY <4>2, <4>3
    <3> QED  BY <3>1, <3>2
  <2>10. ASSUME NEW v \in Windows, NEW m \in owed[v], NEW i \in DOMAIN stack[g], Brings(stack[g][i], v, m)
         PROVE  BroughtBy(s, v, m)
    <3>1. i # n
      BY <1>2, <2>4, <2>10 DEF Brings
    <3>2. i \in DOMAIN s /\ s[i] = stack[g][i]
      BY <2>4, <2>5, <3>1
    <3> QED  BY <2>10, <3>2 DEF BroughtBy
  <2>11. ASSUME NEW j \in DOMAIN s, s[j].does \notin {"script", "listen"}
         PROVE  s[j].todo = {}
    <3>1. CASE j = n + 1
      BY <2>3, <2>5, <3>1
    <3>2. CASE j \in 1 .. n /\ j = n
      BY <2>2, <2>4, <2>5, <3>2
    <3>3. CASE j \in 1 .. n /\ j # n
      <4>1. j \in DOMAIN stack[g] /\ s[j] = stack[g][j]
        BY <2>4, <2>5, <3>3
      <4> QED  BY <2>11, <4>1 DEF OwedInv, OnlyScriptsPost
    <3> QED  BY <2>5, <3>1, <3>2, <3>3
  <2>12. \A v, m : WasHeard(v, m) => WasHeard(v, m)'
    BY <1>1 DEF WasHeard
  <2>13. Accounted(g, s)
    BY <2>9, <2>10, <2>11, <2>12 DEF Accounted
  <2>14. OwedTyped' /\ GoneAreOwedNothing' /\ owed' = owed /\ UNCHANGED windowVars
    BY <1>1 DEF OwedInv, OwedTyped, GoneAreOwedNothing, windowVars
  <2> QED  BY <2>6, <2>13, <2>14, CallsKeepOwed
<1> QED  BY <1>1, <1>2, <1>3, <1>4

LEMMA PostKeepsOwed == MessagesInv /\ OwedInv /\ PostMessage => OwedInv'
<1> SUFFICES ASSUME MessagesInv, OwedInv, PostMessage PROVE OwedInv'
  OBVIOUS
<1>1. PICK g \in Workers, targets \in Targets :
         /\ InScript(g) /\ Top(g).todo = {}
         /\ stack' = [stack EXCEPT ![g] = Instead(g, [Top(g) EXCEPT !.posting = sent + 1, !.todo = targets])]
         /\ owed' = [w \in Windows |-> IF w \in targets /\ running[w] THEN owed[w] \cup {sent + 1} ELSE owed[w]]
         /\ UNCHANGED <<windowVars, mailbox, heard>>
  BY DEF PostMessage
<1>2. PICK q \in Nat : q = sent + 1
  BY DEF MessagesInv, MessagesTyped
<1>3. targets \subseteq registered /\ registered \subseteq Windows
  BY DEF Targets, MessagesInv, MessagesTyped
<1>4. PICK a \in WindowCalls : /\ a = Top(g) /\ a.does \in {"script", "listen"} /\ a.todo = {} /\ stack[g] # <<>>
                               /\ \A w, m : ~Brings(a, w, m)
  <2>1. PICK a \in WindowCalls : a = Top(g)
    BY <1>1, TopCall DEF InScript
  <2> QED  BY <1>1, <2>1 DEF InScript, Brings
<1>5. PICK c \in WindowCalls :
         /\ c = [a EXCEPT !.posting = q, !.todo = targets] /\ c.does = a.does
         /\ \A w \in targets : Brings(c, w, q)
  <2>1. PICK new \in SUBSET Windows : new = targets
    BY <1>3
  <2>2. /\ [a EXCEPT !.posting = q, !.todo = new] \in WindowCalls
        /\ [a EXCEPT !.posting = q, !.todo = new].does = a.does
        /\ [a EXCEPT !.posting = q, !.todo = new].posting = q
        /\ [a EXCEPT !.posting = q, !.todo = new].todo = new
    BY DEF WindowCalls
  <2> QED  BY <2>1, <2>2 DEF Brings
<1>6. PICK s \in Seq(WindowCalls), n \in Nat :
         /\ s = Instead(g, c) /\ n \in DOMAIN stack[g] /\ a = stack[g][n] /\ DOMAIN s = DOMAIN stack[g]
         /\ \A i \in DOMAIN s : s[i] = IF i = n THEN c ELSE stack[g][i]
  BY <1>4, TopReplaced
<1>7. stack' = [stack EXCEPT ![g] = s]
  BY <1>1, <1>2, <1>4, <1>5, <1>6
<1>8. \A w \in targets : BroughtBy(s, w, q)
  BY <1>5, <1>6 DEF BroughtBy
<1>9. ASSUME NEW w \in Windows, NEW m \in owed[w], NEW i \in DOMAIN stack[g], Brings(stack[g][i], w, m)
      PROVE  BroughtBy(s, w, m)
  <2>1. i # n
    BY <1>4, <1>6, <1>9
  <2> QED  BY <1>6, <1>9, <2>1 DEF BroughtBy
<1>10. \A j \in DOMAIN s : s[j].does \notin {"script", "listen"} => s[j].todo = {}
  BY <1>4, <1>5, <1>6 DEF OwedInv, OnlyScriptsPost
<1>11. Accounted(g, s)
  BY <1>1, <1>9, <1>10 DEF Accounted, Waiting, WasHeard
<1>12. /\ \A w \in Windows : owed[w] \subseteq Nat
       /\ \A w \in Windows : w \notin registered => owed[w] = {}
       /\ registered' = registered
  BY <1>1 DEF OwedInv, OwedTyped, GoneAreOwedNothing, windowVars
<1>13. OwedTyped' /\ GoneAreOwedNothing'
  BY <1>1, <1>2, <1>3, <1>12 DEF OwedTyped, GoneAreOwedNothing
<1>14. \A w \in Windows : \A m \in owed'[w] : m \in owed[w] \/ (running[w] /\ BroughtBy(s, w, m))
  BY <1>1, <1>2, <1>8
<1> QED  BY <1>1, <1>7, <1>11, <1>13, <1>14, CallsKeepOwed

LEMMA ReachKeepsOwed ==
    ASSUME MessagesInv, OwedInv, NEW g \in Workers, InScript(g), NEW t \in Windows, t \in Top(g).todo,
           Reach(g, t), UNCHANGED <<windowVars, heard, owed>>
    PROVE  OwedInv'
<1>1. PICK a \in WindowCalls, q \in Nat :
         a = Top(g) /\ q = a.posting /\ a.does \in {"script", "listen"} /\ stack[g] # <<>> /\ t \in a.todo
  BY TopCall DEF InScript
<1>2. PICK c \in WindowCalls :
         /\ c = [a EXCEPT !.todo = a.todo \ {t}] /\ c.does = a.does
         /\ \A w, m : Brings(a, w, m) /\ ~(w = t /\ m = q) => Brings(c, w, m)
  <2>1. PICK rest \in SUBSET Windows : rest = a.todo \ {t}
    BY DEF WindowCalls
  <2>2. PICK c \in WindowCalls : /\ c = [a EXCEPT !.todo = rest] /\ c.todo = rest
                                 /\ c.does = a.does /\ c.posting = a.posting
    <3>1. /\ [a EXCEPT !.todo = rest] \in WindowCalls /\ [a EXCEPT !.todo = rest].todo = rest
          /\ [a EXCEPT !.todo = rest].does = a.does /\ [a EXCEPT !.todo = rest].posting = a.posting
      BY DEF WindowCalls
    <3> QED  BY <3>1
  <2>3. ASSUME NEW w, NEW m, Brings(a, w, m), ~(w = t /\ m = q)
        PROVE  Brings(c, w, m)
    BY <1>1, <2>1, <2>2, <2>3 DEF Brings
  <2> QED  BY <2>1, <2>2, <2>3
<1>3. PICK s \in Seq(WindowCalls), n \in Nat :
         /\ s = Visited(g, t) /\ n \in DOMAIN stack[g] /\ a = stack[g][n]
         /\ DOMAIN s = DOMAIN stack[g] /\ DOMAIN s = 1 .. n /\ Len(s) = n
         /\ \A i \in DOMAIN s : s[i] = IF i = n THEN c ELSE stack[g][i]
  <2>1. PICK s \in Seq(WindowCalls), n \in Nat :
           /\ s = Instead(g, c) /\ n \in DOMAIN stack[g] /\ a = stack[g][n]
           /\ DOMAIN s = DOMAIN stack[g] /\ DOMAIN s = 1 .. n /\ Len(s) = n
           /\ \A i \in DOMAIN s : s[i] = IF i = n THEN c ELSE stack[g][i]
    BY <1>1, TopReplaced
  <2>2. s = Visited(g, t)
    BY <1>1, <1>2, <2>1 DEF Visited
  <2> QED  BY <2>1, <2>2
<1>4. ASSUME NEW w \in Windows, NEW m \in owed[w], NEW i \in DOMAIN stack[g], Brings(stack[g][i], w, m)
      PROVE  BroughtBy(s, w, m) \/ (w = t /\ m = q)
  <2>1. CASE i = n /\ ~(w = t /\ m = q)
    <3>1. Brings(a, w, m)
      BY <1>3, <1>4, <2>1
    <3>2. n \in DOMAIN s /\ s[n] = c /\ Brings(c, w, m)
      BY <1>2, <1>3, <2>1, <3>1
    <3> QED  BY <3>2 DEF BroughtBy
  <2>2. CASE i # n
    <3>1. i \in DOMAIN s /\ s[i] = stack[g][i]
      BY <1>3, <2>2
    <3> QED  BY <1>4, <3>1 DEF BroughtBy
  <2> QED  BY <2>1, <2>2
<1>5. \A j \in DOMAIN s : s[j].does \notin {"script", "listen"} => s[j].todo = {}
  BY <1>1, <1>2, <1>3 DEF OwedInv, OnlyScriptsPost
<1>6. CASE ~running[t] /\ stack' = [stack EXCEPT ![g] = s] /\ UNCHANGED mailbox
  <2>1. \A w \in Windows : \A m \in owed[w] : \A i \in DOMAIN stack[g] :
           Brings(stack[g][i], w, m) => BroughtBy(s, w, m) \/ ~running[w] \/ w \notin registered
    BY <1>4, <1>6
  <2> QED  BY <1>5, <1>6, <2>1, CallsKeepOld
<1>7. CASE /\ stack' = [stack EXCEPT ![g] = Append(s, Call(t, "deliver", q, page[t]))]
           /\ UNCHANGED mailbox
  <2>1. PICK d \in WindowCalls :
           d = Call(t, "deliver", q, page[t]) /\ d.todo = {} /\ Brings(d, t, q)
    <3>1. PICK p \in Nat : p = page[t]
      BY DEF MessagesInv, MessagesTyped
    <3>2. "deliver" \in Doings
      BY DEF Doings
    <3>3. /\ Call(t, "deliver", q, p) \in WindowCalls
          /\ \A w, m : Brings(Call(t, "deliver", q, p), w, m) <=> w = t /\ m = q
      BY <3>2, NewCall
    <3> QED  BY <3>1, <3>3 DEF Call
  <2>2. PICK r \in Seq(WindowCalls) :
           /\ r = Append(s, d) /\ DOMAIN r = 1 .. n + 1 /\ r[n + 1] = d
           /\ \A i \in 1 .. n : r[i] = s[i]
           /\ \A i \in 1 .. n + 1 : i \in 1 .. n \/ i = n + 1
    <3>1. /\ Append(s, d) \in Seq(WindowCalls) /\ DOMAIN s = 1 .. Len(s)
          /\ DOMAIN Append(s, d) = 1 .. Len(s) + 1
          /\ Append(s, d)[Len(s) + 1] = d
          /\ \A k \in DOMAIN s : Append(s, d)[k] = s[k]
          /\ \A k \in DOMAIN Append(s, d) : k \in DOMAIN s \/ k = Len(s) + 1
      BY ListExtended
    <3> QED  BY <1>3, <3>1
  <2>3. ASSUME NEW w, NEW m, BroughtBy(s, w, m)
        PROVE  BroughtBy(r, w, m)
    <3>1. PICK i \in DOMAIN s : Brings(s[i], w, m)
      BY <2>3 DEF BroughtBy
    <3>2. i \in DOMAIN r /\ r[i] = s[i]
      BY <1>3, <2>2
    <3> QED  BY <3>1, <3>2 DEF BroughtBy
  <2>4. BroughtBy(r, t, q)
    <3>1. n + 1 \in DOMAIN r
      BY <2>2
    <3> QED  BY <2>1, <2>2, <3>1 DEF BroughtBy
  <2>5. \A w \in Windows : \A m \in owed[w] : \A i \in DOMAIN stack[g] :
           Brings(stack[g][i], w, m) => BroughtBy(r, w, m) \/ ~running[w] \/ w \notin registered
    BY <1>4, <2>3, <2>4
  <2>6. \A j \in DOMAIN r : r[j].does \notin {"script", "listen"} => r[j].todo = {}
    BY <1>3, <1>5, <2>1, <2>2
  <2>7. stack' = [stack EXCEPT ![g] = r]
    BY <1>7, <2>1, <2>2
  <2> QED  BY <1>7, <2>5, <2>6, <2>7, CallsKeepOld
<1>8. CASE /\ stack' = [stack EXCEPT ![g] = s]
           /\ mailbox' = [mailbox EXCEPT ![t] = Append(mailbox[t], [message |-> q, page |-> page[t]])]
  <2>1. PICK box \in Seq(Letters), letter \in Letters :
           box = mailbox[t] /\ letter = [message |-> q, page |-> page[t]] /\ letter.message = q
    <3>1. mailbox[t] \in Seq(Letters) /\ page[t] \in Nat
      BY DEF MessagesInv, MessagesTyped
    <3>2. [message |-> q, page |-> page[t]] \in Letters
      BY <3>1 DEF Letters
    <3> QED  BY <3>1, <3>2
  <2>2. PICK m \in Nat :
           /\ m \in DOMAIN Append(box, letter) /\ Append(box, letter)[m] = letter
           /\ \A k \in DOMAIN box : k \in DOMAIN Append(box, letter) /\ Append(box, letter)[k] = box[k]
    <3>1. /\ Len(box) \in Nat /\ DOMAIN box = 1 .. Len(box)
          /\ DOMAIN Append(box, letter) = 1 .. Len(box) + 1
          /\ Append(box, letter)[Len(box) + 1] = letter
          /\ \A k \in DOMAIN box : Append(box, letter)[k] = box[k]
      BY ListExtended
    <3>2. /\ Len(box) + 1 \in Nat /\ Len(box) + 1 \in DOMAIN Append(box, letter)
          /\ \A k \in DOMAIN box : k \in DOMAIN Append(box, letter)
      BY <3>1
    <3> QED  BY <3>1, <3>2
  <2>3. /\ mailbox'[t] = Append(box, letter)
        /\ \A v \in Windows \ {t} : mailbox'[v] = mailbox[v]
    BY <1>8, <2>1 DEF MessagesInv, MessagesTyped
  <2>4. Waiting(t, q)'
    BY <2>1, <2>2, <2>3 DEF Waiting
  <2>5. ASSUME NEW w \in Windows, NEW k \in owed[w], Waiting(w, k)
        PROVE  Waiting(w, k)'
    <3>1. PICK i \in DOMAIN mailbox[w] : mailbox[w][i].message = k
      BY <2>5 DEF Waiting
    <3>2. CASE w = t
      <4>1. i \in DOMAIN mailbox'[t] /\ mailbox'[t][i].message = k
        BY <2>1, <2>2, <2>3, <3>1, <3>2
      <4> QED  BY <3>2, <4>1 DEF Waiting
    <3>3. CASE w # t
      BY <2>3, <3>1, <3>3 DEF Waiting
    <3> QED  BY <3>2, <3>3
  <2>6. Accounted(g, s)
    BY <1>4, <1>5, <2>4, <2>5 DEF Accounted, WasHeard
  <2>7. OwedTyped' /\ GoneAreOwedNothing'
    BY DEF OwedInv, OwedTyped, GoneAreOwedNothing, windowVars
  <2> QED  BY <1>8, <2>6, <2>7, CallsKeepOwed
<1>9. /\ \/ ~running[t] /\ stack' = [stack EXCEPT ![g] = s] /\ UNCHANGED mailbox
         \/ /\ stack' = [stack EXCEPT ![g] = Append(s, Call(t, "deliver", q, page[t]))]
            /\ UNCHANGED mailbox
         \/ /\ stack' = [stack EXCEPT ![g] = s]
            /\ mailbox' = [mailbox EXCEPT ![t] = Append(mailbox[t], [message |-> q, page |-> page[t]])]
  BY <1>1, <1>3 DEF Reach
<1> QED  BY <1>6, <1>7, <1>8, <1>9

LEMMA DeliverKeepsOwed == MessagesInv /\ OwedInv /\ Deliver => OwedInv'
<1> SUFFICES ASSUME MessagesInv, OwedInv, Deliver PROVE OwedInv'
  OBVIOUS
<1>1. PICK g \in Workers :
         /\ stack[g] # <<>> /\ Top(g).does = "deliver"
         /\ UNCHANGED <<windowVars, mailbox, owed>>
         /\ \/ /\ Return(g) /\ UNCHANGED heard
               /\ Top(g).win \notin registered \/ ~running[Top(g).win]
            \/ /\ stack' = [stack EXCEPT ![g] = Instead(g, Call(Top(g).win, "listen", Top(g).message, 0))]
               /\ Heard(Top(g).win, Top(g), Len(stack[g]) > 1 /\ stack[g][Len(stack[g]) - 1].does = "drain")
  BY DEF Deliver
<1>2. PICK a \in WindowCalls, v \in Windows, q \in Nat :
         /\ a = Top(g) /\ v = a.win /\ q = a.message /\ a.does = "deliver" /\ a.todo = {}
  BY <1>1, TopCall DEF OwedInv, OnlyScriptsPost
<1>3. CASE /\ Return(g) /\ UNCHANGED heard
           /\ Top(g).win \notin registered \/ ~running[Top(g).win]
  BY <1>1, <1>2, <1>3, ReturnKeepsOwed
<1>4. CASE /\ stack' = [stack EXCEPT ![g] = Instead(g, Call(v, "listen", q, 0))]
           /\ Heard(v, a, Len(stack[g]) > 1 /\ stack[g][Len(stack[g]) - 1].does = "drain")
  <2>1. PICK c \in WindowCalls : c = Call(v, "listen", q, 0) /\ c.does = "listen"
    <3>1. "listen" \in Doings /\ 0 \in Nat
      BY DEF Doings
    <3> QED  BY <3>1, NewCall
  <2>2. PICK s \in Seq(WindowCalls), n \in Nat :
           /\ s = Instead(g, c) /\ n \in DOMAIN stack[g] /\ a = stack[g][n] /\ DOMAIN s = DOMAIN stack[g]
           /\ \A i \in DOMAIN s : s[i] = IF i = n THEN c ELSE stack[g][i]
    BY <1>1, <1>2, TopReplaced
  <2>3. stack' = [stack EXCEPT ![g] = s]
    BY <1>4, <2>1, <2>2
  <2>4. PICK entry : entry.message = q /\ heard' = [heard EXCEPT ![v] = heard[v] \cup {entry}]
    <3> DEFINE again == \E h \in heard[v] : h.message = q
               late == (Len(stack[g]) > 1 /\ stack[g][Len(stack[g]) - 1].does = "drain") /\ bound[v] > a.left
               entry == [message |-> q, again |-> again, late |-> late]
    <3>1. heard' = [heard EXCEPT ![v] = heard[v] \cup {entry}]
      BY <1>2, <1>4 DEF Heard
    <3> HIDE DEF again, late
    <3>2. entry.message = q
      OBVIOUS
    <3> QED  BY <3>1, <3>2
  <2>5. heard'[v] = heard[v] \cup {entry} /\ \A w \in Windows \ {v} : heard'[w] = heard[w]
    BY <2>4 DEF MessagesInv, MessagesTyped
  <2>6. /\ WasHeard(v, q)'
        /\ \A w \in Windows : \A m \in owed[w] : WasHeard(w, m) => WasHeard(w, m)'
    BY <2>4, <2>5 DEF WasHeard
  <2>7. ASSUME NEW w \in Windows, NEW m \in owed[w], NEW i \in DOMAIN stack[g], Brings(stack[g][i], w, m)
        PROVE  BroughtBy(s, w, m) \/ WasHeard(w, m)'
    <3>1. CASE i = n
      BY <1>2, <2>2, <2>6, <2>7, <3>1 DEF Brings
    <3>2. CASE i # n
      BY <2>2, <2>7, <3>2 DEF BroughtBy
    <3> QED  BY <3>1, <3>2
  <2>8. \A j \in DOMAIN s : s[j].does \notin {"script", "listen"} => s[j].todo = {}
    BY <2>1, <2>2 DEF OwedInv, OnlyScriptsPost
  <2>9. \A w, m : Waiting(w, m) <=> Waiting(w, m)'
    BY <1>1 DEF Waiting
  <2>10. Accounted(g, s)
    BY <2>6, <2>7, <2>8, <2>9 DEF Accounted
  <2>11. OwedTyped' /\ GoneAreOwedNothing' /\ owed' = owed /\ UNCHANGED windowVars
    BY <1>1 DEF OwedInv, OwedTyped, GoneAreOwedNothing, windowVars
  <2> QED  BY <2>3, <2>10, <2>11, CallsKeepOwed
<1> QED  BY <1>1, <1>2, <1>3, <1>4

\* A window that pauses, navigates or goes is owed no more than what it still gets.
LEMMA WindowsKeepOwed ==
    ASSUME MessagesInv, OwedInv, Toggle \/ LoadPage \/ BindPage \/ Destroyed
    PROVE  OwedInv'
<1>1. registered \subseteq Windows /\ running \in [Windows -> BOOLEAN] /\ owed \in [Windows -> SUBSET Nat]
  BY DEF MessagesInv, MessagesTyped, OwedInv, OwedTyped
<1>2. stack' = stack /\ heard' = heard
  BY DEF Toggle, LoadPage, BindPage, Destroyed
<1>3. \A w, m : (Brought(w, m)' <=> Brought(w, m)) /\ (WasHeard(w, m)' <=> WasHeard(w, m))
  BY <1>2 DEF Brought, WasHeard
<1>4. OnlyScriptsPost'
  BY <1>2 DEF OwedInv, OnlyScriptsPost
<1>5. /\ \A w \in Windows : \A m \in owed[w] : Brought(w, m) \/ Waiting(w, m) \/ WasHeard(w, m)
      /\ \A w \in Windows : ~running[w] => \A m \in owed[w] : Waiting(w, m) \/ WasHeard(w, m)
      /\ \A w \in Windows : w \notin registered => owed[w] = {}
  BY DEF OwedInv, OwedAreKept, PausedAreOwedLess, GoneAreOwedNothing
<1>6. CASE Toggle
  <2>1. PICK w \in Windows : /\ running' = [running EXCEPT ![w] = ~running[w]]
                             /\ owed' = [owed EXCEPT ![w] = {m \in owed[w] : Waiting(w, m)}]
                             /\ UNCHANGED <<registered, mailbox>>
    BY <1>1, <1>6 DEF Toggle
  <2>2. \A v, m : Waiting(v, m)' <=> Waiting(v, m)
    BY <2>1 DEF Waiting
  <2>3. /\ owed'[w] = {m \in owed[w] : Waiting(w, m)}
        /\ \A v \in Windows \ {w} : owed'[v] = owed[v] /\ running'[v] = running[v]
    BY <1>1, <2>1
  <2>4. OwedTyped'
    BY <1>1, <2>1 DEF OwedTyped
  <2>5. OwedAreKept' /\ PausedAreOwedLess'
    BY <1>3, <1>5, <2>2, <2>3 DEF OwedAreKept, PausedAreOwedLess
  <2>6. GoneAreOwedNothing'
    BY <1>5, <2>1, <2>3 DEF GoneAreOwedNothing
  <2> QED  BY <1>4, <2>4, <2>5, <2>6 DEF OwedInv
<1>7. CASE LoadPage
  <2>1. PICK w \in Windows : /\ owed' = [owed EXCEPT ![w] = {m \in owed[w] : ~Waiting(w, m)}]
                             /\ mailbox' = [mailbox EXCEPT ![w] = <<>>]
                             /\ UNCHANGED <<registered, running>>
    BY <1>1, <1>7 DEF LoadPage
  <2>2. \A v \in Windows \ {w} : mailbox'[v] = mailbox[v]
    BY <2>1 DEF MessagesInv, MessagesTyped
  <2>3. \A v \in Windows \ {w} : \A m : Waiting(v, m)' <=> Waiting(v, m)
    BY <2>2 DEF Waiting
  <2>4. /\ owed'[w] = {m \in owed[w] : ~Waiting(w, m)}
        /\ \A v \in Windows \ {w} : owed'[v] = owed[v]
    BY <1>1, <2>1
  <2>5. OwedTyped'
    BY <1>1, <2>1 DEF OwedTyped
  <2>6. OwedAreKept' /\ PausedAreOwedLess'
    BY <1>3, <1>5, <2>1, <2>3, <2>4 DEF OwedAreKept, PausedAreOwedLess
  <2>7. GoneAreOwedNothing'
    BY <1>5, <2>1, <2>4 DEF GoneAreOwedNothing
  <2> QED  BY <1>4, <2>5, <2>6, <2>7 DEF OwedInv
<1>8. CASE BindPage
  <2>1. UNCHANGED <<running, registered, mailbox, owed>>
    BY <1>8 DEF BindPage
  <2>2. \A v, m : Waiting(v, m)' <=> Waiting(v, m)
    BY <2>1 DEF Waiting
  <2> QED  BY <1>1, <1>3, <1>4, <1>5, <2>1, <2>2
           DEF OwedInv, OwedTyped, OwedAreKept, PausedAreOwedLess, GoneAreOwedNothing
<1>9. CASE Destroyed
  <2>1. PICK w \in Windows : /\ registered' = registered \ {w}
                             /\ running' = [running EXCEPT ![w] = FALSE]
                             /\ owed' = [owed EXCEPT ![w] = {}]
                             /\ mailbox' = [mailbox EXCEPT ![w] = <<>>]
    BY <1>1, <1>9 DEF Destroyed
  <2>2. \A v \in Windows \ {w} : mailbox'[v] = mailbox[v]
    BY <2>1 DEF MessagesInv, MessagesTyped
  <2>3. \A v \in Windows \ {w} : \A m : Waiting(v, m)' <=> Waiting(v, m)
    BY <2>2 DEF Waiting
  <2>4. /\ owed'[w] = {}
        /\ \A v \in Windows \ {w} : owed'[v] = owed[v] /\ running'[v] = running[v]
    BY <1>1, <2>1
  <2>5. OwedTyped'
    BY <1>1, <2>1 DEF OwedTyped
  <2>6. OwedAreKept' /\ PausedAreOwedLess'
    BY <1>3, <1>5, <2>3, <2>4 DEF OwedAreKept, PausedAreOwedLess
  <2>7. GoneAreOwedNothing'
    BY <1>5, <2>1, <2>4 DEF GoneAreOwedNothing
  <2> QED  BY <1>4, <2>5, <2>6, <2>7 DEF OwedInv
<1> QED  BY <1>6, <1>7, <1>8, <1>9

LEMMA OwedKeep == MessagesInv /\ OwedInv /\ [MessagesNext]_messageVars => OwedInv'
<1> SUFFICES ASSUME MessagesInv, OwedInv, [MessagesNext]_messageVars PROVE OwedInv'
  OBVIOUS
<1>0. registered \subseteq Windows
  BY DEF MessagesInv, MessagesTyped
<1>1. CASE RunsScript
  <2>1. PICK g \in Workers, w \in registered :
           /\ stack[g] = <<>> /\ Push(g, Call(w, "script", 0, 0))
           /\ UNCHANGED <<windowVars, mailbox, heard, owed>>
    BY <1>1 DEF RunsScript
  <2>2. PICK does \in {"script", "drain"}, n \in Nat : does = "script" /\ n = 0
    OBVIOUS
  <2>3. w \in Windows /\ Push(g, Call(w, does, 0, n))
    BY <1>0, <2>1, <2>2
  <2> QED  BY <2>1, <2>3, FirstCallKeepsOwed
<1>2. CASE DrainStarts
  <2>1. PICK g \in Workers, w \in registered :
           /\ stack[g] = <<>> /\ Push(g, Call(w, "drain", 0, Len(mailbox[w])))
           /\ UNCHANGED <<windowVars, mailbox, heard, owed>>
    BY <1>2 DEF DrainStarts
  <2>2. Len(mailbox[w]) \in Nat
    <3>1. mailbox[w] \in Seq(Letters)
      BY <1>0 DEF MessagesInv, MessagesTyped
    <3> QED  BY <3>1, ListProperties
  <2>3. PICK does \in {"script", "drain"}, n \in Nat : does = "drain" /\ n = Len(mailbox[w])
    BY <2>2
  <2>4. w \in Windows /\ Push(g, Call(w, does, 0, n))
    BY <1>0, <2>1, <2>3
  <2> QED  BY <2>1, <2>4, FirstCallKeepsOwed
<1>3. CASE ReachesTarget
  <2>1. PICK g \in Workers : /\ InScript(g) /\ \E t \in Top(g).todo : Reach(g, t)
                             /\ UNCHANGED <<windowVars, heard, owed>>
    BY <1>3 DEF ReachesTarget
  <2>2. PICK t \in Top(g).todo : Reach(g, t)
    BY <2>1
  <2>3. t \in Windows
    BY <2>1, TopCall DEF InScript
  <2> QED  BY <2>1, <2>2, <2>3, ReachKeepsOwed
<1>4. CASE ScriptEnds
  BY <1>4, ReturnKeepsOwed DEF ScriptEnds, InScript
<1>5. CASE UNCHANGED messageVars
  BY <1>5 DEF OwedInv, OwedTyped, OwedAreKept, PausedAreOwedLess, GoneAreOwedNothing, OnlyScriptsPost,
              Brought, Waiting, WasHeard, messageVars, windowVars
<1> QED  BY <1>1, <1>2, <1>3, <1>4, <1>5, DrainKeepsOwed, PostKeepsOwed, DeliverKeepsOwed, WindowsKeepOwed
         DEF MessagesNext

LEMMA MessagesHold == MessagesInv /\ OwedInv => MessagesAreNotLost
  BY DEF MessagesInv, OwedInv, OwedAreKept, MessagesAreNotLost, MessagesTyped, OneHolderOfWindow, HeardOnce

-----------------------------------------------------------------------------
(* Downloads.  A download's goroutine and its calls keep to their own     *)
(* download, and agree on what has become of it.                           *)

DownloadsTyped ==
    /\ nextDownloadID \in 0 .. MaxDownloads
    /\ downloads \in [DownloadIDs -> States] /\ paused \in [DownloadIDs -> BOOLEAN]
    /\ calls \in [DownloadIDs -> {"not made", "announcing", "returned"}]
    /\ fetching \in [DownloadIDs -> {"no", "started", "transferring", "over"}]
    /\ target \in [DownloadIDs -> Nat]
    /\ local \in [DownloadIDs -> [state : States, paused : BOOLEAN]]

(* A goroutine whose download is another one is mixed up with it.          *)
TargetsAreOwn ==
    \A w \in DownloadIDs :
        /\ calls[w] # "returned" <=> fetching[w] = "no"
        /\ calls[w] # "not made" <=> w <= nextDownloadID
        /\ fetching[w] # "no" => /\ target[w] \in DownloadIDs
                                 /\ target[w] # w => {w, target[w]} \subseteq mixedUp
        /\ fetching[w] = "transferring" => local[w].state # Erased

DownloadIsKept(d) ==
    /\ downloads[d] = "in_progress"
           => calls[d] = "announcing" \/ fetching[d] \in {"started", "transferring"}
    /\ downloads[d] = "complete" => d \in fetched
    /\ local[d].state = "complete" => d \in fetched
    /\ d \notin owned /\ downloads[d] # Erased => local[d] # NoCopy

DownloadsInv ==
    /\ DownloadsTyped /\ TargetsAreOwn
    /\ \A d \in DownloadIDs \ mixedUp : DownloadIsKept(d)

LEMMA MostDownloads == MaxDownloads \in Nat
  BY DownloadsAssumption DEF DownloadsAssumption

LEMMA DownloadsStart == DownloadsInit => DownloadsInv
<1> SUFFICES ASSUME DownloadsInit PROVE DownloadsInv
  OBVIOUS
<1>5. nextDownloadID = 0
  BY DEF DownloadsInit
<1>0. nextDownloadID = 0 /\ nextDownloadID \in 0 .. MaxDownloads
  BY <1>5, MostDownloads
<1>1. DownloadsTyped
  BY <1>0 DEF DownloadsInit, DownloadsTyped, States, NoCopy
<1>2. \A w \in DownloadIDs : ~(w <= nextDownloadID)
  BY <1>0, MostDownloads DEF DownloadIDs
<1>3. TargetsAreOwn
  BY <1>2 DEF DownloadsInit, TargetsAreOwn
<1>4. \A d \in DownloadIDs : DownloadIsKept(d)
  BY DEF DownloadsInit, DownloadIsKept, NoCopy, Erased
<1> QED  BY <1>1, <1>3, <1>4 DEF DownloadsInv

(* A step of the goroutine w for its own download disturbs no other that   *)
(* is not mixed up.                                                        *)
LEMMA WorksAlone ==
    ASSUME DownloadsInv, NEW w \in DownloadIDs, fetching[w] # "no", NEW d \in DownloadIDs \ mixedUp
    PROVE  target[w] \in DownloadIDs /\ (target[w] = d <=> w = d)
  BY DEF DownloadsInv, TargetsAreOwn

LEMMA DownloadsKeep == DownloadsInv /\ [DownloadsNext]_downloadVars => DownloadsInv'
<1> SUFFICES ASSUME DownloadsInv, [DownloadsNext]_downloadVars PROVE DownloadsInv'
  OBVIOUS
<1>0. DownloadsTyped /\ TargetsAreOwn /\ \A d \in DownloadIDs \ mixedUp : DownloadIsKept(d)
  BY DEF DownloadsInv
<1>c. nextDownloadID \in 0 .. MaxDownloads
  BY <1>0 DEF DownloadsTyped
<1>a. nextDownloadID \in Nat /\ nextDownloadID <= MaxDownloads /\ MaxDownloads \in Nat
  BY <1>c, MostDownloads
<1>1. CASE Download
  <2>1. PICK n \in DownloadIDs : n = nextDownloadID + 1 /\ n \in Nat /\ nextDownloadID \in Nat /\ n <= MaxDownloads
    <3>1. nextDownloadID < MaxDownloads
      BY <1>1 DEF Download
    <3>2. nextDownloadID + 1 \in 1 .. MaxDownloads /\ nextDownloadID + 1 \in Nat
      BY <1>a, <3>1
    <3> QED  BY <1>a, <3>1, <3>2 DEF DownloadIDs
  <2>2. /\ downloads' = [downloads EXCEPT ![n] = "in_progress"]
        /\ owned' = owned \cup {n} /\ calls' = [calls EXCEPT ![n] = "announcing"]
        /\ nextDownloadID' = n
        /\ UNCHANGED <<fetching, target, local, fetched, paused, mixedUp>>
    BY <1>1, <2>1 DEF Download, fetchVars
  <2>3. DownloadsTyped'
    <3>1. n \in 0 .. MaxDownloads /\ "in_progress" \in States
      BY <2>1 DEF States
    <3> QED  BY <1>0, <2>2, <3>1 DEF DownloadsTyped
  <2>4. \A w \in DownloadIDs : w \in Nat /\ (w <= n <=> w <= nextDownloadID \/ w = n)
    BY <2>1 DEF DownloadIDs
  <2>5. calls[n] = "not made"
    <3>1. ~(n <= nextDownloadID)
      BY <2>1
    <3> QED  BY <1>0, <3>1 DEF TargetsAreOwn
  <2>6. TargetsAreOwn'
    BY <1>0, <2>1, <2>2, <2>4, <2>5 DEF TargetsAreOwn, DownloadsTyped
  <2>7. \A d \in DownloadIDs \ mixedUp : DownloadIsKept(d)'
    BY <1>0, <2>1, <2>2, <2>5 DEF DownloadIsKept, DownloadsTyped
  <2> QED  BY <2>2, <2>3, <2>6, <2>7 DEF DownloadsInv
<1>2. CASE Launch
  <2>1. PICK c \in DownloadIDs :
           /\ calls[c] = "announcing"
           /\ calls' = [calls EXCEPT ![c] = "returned"]
           /\ fetching' = [fetching EXCEPT ![c] = "started"]
           /\ target' = [target EXCEPT ![c] = nextDownloadID]
           /\ mixedUp' = IF c = nextDownloadID THEN mixedUp ELSE mixedUp \cup {c, nextDownloadID}
           /\ UNCHANGED <<nextDownloadID, local, fetched, downloads, paused, owned>>
    BY <1>2 DEF Launch
  <2>2. nextDownloadID \in DownloadIDs /\ nextDownloadID \in Nat
    <3>1. c <= nextDownloadID /\ c \in 1 .. MaxDownloads
      BY <1>0, <2>1 DEF TargetsAreOwn, DownloadIDs
    <3>2. nextDownloadID \in 1 .. MaxDownloads
      BY <1>a, <3>1
    <3> QED  BY <1>a, <3>2 DEF DownloadIDs
  <2>3. DownloadsTyped'
    BY <1>0, <2>1, <2>2 DEF DownloadsTyped
  <2>4. TargetsAreOwn'
    BY <1>0, <2>1, <2>2 DEF TargetsAreOwn, DownloadsTyped
  <2>5. \A d \in DownloadIDs \ mixedUp' : d \notin mixedUp /\ DownloadIsKept(d)'
    BY <1>0, <2>1 DEF DownloadIsKept, DownloadsTyped
  <2> QED  BY <2>3, <2>4, <2>5 DEF DownloadsInv
<1>3. CASE Begins
  <2>1. PICK w \in DownloadIDs, e \in DownloadIDs :
           /\ e = target[w] /\ fetching[w] = "started"
           /\ fetching' = [fetching EXCEPT ![w] = IF downloads[e] = Erased THEN "over" ELSE "transferring"]
           /\ local' = [local EXCEPT ![w] = Copy(e)]
           /\ UNCHANGED <<callVars, target, fetched, downloads, paused, owned>>
    BY <1>0, <1>3 DEF Begins, TargetsAreOwn
  <2>2. Copy(e) \in [state : States, paused : BOOLEAN] /\ Copy(e).state = downloads[e]
    BY <1>0 DEF Copy, DownloadsTyped
  <2>3. DownloadsTyped'
    BY <1>0, <2>1, <2>2 DEF DownloadsTyped, callVars
  <2>4. TargetsAreOwn'
    BY <1>0, <2>1, <2>2 DEF TargetsAreOwn, DownloadsTyped, callVars
  <2>5. ASSUME NEW d \in DownloadIDs \ mixedUp
        PROVE  DownloadIsKept(d)'
    <3>1. e = d <=> w = d
      BY <2>1, WorksAlone
    <3>2. CASE w # d
      BY <1>0, <2>1, <3>2 DEF DownloadIsKept, DownloadsTyped, callVars
    <3>3. CASE w = d
      <4>1. local'[d] = Copy(d) /\ NoCopy.state = Erased
        BY <1>0, <2>1, <3>1, <3>3 DEF DownloadsTyped, NoCopy
      <4>2. fetching'[d] = IF downloads[d] = Erased THEN "over" ELSE "transferring"
        BY <1>0, <2>1, <3>1, <3>3 DEF DownloadsTyped
      <4> QED  BY <1>0, <2>1, <2>2, <3>1, <3>3, <4>1, <4>2 DEF DownloadIsKept, callVars, Erased
    <3> QED  BY <3>2, <3>3
  <2> QED  BY <2>1, <2>3, <2>4, <2>5 DEF DownloadsInv, callVars
<1>4. CASE updateDownload
  <2>1. PICK w \in DownloadIDs, e \in DownloadIDs :
           /\ e = target[w] /\ fetching[w] = "transferring"
           /\ downloads' = [downloads EXCEPT ![e] = local[w].state]
           /\ paused' = [paused EXCEPT ![e] = local[w].paused]
           /\ UNCHANGED <<callVars, fetchVars, owned>>
    BY <1>0, <1>4 DEF updateDownload, TargetsAreOwn
  <2>2. local[w].state \in States /\ local[w].paused \in BOOLEAN /\ local[w].state # Erased
    BY <1>0, <2>1 DEF TargetsAreOwn, DownloadsTyped
  <2>3. DownloadsTyped'
    BY <1>0, <2>1, <2>2 DEF DownloadsTyped, callVars, fetchVars
  <2>4. TargetsAreOwn'
    BY <1>0, <2>1 DEF TargetsAreOwn, callVars, fetchVars
  <2>5. ASSUME NEW d \in DownloadIDs \ mixedUp
        PROVE  DownloadIsKept(d)'
    <3>1. e = d <=> w = d
      BY <2>1, WorksAlone
    <3>2. CASE w # d
      BY <1>0, <2>1, <3>1, <3>2 DEF DownloadIsKept, DownloadsTyped, callVars, fetchVars
    <3>3. CASE w = d
      <4>1. downloads'[d] = local[d].state /\ NoCopy.state = Erased /\ fetching'[d] = "transferring"
        BY <1>0, <2>1, <3>1, <3>3 DEF DownloadsTyped, NoCopy, fetchVars
      <4> QED  BY <1>0, <2>1, <2>2, <3>3, <4>1 DEF DownloadIsKept, callVars, fetchVars
    <3> QED  BY <3>2, <3>3
  <2> QED  BY <2>1, <2>3, <2>4, <2>5 DEF DownloadsInv, callVars
<1>5. ASSUME NEW w \in DownloadIDs, NEW e \in DownloadIDs, NEW s \in {"interrupted", "complete"},
             e = target[w], fetching[w] = "transferring",
             fetching' = [fetching EXCEPT ![w] = "over"],
             downloads' = [downloads EXCEPT ![e] = IF downloads[e] = Erased THEN Erased ELSE s],
             fetched \subseteq fetched', s = "complete" => e \in fetched',
             UNCHANGED <<callVars, target, local, paused, owned>>
      PROVE  DownloadsInv'
  <2>1. DownloadsTyped'
    BY <1>0, <1>5 DEF DownloadsTyped, callVars, States
  <2>2. TargetsAreOwn'
    BY <1>0, <1>5 DEF TargetsAreOwn, callVars, DownloadsTyped
  <2>3. ASSUME NEW d \in DownloadIDs \ mixedUp
        PROVE  DownloadIsKept(d)'
    <3>1. e = d <=> w = d
      BY <1>5, WorksAlone
    <3>2. CASE w # d
      BY <1>0, <1>5, <3>1, <3>2 DEF DownloadIsKept, DownloadsTyped, callVars
    <3>3. CASE w = d
      <4>1. downloads'[d] = IF downloads[d] = Erased THEN Erased ELSE s
        BY <1>0, <1>5, <3>1, <3>3 DEF DownloadsTyped
      <4> QED  BY <1>0, <1>5, <3>1, <3>3, <4>1 DEF DownloadIsKept, callVars, Erased
    <3> QED  BY <3>2, <3>3
  <2> QED  BY <1>5, <2>1, <2>2, <2>3 DEF DownloadsInv, callVars
<1>6. CASE failDownload
  <2>1. PICK w \in DownloadIDs, e \in DownloadIDs :
           /\ e = target[w] /\ fetching[w] = "transferring"
           /\ fetching' = [fetching EXCEPT ![w] = "over"]
           /\ downloads' = [downloads EXCEPT ![e] = IF downloads[e] = Erased THEN Erased ELSE "interrupted"]
           /\ UNCHANGED <<callVars, target, local, fetched, paused, owned>>
    BY <1>0, <1>6 DEF failDownload, TargetsAreOwn
  <2> QED  BY <1>5, <2>1
<1>7. CASE Completes
  <2>1. PICK w \in DownloadIDs, e \in DownloadIDs :
           /\ e = target[w] /\ fetching[w] = "transferring"
           /\ fetching' = [fetching EXCEPT ![w] = "over"]
           /\ fetched' = fetched \cup {e}
           /\ downloads' = [downloads EXCEPT ![e] = IF downloads[e] = Erased THEN Erased ELSE "complete"]
           /\ UNCHANGED <<callVars, target, local, paused, owned>>
    BY <1>0, <1>7 DEF Completes, TargetsAreOwn
  <2> QED  BY <1>5, <2>1
<1>8. ASSUME NEW e \in DownloadIDs, downloads[e] # Erased,
             downloads' \in [DownloadIDs -> States], paused' \in [DownloadIDs -> BOOLEAN],
             \A d \in DownloadIDs \ {e} : downloads'[d] = downloads[d],
             \/ downloads'[e] \in {"interrupted", downloads[e]} /\ owned' = owned
             \/ downloads'[e] = Erased /\ owned' = owned \ {e},
             UNCHANGED <<callVars, fetchVars>>
      PROVE  DownloadsInv'
  <2>1. DownloadsTyped'
    BY <1>0, <1>8 DEF DownloadsTyped, callVars, fetchVars
  <2>2. TargetsAreOwn'
    BY <1>0, <1>8 DEF TargetsAreOwn, callVars, fetchVars
  <2>3. ASSUME NEW d \in DownloadIDs \ mixedUp
        PROVE  DownloadIsKept(d)'
    <3>1. DownloadIsKept(d)
      BY <1>0
    <3>2. CASE d = e
      BY <1>8, <3>1, <3>2 DEF DownloadIsKept, callVars, fetchVars, Erased
    <3>3. CASE d # e
      BY <1>8, <3>1, <3>3 DEF DownloadIsKept, callVars, fetchVars
    <3> QED  BY <3>2, <3>3
  <2> QED  BY <1>8, <2>1, <2>2, <2>3 DEF DownloadsInv, callVars
<1>b. downloads \in [DownloadIDs -> States] /\ paused \in [DownloadIDs -> BOOLEAN]
  BY <1>0 DEF DownloadsTyped
<1>10. CASE Cancel
  <2>1. PICK e \in DownloadIDs :
           /\ downloads[e] # Erased /\ downloads' = [downloads EXCEPT ![e] = "interrupted"]
           /\ UNCHANGED <<callVars, fetchVars, paused, owned>>
    BY <1>10 DEF Cancel
  <2> QED  BY <1>8, <1>b, <2>1 DEF States
<1>11. CASE Pause \/ Resume
  <2>1. PICK e \in DownloadIDs, p \in BOOLEAN :
           /\ downloads[e] # Erased /\ paused' = [paused EXCEPT ![e] = p]
           /\ UNCHANGED <<callVars, fetchVars, downloads, owned>>
    BY <1>11 DEF Pause, Resume
  <2> QED  BY <1>8, <1>b, <2>1
<1>12. CASE Erase
  <2>1. PICK e \in DownloadIDs :
           /\ downloads[e] # Erased /\ downloads' = [downloads EXCEPT ![e] = Erased]
           /\ paused' = [paused EXCEPT ![e] = FALSE] /\ owned' = owned \ {e}
           /\ UNCHANGED <<callVars, fetchVars>>
    BY <1>12 DEF Erase
  <2> QED  BY <1>8, <1>b, <2>1 DEF States
<1>9. CASE UNCHANGED downloadVars
  BY <1>0, <1>9 DEF DownloadsInv, DownloadsTyped, TargetsAreOwn, DownloadIsKept, downloadVars, callVars, fetchVars
<1> QED  BY <1>1, <1>2, <1>3, <1>4, <1>6, <1>7, <1>9, <1>10, <1>11, <1>12 DEF DownloadsNext

LEMMA DownloadsHold == DownloadsInv => DownloadsAreTrue
<1> SUFFICES ASSUME DownloadsInv PROVE DownloadsAreTrue
  OBVIOUS
<1>4. nextDownloadID \in 0 .. MaxDownloads
  BY DEF DownloadsInv, DownloadsTyped
<1>1. nextDownloadID \in Nat /\ nextDownloadID <= MaxDownloads /\ MaxDownloads \in Nat
  BY <1>4, MostDownloads
<1>2. 1 .. nextDownloadID \subseteq DownloadIDs
  BY <1>1 DEF DownloadIDs
<1>3. \A d \in DownloadIDs \ mixedUp : DownloadIsKept(d)
  BY DEF DownloadsInv
<1> QED  BY <1>2, <1>3 DEF DownloadIsKept, DownloadsAreTrue

-----------------------------------------------------------------------------
(* XMLHttpRequest.  What a frame has left to do is one of four lists.      *)

Answers == [send : Sends, outcome : {"failed", "readable", "opaque"}]
StepsLeft == {<<DONE>>, <<LOADING, DONE>>, <<HEADERS_RECEIVED, LOADING, DONE>>}

RequestsTyped ==
    /\ awake \in BOOLEAN /\ disturbed \in BOOLEAN /\ unasked \in BOOLEAN
    /\ readyState \in 0..4 /\ loads \in 0..1 /\ request \in Nat
    /\ network \in [Sends -> {"unused", "started", "addressed", "asking", "over"}]
    /\ asked \in [Sends -> [address : Nat, method : Nat]]
    /\ answers \in Seq(Answers)
    /\ framing = NoFrame \/ framing \in [send : Sends, steps : StepsLeft]

(* The goroutine of a send has read the request that is set up, and so has *)
(* whoever made an answer that waits.                                      *)
SendsAreCurrent ==
    /\ \A s \in Sends : network[s] \in {"addressed", "asking"} => asked[s].address = request
    /\ \A s \in Sends : network[s] = "asking" => asked[s].method = request
    /\ \A i \in DOMAIN answers : asked[answers[i].send].address = request

RequestsInv ==
    /\ RequestsTyped
    /\ readyState = DONE <=> loads = 1
    /\ ~disturbed => /\ SendsAreCurrent
                     /\ response \in {0, request}
                     /\ ~unasked
                     /\ framing # NoFrame => awake
                     /\ readyState = LOADING => Busy

LEMMA NetworkMoves ==
    ASSUME RequestsTyped, NEW s \in Sends, NEW st \in {"started", "addressed", "asking"},
           network' = [network EXCEPT ![s] = st]
    PROVE  InFlight' # {}
<1>1. network'[s] = st
  BY DEF RequestsTyped
<1>2. s \in InFlight'
  BY <1>1 DEF InFlight
<1> QED  BY <1>2

LEMMA RequestsStart == RequestsInit => RequestsInv
<1> SUFFICES ASSUME RequestsInit PROVE RequestsInv
  OBVIOUS
<1>1. answers \in Seq(Answers) /\ DOMAIN answers = {}
  BY EmptySeq DEF RequestsInit
<1>3. network = [s \in Sends |-> "unused"] /\ asked = [s \in Sends |-> [address |-> 0, method |-> 0]]
  BY DEF RequestsInit
<1>4. /\ network \in [Sends -> {"unused", "started", "addressed", "asking", "over"}]
      /\ asked \in [Sends -> [address : Nat, method : Nat]]
  BY <1>3
<1>5. /\ awake \in BOOLEAN /\ disturbed \in BOOLEAN /\ unasked \in BOOLEAN
      /\ readyState = 0 /\ loads = 0 /\ request = 0
      /\ framing = NoFrame
  BY DEF RequestsInit, UNSENT
<1>6. readyState \in 0..4 /\ loads \in 0..1 /\ request \in Nat
  BY <1>5
<1>2. RequestsTyped
  BY <1>1, <1>4, <1>5, <1>6 DEF RequestsTyped
<1> QED  BY <1>1, <1>2 DEF RequestsInit, RequestsInv, SendsAreCurrent, UNSENT, DONE, LOADING

(* The ready state grows, and reaches the last once.                       *)
LEMMA StateGrowsKeeps ==
    ASSUME RequestsTyped, readyState = DONE <=> loads = 1, NEW new \in 2..4, StateGrows(new)
    PROVE  /\ readyState' \in 0..4 /\ loads' \in 0..1
           /\ readyState' = DONE <=> loads' = 1
           /\ readyState' \in {readyState, new}
           /\ awake => readyState' >= new
  BY DEF RequestsTyped, StateGrows, DONE

LEMMA RequestsKeep == RequestsInv /\ [RequestsNext]_requestVars => RequestsInv'
<1> SUFFICES ASSUME RequestsInv, [RequestsNext]_requestVars PROVE RequestsInv'
  OBVIOUS
<1>a. RequestsTyped /\ (readyState = DONE <=> loads = 1)
  BY DEF RequestsInv
<1>b. /\ DOMAIN answers = 1..Len(answers) /\ Len(answers) \in Nat
      /\ \A i \in 1..Len(answers) : answers[i] \in Answers
      /\ answers = <<>> <=> Len(answers) = 0
  BY <1>a, ListProperties DEF RequestsTyped
(* An answer that joins the others.                                        *)
<1>c. ASSUME NEW ans \in Answers, answers' = Append(answers, ans)
      PROVE  /\ answers' \in Seq(Answers) /\ answers' # <<>>
             /\ \A i \in DOMAIN answers' : answers'[i] = ans \/ (i \in DOMAIN answers /\ answers'[i] = answers[i])
  <2>1. answers \in Seq(Answers)
    BY <1>a DEF RequestsTyped
  <2>2. /\ answers' \in Seq(Answers) /\ Len(answers') = Len(answers) + 1
        /\ \A i \in 1..Len(answers) : answers'[i] = answers[i]
        /\ answers'[Len(answers) + 1] = ans
    BY <1>c, <2>1, AppendProperties
  <2>3. DOMAIN answers' = 1..Len(answers')
    BY <2>2, ListProperties
  <2>4. \A i \in 1..Len(answers) + 1 : i \in 1..Len(answers) \/ i = Len(answers) + 1
    BY <1>b
  <2>5. answers' # <<>>
    BY <1>b, <2>2, <2>3, EmptySeq
  <2> QED  BY <1>b, <2>2, <2>3, <2>4, <2>5
<1>1. CASE Open
  <2>1. /\ request' = request + 1 /\ response' = 0 /\ loads' = 0 /\ readyState' = OPENED
        /\ disturbed' = (disturbed \/ Busy)
        /\ UNCHANGED <<awake, network, asked, unasked, answers, framing>>
    BY <1>1 DEF Open, netSide
  <2>2. RequestsTyped'
    BY <1>a, <2>1 DEF RequestsTyped, OPENED
  <2>3. readyState' # DONE /\ loads' # 1 /\ readyState' # LOADING
    BY <2>1 DEF OPENED, DONE, LOADING
  <2>4. ASSUME ~disturbed' PROVE SendsAreCurrent' /\ ~unasked' /\ framing' = NoFrame
    <3>1. ~disturbed /\ InFlight = {} /\ answers = <<>> /\ framing = NoFrame
      BY <2>1, <2>4 DEF Busy
    <3>2. \A s \in Sends : network[s] \in {"unused", "over"}
      BY <3>1 DEF InFlight
    <3>3. DOMAIN answers' = {}
      BY <1>b, <2>1, <3>1
    <3> QED  BY <2>1, <3>1, <3>2, <3>3 DEF SendsAreCurrent, RequestsInv
  <2> QED  BY <2>1, <2>2, <2>3, <2>4 DEF RequestsInv
<1>2. CASE Send
  <2>1. PICK s \in Sends :
           /\ readyState = OPENED /\ network[s] = "unused" /\ StateGrows(LOADING)
           /\ network' = [network EXCEPT ![s] = "started"]
           /\ disturbed' = (disturbed \/ ~awake)
           /\ UNCHANGED <<awake, request, kind, response, asked, unasked, answers, framing>>
    BY <1>2 DEF Send
  <2>2. readyState' \in 0..4 /\ loads' \in 0..1 /\ (readyState' = DONE <=> loads' = 1)
    BY <1>a, <2>1, StateGrowsKeeps DEF LOADING
  <2>3. RequestsTyped'
    BY <1>a, <2>1, <2>2 DEF RequestsTyped
  <2>4. Busy'
    BY <1>a, <2>1, NetworkMoves DEF Busy
  <2>5. SendsAreCurrent => SendsAreCurrent'
    BY <1>a, <2>1 DEF RequestsTyped, SendsAreCurrent
  <2> QED  BY <2>1, <2>2, <2>3, <2>4, <2>5 DEF RequestsInv
<1>3. CASE ReadsAddress
  <2>1. PICK s \in Sends :
           /\ network[s] = "started" /\ network' = [network EXCEPT ![s] = "addressed"]
           /\ asked' = [asked EXCEPT ![s].address = request]
           /\ UNCHANGED <<awake, readyState, request, response, unasked, answers, framing, loads, disturbed>>
    BY <1>3 DEF ReadsAddress, pageSide
  <2>2. RequestsTyped'
    BY <1>a, <2>1 DEF RequestsTyped
  <2>3. Busy'
    BY <1>a, <2>1, NetworkMoves DEF Busy
  <2>4. asked'[s].address = request /\ \A t \in Sends \ {s} : asked'[t] = asked[t] /\ network'[t] = network[t]
    BY <1>a, <2>1 DEF RequestsTyped
  <2>5. network'[s] = "addressed"
    BY <1>a, <2>1 DEF RequestsTyped
  <2>6. ASSUME SendsAreCurrent PROVE SendsAreCurrent'
    <3>1. \A i \in DOMAIN answers : answers[i].send \in Sends
      BY <1>b DEF Answers
    <3> QED  BY <2>1, <2>4, <2>5, <2>6, <3>1 DEF SendsAreCurrent
  <2> QED  BY <2>1, <2>2, <2>3, <2>6 DEF RequestsInv
<1>4. CASE Preflight
  <2>1. PICK s \in Sends, successful \in BOOLEAN :
           /\ network[s] = "addressed"
           /\ network' = [network EXCEPT ![s] = IF successful THEN "asking" ELSE "over"]
           /\ answers' = IF successful THEN answers ELSE Append(answers, [send |-> s, outcome |-> "failed"])
           /\ asked' = [asked EXCEPT ![s].method = request]
           /\ UNCHANGED <<awake, readyState, request, response, unasked, framing, loads, disturbed>>
    <3>1. PICK s \in Sends, reply \in Replies :
             /\ network[s] = "addressed"
             /\ LET successful == isCrossOrigin(s) /\ ~isSimpleRequest => isCORSPreflightSuccessful(reply)
                IN /\ network' = [network EXCEPT ![s] = IF successful THEN "asking" ELSE "over"]
                   /\ answers' = IF successful THEN answers
                                 ELSE Append(answers, [send |-> s, outcome |-> "failed"])
             /\ asked' = [asked EXCEPT ![s].method = request]
             /\ UNCHANGED <<awake, pageSide, unasked, framing, loads, disturbed>>
      BY <1>4 DEF Preflight
    <3>2. PICK successful \in BOOLEAN :
             successful <=> (isCrossOrigin(s) /\ ~isSimpleRequest => isCORSPreflightSuccessful(reply))
      OBVIOUS
    <3> QED  BY <3>1, <3>2 DEF pageSide
  <2>2. [send |-> s, outcome |-> "failed"] \in Answers
    BY DEF Answers
  <2>3. answers' \in Seq(Answers)
    BY <1>a, <1>c, <2>1, <2>2 DEF RequestsTyped
  <2>4. RequestsTyped'
    BY <1>a, <2>1, <2>3 DEF RequestsTyped
  <2>5. Busy'
    <3>1. CASE successful
      BY <1>a, <2>1, <3>1, NetworkMoves DEF Busy
    <3>2. CASE ~successful
      BY <1>c, <2>1, <2>2, <3>2 DEF Busy
    <3> QED  BY <3>1, <3>2
  <2>6. /\ \A t \in Sends : asked'[t].address = asked[t].address
        /\ \A t \in Sends \ {s} : asked'[t] = asked[t] /\ network'[t] = network[t]
        /\ asked'[s].method = request /\ network'[s] \in {"asking", "over"}
    BY <1>a, <2>1 DEF RequestsTyped
  <2>7. ASSUME SendsAreCurrent PROVE SendsAreCurrent'
    <3>1. \A i \in DOMAIN answers : answers[i].send \in Sends /\ asked'[answers[i].send].address = request
      BY <1>b, <2>6, <2>7 DEF Answers, SendsAreCurrent
    <3>2. asked'[s].address = request
      BY <2>1, <2>6, <2>7 DEF SendsAreCurrent
    <3>3. \A i \in DOMAIN answers' : asked'[answers'[i].send].address = request
      BY <1>c, <2>1, <2>2, <3>1, <3>2
    <3> QED  BY <2>1, <2>6, <2>7, <3>2, <3>3 DEF SendsAreCurrent
  <2> QED  BY <2>1, <2>4, <2>5, <2>7 DEF RequestsInv
<1>5. CASE Answered
  <2>1. PICK s \in Sends : \E outcome \in Outcomes(s) :
           /\ network[s] = "asking"
           /\ network' = [network EXCEPT ![s] = "over"]
           /\ unasked' = (unasked \/ (isCrossOrigin(s) /\ ~isSimpleRequest /\ asked[s].method # request))
           /\ answers' = Append(answers, [send |-> s, outcome |-> outcome])
           /\ UNCHANGED <<awake, pageSide, asked, framing, loads, disturbed>>
    BY <1>5 DEF Answered
  <2>2. PICK outcome \in Outcomes(s) : answers' = Append(answers, [send |-> s, outcome |-> outcome])
    BY <2>1
  <2>3. [send |-> s, outcome |-> outcome] \in Answers
    BY DEF Answers, Outcomes
  <2>4. /\ network[s] = "asking" /\ network' = [network EXCEPT ![s] = "over"]
        /\ unasked' = (unasked \/ (isCrossOrigin(s) /\ ~isSimpleRequest /\ asked[s].method # request))
        /\ UNCHANGED <<awake, readyState, request, response, asked, framing, loads, disturbed>>
    BY <2>1 DEF pageSide
  <2>5. RequestsTyped'
    <3>1. answers' \in Seq(Answers) /\ unasked' \in BOOLEAN
      BY <1>c, <2>2, <2>3, <2>4
    <3> QED  BY <1>a, <2>4, <3>1 DEF RequestsTyped
  <2>6. Busy'
    BY <1>c, <2>2, <2>3 DEF Busy
  <2>7. ASSUME SendsAreCurrent PROVE SendsAreCurrent' /\ (unasked' <=> unasked)
    <3>1. \A t \in Sends : network'[t] = network[t] \/ network'[t] = "over"
      BY <1>a, <2>4 DEF RequestsTyped
    <3>2. asked[s].address = request /\ asked[s].method = request
      BY <2>4, <2>7 DEF SendsAreCurrent
    <3>3. \A i \in DOMAIN answers' : asked[answers'[i].send].address = request
      BY <1>c, <2>2, <2>3, <2>7, <3>2 DEF SendsAreCurrent
    <3>4. unasked' <=> unasked
      BY <1>a, <2>4, <3>2 DEF RequestsTyped
    <3> QED  BY <2>4, <2>7, <3>1, <3>3, <3>4 DEF SendsAreCurrent
  <2> QED  BY <2>4, <2>5, <2>6, <2>7 DEF RequestsInv
<1>6. CASE FrameStarts
  <2> DEFINE answer == Head(answers)
  <2>1. /\ awake /\ framing = NoFrame /\ answers # <<>> /\ answers' = Tail(answers)
        /\ framing' = [send |-> answer.send,
                       steps |-> IF answer.outcome = "failed" THEN <<DONE>>
                                 ELSE <<HEADERS_RECEIVED, LOADING, DONE>>]
        /\ response' = CASE answer.outcome = "failed" -> response
                         [] answer.outcome = "opaque" -> 0
                         [] OTHER -> asked[answer.send].address
        /\ UNCHANGED <<awake, readyState, request, network, asked, unasked, loads, disturbed>>
    BY <1>6 DEF FrameStarts, netSide
  <2>2. answer = answers[1] /\ 1 \in DOMAIN answers
    <3>1. Len(answers) >= 1
      BY <1>b, <2>1
    <3> QED  BY <1>b, <3>1
  <2>3. /\ answers' \in Seq(Answers) /\ \A i \in DOMAIN answers' : i + 1 \in DOMAIN answers /\ answers'[i] = answers[i + 1]
    <3>1. answers \in Seq(Answers)
      BY <1>a DEF RequestsTyped
    <3>2. /\ answers' \in Seq(Answers) /\ Len(answers') = Len(answers) - 1
          /\ \A i \in 1..Len(answers') : answers'[i] = answers[i + 1]
      BY <2>1, <3>1, HeadTailProperties
    <3>3. DOMAIN answers' = 1..Len(answers')
      BY <3>2, ListProperties
    <3>4. \A i \in 1..Len(answers) - 1 : i + 1 \in 1..Len(answers)
      BY <1>b
    <3> QED  BY <1>b, <3>2, <3>3, <3>4
  <2>4. framing' \in [send : Sends, steps : StepsLeft]
    <3>1. answer.send \in Sends
      BY <1>b, <2>2 DEF Answers
    <3> QED  BY <2>1, <3>1 DEF StepsLeft
  <2>5. framing' # NoFrame
    <3>1. <<DONE>> # <<>> /\ <<HEADERS_RECEIVED, LOADING, DONE>> # <<>>
      OBVIOUS
    <3>2. framing'.steps # <<>>
      BY <2>1, <3>1
    <3> QED  BY <3>2 DEF NoFrame
  <2>6. RequestsTyped'
    BY <1>a, <2>1, <2>3, <2>4 DEF RequestsTyped
  <2>7. ASSUME SendsAreCurrent, response \in {0, request}
        PROVE  SendsAreCurrent' /\ response' \in {0, request}
    <3>1. asked[answer.send].address = request
      BY <2>2, <2>7 DEF SendsAreCurrent
    <3>2. response' \in {0, request}
      BY <2>1, <2>7, <3>1
    <3> QED  BY <2>1, <2>3, <2>7, <3>2 DEF SendsAreCurrent
  <2> QED  BY <2>1, <2>5, <2>6, <2>7 DEF RequestsInv, Busy
<1>7. CASE FrameSteps
  <2>1. /\ framing.steps # <<>> /\ StateGrows(Head(framing.steps))
        /\ framing' = IF Len(framing.steps) = 1 THEN NoFrame ELSE [framing EXCEPT !.steps = Tail(@)]
        /\ UNCHANGED <<awake, request, response, network, asked, unasked, answers, disturbed>>
    BY <1>7 DEF FrameSteps, netSide
  <2>2. framing # NoFrame /\ framing \in [send : Sends, steps : StepsLeft]
    BY <1>a, <2>1 DEF NoFrame, RequestsTyped
  <2>3. \/ Head(framing.steps) = 4 /\ framing' = NoFrame
        \/ Head(framing.steps) \in 2..3 /\ framing' # NoFrame /\ framing' \in [send : Sends, steps : StepsLeft]
    <3>1. CASE framing.steps = <<DONE>>
      BY <2>1, <3>1 DEF DONE
    <3>2. CASE framing.steps = <<LOADING, DONE>>
      <4>1. Tail(framing.steps) = <<DONE>> /\ Head(framing.steps) = 3 /\ Len(framing.steps) = 2
        BY <3>2 DEF LOADING
      <4>5. framing' = [framing EXCEPT !.steps = Tail(framing.steps)]
        BY <2>1, <4>1
      <4>2. framing' = [framing EXCEPT !.steps = <<DONE>>]
        BY <4>1, <4>5
      <4>3. framing' \in [send : Sends, steps : StepsLeft] /\ framing'.steps = <<DONE>>
        BY <2>2, <4>2 DEF StepsLeft
      <4>4. <<DONE>> # <<>>
        OBVIOUS
      <4>6. framing' # NoFrame
        BY <4>3, <4>4 DEF NoFrame
      <4>7. Head(framing.steps) \in 2..3
        BY <4>1
      <4> QED  BY <4>3, <4>6, <4>7
    <3>3. CASE framing.steps = <<HEADERS_RECEIVED, LOADING, DONE>>
      <4>1. Tail(framing.steps) = <<LOADING, DONE>> /\ Head(framing.steps) = 2 /\ Len(framing.steps) = 3
        BY <3>3 DEF HEADERS_RECEIVED
      <4>5. framing' = [framing EXCEPT !.steps = Tail(framing.steps)]
        BY <2>1, <4>1
      <4>2. framing' = [framing EXCEPT !.steps = <<LOADING, DONE>>]
        BY <4>1, <4>5
      <4>3. framing' \in [send : Sends, steps : StepsLeft] /\ framing'.steps = <<LOADING, DONE>>
        BY <2>2, <4>2 DEF StepsLeft
      <4>4. <<LOADING, DONE>> # <<>>
        OBVIOUS
      <4>6. framing' # NoFrame
        BY <4>3, <4>4 DEF NoFrame
      <4>7. Head(framing.steps) \in 2..3
        BY <4>1
      <4> QED  BY <4>3, <4>6, <4>7
    <3> QED  BY <2>2, <3>1, <3>2, <3>3 DEF StepsLeft
  <2>4. Head(framing.steps) \in 2..4
    BY <2>3
  <2>5. /\ readyState' \in 0..4 /\ loads' \in 0..1
        /\ readyState' = DONE <=> loads' = 1
        /\ awake => readyState' >= Head(framing.steps)
    BY <1>a, <2>1, <2>4, StateGrowsKeeps
  <2>6. RequestsTyped'
    BY <1>a, <2>1, <2>3, <2>5 DEF RequestsTyped
  <2>7. awake => Busy' \/ readyState' # LOADING
    BY <2>3, <2>5 DEF Busy, LOADING
  <2>8. SendsAreCurrent => SendsAreCurrent'
    BY <2>1 DEF SendsAreCurrent
  <2> QED  BY <2>1, <2>2, <2>5, <2>6, <2>7, <2>8 DEF RequestsInv
<1>8. CASE PauseOrResume
  <2>1. /\ awake' = ~awake /\ disturbed' = (disturbed \/ (awake /\ framing # NoFrame))
        /\ UNCHANGED <<readyState, request, response, network, asked, unasked, answers, framing, loads>>
    BY <1>8 DEF PauseOrResume, pageSide, netSide
  <2>2. RequestsTyped'
    BY <1>a, <2>1 DEF RequestsTyped
  <2>3. (SendsAreCurrent => SendsAreCurrent') /\ (Busy => Busy')
    BY <2>1 DEF SendsAreCurrent, Busy, InFlight
  <2> QED  BY <2>1, <2>2, <2>3 DEF RequestsInv
<1>9. CASE UNCHANGED requestVars
  BY <1>9 DEF RequestsInv, RequestsTyped, SendsAreCurrent, Busy, InFlight, requestVars, pageSide, netSide
<1> QED  BY <1>1, <1>2, <1>3, <1>4, <1>5, <1>6, <1>7, <1>8, <1>9 DEF RequestsNext

LEMMA RequestsHold == RequestsInv => RequestsAreAnswered
  BY DEF RequestsInv, RequestsTyped, RequestsAreAnswered

-----------------------------------------------------------------------------
(* Updates of the program.  The comparison of versions part by part is the *)
(* order in which the first part decides.                                  *)

(* Where two versions have the same parts before i.                        *)
LEMMA SameParts ==
    ASSUME NEW a \in Seq(Int), NEW b \in Seq(Int), NEW i \in Nat, 1 <= i, i <= Len(a) + 1, i <= Len(b) + 1
    PROVE  SubSeq(a, 1, i - 1) = SubSeq(b, 1, i - 1) <=> \A j \in 1..i - 1 : a[j] = b[j]
<1>0. Len(a) \in Nat /\ Len(b) \in Nat /\ i - 1 \in Nat
  BY ListProperties
<1>1. \A j \in 1..i - 1 : a[j] \in Int /\ b[j] \in Int
  BY <1>0, ListProperties
<1>2. /\ Len(SubSeq(a, 1, i - 1)) = i - 1 /\ SubSeq(a, 1, i - 1) \in Seq(Int)
      /\ \A j \in 1..i - 1 : SubSeq(a, 1, i - 1)[j] = a[j]
  BY <1>0, <1>1, SubSeqProperties
<1>3. /\ Len(SubSeq(b, 1, i - 1)) = i - 1 /\ SubSeq(b, 1, i - 1) \in Seq(Int)
      /\ \A j \in 1..i - 1 : SubSeq(b, 1, i - 1)[j] = b[j]
  BY <1>0, <1>1, SubSeqProperties
<1>4. (\A j \in 1..i - 1 : a[j] = b[j]) => SubSeq(a, 1, i - 1) = SubSeq(b, 1, i - 1)
  BY <1>2, <1>3, SeqEqual
<1>5. SubSeq(a, 1, i - 1) = SubSeq(b, 1, i - 1) => \A j \in 1..i - 1 : a[j] = b[j]
  BY <1>2, <1>3
<1> QED  BY <1>4, <1>5

(* Ahead, told of single parts.                                            *)
LEMMA AheadParts ==
    ASSUME NEW a \in Seq(Int), NEW b \in Seq(Int)
    PROVE  Ahead(a, b) <=>
             \E i \in 1..Len(a) : /\ i <= Len(b) + 1 /\ \A j \in 1..i - 1 : a[j] = b[j]
                                  /\ i > Len(b) \/ a[i] > b[i]
<1>1. DOMAIN a = 1..Len(a) /\ Len(a) \in Nat /\ Len(b) \in Nat
  BY ListProperties
<1>2. \A i \in 1..Len(a) : i <= Len(b) + 1 =>
         (SubSeq(a, 1, i - 1) = SubSeq(b, 1, i - 1) <=> \A j \in 1..i - 1 : a[j] = b[j])
  BY <1>1, SameParts
<1> QED  BY <1>1, <1>2 DEF Ahead

(* Only one of two versions is ahead.                                      *)
LEMMA AheadIsStrict ==
    ASSUME NEW a \in Seq(Int), NEW b \in Seq(Int), Ahead(a, b)
    PROVE  ~Ahead(b, a)
<1> SUFFICES ASSUME Ahead(b, a) PROVE FALSE
  OBVIOUS
<1>1. PICK i \in 1..Len(a) : /\ i <= Len(b) + 1 /\ \A j \in 1..i - 1 : a[j] = b[j]
                             /\ i > Len(b) \/ a[i] > b[i]
  BY AheadParts
<1>2. PICK k \in 1..Len(b) : /\ k <= Len(a) + 1 /\ \A j \in 1..k - 1 : b[j] = a[j]
                             /\ k > Len(a) \/ b[k] > a[k]
  BY AheadParts
<1>3. /\ Len(a) \in Nat /\ Len(b) \in Nat
      /\ \A j \in 1..Len(a) : a[j] \in Int
      /\ \A j \in 1..Len(b) : b[j] \in Int
  BY ListProperties
<1>4. CASE i < k
  BY <1>1, <1>2, <1>3, <1>4
<1>5. CASE k < i
  BY <1>1, <1>2, <1>3, <1>5
<1>6. CASE i = k
  BY <1>1, <1>2, <1>3, <1>6
<1> QED  BY <1>3, <1>4, <1>5, <1>6

(* The comparison of the code puts a version that is newer ahead.          *)
LEMMA NewerIsAhead ==
    ASSUME NEW a \in Seq(Int), NEW b \in Seq(Int), isNewerVersion(a, b)
    PROVE  Ahead(a, b)
<1> DEFINE differ == {i \in DOMAIN a \cap DOMAIN b : a[i] # b[i]}
<1>1. DOMAIN a = 1..Len(a) /\ DOMAIN b = 1..Len(b) /\ Len(a) \in Nat /\ Len(b) \in Nat
  BY ListProperties
<1>2. CASE differ = {}
  <2>1. Len(a) > Len(b)
    BY <1>2 DEF isNewerVersion
  <2>2. PICK i \in 1..Len(a) : i = Len(b) + 1
    BY <1>1, <2>1
  <2>3. \A j \in 1..i - 1 : j \in DOMAIN a /\ j \in DOMAIN b
    BY <1>1, <2>1, <2>2
  <2>4. \A j \in 1..i - 1 : a[j] = b[j]
    BY <1>2, <2>3
  <2>5. i <= Len(b) + 1 /\ i > Len(b)
    BY <1>1, <2>2
  <2> QED  BY <2>4, <2>5, AheadParts
<1>3. CASE differ # {}
  <2>1. PICK i \in differ : (\A j \in differ : i <= j) /\ a[i] > b[i]
    BY <1>3 DEF isNewerVersion
  <2>2. i \in 1..Len(a) /\ i \in 1..Len(b)
    BY <1>1
  <2>3. \A j \in 1..i - 1 : j \in DOMAIN a /\ j \in DOMAIN b /\ ~(i <= j)
    BY <1>1, <2>2
  <2>4. \A j \in 1..i - 1 : a[j] = b[j]
    BY <2>1, <2>3
  <2>5. i <= Len(b) + 1
    BY <1>1, <2>2
  <2> QED  BY <2>1, <2>2, <2>4, <2>5, AheadParts
<1> QED  BY <1>2, <1>3

(* No version is ahead of itself.                                          *)
LEMMA NotAheadOfItself ==
    ASSUME NEW a \in Seq(Int)
    PROVE  ~Ahead(a, a)
  BY AheadIsStrict

-----------------------------------------------------------------------------
Sums == Bodies \cup {NoBody}
Releases ==
    [at : {"idle", "first", "second", "verify", "returned"}, sum : Sums, body : Sums,
     file : Files \cup {0}, alone : BOOLEAN]

(* What is offered was judged newer than the version that runs, and for it.*)
OfferIsNewer(m) ==
    /\ m \in Manifests /\ isNewerVersion(m.version, Running)
    /\ m.min = <<>> \/ m.min = Running \/ isNewerVersion(Running, m.min)

(* How much of a release that has been alone since it began is written.    *)
Written(g) ==
    CASE release[g].at = "first" -> Empty2
      [] release[g].at = "second" -> <<release[g].body, NoBody>>
      [] OTHER -> Whole(release[g].body)

AloneIsWritten(g) ==
    /\ \A h \in Updaters \ {g} : ~Downloading(h)
    /\ release[g].file \in Files /\ named = release[g].file
    /\ disk[named] = Written(g)
    /\ release[g].at = "returned" => release[g].sum \in {NoBody, release[g].body}

UpdatesTyped ==
    /\ release \in [Updaters -> Releases] /\ named \in Files \cup {0}
    /\ disk = [f \in Files |-> disk[f]] /\ verdict = [g \in Updaters |-> verdict[g]]
    /\ checked \in BOOLEAN

UpdatesInv ==
    /\ UpdatesTyped
    /\ \A g \in Updaters : verdict[g].available => OfferIsNewer(verdict[g].manifest) /\ checked
    /\ \A g \in Updaters : Downloading(g) /\ release[g].alone => AloneIsWritten(g)

LEMMA FileCount == Cardinality(Updaters) \in Nat /\ IsFiniteSet(Files) /\ Cardinality(Files) = Cardinality(Updaters) + 1
<1>1. Cardinality(Updaters) \in Nat
  BY UpdatesAssumption, FS_CardinalityType DEF UpdatesAssumption
<1>2. Cardinality(Updaters) + 1 \in Nat
  BY <1>1
<1> QED  BY <1>1, <1>2, NumbersUpTo DEF Files

(* There is a file that nobody downloads to.                               *)
LEMMA UnusedFile ==
    ASSUME UpdatesTyped, named = 0
    PROVE  Unused \in Files
<1> DEFINE f == [g \in Updaters |-> release[g].file]
           used == {release[g].file : g \in Updaters}
<1>1. f \in Surjection(Updaters, used)
  BY DEF Surjection
<1>2. IsFiniteSet(used) /\ Cardinality(used) <= Cardinality(Updaters)
  BY <1>1, UpdatesAssumption, FS_Surjection DEF UpdatesAssumption
<1>3. ~(Files \subseteq used)
  <2>1. SUFFICES ASSUME Files \subseteq used PROVE FALSE
    OBVIOUS
  <2> HIDE DEF used
  <2>2. Cardinality(Files) <= Cardinality(used)
    BY <1>2, <2>1, FS_Subset
  <2>3. Cardinality(used) \in Nat
    BY <1>2, FS_CardinalityType
  <2> QED  BY <1>2, <2>2, <2>3, FileCount
<1>4. PICK n \in Files : n \notin used
  BY <1>3
<1>5. n # named /\ \A g \in Updaters : release[g].file # n
  <2>1. n # 0
    BY FileCount DEF Files
  <2> QED  BY <1>4, <2>1
<1> QED  BY <1>5 DEF Unused

LEMMA UpdatesStart == UpdatesInit => UpdatesInv
<1> SUFFICES ASSUME UpdatesInit PROVE UpdatesInv
  OBVIOUS
<1>1. /\ release = [g \in Updaters |-> Rest] /\ verdict = [g \in Updaters |-> Refusal]
      /\ disk = [f \in Files |-> Empty2] /\ named = 0 /\ checked = FALSE
  BY DEF UpdatesInit, Files
<1>2. Rest \in Releases
  BY DEF Rest, Releases, Sums
<1>3. UpdatesTyped
  BY <1>1, <1>2 DEF UpdatesTyped
<1>4. \A g \in Updaters : ~verdict[g].available /\ ~Downloading(g)
  BY <1>1 DEF Refusal, Downloading, Rest
<1> QED  BY <1>3, <1>4 DEF UpdatesInv

(* A release that comes to rest takes nothing from the others.             *)
LEMMA ReleaseEnds ==
    ASSUME UpdatesInv, NEW g \in Updaters, release' = [release EXCEPT ![g] = Rest], UNCHANGED <<verdict, checked, disk>>,
           named' = named \/ (named' = 0 /\ Downloading(g))
    PROVE  UpdatesInv'
<1>1. UpdatesTyped
  BY DEF UpdatesInv
<1>2. Rest \in Releases /\ Rest.at = "idle"
  BY DEF Rest, Releases, Sums
<1>3. UpdatesTyped'
  BY <1>1, <1>2 DEF UpdatesTyped
<1>4. ~Downloading(g)' /\ \A h \in Updaters \ {g} : release'[h] = release[h]
  BY <1>1, <1>2 DEF UpdatesTyped, Downloading
<1>5. ASSUME NEW h \in Updaters, Downloading(h)', release'[h].alone PROVE AloneIsWritten(h)'
  <2>1. h # g /\ release'[h] = release[h]
    BY <1>4, <1>5
  <2>2. AloneIsWritten(h)
    BY <1>5, <2>1 DEF UpdatesInv, Downloading
  <2>3. named' = named
    BY <2>1, <2>2 DEF AloneIsWritten
  <2>4. \A o \in Updaters \ {h} : ~Downloading(o)'
    BY <1>4, <2>2 DEF AloneIsWritten, Downloading
  <2> QED  BY <2>1, <2>2, <2>3, <2>4 DEF AloneIsWritten, Written
<1> QED  BY <1>3, <1>5 DEF UpdatesInv, OfferIsNewer

LEMMA UpdatesKeep == UpdatesInv /\ [UpdatesNext]_updateVars => UpdatesInv'
<1> SUFFICES ASSUME UpdatesInv, [UpdatesNext]_updateVars PROVE UpdatesInv'
  OBVIOUS
<1>a. /\ UpdatesTyped
      /\ \A g \in Updaters : verdict[g].available => OfferIsNewer(verdict[g].manifest) /\ checked
      /\ \A g \in Updaters : Downloading(g) /\ release[g].alone => AloneIsWritten(g)
  BY DEF UpdatesInv
<1>1. CASE CheckForUpdates
  <2>1. PICK g \in Updaters, m \in Manifests :
           /\ verdict' = [verdict EXCEPT ![g] = IF Judged(m).available THEN Judged(m) ELSE [Refusal EXCEPT !.manifest = m]]
           /\ checked' = (checked \/ Judged(m).available)
           /\ UNCHANGED <<bucket, release, disk, named>>
    BY <1>1 DEF CheckForUpdates
  <2>2. Judged(m).available => OfferIsNewer(Judged(m).manifest)
    BY DEF Judged, OfferIsNewer
  <2>3. ~[Refusal EXCEPT !.manifest = m].available
    BY DEF Refusal
  <2>4. UpdatesTyped'
    BY <1>a, <2>1 DEF UpdatesTyped, Judged
  <2>5. \A h \in Updaters \ {g} : verdict'[h] = verdict[h]
    BY <1>a, <2>1 DEF UpdatesTyped
  <2>6. verdict'[g].available => verdict'[g] = Judged(m) /\ Judged(m).available
    BY <1>a, <2>1, <2>3 DEF UpdatesTyped
  <2>7. \A h \in Updaters : verdict'[h].available => OfferIsNewer(verdict'[h].manifest) /\ checked'
    BY <1>a, <2>1, <2>2, <2>5, <2>6
  <2>8. \A h \in Updaters : Downloading(h)' /\ release'[h].alone => AloneIsWritten(h)'
    BY <1>a, <2>1 DEF Downloading, AloneIsWritten, Written
  <2> QED  BY <2>4, <2>7, <2>8 DEF UpdatesInv, OfferIsNewer
<1>2. CASE BeginDownload
  <2>1. PICK g \in Updaters, b \in Bodies, file \in Files :
           /\ ~Downloading(g) /\ verdict[g].available
           /\ named' = file
           /\ disk' = [disk EXCEPT ![file] = Empty2]
           /\ release' = [h \in Updaters |->
                 IF h = g THEN [at |-> "first", sum |-> verdict[g].manifest.sum, body |-> b, file |-> file,
                                alone |-> \A o \in Updaters \ {g} : ~Downloading(o)]
                 ELSE IF Downloading(h) THEN [release[h] EXCEPT !.alone = FALSE] ELSE release[h]]
           /\ UNCHANGED <<bucket, verdict, checked>>
    <3>1. PICK g \in Updaters, b \in Bodies :
             /\ ~Downloading(g) /\ verdict[g].available
             /\ LET file == IF named = 0 THEN Unused ELSE named IN
                /\ named' = file
                /\ disk' = [disk EXCEPT ![file] = Empty2]
                /\ release' = [h \in Updaters |->
                      IF h = g THEN [at |-> "first", sum |-> verdict[g].manifest.sum, body |-> b, file |-> file,
                                     alone |-> \A o \in Updaters \ {g} : ~Downloading(o)]
                      ELSE IF Downloading(h) THEN [release[h] EXCEPT !.alone = FALSE] ELSE release[h]]
             /\ UNCHANGED <<bucket, verdict, checked>>
      BY <1>2 DEF BeginDownload
    <3>2. PICK file \in Files : file = IF named = 0 THEN Unused ELSE named
      BY <1>a, UnusedFile DEF UpdatesTyped
    <3> QED  BY <3>1, <3>2
  <2>2. verdict[g].manifest.sum \in Sums
    BY <1>a, <2>1, UpdatesAssumption DEF OfferIsNewer, UpdatesAssumption, Sums
  <2>3. /\ release'[g].at = "first" /\ release'[g].file = file
        /\ release'[g].alone => \A o \in Updaters \ {g} : ~Downloading(o)
        /\ \A h \in Updaters \ {g} : IF Downloading(h) THEN release'[h] = [release[h] EXCEPT !.alone = FALSE]
                                                       ELSE release'[h] = release[h]
    BY <2>1
  <2>4. UpdatesTyped'
    <3>1. \A h \in Updaters : release[h] \in Releases /\ [release[h] EXCEPT !.alone = FALSE] \in Releases
      BY <1>a DEF UpdatesTyped, Releases
    <3>2. [at |-> "first", sum |-> verdict[g].manifest.sum, body |-> b, file |-> file,
           alone |-> \A o \in Updaters \ {g} : ~Downloading(o)] \in Releases
      BY <2>2 DEF Releases, Sums
    <3>3. release' \in [Updaters -> Releases]
      BY <2>1, <3>1, <3>2
    <3> QED  BY <1>a, <2>1, <3>3 DEF UpdatesTyped
  <2>5. \A h \in Updaters \ {g} : release[h] \in Releases /\ (Downloading(h)' <=> Downloading(h))
    BY <1>a, <2>3 DEF UpdatesTyped, Downloading, Releases
  <2>6. \A h \in Updaters \ {g} : Downloading(h)' => ~release'[h].alone
    BY <2>3, <2>5 DEF Releases
  <2>7. ASSUME release'[g].alone PROVE AloneIsWritten(g)'
    <3>1. disk'[file] = Empty2
      BY <1>a, <2>1 DEF UpdatesTyped
    <3> QED  BY <2>1, <2>3, <2>5, <2>7, <3>1 DEF AloneIsWritten, Written
  <2>8. \A h \in Updaters : verdict'[h].available => OfferIsNewer(verdict'[h].manifest) /\ checked'
    BY <1>a, <2>1
  <2> QED  BY <2>4, <2>6, <2>7, <2>8 DEF UpdatesInv, OfferIsNewer
<1>3. CASE WriteHalf
  <2>1. PICK g \in Updaters, half \in {1, 2} :
           /\ release[g].at = (IF half = 1 THEN "first" ELSE "second")
           /\ disk' = [disk EXCEPT ![release[g].file][half] = release[g].body]
           /\ release' = [release EXCEPT ![g].at = IF half = 1 THEN "second" ELSE "verify"]
           /\ UNCHANGED <<bucket, verdict, checked, named>>
    BY <1>3 DEF WriteHalf
  <2>2. Downloading(g) /\ release[g] \in Releases
    BY <1>a, <2>1 DEF Downloading, UpdatesTyped
  <2>3. /\ \A h \in Updaters \ {g} : release'[h] = release[h]
        /\ release'[g] = [release[g] EXCEPT !.at = IF half = 1 THEN "second" ELSE "verify"]
    BY <1>a, <2>1 DEF UpdatesTyped
  <2>4. UpdatesTyped'
    <3>1. release'[g] \in Releases
      BY <2>2, <2>3 DEF Releases
    <3>2. release' \in [Updaters -> Releases]
      BY <1>a, <2>1, <2>3, <3>1 DEF UpdatesTyped
    <3>3. disk' = [f \in Files |-> disk'[f]]
      BY <1>a, <2>1 DEF UpdatesTyped
    <3> QED  BY <1>a, <2>1, <3>2, <3>3 DEF UpdatesTyped
  <2>5. /\ release'[g].at = IF half = 1 THEN "second" ELSE "verify"
        /\ release'[g].body = release[g].body /\ release'[g].file = release[g].file
        /\ release'[g].alone = release[g].alone
    BY <2>2, <2>3 DEF Releases
  <2>6. ASSUME NEW h \in Updaters, Downloading(h)', release'[h].alone PROVE AloneIsWritten(h)'
    <3>1. Downloading(h) /\ release[h].alone
      BY <2>2, <2>3, <2>5, <2>6 DEF Downloading
    <3>2. AloneIsWritten(h)
      BY <1>a, <3>1
    <3>3. h = g
      BY <2>2, <3>2 DEF AloneIsWritten
    <3>4. disk'[named] = [disk[named] EXCEPT ![half] = release[g].body]
      BY <1>a, <2>1, <3>2, <3>3 DEF UpdatesTyped, AloneIsWritten
    <3>5. disk'[named] = IF half = 1 THEN <<release[g].body, NoBody>> ELSE <<release[g].body, release[g].body>>
      <4>1. CASE half = 1
        <5>1. disk[named] = <<NoBody, NoBody>>
          BY <2>1, <3>2, <3>3, <4>1 DEF AloneIsWritten, Written, Empty2
        <5> QED  BY <3>4, <4>1, <5>1
      <4>2. CASE half = 2
        <5>1. disk[named] = <<release[g].body, NoBody>>
          BY <2>1, <3>2, <3>3, <4>2 DEF AloneIsWritten, Written
        <5> QED  BY <3>4, <4>2, <5>1
      <4> QED  BY <4>1, <4>2
    <3>6. disk'[named'] = Written(g)'
      BY <2>1, <2>5, <3>5 DEF Written, Whole
    <3>7. \A o \in Updaters \ {g} : ~Downloading(o)'
      BY <2>3, <3>2, <3>3 DEF AloneIsWritten, Downloading
    <3> QED  BY <2>1, <2>5, <3>2, <3>3, <3>6, <3>7 DEF AloneIsWritten
  <2>7. \A h \in Updaters : verdict'[h].available => OfferIsNewer(verdict'[h].manifest) /\ checked'
    BY <1>a, <2>1
  <2> QED  BY <2>4, <2>6, <2>7 DEF UpdatesInv, OfferIsNewer
<1>4. CASE WriteFails
  BY <1>4, ReleaseEnds DEF WriteFails
<1>5. CASE VerifyChecksumOf
  <2>1. PICK g \in Updaters :
           /\ release[g].at = "verify"
           /\ IF release[g].sum = NoBody \/ (named # 0 /\ disk[named] = Whole(release[g].sum))
              THEN release' = [release EXCEPT ![g].at = "returned"] /\ UNCHANGED named
              ELSE release' = [release EXCEPT ![g] = Rest] /\ named' = 0
           /\ UNCHANGED <<bucket, verdict, checked, disk>>
    BY <1>5 DEF VerifyChecksumOf
  <2>2. Downloading(g) /\ release[g] \in Releases
    BY <1>a, <2>1 DEF Downloading, UpdatesTyped
  <2>3. CASE release' = [release EXCEPT ![g] = Rest] /\ named' = 0
    BY <2>1, <2>2, <2>3, ReleaseEnds
  <2>4. CASE /\ release[g].sum = NoBody \/ (named # 0 /\ disk[named] = Whole(release[g].sum))
             /\ release' = [release EXCEPT ![g].at = "returned"] /\ UNCHANGED named
    <3>1. /\ \A h \in Updaters \ {g} : release'[h] = release[h]
          /\ release'[g] = [release[g] EXCEPT !.at = "returned"]
      BY <1>a, <2>4 DEF UpdatesTyped
    <3>2. /\ release'[g] \in Releases /\ release'[g].at = "returned"
          /\ release'[g].body = release[g].body /\ release'[g].file = release[g].file
          /\ release'[g].alone = release[g].alone /\ release'[g].sum = release[g].sum
      BY <2>2, <3>1 DEF Releases
    <3>3. UpdatesTyped'
      <4>1. release' \in [Updaters -> Releases]
        BY <1>a, <2>4, <3>1, <3>2 DEF UpdatesTyped
      <4> QED  BY <1>a, <2>1, <2>4, <4>1 DEF UpdatesTyped
    <3>4. ASSUME NEW h \in Updaters, Downloading(h)', release'[h].alone PROVE AloneIsWritten(h)'
      <4>1. Downloading(h) /\ release[h].alone
        BY <2>2, <3>1, <3>2, <3>4 DEF Downloading
      <4>2. AloneIsWritten(h)
        BY <1>a, <4>1
      <4>3. h = g
        BY <2>2, <4>2 DEF AloneIsWritten
      <4>4. disk[named] = <<release[g].body, release[g].body>>
        BY <2>1, <4>2, <4>3 DEF AloneIsWritten, Written, Whole
      <4>5. release[g].sum \in {NoBody, release[g].body}
        BY <2>4, <4>4 DEF Whole
      <4>6. \A o \in Updaters \ {g} : ~Downloading(o)'
        BY <3>1, <4>2, <4>3 DEF AloneIsWritten, Downloading
      <4>7. disk'[named'] = Written(g)'
        BY <2>1, <2>4, <3>2, <4>4 DEF Written, Whole
      <4> QED  BY <2>4, <3>2, <4>2, <4>3, <4>5, <4>6, <4>7 DEF AloneIsWritten
    <3>5. \A h \in Updaters : verdict'[h].available => OfferIsNewer(verdict'[h].manifest) /\ checked'
      BY <1>a, <2>1
    <3> QED  BY <3>3, <3>4, <3>5 DEF UpdatesInv, OfferIsNewer
  <2> QED  BY <2>1, <2>3, <2>4
<1>6. CASE UpdateUsed
  BY <1>6, ReleaseEnds DEF UpdateUsed
<1>7. CASE UNCHANGED updateVars
  BY <1>7 DEF UpdatesInv, UpdatesTyped, OfferIsNewer, AloneIsWritten, Written, Downloading, updateVars
<1> QED  BY <1>1, <1>2, <1>3, <1>4, <1>5, <1>6, <1>7 DEF UpdatesNext

LEMMA UpdatesHold == UpdatesInv => UpdatesAreChecked
<1> SUFFICES ASSUME UpdatesInv PROVE UpdatesAreChecked
  OBVIOUS
<1>1. ASSUME NEW g \in Updaters, verdict[g].available, NEW m, m = verdict[g].manifest
      PROVE  /\ Ahead(m.version, Running) /\ ~Ahead(Running, m.version)
             /\ m.min # <<>> => ~Ahead(m.min, Running)
             /\ checked
  <2>1. OfferIsNewer(m) /\ checked
    BY <1>1 DEF UpdatesInv
  <2>2. m.version \in Seq(Int) /\ m.min \in Seq(Int) /\ Running \in Seq(Int)
    BY <2>1, UpdatesAssumption DEF OfferIsNewer, UpdatesAssumption
  <2>3. Ahead(m.version, Running) /\ ~Ahead(Running, m.version)
    BY <2>1, <2>2, NewerIsAhead, AheadIsStrict DEF OfferIsNewer
  <2>4. m.min = Running => ~Ahead(m.min, Running)
    BY <2>2, NotAheadOfItself
  <2>5. isNewerVersion(Running, m.min) => ~Ahead(m.min, Running)
    BY <2>2, NewerIsAhead, AheadIsStrict
  <2> QED  BY <2>1, <2>3, <2>4, <2>5 DEF OfferIsNewer
<1>2. ASSUME NEW g \in Updaters, release[g].at = "returned", release[g].alone
      PROVE  /\ named = release[g].file /\ disk[named] = Whole(release[g].body)
             /\ release[g].sum \in {NoBody, release[g].body}
  BY <1>2 DEF UpdatesInv, AloneIsWritten, Written, Downloading
<1> QED  BY <1>1, <1>2 DEF UpdatesAreChecked

-----------------------------------------------------------------------------
(* Metrics.  A batch has all that was pending when it was copied, and what *)
(* is recorded after that may be lost.                                     *)

LEMMA RangeExtended ==
    ASSUME NEW S, NEW s \in Seq(S), NEW c \in S
    PROVE  Range(Append(s, c)) = Range(s) \cup {c}
<1>1. \A k \in DOMAIN Append(s, c) : Append(s, c)[k] \in Range(s) \cup {c}
  BY ListExtended DEF Range
<1>2. c \in Range(Append(s, c))
  BY ListExtended DEF Range
<1>3. \A k \in DOMAIN s : k \in DOMAIN Append(s, c) /\ s[k] = Append(s, c)[k]
  BY ListExtended
<1> QED  BY <1>1, <1>2, <1>3 DEF Range

LEMMA NothingInEmpty == Range(<<>>) = {}
  BY DEF Range

LEMMA RangeIsIn ==
    ASSUME NEW S, NEW s \in Seq(S)
    PROVE  Range(s) \subseteq S
  BY ListProperties DEF Range

Batch(g) == Range(submission[g].batch)

TelemetryTyped ==
    /\ recorded \in Nat /\ savedMetrics = <<>>
    /\ metrics \in Seq(1..recorded)
    /\ submission \in [Submitters -> [at : {"idle", "request", "sent"}, batch : Seq(1..recorded)]]
    /\ accepted \in [once : SUBSET (1..recorded), again : SUBSET (1..recorded)]
    /\ excused \in [lost : SUBSET (1..recorded), again : SUBSET (1..recorded)]

(* What is pending is in the batch or may be lost, and a batch that was    *)
(* sent is with the endpoint.                                              *)
NothingForgotten ==
    /\ \A m \in 1..recorded : m \in excused.lost \/ m \in Range(metrics) \/ m \in accepted.once
    /\ \A g \in Submitting : \A m \in Range(metrics) : m \in excused.lost \/ m \in Batch(g)
    /\ \A g \in Submitters : submission[g].at = "sent" => Batch(g) \subseteq accepted.once

(* What the endpoint has and may get again is excused, as is what is in    *)
(* two batches.                                                            *)
OverlapsExcused ==
    /\ \A m \in Range(metrics) : m \in accepted.once =>
           m \in excused.again \/ \E g \in Submitters : submission[g].at = "sent" /\ m \in Batch(g)
    /\ \A g \in Submitters : submission[g].at = "request" => Batch(g) \cap accepted.once \subseteq excused.again
    /\ \A g, h \in Submitting : g # h => Batch(g) \cap Batch(h) \subseteq excused.again
    /\ accepted.again \subseteq excused.again

TelemetryInv == TelemetryTyped /\ NothingForgotten /\ OverlapsExcused

LEMMA TelemetryStart == TelemetryInit => TelemetryInv
<1> SUFFICES ASSUME TelemetryInit PROVE TelemetryInv
  OBVIOUS
<1>1. /\ recorded = 0 /\ savedMetrics = <<>> /\ metrics = <<>> /\ accepted = [once |-> {}, again |-> {}]
      /\ excused = [lost |-> {}, again |-> {}]
      /\ submission = [g \in Submitters |-> [at |-> "idle", batch |-> <<>>]]
  BY DEF TelemetryInit, NoBatch
<1>2. 1..recorded = {} /\ <<>> \in Seq(1..recorded) /\ recorded \in Nat
  BY <1>1, EmptySeq
<1>3. TelemetryTyped
  BY <1>1, <1>2 DEF TelemetryTyped
<1>4. Submitting = {} /\ \A g \in Submitters : submission[g].at = "idle"
  BY <1>1 DEF Submitting
<1>5. Range(metrics) = {} /\ accepted.again = {}
  BY <1>1, NothingInEmpty
<1> QED  BY <1>2, <1>3, <1>4, <1>5 DEF TelemetryInv, NothingForgotten, OverlapsExcused

LEMMA TelemetryKeep == TelemetryInv /\ [TelemetryNext]_telemetryVars => TelemetryInv'
<1> SUFFICES ASSUME TelemetryInv, [TelemetryNext]_telemetryVars PROVE TelemetryInv'
  OBVIOUS
<1>a. TelemetryTyped /\ NothingForgotten /\ OverlapsExcused
  BY DEF TelemetryInv
<1>b. Range(metrics) \subseteq 1..recorded
  BY <1>a, RangeIsIn DEF TelemetryTyped
<1>c. \A g \in Submitting : g \in Submitters
  BY DEF Submitting
<1>e. NoBatch \in [at : {"idle", "request", "sent"}, batch : Seq(1..recorded)] /\ NoBatch.at = "idle"
  BY EmptySeq DEF NoBatch
<1>1. CASE OptInOrOut
  BY <1>1 DEF OptInOrOut, TelemetryInv, TelemetryTyped, NothingForgotten, OverlapsExcused, Submitting, Batch
<1>2. CASE Record
  <2>1. /\ recorded' = recorded + 1 /\ metrics' = Append(metrics, recorded + 1)
        /\ excused' = IF Submitting = {} THEN excused ELSE [excused EXCEPT !.lost = @ \cup {recorded + 1}]
        /\ UNCHANGED <<savedMetrics, submission, accepted>>
    BY <1>2 DEF Record
  <2>2. recorded \in Nat /\ recorded' \in Nat /\ 1..recorded \subseteq 1..recorded'
        /\ recorded' \in 1..recorded' /\ recorded' \notin 1..recorded
        /\ \A m \in 1..recorded' : m \in 1..recorded \/ m = recorded'
    BY <1>a, <2>1 DEF TelemetryTyped
  <2>3. \A s \in Seq(1..recorded) : s \in Seq(1..recorded')
    BY <2>2, SeqMonotonic
  <2>4. metrics' \in Seq(1..recorded') /\ Range(metrics') = Range(metrics) \cup {recorded'}
    <3>1. metrics \in Seq(1..recorded')
      BY <1>a, <2>3 DEF TelemetryTyped
    <3> QED  BY <2>1, <2>2, <3>1, ListExtended, RangeExtended
  <2>5. /\ excused'.again = excused.again
        /\ excused'.lost = IF Submitting = {} THEN excused.lost ELSE excused.lost \cup {recorded'}
    BY <1>a, <2>1 DEF TelemetryTyped
  <2>6. TelemetryTyped'
    <3>1. excused' \in [lost : SUBSET (1..recorded'), again : SUBSET (1..recorded')]
      BY <1>a, <2>1, <2>2 DEF TelemetryTyped
    <3>2. accepted' \in [once : SUBSET (1..recorded'), again : SUBSET (1..recorded')]
      BY <1>a, <2>1, <2>2 DEF TelemetryTyped
    <3>3. submission' \in [Submitters -> [at : {"idle", "request", "sent"}, batch : Seq(1..recorded')]]
      BY <1>a, <2>1, <2>3 DEF TelemetryTyped
    <3> QED  BY <1>a, <2>1, <2>2, <2>4, <3>1, <3>2, <3>3 DEF TelemetryTyped
  <2>7. Submitting' = Submitting /\ \A g \in Submitters : Batch(g)' = Batch(g)
    BY <2>1 DEF Submitting, Batch
  <2>8. recorded' \notin accepted.once
    BY <1>a, <2>2 DEF TelemetryTyped
  <2>9. NothingForgotten'
    <3>1. \A m \in 1..recorded' : m \in excused'.lost \/ m \in Range(metrics') \/ m \in accepted'.once
      BY <1>a, <2>1, <2>2, <2>4, <2>5 DEF NothingForgotten
    <3>2. \A g \in Submitting : \A m \in Range(metrics') : m \in excused'.lost \/ m \in Batch(g)'
      BY <1>a, <1>c, <2>4, <2>5, <2>7 DEF NothingForgotten
    <3>3. \A g \in Submitters : submission'[g].at = "sent" => Batch(g)' \subseteq accepted'.once
      BY <1>a, <2>1, <2>7 DEF NothingForgotten
    <3> QED  BY <2>7, <3>1, <3>2, <3>3 DEF NothingForgotten
  <2>10. OverlapsExcused'
    <3>1. \A m \in Range(metrics') : m \in accepted'.once =>
             m \in excused'.again \/ \E g \in Submitters : submission'[g].at = "sent" /\ m \in Batch(g)'
      BY <1>a, <2>1, <2>4, <2>5, <2>7, <2>8 DEF OverlapsExcused
    <3>2. \A g, h \in Submitting' : g # h => Batch(g)' \cap Batch(h)' \subseteq excused'.again
      BY <1>a, <1>c, <2>5, <2>7 DEF OverlapsExcused
    <3>3. /\ \A g \in Submitters : submission'[g].at = "request" => Batch(g)' \cap accepted'.once \subseteq excused'.again
          /\ accepted'.again \subseteq excused'.again
      BY <1>a, <2>1, <2>5, <2>7 DEF OverlapsExcused
    <3> QED  BY <3>1, <3>2, <3>3 DEF OverlapsExcused
  <2> QED  BY <2>6, <2>9, <2>10 DEF TelemetryInv
<1>3. CASE BeginSubmit
  <2>1. PICK g \in Submitters :
           /\ submission[g] = NoBatch
           /\ submission' = [submission EXCEPT ![g] = [at |-> "request", batch |-> metrics]]
           /\ excused' = IF Submitting = {} THEN excused ELSE [excused EXCEPT !.again = @ \cup Range(metrics)]
           /\ UNCHANGED <<metrics, savedMetrics, recorded, accepted>>
    BY <1>3 DEF BeginSubmit
  <2>2. /\ submission'[g].at = "request" /\ submission'[g].batch = metrics
        /\ \A h \in Submitters \ {g} : submission'[h] = submission[h]
    BY <1>a, <2>1 DEF TelemetryTyped
  <2>3. /\ Batch(g)' = Range(metrics) /\ \A h \in Submitters \ {g} : Batch(h)' = Batch(h)
        /\ Submitting' = Submitting \cup {g} /\ g \notin Submitting
    BY <1>e, <2>1, <2>2 DEF Batch, Submitting
  <2>4. /\ excused'.lost = excused.lost
        /\ excused'.again = IF Submitting = {} THEN excused.again ELSE excused.again \cup Range(metrics)
    BY <1>a, <2>1 DEF TelemetryTyped
  <2>5. TelemetryTyped'
    <3>1. excused' \in [lost : SUBSET (1..recorded), again : SUBSET (1..recorded)]
      BY <1>a, <1>b, <2>1 DEF TelemetryTyped
    <3> QED  BY <1>a, <2>1, <3>1 DEF TelemetryTyped
  <2>6. NothingForgotten'
    <3>1. \A m \in 1..recorded : m \in excused'.lost \/ m \in Range(metrics) \/ m \in accepted.once
      BY <1>a, <2>4 DEF NothingForgotten
    <3>2. \A h \in Submitting' : \A m \in Range(metrics) : m \in excused'.lost \/ m \in Batch(h)'
      BY <1>a, <1>c, <2>3, <2>4 DEF NothingForgotten
    <3>3. \A h \in Submitters : submission'[h].at = "sent" => Batch(h)' \subseteq accepted.once
      BY <1>a, <2>2, <2>3 DEF NothingForgotten
    <3> QED  BY <2>1, <3>1, <3>2, <3>3 DEF NothingForgotten
  <2>7. OverlapsExcused'
    <3>1. \A m \in Range(metrics) : m \in accepted.once =>
             m \in excused'.again \/ \E h \in Submitters : submission'[h].at = "sent" /\ m \in Batch(h)'
      <4>1. SUFFICES ASSUME NEW m \in Range(metrics), m \in accepted.once, m \notin excused'.again
                     PROVE  \E h \in Submitters : submission'[h].at = "sent" /\ m \in Batch(h)'
        OBVIOUS
      <4>2. PICK h \in Submitters : submission[h].at = "sent" /\ m \in Batch(h)
        BY <1>a, <2>4, <4>1 DEF OverlapsExcused
      <4>3. h # g
        BY <1>e, <2>1, <4>2
      <4> QED  BY <2>2, <2>3, <4>2, <4>3
    <3>2. \A h, k \in Submitting' : h # k => Batch(h)' \cap Batch(k)' \subseteq excused'.again
      BY <1>a, <1>c, <2>3, <2>4 DEF OverlapsExcused
    <3>3. Batch(g)' \cap accepted.once \subseteq excused'.again
      <4>1. CASE Submitting = {}
        <5>1. \A h \in Submitters : submission[h].at # "sent"
          BY <4>1 DEF Submitting
        <5> QED  BY <1>a, <2>3, <2>4, <5>1 DEF OverlapsExcused
      <4>2. CASE Submitting # {}
        BY <2>3, <2>4, <4>2
      <4> QED  BY <4>1, <4>2
    <3>4. \A h \in Submitters : submission'[h].at = "request" => Batch(h)' \cap accepted.once \subseteq excused'.again
      BY <1>a, <2>2, <2>3, <2>4, <3>3 DEF OverlapsExcused
    <3>5. accepted.again \subseteq excused'.again
      BY <1>a, <2>4 DEF OverlapsExcused
    <3> QED  BY <2>1, <3>1, <3>2, <3>4, <3>5 DEF OverlapsExcused
  <2> QED  BY <2>5, <2>6, <2>7 DEF TelemetryInv
(* The endpoint gets a batch of which the copies it has are excused.       *)
<1>f. ASSUME NEW g \in Submitters, submission[g].at = "request", NEW got \in BOOLEAN,
             accepted' = IF got THEN Got(submission[g].batch) ELSE accepted
      PROVE  /\ accepted' \in [once : SUBSET (1..recorded), again : SUBSET (1..recorded)]
             /\ accepted'.once = IF got THEN accepted.once \cup Batch(g) ELSE accepted.once
             /\ accepted'.again \subseteq excused.again
             /\ Batch(g) \subseteq 1..recorded
             /\ \A h \in Submitters \ {g} : submission[h].at = "request" => Batch(h) \cap accepted'.once \subseteq excused.again
  <2>1. Batch(g) \subseteq 1..recorded
    BY <1>a, <1>f, RangeIsIn DEF TelemetryTyped, Batch
  <2>2. accepted' = IF got THEN [once |-> accepted.once \cup Batch(g), again |-> accepted.again \cup (accepted.once \cap Batch(g))]
                    ELSE accepted
    BY <1>f DEF Got, Batch
  <2>3. /\ accepted' \in [once : SUBSET (1..recorded), again : SUBSET (1..recorded)]
        /\ accepted'.once = IF got THEN accepted.once \cup Batch(g) ELSE accepted.once
        /\ accepted'.again = IF got THEN accepted.again \cup (accepted.once \cap Batch(g)) ELSE accepted.again
    BY <1>a, <2>1, <2>2 DEF TelemetryTyped
  <2>4. accepted'.again \subseteq excused.again
    BY <1>a, <1>f, <2>3 DEF OverlapsExcused
  <2>5. ASSUME NEW h \in Submitters \ {g}, submission[h].at = "request"
        PROVE  Batch(h) \cap accepted'.once \subseteq excused.again
    <3>1. g \in Submitting /\ h \in Submitting
      BY <1>f, <2>5 DEF Submitting
    <3> QED  BY <1>a, <2>3, <2>5, <3>1 DEF OverlapsExcused
  <2> QED  BY <2>1, <2>3, <2>4, <2>5
<1>4. CASE Delivered
  <2>1. PICK g \in Submitters :
           /\ submission[g].at = "request"
           /\ accepted' = Got(submission[g].batch)
           /\ submission' = [submission EXCEPT ![g].at = "sent"]
           /\ UNCHANGED <<metrics, savedMetrics, recorded, excused>>
    BY <1>4 DEF Delivered
  <2>2. PICK got \in BOOLEAN : got = TRUE
    OBVIOUS
  <2>3. /\ accepted' \in [once : SUBSET (1..recorded), again : SUBSET (1..recorded)]
        /\ accepted'.once = accepted.once \cup Batch(g)
        /\ accepted'.again \subseteq excused.again
        /\ \A h \in Submitters \ {g} : submission[h].at = "request" => Batch(h) \cap accepted'.once \subseteq excused.again
    BY <1>f, <2>1, <2>2
  <2>4. /\ submission'[g].at = "sent" /\ submission'[g].batch = submission[g].batch
        /\ \A h \in Submitters \ {g} : submission'[h] = submission[h]
    BY <1>a, <2>1 DEF TelemetryTyped
  <2>5. /\ \A h \in Submitters : Batch(h)' = Batch(h)
        /\ Submitting' = Submitting
    BY <2>1, <2>4 DEF Batch, Submitting
  <2>6. TelemetryTyped'
    BY <1>a, <2>1, <2>3 DEF TelemetryTyped
  <2>7. NothingForgotten'
    <3>1. \A m \in 1..recorded : m \in excused.lost \/ m \in Range(metrics) \/ m \in accepted'.once
      BY <1>a, <2>3 DEF NothingForgotten
    <3>2. \A h \in Submitting : \A m \in Range(metrics) : m \in excused.lost \/ m \in Batch(h)'
      BY <1>a, <1>c, <2>5 DEF NothingForgotten
    <3>3. \A h \in Submitters : submission'[h].at = "sent" => Batch(h)' \subseteq accepted'.once
      BY <1>a, <2>3, <2>4, <2>5 DEF NothingForgotten
    <3> QED  BY <2>1, <2>5, <3>1, <3>2, <3>3 DEF NothingForgotten
  <2>8. OverlapsExcused'
    <3>1. \A m \in Range(metrics) : m \in accepted'.once =>
             m \in excused.again \/ \E h \in Submitters : submission'[h].at = "sent" /\ m \in Batch(h)'
      <4>1. SUFFICES ASSUME NEW m \in Range(metrics), m \in accepted'.once, m \notin excused.again
                     PROVE  \E h \in Submitters : submission'[h].at = "sent" /\ m \in Batch(h)'
        OBVIOUS
      <4>2. CASE m \in Batch(g)
        BY <2>4, <2>5, <4>2
      <4>3. CASE m \in accepted.once
        <5>1. PICK h \in Submitters : submission[h].at = "sent" /\ m \in Batch(h)
          BY <1>a, <4>1, <4>3 DEF OverlapsExcused
        <5> QED  BY <2>1, <2>4, <2>5, <5>1
      <4> QED  BY <2>3, <4>1, <4>2, <4>3
    <3>2. \A h, k \in Submitting : h # k => Batch(h)' \cap Batch(k)' \subseteq excused.again
      BY <1>a, <1>c, <2>5 DEF OverlapsExcused
    <3>3. \A h \in Submitters : submission'[h].at = "request" => Batch(h)' \cap accepted'.once \subseteq excused.again
      BY <2>3, <2>4, <2>5
    <3> QED  BY <2>1, <2>3, <2>5, <3>1, <3>2, <3>3 DEF OverlapsExcused
  <2> QED  BY <2>6, <2>7, <2>8 DEF TelemetryInv
<1>5. CASE SubmitFails
  <2>1. PICK g \in Submitters, got \in BOOLEAN :
           /\ submission[g].at = "request"
           /\ accepted' = IF got THEN Got(submission[g].batch) ELSE accepted
           /\ excused' = IF got THEN [excused EXCEPT !.again = @ \cup Range(submission[g].batch)] ELSE excused
           /\ submission' = [submission EXCEPT ![g] = NoBatch]
           /\ UNCHANGED <<metrics, savedMetrics, recorded>>
    BY <1>5 DEF SubmitFails
  <2>3. /\ accepted' \in [once : SUBSET (1..recorded), again : SUBSET (1..recorded)]
        /\ accepted'.once = IF got THEN accepted.once \cup Batch(g) ELSE accepted.once
        /\ accepted'.again \subseteq excused.again
        /\ Batch(g) \subseteq 1..recorded
        /\ \A h \in Submitters \ {g} : submission[h].at = "request" => Batch(h) \cap accepted'.once \subseteq excused.again
    BY <1>f, <2>1
  <2>4. /\ excused'.lost = excused.lost
        /\ excused'.again = IF got THEN excused.again \cup Batch(g) ELSE excused.again
        /\ excused' \in [lost : SUBSET (1..recorded), again : SUBSET (1..recorded)]
    BY <1>a, <2>1, <2>3 DEF TelemetryTyped, Batch
  <2>5. submission'[g].at = "idle" /\ \A h \in Submitters \ {g} : submission'[h] = submission[h]
    BY <1>a, <1>e, <2>1 DEF TelemetryTyped
  <2>6. /\ \A h \in Submitters \ {g} : Batch(h)' = Batch(h)
        /\ \A h \in Submitting' : h \in Submitting /\ h # g
    BY <2>5 DEF Batch, Submitting
  <2>7. TelemetryTyped'
    BY <1>a, <1>e, <2>1, <2>3, <2>4 DEF TelemetryTyped
  <2>8. NothingForgotten'
    <3>1. \A m \in 1..recorded : m \in excused'.lost \/ m \in Range(metrics) \/ m \in accepted'.once
      BY <1>a, <2>3, <2>4 DEF NothingForgotten
    <3>2. \A h \in Submitting' : \A m \in Range(metrics) : m \in excused'.lost \/ m \in Batch(h)'
      BY <1>a, <1>c, <2>4, <2>6 DEF NothingForgotten
    <3>3. \A h \in Submitters : submission'[h].at = "sent" => Batch(h)' \subseteq accepted'.once
      BY <1>a, <2>3, <2>5, <2>6 DEF NothingForgotten
    <3> QED  BY <2>1, <3>1, <3>2, <3>3 DEF NothingForgotten
  <2>9. OverlapsExcused'
    <3>1. \A m \in Range(metrics) : m \in accepted'.once =>
             m \in excused'.again \/ \E h \in Submitters : submission'[h].at = "sent" /\ m \in Batch(h)'
      <4>1. SUFFICES ASSUME NEW m \in Range(metrics), m \in accepted'.once, m \notin excused'.again
                     PROVE  \E h \in Submitters : submission'[h].at = "sent" /\ m \in Batch(h)'
        OBVIOUS
      <4>2. m \in accepted.once /\ m \notin excused.again
        BY <2>3, <2>4, <4>1
      <4>3. PICK h \in Submitters : submission[h].at = "sent" /\ m \in Batch(h)
        BY <1>a, <4>2 DEF OverlapsExcused
      <4>4. h # g
        BY <2>1, <4>3
      <4> QED  BY <2>5, <2>6, <4>3, <4>4
    <3>2. \A h, k \in Submitting' : h # k => Batch(h)' \cap Batch(k)' \subseteq excused'.again
      BY <1>a, <1>c, <2>4, <2>6 DEF OverlapsExcused
    <3>3. \A h \in Submitters : submission'[h].at = "request" => Batch(h)' \cap accepted'.once \subseteq excused'.again
      BY <2>3, <2>4, <2>5, <2>6
    <3>4. accepted'.again \subseteq excused'.again
      BY <2>3, <2>4
    <3> QED  BY <2>1, <3>1, <3>2, <3>3, <3>4 DEF OverlapsExcused
  <2> QED  BY <2>7, <2>8, <2>9 DEF TelemetryInv
<1>6. CASE SubmitEnds
  <2>1. PICK g \in Submitters, written \in BOOLEAN :
           /\ submission[g].at = "sent"
           /\ metrics' = <<>> /\ submission' = [submission EXCEPT ![g] = NoBatch]
           /\ savedMetrics' = IF written THEN metrics' ELSE savedMetrics
           /\ UNCHANGED <<recorded, accepted, excused>>
    BY <1>6 DEF SubmitEnds
  <2>2. savedMetrics' = <<>> /\ Range(metrics') = {} /\ metrics' \in Seq(1..recorded)
    BY <1>a, <2>1, NothingInEmpty, EmptySeq DEF TelemetryTyped
  <2>3. TelemetryTyped'
    BY <1>a, <1>e, <2>1, <2>2 DEF TelemetryTyped
  <2>4. submission'[g].at = "idle" /\ \A h \in Submitters \ {g} : submission'[h] = submission[h]
    BY <1>a, <1>e, <2>1 DEF TelemetryTyped
  <2>5. /\ \A h \in Submitters \ {g} : Batch(h)' = Batch(h)
        /\ \A h \in Submitting' : h \in Submitting /\ h # g
    BY <2>4 DEF Batch, Submitting
  <2>6. NothingForgotten'
    <3>1. g \in Submitting /\ Batch(g) \subseteq accepted.once
      BY <1>a, <2>1 DEF Submitting, NothingForgotten
    <3>2. \A m \in 1..recorded : m \in excused.lost \/ m \in accepted.once
      BY <1>a, <3>1 DEF NothingForgotten
    <3>3. \A h \in Submitters : submission'[h].at = "sent" => Batch(h)' \subseteq accepted.once
      BY <1>a, <2>4, <2>5 DEF NothingForgotten
    <3> QED  BY <2>1, <2>2, <3>2, <3>3 DEF NothingForgotten
  <2>7. OverlapsExcused'
    <3>1. \A h, k \in Submitting' : h # k => Batch(h)' \cap Batch(k)' \subseteq excused.again
      BY <1>a, <1>c, <2>5 DEF OverlapsExcused
    <3>2. \A h \in Submitters : submission'[h].at = "request" => Batch(h)' \cap accepted.once \subseteq excused.again
      BY <1>a, <2>4, <2>5 DEF OverlapsExcused
    <3> QED  BY <1>a, <2>1, <2>2, <3>1, <3>2 DEF OverlapsExcused
  <2> QED  BY <2>3, <2>6, <2>7 DEF TelemetryInv
<1>7. CASE RestartTelemetry
  <2>1. /\ metrics' = <<>> /\ savedMetrics' = <<>> /\ submission' = [g \in Submitters |-> NoBatch]
        /\ excused' = [excused EXCEPT !.lost = @ \cup 1..recorded]
        /\ UNCHANGED <<recorded, accepted>>
    BY <1>a, <1>7 DEF RestartTelemetry, TelemetryTyped
  <2>2. /\ Range(metrics') = {} /\ metrics' \in Seq(1..recorded)
        /\ excused'.again = excused.again /\ 1..recorded \subseteq excused'.lost
        /\ excused' \in [lost : SUBSET (1..recorded), again : SUBSET (1..recorded)]
    BY <1>a, <2>1, NothingInEmpty, EmptySeq DEF TelemetryTyped
  <2>3. TelemetryTyped'
    BY <1>a, <1>e, <2>1, <2>2 DEF TelemetryTyped
  <2>4. Submitting' = {} /\ \A g \in Submitters : submission'[g].at = "idle"
    BY <1>e, <2>1 DEF Submitting
  <2> QED  BY <1>a, <2>1, <2>2, <2>3, <2>4 DEF TelemetryInv, NothingForgotten, OverlapsExcused
<1>8. CASE UNCHANGED telemetryVars
  BY <1>8 DEF TelemetryInv, TelemetryTyped, NothingForgotten, OverlapsExcused, Submitting, Batch, telemetryVars
<1> QED  BY <1>1, <1>2, <1>3, <1>4, <1>5, <1>6, <1>7, <1>8 DEF TelemetryNext

LEMMA TelemetryHolds == TelemetryInv => MetricsAreSentOnce
  BY DEF TelemetryInv, NothingForgotten, OverlapsExcused, MetricsAreSentOnce

-----------------------------------------------------------------------------
(* The logs of crashes and errors.  Newest takes the end of a log.         *)

LEMMA NewestIsEnd ==
    ASSUME NEW S, NEW s \in Seq(S)
    PROVE  /\ Newest(s) \in Seq(S) /\ Len(Newest(s)) <= MostEvents /\ Len(Newest(s)) <= Len(s)
           /\ \A i \in 1..Len(Newest(s)) : Newest(s)[i] = s[i + Len(s) - Len(Newest(s))]
<1>0. MostEvents \in Nat /\ MostEvents >= 1
  BY FaultsAssumption DEF FaultsAssumption
<1>1. Len(s) \in Nat /\ \A i \in 1..Len(s) : s[i] \in S
  BY ListProperties
<1>2. CASE Len(s) > MostEvents
  <2> DEFINE m == Len(s) - MostEvents + 1
  <2>1. m \in Int /\ Len(s) \in Int /\ m <= Len(s) /\ m >= 1 /\ Len(s) - m + 1 = MostEvents
    BY <1>0, <1>1, <1>2
  <2>2. Newest(s) = SubSeq(s, m, Len(s))
    BY <1>2 DEF Newest
  <2> HIDE DEF m
  <2>3. \A i \in m..Len(s) : s[i] \in S
    BY <1>1, <2>1
  <2>4. /\ Newest(s) \in Seq(S) /\ Len(Newest(s)) = MostEvents
        /\ \A i \in 1..Len(s) - m + 1 : Newest(s)[i] = s[m + i - 1]
    BY <2>1, <2>2, <2>3, SubSeqProperties
  <2>5. \A i \in 1..MostEvents : m + i - 1 = i + Len(s) - MostEvents
    BY <1>0, <1>1 DEF m
  <2> QED  BY <1>0, <1>1, <1>2, <2>1, <2>4, <2>5
<1>3. CASE ~(Len(s) > MostEvents)
  <2>1. Newest(s) = s
    BY <1>3 DEF Newest
  <2>2. \A i \in 1..Len(s) : i + Len(s) - Len(s) = i
    BY <1>1
  <2> QED  BY <1>0, <1>1, <1>3, <2>1, <2>2
<1> QED  BY <1>2, <1>3

(* t is the log s to which c is added: its last entry is c, and the ones   *)
(* before it are the last of s.                                            *)
Follows(t, s, c) ==
    /\ DOMAIN t = 1..Len(t) /\ Len(t) \in Nat
    /\ \A i \in DOMAIN t : \/ i = Len(t) /\ t[i] = c
                           \/ /\ i + (Len(s) + 1) - Len(t) \in DOMAIN s
                              /\ t[i] = s[i + (Len(s) + 1) - Len(t)]

LEMMA OffsetFromEnd ==
    ASSUME NEW n \in Nat, NEW m \in Nat, m <= n + 1, NEW i \in 1..m, i # m
    PROVE  i + (n + 1) - m \in 1..n
  OBVIOUS

LEMMA LogGrows ==
    ASSUME NEW S, NEW s \in Seq(S), NEW c \in S
    PROVE  Newest(Append(s, c)) \in Seq(S) /\ Follows(Newest(Append(s, c)), s, c)
<1> DEFINE t == Newest(Append(s, c))
<1>1. /\ Append(s, c) \in Seq(S) /\ Len(s) \in Nat /\ DOMAIN s = 1 .. Len(s)
      /\ Len(Append(s, c)) = Len(s) + 1 /\ Append(s, c)[Len(s) + 1] = c
      /\ \A k \in DOMAIN s : Append(s, c)[k] = s[k]
  BY ListExtended
<1>2. /\ t \in Seq(S) /\ Len(t) <= Len(s) + 1
      /\ \A i \in 1..Len(t) : t[i] = Append(s, c)[i + (Len(s) + 1) - Len(t)]
  BY <1>1, NewestIsEnd
<1> HIDE DEF t
<1>3. DOMAIN t = 1..Len(t) /\ Len(t) \in Nat
  BY <1>2, ListProperties
<1>4. ASSUME NEW i \in 1..Len(t)
      PROVE  \/ i = Len(t) /\ t[i] = c
             \/ /\ i + (Len(s) + 1) - Len(t) \in DOMAIN s
                /\ t[i] = s[i + (Len(s) + 1) - Len(t)]
  <2>1. t[i] = Append(s, c)[i + (Len(s) + 1) - Len(t)]
    BY <1>2
  <2>2. CASE i = Len(t)
    <3>1. i + (Len(s) + 1) - Len(t) = Len(s) + 1
      BY <1>1, <1>3, <2>2
    <3> QED  BY <1>1, <2>1, <2>2, <3>1
  <2>3. CASE i # Len(t)
    <3>1. i + (Len(s) + 1) - Len(t) \in 1..Len(s)
      BY <1>1, <1>2, <1>3, <2>3, OffsetFromEnd
    <3> QED  BY <1>1, <2>1, <3>1
  <2> QED  BY <2>2, <2>3
<1>5. Follows(t, s, c)
  BY <1>3, <1>4 DEF Follows
<1> QED  BY <1>2, <1>5 DEF t

Names == Crashers \cup {""}
Recoveries == [at : {"idle", "restart", "mark"}, ext : Names, since : Nat, alone : BOOLEAN]
CrashEvents ==
    [number : Nat, ext : Names, reason : {"panic", "recovery_failed"}, recovered : BOOLEAN, by : Recoveries]

FaultsTyped ==
    /\ crashed \in Nat /\ crashes \in Seq(CrashEvents)
    /\ mending \in [Menders -> Recoveries]

CrashesNumbered == \A i \in DOMAIN crashes : crashes[i].number = crashed - Len(crashes) + i

(* A recovery that no crash disturbed knows of each crash there is.        *)
KnowsCrashes(g) ==
    /\ mending[g].since <= crashed
    /\ mending[g].alone => \A i \in DOMAIN crashes : crashes[i].ext = mending[g].ext => crashes[i].number <= mending[g].since

MarkedRight(i) ==
    /\ crashes[i].by.since <= crashed
    /\ crashes[i].by.alone =>
           /\ crashes[i].ext = crashes[i].by.ext /\ crashes[i].number <= crashes[i].by.since
           /\ \A j \in DOMAIN crashes : crashes[j].ext = crashes[i].ext =>
                  crashes[j].number <= crashes[i].number \/ crashes[j].number > crashes[i].by.since

CrashInv ==
    /\ FaultsTyped /\ CrashesNumbered
    /\ \A g \in Menders : mending[g].at # "idle" => KnowsCrashes(g)
    /\ \A i \in DOMAIN crashes : crashes[i].recovered => MarkedRight(i)

ErrorInv ==
    /\ logged \in Nat /\ errorLog \in Seq(Nat)
    /\ \A i \in DOMAIN errorLog : errorLog[i] = logged - Len(errorLog) + i

FaultsInv == CrashInv /\ ErrorInv

LEMMA FaultsStart == FaultsInit => FaultsInv
<1> SUFFICES ASSUME FaultsInit PROVE FaultsInv
  OBVIOUS
<1>1. /\ crashes = <<>> /\ crashed = 0 /\ mending = [g \in Menders |-> NotMending]
      /\ errorLog = <<>> /\ logged = 0
  BY DEF FaultsInit
<1>2. NotMending \in Recoveries /\ NotMending.at = "idle"
  BY DEF NotMending, Recoveries, Names
<1>3. \A S : <<>> \in Seq(S)
  BY EmptySeq
<1>4. FaultsTyped
  BY <1>1, <1>2, <1>3 DEF FaultsTyped
<1>5. DOMAIN crashes = {} /\ DOMAIN errorLog = {}
  BY <1>1
<1>6. \A g \in Menders : mending[g].at = "idle"
  BY <1>1, <1>2
<1>7. CrashInv
  BY <1>4, <1>5, <1>6 DEF CrashInv, CrashesNumbered
<1>8. ErrorInv
  BY <1>1, <1>3, <1>5 DEF ErrorInv
<1> QED  BY <1>7, <1>8 DEF FaultsInv

(* A crash, and the recoveries of the extension told of it.                *)
LEMMA CrashKeeps ==
    ASSUME CrashInv, NEW ext \in Names, NEW why \in {"panic", "recovery_failed"}, Crash(ext, why),
           NEW jobs \in [Menders -> Recoveries],
           \A g \in Menders : jobs[g].at # "idle" => jobs[g] = mending[g],
           mending' = Disturbed(jobs, ext)
    PROVE  CrashInv'
<1> DEFINE c == [number |-> crashed + 1, ext |-> ext, reason |-> why, recovered |-> FALSE, by |-> NotMending]
           old(i) == i + (Len(crashes) + 1) - Len(crashes')
<1>a. FaultsTyped /\ CrashesNumbered
  BY DEF CrashInv
<1>b. crashed \in Nat /\ crashes \in Seq(CrashEvents)
  BY <1>a DEF FaultsTyped
<1>1. c \in CrashEvents /\ crashed' = crashed + 1 /\ crashes' = Newest(Append(crashes, c))
  <2>1. NotMending \in Recoveries
    BY DEF NotMending, Recoveries, Names
  <2> QED  BY <1>b, <2>1 DEF CrashEvents, Crash
<1>c. c.number = crashed + 1 /\ c.ext = ext /\ ~c.recovered
  OBVIOUS
<1> HIDE DEF c
<1>2. /\ crashes' \in Seq(CrashEvents) /\ DOMAIN crashes' = 1..Len(crashes') /\ Len(crashes') \in Nat
      /\ \A i \in DOMAIN crashes' : \/ i = Len(crashes') /\ crashes'[i] = c
                                    \/ old(i) \in DOMAIN crashes /\ crashes'[i] = crashes[old(i)]
  <2>1. crashes' \in Seq(CrashEvents) /\ Follows(crashes', crashes, c)
    BY <1>b, <1>1, LogGrows
  <2> QED  BY <2>1 DEF Follows
<1>3. DOMAIN crashes = 1..Len(crashes) /\ Len(crashes) \in Nat /\ \A i \in 1..Len(crashes) : crashes[i] \in CrashEvents
  BY <1>b, ListProperties
<1>d. crashed' = crashed + 1 /\ crashed' \in Int
  BY <1>b, <1>1
<1>e. ASSUME NEW i \in DOMAIN crashes' PROVE crashes'[i].number = crashed' - Len(crashes') + i
  <2>1. i \in Int /\ crashed \in Int /\ Len(crashes) \in Int /\ Len(crashes') \in Int
    BY <1>b, <1>2, <1>3
  <2>2. CASE i = Len(crashes') /\ crashes'[i] = c
    BY <1>c, <1>d, <2>1, <2>2
  <2>3. CASE old(i) \in DOMAIN crashes /\ crashes'[i] = crashes[old(i)]
    <3>1. crashes'[i].number = crashed - Len(crashes) + (i + (Len(crashes) + 1) - Len(crashes'))
      BY <1>a, <2>3 DEF CrashesNumbered
    <3> QED  BY <1>d, <2>1, <3>1
  <2> QED  BY <1>2, <2>2, <2>3
<1>4. CrashesNumbered'
  BY <1>e DEF CrashesNumbered
<1>5. \A i \in DOMAIN crashes' : crashes'[i] = c \/ \E k \in DOMAIN crashes : crashes'[i] = crashes[k]
  BY <1>2
<1>6. /\ mending' \in [Menders -> Recoveries]
      /\ \A g \in Menders : mending'[g].at # "idle" =>
             /\ mending[g].at # "idle" /\ mending'[g].since = mending[g].since /\ mending'[g].ext = mending[g].ext
             /\ mending'[g].alone => mending[g].alone /\ mending[g].ext # ext
  <2>1. \A g \in Menders : jobs[g] \in Recoveries /\ [jobs[g] EXCEPT !.alone = FALSE] \in Recoveries
    BY DEF Recoveries
  <2>2. \A g \in Menders :
           mending'[g] = IF jobs[g].at # "idle" /\ jobs[g].ext = ext THEN [jobs[g] EXCEPT !.alone = FALSE] ELSE jobs[g]
    BY DEF Disturbed
  <2>3. mending' \in [Menders -> Recoveries]
    BY <2>1 DEF Disturbed
  <2>4. ASSUME NEW g \in Menders, mending'[g].at # "idle"
        PROVE  /\ mending[g].at # "idle" /\ mending'[g].since = mending[g].since /\ mending'[g].ext = mending[g].ext
               /\ mending'[g].alone => mending[g].alone /\ mending[g].ext # ext
    <3>1. jobs[g].at # "idle" /\ jobs[g] = mending[g] /\ jobs[g] \in Recoveries
      BY <2>1, <2>2, <2>4 DEF Recoveries
    <3>2. CASE jobs[g].ext = ext
      <4>1. mending'[g] = [jobs[g] EXCEPT !.alone = FALSE]
        BY <2>2, <3>1, <3>2
      <4> QED  BY <3>1, <4>1 DEF Recoveries
    <3>3. CASE jobs[g].ext # ext
      BY <2>2, <3>1, <3>3
    <3> QED  BY <3>2, <3>3
  <2> QED  BY <2>3, <2>4
<1>7. \A k \in DOMAIN crashes : crashes[k] \in CrashEvents
  BY <1>3
<1>8. ASSUME NEW g \in Menders, mending'[g].at # "idle" PROVE KnowsCrashes(g)'
  <2>1. KnowsCrashes(g) /\ mending[g] \in Recoveries
    BY <1>a, <1>6, <1>8 DEF CrashInv, FaultsTyped
  <2>2. mending[g].since \in Nat
    BY <2>1 DEF Recoveries
  <2>3. mending'[g].since <= crashed'
    BY <1>b, <1>1, <1>6, <1>8, <2>1, <2>2 DEF KnowsCrashes
  <2>4. ASSUME mending'[g].alone, NEW i \in DOMAIN crashes', crashes'[i].ext = mending'[g].ext
        PROVE  crashes'[i].number <= mending'[g].since
    <3>1. crashes'[i] # c
      BY <1>c, <1>6, <1>8, <2>4
    <3>2. PICK k \in DOMAIN crashes : crashes'[i] = crashes[k]
      BY <1>5, <3>1
    <3> QED  BY <1>6, <1>8, <2>1, <2>4, <3>2 DEF KnowsCrashes
  <2> QED  BY <2>3, <2>4 DEF KnowsCrashes
<1>9. ASSUME NEW i \in DOMAIN crashes', crashes'[i].recovered PROVE MarkedRight(i)'
  <2>1. PICK k \in DOMAIN crashes : crashes'[i] = crashes[k]
    BY <1>5, <1>9, <1>c
  <2>2. MarkedRight(k) /\ crashes[k] \in CrashEvents
    BY <1>7, <1>9, <2>1 DEF CrashInv
  <2>3. crashes[k].by.since \in Nat
    BY <2>2 DEF CrashEvents, Recoveries
  <2>4. crashes'[i].by.since <= crashed'
    BY <1>b, <1>1, <2>1, <2>2, <2>3 DEF MarkedRight
  <2>5. ASSUME crashes'[i].by.alone, NEW j \in DOMAIN crashes', crashes'[j].ext = crashes'[i].ext
        PROVE  crashes'[j].number <= crashes'[i].number \/ crashes'[j].number > crashes'[i].by.since
    <3>1. CASE crashes'[j] = c
      <4>1. crashes'[j].number > crashes'[i].by.since
        BY <1>b, <1>c, <2>1, <2>2, <2>3, <3>1 DEF MarkedRight
      <4> QED  BY <4>1
    <3>2. CASE \E m \in DOMAIN crashes : crashes'[j] = crashes[m]
      BY <2>1, <2>2, <2>5, <3>2 DEF MarkedRight
    <3> QED  BY <1>5, <3>1, <3>2
  <2> QED  BY <2>1, <2>2, <2>4, <2>5 DEF MarkedRight
<1>10. FaultsTyped'
  BY <1>b, <1>1, <1>2, <1>6 DEF FaultsTyped
<1> QED  BY <1>4, <1>8, <1>9, <1>10 DEF CrashInv

LEMMA MarkRecoveredKeeps == CrashInv /\ MarkRecovered => CrashInv'
<1> SUFFICES ASSUME CrashInv, MarkRecovered PROVE CrashInv'
  OBVIOUS
<1>1. PICK g \in Menders :
         /\ mending[g].at = "mark"
         /\ crashes' = [i \in DOMAIN crashes |->
                IF i \in Marked(g)
                THEN [crashes[i] EXCEPT !.recovered = TRUE, !.by = mending[g]]
                ELSE crashes[i]]
         /\ mending' = [mending EXCEPT ![g] = NotMending]
         /\ UNCHANGED crashed
  BY DEF MarkRecovered
<1>a. FaultsTyped /\ CrashesNumbered
  BY DEF CrashInv
<1>b. crashed \in Nat /\ crashes \in Seq(CrashEvents) /\ mending[g] \in Recoveries
  BY <1>a DEF FaultsTyped
<1>2. DOMAIN crashes = 1..Len(crashes) /\ Len(crashes) \in Nat /\ \A i \in 1..Len(crashes) : crashes[i] \in CrashEvents
  BY <1>b, ListProperties
<1>3. ASSUME NEW i \in DOMAIN crashes
      PROVE  /\ crashes[i] \in CrashEvents /\ crashes'[i] \in CrashEvents
             /\ crashes'[i].number = crashes[i].number /\ crashes'[i].ext = crashes[i].ext
             /\ i \in Marked(g) => crashes'[i].by = mending[g]
             /\ i \notin Marked(g) => crashes'[i] = crashes[i]
  <2>1. crashes[i] \in CrashEvents
    BY <1>2
  <2>2. CASE i \in Marked(g)
    <3>1. crashes'[i] = [crashes[i] EXCEPT !.recovered = TRUE, !.by = mending[g]]
      BY <1>1, <2>2
    <3> QED  BY <1>b, <2>1, <2>2, <3>1 DEF CrashEvents
  <2>3. CASE i \notin Marked(g)
    <3>1. crashes'[i] = crashes[i]
      BY <1>1, <2>3
    <3> QED  BY <2>1, <2>3, <3>1
  <2> QED  BY <2>2, <2>3
<1>4. DOMAIN crashes' = DOMAIN crashes
  BY <1>1
<1>5. crashes' \in Seq(CrashEvents) /\ Len(crashes') = Len(crashes)
  <2>1. crashes' = [i \in 1..Len(crashes) |-> crashes'[i]]
    BY <1>1, <1>2
  <2>2. \A i \in 1..Len(crashes) : crashes'[i] \in CrashEvents
    BY <1>2, <1>3
  <2>3. crashes' \in Seq(CrashEvents)
    BY <1>2, <2>1, <2>2, IsASeq
  <2>4. DOMAIN crashes' = 1..Len(crashes') /\ Len(crashes') \in Nat
    BY <2>3, ListProperties
  <2> QED  BY <1>2, <1>4, <2>3, <2>4
<1>6. CrashesNumbered'
  BY <1>a, <1>1, <1>3, <1>4, <1>5 DEF CrashesNumbered
<1>7. /\ NotMending \in Recoveries /\ mending' \in [Menders -> Recoveries]
      /\ \A h \in Menders : mending'[h].at # "idle" => mending'[h] = mending[h]
  <2>1. NotMending \in Recoveries /\ NotMending.at = "idle"
    BY DEF NotMending, Recoveries, Names
  <2> QED  BY <1>a, <1>1, <2>1 DEF FaultsTyped
<1>8. FaultsTyped'
  BY <1>b, <1>1, <1>5, <1>7 DEF FaultsTyped
<1>9. ASSUME NEW h \in Menders, mending'[h].at # "idle" PROVE KnowsCrashes(h)'
  <2>1. KnowsCrashes(h) /\ mending'[h] = mending[h]
    BY <1>7, <1>9 DEF CrashInv
  <2> QED  BY <1>1, <1>3, <1>4, <2>1 DEF KnowsCrashes
<1>10. ASSUME NEW i \in DOMAIN crashes', crashes'[i].recovered PROVE MarkedRight(i)'
  <2>1. CASE i \notin Marked(g)
    <3>1. MarkedRight(i) /\ crashes'[i] = crashes[i]
      BY <1>3, <1>4, <1>10, <2>1 DEF CrashInv
    <3> QED  BY <1>1, <1>3, <1>4, <3>1 DEF MarkedRight
  <2>2. CASE i \in Marked(g)
    <3>1. /\ i \in DOMAIN crashes /\ crashes[i].ext = mending[g].ext
          /\ \A j \in DOMAIN crashes : crashes[j].ext = mending[g].ext => j <= i
      BY <2>2 DEF Marked, Of
    <3>2. KnowsCrashes(g) /\ crashes'[i].by = mending[g]
      BY <1>1, <1>3, <1>4, <2>2 DEF CrashInv
    <3>3. \A j \in DOMAIN crashes : crashes[j].ext = mending[g].ext => crashes[j].number <= crashes[i].number
      <4>1. SUFFICES ASSUME NEW j \in DOMAIN crashes, j <= i PROVE crashes[j].number <= crashes[i].number
        BY <3>1
      <4>2. crashes[j].number = crashed - Len(crashes) + j /\ crashes[i].number = crashed - Len(crashes) + i
        BY <1>a, <3>1 DEF CrashesNumbered
      <4> QED  BY <1>b, <1>2, <3>1, <4>1, <4>2
    <3>4. crashes'[i].number = crashes[i].number /\ crashes'[i].ext = crashes[i].ext
      BY <1>3, <3>1
    <3>5. mending[g].alone => crashes[i].number <= mending[g].since
      BY <3>1, <3>2 DEF KnowsCrashes
    <3>6. \A j \in DOMAIN crashes' : crashes'[j].ext = crashes'[i].ext => crashes'[j].number <= crashes'[i].number
      BY <1>3, <1>4, <3>1, <3>3, <3>4
    <3>7. crashes'[i].by.since <= crashed'
      BY <1>1, <3>2 DEF KnowsCrashes
    <3> QED  BY <3>1, <3>2, <3>4, <3>5, <3>6, <3>7 DEF MarkedRight
  <2> QED  BY <2>1, <2>2
<1> QED  BY <1>6, <1>8, <1>9, <1>10 DEF CrashInv

LEMMA CrashesKeep == CrashInv /\ CrashesNext => CrashInv'
<1> SUFFICES ASSUME CrashInv, CrashesNext PROVE CrashInv'
  OBVIOUS
<1>a. FaultsTyped /\ CrashesNumbered
  BY DEF CrashInv
<1>b. NotMending \in Recoveries /\ NotMending.at = "idle"
  BY DEF NotMending, Recoveries, Names
<1>1. CASE SetRestartCallback
  BY <1>1 DEF SetRestartCallback, CrashInv, FaultsTyped, CrashesNumbered, KnowsCrashes, MarkedRight
<1>2. CASE SafeRun
  <2>1. PICK ext \in Crashers : Crash(ext, "panic") /\ mending' = Disturbed(mending, ext)
    BY <1>2 DEF SafeRun
  <2>2. ext \in Names /\ mending \in [Menders -> Recoveries]
    BY <1>a DEF Names, FaultsTyped
  <2>3. PICK why \in {"panic", "recovery_failed"} : why = "panic"
    OBVIOUS
  <2> QED  BY <2>1, <2>2, <2>3, CrashKeeps
<1>3. CASE BeginRecover
  <2>1. PICK g \in Menders, ext \in Crashers :
           /\ mending' = [mending EXCEPT ![g] = [at |-> "restart", ext |-> ext, since |-> crashed, alone |-> TRUE]]
           /\ UNCHANGED <<crashes, crashed>>
    BY <1>3 DEF BeginRecover
  <2>2. [at |-> "restart", ext |-> ext, since |-> crashed, alone |-> TRUE] \in Recoveries
    BY <1>a DEF Recoveries, Names, FaultsTyped
  <2>3. FaultsTyped'
    BY <1>a, <2>1, <2>2 DEF FaultsTyped
  <2>4. \A i \in DOMAIN crashes : crashes[i].number <= crashed
    <3>1. crashes \in Seq(CrashEvents) /\ crashed \in Nat
      BY <1>a DEF FaultsTyped
    <3>2. DOMAIN crashes = 1..Len(crashes) /\ Len(crashes) \in Nat
      BY <3>1, ListProperties
    <3>3. \A i \in 1..Len(crashes) : crashed - Len(crashes) + i <= crashed
      BY <3>1, <3>2
    <3> QED  BY <1>a, <3>2, <3>3 DEF CrashesNumbered
  <2>5. mending'[g].since = crashed /\ \A h \in Menders \ {g} : mending'[h] = mending[h]
    BY <1>a, <2>1 DEF FaultsTyped
  <2>6. crashed <= crashed
    BY <1>a DEF FaultsTyped
  <2>7. \A h \in Menders : mending'[h].at # "idle" => KnowsCrashes(h)'
    BY <2>1, <2>4, <2>5, <2>6 DEF CrashInv, KnowsCrashes
  <2> QED  BY <2>1, <2>3, <2>7 DEF CrashInv, CrashesNumbered, MarkedRight
<1>4. CASE Restarted
  <2>1. PICK g \in Menders :
           /\ mending[g].at = "restart" /\ mending' = [mending EXCEPT ![g].at = "mark"]
           /\ UNCHANGED <<crashes, crashed>>
    BY <1>4 DEF Restarted
  <2>2. /\ mending[g] \in Recoveries /\ \A h \in Menders \ {g} : mending'[h] = mending[h]
        /\ mending'[g] = [mending[g] EXCEPT !.at = "mark"]
    BY <1>a, <2>1 DEF FaultsTyped
  <2>3. /\ mending'[g] \in Recoveries /\ mending'[g].since = mending[g].since /\ mending'[g].ext = mending[g].ext
        /\ mending'[g].alone = mending[g].alone
    BY <2>2 DEF Recoveries
  <2>4. FaultsTyped'
    BY <1>a, <2>1, <2>3 DEF FaultsTyped
  <2>5. KnowsCrashes(g) /\ \A h \in Menders \ {g} : mending'[h].at # "idle" => KnowsCrashes(h)
    BY <2>1, <2>2 DEF CrashInv
  <2>6. \A h \in Menders : mending'[h].at # "idle" => KnowsCrashes(h)'
    BY <2>1, <2>2, <2>3, <2>5 DEF KnowsCrashes
  <2> QED  BY <2>1, <2>4, <2>6 DEF CrashInv, CrashesNumbered, MarkedRight
<1>5. CASE RestartFails
  <2>1. PICK g \in Menders :
           /\ Crash(mending[g].ext, "recovery_failed")
           /\ mending' = Disturbed([mending EXCEPT ![g] = NotMending], mending[g].ext)
    BY <1>5 DEF RestartFails
  <2>2. PICK jobs \in [Menders -> Recoveries] : jobs = [mending EXCEPT ![g] = NotMending]
    BY <1>a, <1>b DEF FaultsTyped
  <2>3. \A h \in Menders : jobs[h].at # "idle" => jobs[h] = mending[h]
    BY <1>a, <1>b, <2>2 DEF FaultsTyped
  <2>4. PICK why \in {"panic", "recovery_failed"} : why = "recovery_failed"
    OBVIOUS
  <2>5. mending[g].ext \in Names
    BY <1>a DEF FaultsTyped, Recoveries
  <2> QED  BY <2>1, <2>2, <2>3, <2>4, <2>5, CrashKeeps
<1>6. CASE ClearCrashes
  <2>1. crashes' = <<>> /\ UNCHANGED <<crashed, mending>>
    BY <1>6 DEF ClearCrashes
  <2>2. crashes' \in Seq(CrashEvents) /\ DOMAIN crashes' = {}
    BY <2>1, EmptySeq
  <2>3. FaultsTyped'
    BY <1>a, <2>1, <2>2 DEF FaultsTyped
  <2>4. \A g \in Menders : mending'[g].at # "idle" => KnowsCrashes(g)'
    BY <2>1, <2>2 DEF CrashInv, KnowsCrashes
  <2> QED  BY <2>2, <2>3, <2>4 DEF CrashInv, CrashesNumbered
<1> QED  BY <1>1, <1>2, <1>3, <1>4, <1>5, <1>6, MarkRecoveredKeeps DEF CrashesNext

LEMMA ErrorsKeep == ErrorInv /\ ErrorsNext => ErrorInv'
<1> SUFFICES ASSUME ErrorInv, ErrorsNext PROVE ErrorInv'
  OBVIOUS
<1>a. /\ logged \in Nat /\ errorLog \in Seq(Nat)
      /\ \A i \in DOMAIN errorLog : errorLog[i] = logged - Len(errorLog) + i
  BY DEF ErrorInv
<1>b. Len(errorLog) \in Nat
  BY <1>a, ListProperties
<1>1. CASE Log
  <2>1. logged' = logged + 1 /\ errorLog' = Newest(Append(errorLog, logged + 1)) /\ logged + 1 \in Nat
    BY <1>1, <1>a DEF Log
  <2>2. /\ errorLog' \in Seq(Nat) /\ DOMAIN errorLog' = 1..Len(errorLog') /\ Len(errorLog') \in Nat
        /\ \A i \in DOMAIN errorLog' : \/ i = Len(errorLog') /\ errorLog'[i] = logged + 1
                                       \/ /\ i + (Len(errorLog) + 1) - Len(errorLog') \in DOMAIN errorLog
                                          /\ errorLog'[i] = errorLog[i + (Len(errorLog) + 1) - Len(errorLog')]
    <3>1. errorLog' \in Seq(Nat) /\ Follows(errorLog', errorLog, logged + 1)
      BY <1>a, <2>1, LogGrows
    <3> QED  BY <3>1 DEF Follows
  <2>3. ASSUME NEW i \in DOMAIN errorLog' PROVE errorLog'[i] = logged + 1 - Len(errorLog') + i
    <3>1. CASE i = Len(errorLog') /\ errorLog'[i] = logged + 1
      BY <1>a, <2>2, <3>1
    <3>2. CASE /\ i + (Len(errorLog) + 1) - Len(errorLog') \in DOMAIN errorLog
               /\ errorLog'[i] = errorLog[i + (Len(errorLog) + 1) - Len(errorLog')]
      <4>1. errorLog'[i] = logged - Len(errorLog) + (i + (Len(errorLog) + 1) - Len(errorLog'))
        BY <1>a, <3>2
      <4> QED  BY <1>a, <1>b, <2>2, <4>1
    <3> QED  BY <2>2, <3>1, <3>2
  <2> QED  BY <1>a, <2>1, <2>2, <2>3 DEF ErrorInv
<1>2. CASE ClearErrors
  <2>1. errorLog' = <<>> /\ logged' = logged
    BY <1>2 DEF ClearErrors
  <2>2. errorLog' \in Seq(Nat) /\ DOMAIN errorLog' = {}
    BY <2>1, EmptySeq
  <2> QED  BY <1>a, <2>1, <2>2 DEF ErrorInv
<1> QED  BY <1>1, <1>2 DEF ErrorsNext

LEMMA FaultsKeep == FaultsInv /\ [FaultsNext]_faultVars => FaultsInv'
<1> SUFFICES ASSUME FaultsInv, [FaultsNext]_faultVars PROVE FaultsInv'
  OBVIOUS
<1>1. CASE CrashesNext
  <2>1. UNCHANGED <<errorLog, logged>>
    BY <1>1 DEF CrashesNext, SetRestartCallback, SafeRun, BeginRecover, Restarted, RestartFails, MarkRecovered, ClearCrashes
  <2>2. ErrorInv'
    BY <2>1 DEF FaultsInv, ErrorInv
  <2> QED  BY <1>1, <2>2, CrashesKeep DEF FaultsInv
<1>2. CASE ErrorsNext
  <2>1. UNCHANGED <<crashes, crashed, mending>>
    BY <1>2 DEF ErrorsNext, Log, ClearErrors
  <2>2. CrashInv'
    BY <2>1 DEF FaultsInv, CrashInv, FaultsTyped, CrashesNumbered, KnowsCrashes, MarkedRight
  <2> QED  BY <1>2, <2>2, ErrorsKeep DEF FaultsInv
<1>3. CASE UNCHANGED faultVars
  BY <1>3 DEF FaultsInv, CrashInv, ErrorInv, FaultsTyped, CrashesNumbered, KnowsCrashes, MarkedRight, faultVars
<1> QED  BY <1>1, <1>2, <1>3 DEF FaultsNext

LEMMA FaultsHold == FaultsInv => FaultsAreKept
<1> SUFFICES ASSUME FaultsInv PROVE FaultsAreKept
  OBVIOUS
<1>1. /\ \A i \in DOMAIN crashes : crashes[i].number = crashed - Len(crashes) + i
      /\ \A i \in DOMAIN errorLog : errorLog[i] = logged - Len(errorLog) + i
  BY DEF FaultsInv, CrashInv, ErrorInv, CrashesNumbered
<1>2. ASSUME NEW e \in Range(crashes), e.recovered, e.by.alone
      PROVE  /\ e.ext = e.by.ext /\ e.number <= e.by.since
             /\ \A d \in Range(crashes) : d.ext = e.ext => d.number <= e.number \/ d.number > e.by.since
  <2>1. PICK i \in DOMAIN crashes : crashes[i] = e
    BY DEF Range
  <2>2. MarkedRight(i)
    BY <1>2, <2>1 DEF FaultsInv, CrashInv
  <2>3. \A d \in Range(crashes) : \E j \in DOMAIN crashes : crashes[j] = d
    BY DEF Range
  <2> QED  BY <1>2, <2>1, <2>2, <2>3 DEF MarkedRight
<1> QED  BY <1>1, <1>2 DEF FaultsAreKept

-----------------------------------------------------------------------------
(* Requests and caches.  A cache's order lists its keys, each once.        *)

LEMMA ShorterTail ==
    ASSUME NEW S, NEW s \in Seq(S), s # <<>>
    PROVE  /\ Tail(s) \in Seq(S) /\ Len(Tail(s)) = Len(s) - 1 /\ Len(s) \in Nat /\ Len(s) >= 1
           /\ DOMAIN s = 1..Len(s) /\ DOMAIN Tail(s) = 1..Len(s) - 1
           /\ \A i \in 1..Len(s) - 1 : i + 1 \in 1..Len(s) /\ Tail(s)[i] = s[i + 1]
<1>1. /\ Tail(s) \in Seq(S) /\ Len(Tail(s)) = Len(s) - 1
      /\ \A i \in 1..Len(Tail(s)) : Tail(s)[i] = s[i + 1]
  BY HeadTailProperties
<1>2. DOMAIN Tail(s) = 1..Len(Tail(s)) /\ DOMAIN s = 1..Len(s) /\ Len(s) \in Nat /\ Len(s) # 0
  BY <1>1, ListProperties
<1>3. Len(s) >= 1 /\ \A i \in 1..Len(s) - 1 : i + 1 \in 1..Len(s)
  BY <1>2
<1> QED  BY <1>1, <1>2, <1>3

Lists(o, f) ==
    /\ o \in Seq(Addresses) /\ Len(o) <= MaxCached
    /\ \A i \in DOMAIN o : o[i] \in DOMAIN f
    /\ \A k \in DOMAIN f : \E i \in DOMAIN o : o[i] = k
    /\ \A i, j \in DOMAIN o : o[i] = o[j] => i = j

Private(u) == u.host \in LocalHosts \/ u.scheme = "https"
AllPrivate(f) == \A k \in DOMAIN f : Private(k) /\ Private(f[k])

Flights ==
    [at : {"sending", "waiting", "answered"}, cache : Caches, key : Addresses, url : Addresses, bare : BOOLEAN]

NetworkTyped ==
    /\ flight \in [Fetchers -> {Resting} \cup Flights]
    /\ DOMAIN cached = Caches /\ DOMAIN order = Caches

FlightIsPrivate(g) ==
    /\ flight[g].at # "idle" => Private(flight[g].key)
    /\ flight[g].at \in {"waiting", "answered"} => Private(flight[g].url)

NetworkInv ==
    /\ NetworkTyped
    /\ \A c \in Caches : Lists(order[c], cached[c]) /\ AllPrivate(cached[c])
    /\ \A g \in Fetchers : FlightIsPrivate(g)

LEMMA UpgradedIsPrivate ==
    ASSUME NEW u \in Addresses
    PROVE  upgradeHTTPURL(u) \in Addresses /\ Private(upgradeHTTPURL(u))
  BY DEF upgradeHTTPURL, Addresses, Private

(* What is added to a cache as in AddResource.                             *)
LEMMA EntryReplaced ==
    ASSUME NEW o, NEW f, Lists(o, f), AllPrivate(f), NEW key \in DOMAIN f, Private(key), NEW from, Private(from),
           NEW f2, DOMAIN f2 = DOMAIN f, \A k \in DOMAIN f : f2[k] = IF k = key THEN from ELSE f[k]
    PROVE  Lists(o, f2) /\ AllPrivate(f2)
  BY DEF Lists, AllPrivate

LEMMA EntryAppended ==
    ASSUME NEW o, NEW f, Lists(o, f), AllPrivate(f), NEW key \in Addresses \ DOMAIN f, Private(key),
           NEW from, Private(from), Len(o) < MaxCached,
           NEW f2, DOMAIN f2 = DOMAIN f \cup {key}, \A k \in DOMAIN f2 : f2[k] = IF k = key THEN from ELSE f[k]
    PROVE  Lists(Append(o, key), f2) /\ AllPrivate(f2)
<1> DEFINE p == Append(o, key)
<1>0. o \in Seq(Addresses) /\ MaxCached \in Nat
  BY NetworkAssumption DEF Lists, NetworkAssumption
<1>1. /\ p \in Seq(Addresses) /\ Len(o) \in Nat /\ DOMAIN o = 1..Len(o)
      /\ Len(p) = Len(o) + 1 /\ DOMAIN p = 1 .. Len(o) + 1 /\ p[Len(o) + 1] = key
      /\ \A k \in DOMAIN o : p[k] = o[k]
      /\ \A k \in DOMAIN p : k \in DOMAIN o \/ k = Len(o) + 1
  BY <1>0, ListExtended
<1> HIDE DEF p
<1>2. Len(p) <= MaxCached /\ Len(o) + 1 \in DOMAIN p /\ DOMAIN o \subseteq DOMAIN p
  BY <1>0, <1>1
<1>3. \A i \in DOMAIN p : p[i] \in DOMAIN f2
  BY <1>1 DEF Lists
<1>4. ASSUME NEW k \in DOMAIN f2 PROVE \E i \in DOMAIN p : p[i] = k
  <2>1. CASE k = key
    BY <1>1, <1>2, <2>1
  <2>2. CASE k \in DOMAIN f
    <3>1. PICK i \in DOMAIN o : o[i] = k
      BY <2>2 DEF Lists
    <3> QED  BY <1>1, <1>2, <3>1
  <2> QED  BY <2>1, <2>2
<1>5. ASSUME NEW i \in DOMAIN p, NEW j \in DOMAIN p, p[i] = p[j] PROVE i = j
  <2>1. \A k \in DOMAIN o : p[k] # key
    BY <1>1 DEF Lists
  <2> QED  BY <1>1, <1>5, <2>1 DEF Lists
<1>6. Lists(p, f2)
  BY <1>1, <1>2, <1>3, <1>4, <1>5 DEF Lists
<1>7. AllPrivate(f2)
  BY DEF AllPrivate
<1> QED  BY <1>6, <1>7 DEF p

(* The oldest is pushed out.                                               *)
LEMMA EntryDropped ==
    ASSUME NEW o, o \in Seq(Addresses), o # <<>>, NEW f, AllPrivate(f), Len(o) <= MaxCached + 1,
           \A i \in DOMAIN o : o[i] \in DOMAIN f,
           \A k \in DOMAIN f : \E i \in DOMAIN o : o[i] = k,
           \A i, j \in DOMAIN o : o[i] = o[j] => i = j,
           NEW f2, DOMAIN f2 = DOMAIN f \ {o[1]}, \A k \in DOMAIN f2 : f2[k] = f[k]
    PROVE  Lists(Tail(o), f2) /\ AllPrivate(f2)
<1> DEFINE p == Tail(o)
<1>0. MaxCached \in Nat
  BY NetworkAssumption DEF NetworkAssumption
<1>1. /\ p \in Seq(Addresses) /\ Len(p) = Len(o) - 1 /\ Len(o) \in Nat /\ Len(o) >= 1
      /\ DOMAIN o = 1..Len(o) /\ DOMAIN p = 1..Len(o) - 1
      /\ \A i \in 1..Len(o) - 1 : i + 1 \in 1..Len(o) /\ p[i] = o[i + 1]
  BY ShorterTail
<1> HIDE DEF p
<1>2. Len(p) <= MaxCached /\ 1 \in DOMAIN o
  BY <1>0, <1>1
<1>3. ASSUME NEW i \in DOMAIN p PROVE p[i] \in DOMAIN f2
  <2>1. i + 1 \in DOMAIN o /\ i + 1 # 1 /\ p[i] = o[i + 1]
    BY <1>1
  <2>2. o[i + 1] # o[1]
    BY <1>2, <2>1
  <2> QED  BY <2>1, <2>2
<1>4. ASSUME NEW k \in DOMAIN f2 PROVE \E i \in DOMAIN p : p[i] = k
  <2>1. PICK i \in DOMAIN o : o[i] = k
    OBVIOUS
  <2>2. i # 1
    BY <2>1
  <2>3. PICK j \in 1..Len(o) - 1 : j + 1 = i
    <3>1. i - 1 \in 1..Len(o) - 1 /\ (i - 1) + 1 = i
      BY <1>1, <2>2
    <3> QED  BY <3>1
  <2> QED  BY <1>1, <2>1, <2>3
<1>5. ASSUME NEW i \in DOMAIN p, NEW j \in DOMAIN p, p[i] = p[j] PROVE i = j
  <2>1. i + 1 \in DOMAIN o /\ j + 1 \in DOMAIN o /\ o[i + 1] = o[j + 1]
    BY <1>1, <1>5
  <2>2. i + 1 = j + 1
    BY <2>1
  <2> QED  BY <1>1, <2>2
<1>6. Lists(p, f2)
  BY <1>1, <1>2, <1>3, <1>4, <1>5 DEF Lists
<1>7. AllPrivate(f2)
  BY DEF AllPrivate
<1> QED  BY <1>6, <1>7 DEF p

LEMMA AddKeeps ==
    ASSUME NetworkInv, NEW c \in Caches, NEW key \in Addresses, Private(key), NEW from \in Addresses, Private(from),
           AddResource(c, key, from)
    PROVE  /\ DOMAIN cached' = Caches /\ DOMAIN order' = Caches
           /\ \A d \in Caches : Lists(order'[d], cached'[d]) /\ AllPrivate(cached'[d])
<1> DEFINE all == Append(order[c], key)
           survivor == Kept(c, key, from)
<1>a. /\ DOMAIN cached = Caches /\ DOMAIN order = Caches
      /\ \A d \in Caches : Lists(order[d], cached[d]) /\ AllPrivate(cached[d])
  BY DEF NetworkInv, NetworkTyped
<1>b. /\ DOMAIN survivor = DOMAIN cached[c] \cup {key}
      /\ \A k \in DOMAIN survivor : survivor[k] = IF k = key THEN from ELSE cached[c][k]
  <2>1. /\ DOMAIN survivor = DOMAIN cached[c] \cup {key}
        /\ \A k \in DOMAIN cached[c] \cup {key} : survivor[k] = IF k = key THEN from ELSE cached[c][k]
    BY DEF Kept
  <2> HIDE DEF survivor
  <2> QED  BY <2>1
<1>c. /\ all \in Seq(Addresses) /\ Len(order[c]) \in Nat /\ Len(all) = Len(order[c]) + 1
      /\ Len(order[c]) <= MaxCached /\ MaxCached \in Nat
  BY <1>a, ListExtended, NetworkAssumption DEF Lists, NetworkAssumption
<1> HIDE DEF survivor
<1>1. CASE key \in DOMAIN cached[c]
  <2>1. cached' = [cached EXCEPT ![c] = survivor] /\ order' = order
    BY <1>1 DEF AddResource, survivor
  <2>2. DOMAIN survivor = DOMAIN cached[c]
    BY <1>1, <1>b
  <2>3. Lists(order[c], survivor) /\ AllPrivate(survivor)
    BY <1>1, <1>a, <1>b, <2>2, EntryReplaced
  <2> QED  BY <1>a, <2>1, <2>3
<1>2. CASE key \notin DOMAIN cached[c] /\ ~(Len(all) > MaxCached)
  <2>1. /\ order' = [order EXCEPT ![c] = all]
        /\ cached' = [cached EXCEPT ![c] = [k \in (DOMAIN survivor) \ {} |-> survivor[k]]]
    BY <1>2 DEF AddResource, survivor
  <2>2. /\ cached'[c] = [k \in DOMAIN survivor |-> survivor[k]] /\ order'[c] = all
        /\ DOMAIN cached' = Caches /\ DOMAIN order' = Caches
        /\ \A d \in Caches \ {c} : cached'[d] = cached[d] /\ order'[d] = order[d]
    BY <1>a, <2>1
  <2>3. Len(order[c]) < MaxCached
    BY <1>2, <1>c
  <2>4. /\ DOMAIN cached'[c] = DOMAIN cached[c] \cup {key}
        /\ \A k \in DOMAIN cached'[c] : cached'[c][k] = IF k = key THEN from ELSE cached[c][k]
    BY <1>b, <2>2
  <2>5. Lists(all, cached'[c]) /\ AllPrivate(cached'[c])
    <3>1. PICK o, f, f2 : o = order[c] /\ f = cached[c] /\ f2 = cached'[c]
      OBVIOUS
    <3>2. Lists(o, f) /\ AllPrivate(f) /\ key \in Addresses \ DOMAIN f /\ Len(o) < MaxCached
      BY <1>2, <1>a, <2>3, <3>1
    <3>3. /\ DOMAIN f2 = DOMAIN f \cup {key}
          /\ \A k \in DOMAIN f2 : f2[k] = IF k = key THEN from ELSE f[k]
      BY <2>4, <3>1
    <3>4. Lists(Append(o, key), f2) /\ AllPrivate(f2)
      BY <3>2, <3>3, EntryAppended
    <3> QED  BY <3>1, <3>4
  <2> QED  BY <1>a, <2>2, <2>5
<1>3. CASE key \notin DOMAIN cached[c] /\ Len(all) > MaxCached
  <2>1. /\ order' = [order EXCEPT ![c] = Tail(all)]
        /\ cached' = [cached EXCEPT ![c] = [k \in (DOMAIN survivor) \ {all[1]} |-> survivor[k]]]
    BY <1>3 DEF AddResource, survivor
  <2>2. /\ cached'[c] = [k \in (DOMAIN survivor) \ {all[1]} |-> survivor[k]] /\ order'[c] = Tail(all)
        /\ DOMAIN cached' = Caches /\ DOMAIN order' = Caches
        /\ \A d \in Caches \ {c} : cached'[d] = cached[d] /\ order'[d] = order[d]
    BY <1>a, <2>1
  <2>3. all # <<>>
    BY <1>c, ListProperties
  <2>4. /\ \A i \in DOMAIN all : all[i] \in DOMAIN survivor
        /\ \A k \in DOMAIN survivor : \E i \in DOMAIN all : all[i] = k
        /\ \A i, j \in DOMAIN all : all[i] = all[j] => i = j
    <3>0. order[c] \in Seq(Addresses)
      BY <1>a DEF Lists
    <3>1. /\ DOMAIN all = 1 .. Len(order[c]) + 1 /\ all[Len(order[c]) + 1] = key
          /\ DOMAIN order[c] = 1..Len(order[c])
          /\ \A k \in DOMAIN order[c] : all[k] = order[c][k]
          /\ \A k \in DOMAIN all : k \in DOMAIN order[c] \/ k = Len(order[c]) + 1
      BY <3>0, ListExtended
    <3> HIDE DEF all
    <3>2. Len(order[c]) + 1 \in DOMAIN all /\ DOMAIN order[c] \subseteq DOMAIN all
      BY <1>c, <3>1
    <3>3. \A i \in DOMAIN all : all[i] \in DOMAIN survivor
      BY <1>a, <1>b, <3>1 DEF Lists
    <3>4. ASSUME NEW k \in DOMAIN survivor PROVE \E i \in DOMAIN all : all[i] = k
      <4>1. CASE k = key
        BY <3>1, <3>2, <4>1
      <4>2. CASE k \in DOMAIN cached[c]
        <5>1. PICK i \in DOMAIN order[c] : order[c][i] = k
          BY <1>a, <4>2 DEF Lists
        <5> QED  BY <3>1, <3>2, <5>1
      <4> QED  BY <1>b, <4>1, <4>2
    <3>5. \A k \in DOMAIN order[c] : all[k] # key
      BY <1>3, <1>a, <3>1 DEF Lists
    <3>6. ASSUME NEW i \in DOMAIN all, NEW j \in DOMAIN all, all[i] = all[j] PROVE i = j
      BY <1>a, <3>1, <3>5, <3>6 DEF Lists
    <3> QED  BY <3>3, <3>4, <3>6
  <2>5. AllPrivate(survivor) /\ Len(all) <= MaxCached + 1
    BY <1>a, <1>b, <1>c DEF AllPrivate
  <2>6. DOMAIN cached'[c] = DOMAIN survivor \ {all[1]} /\ \A k \in DOMAIN cached'[c] : cached'[c][k] = survivor[k]
    BY <2>2
  <2> HIDE DEF all
  <2>7. Lists(Tail(all), cached'[c]) /\ AllPrivate(cached'[c])
    BY <1>c, <2>3, <2>4, <2>5, <2>6, EntryDropped
  <2> QED  BY <1>a, <2>2, <2>7
<1> QED  BY <1>1, <1>2, <1>3

LEMMA NetworkStart == NetworkInit => NetworkInv
<1> SUFFICES ASSUME NetworkInit PROVE NetworkInv
  OBVIOUS
<1>1. /\ cached = [c \in Caches |-> <<>>] /\ order = [c \in Caches |-> <<>>]
      /\ flight = [g \in Fetchers |-> Resting]
  BY DEF NetworkInit
<1>2. Resting.at = "idle"
  BY DEF Resting
<1>3. <<>> \in Seq(Addresses) /\ Len(<<>>) = 0 /\ DOMAIN <<>> = {} /\ 0 <= MaxCached
  BY EmptySeq, NetworkAssumption DEF NetworkAssumption
<1>4. Lists(<<>>, <<>>) /\ AllPrivate(<<>>)
  BY <1>3 DEF Lists, AllPrivate
<1> QED  BY <1>1, <1>2, <1>4 DEF NetworkInv, NetworkTyped, FlightIsPrivate

(* One fetcher moves and the caches stay.                                  *)
LEMMA FlightMoves ==
    ASSUME NetworkInv, NEW g \in Fetchers, NEW fl \in {Resting} \cup Flights,
           fl.at # "idle" => Private(fl.key), fl.at \in {"waiting", "answered"} => Private(fl.url),
           flight' = [flight EXCEPT ![g] = fl], UNCHANGED <<cached, order>>
    PROVE  NetworkInv'
<1>1. NetworkTyped' /\ flight'[g] = fl /\ \A h \in Fetchers \ {g} : flight'[h] = flight[h]
  BY DEF NetworkInv, NetworkTyped
<1>2. \A h \in Fetchers : FlightIsPrivate(h)'
  BY <1>1 DEF NetworkInv, FlightIsPrivate
<1> QED  BY <1>1, <1>2 DEF NetworkInv

LEMMA LookUpKeeps ==
    ASSUME NetworkInv, NEW g \in Fetchers, NEW c \in Caches, NEW u \in Addresses, NEW bare \in BOOLEAN,
           LookUp(g, c, u, bare)
    PROVE  NetworkInv'
<1> DEFINE key == upgradeHTTPURL(u)
           fl == [at |-> "sending", cache |-> c, key |-> key, url |-> key, bare |-> bare]
<1>1. key \in Addresses /\ Private(key)
  BY UpgradedIsPrivate
<1>2. flight' = [flight EXCEPT ![g] = fl] /\ UNCHANGED <<cached, order>>
  BY DEF LookUp
<1> HIDE DEF key
<1>3. fl \in Flights /\ fl.at = "sending" /\ fl.key = key
  BY <1>1 DEF Flights
<1> HIDE DEF fl
<1> QED  BY <1>1, <1>2, <1>3, FlightMoves

LEMMA NetworkKeep == NetworkInv /\ [NetworkNext]_networkVars => NetworkInv'
<1> SUFFICES ASSUME NetworkInv, [NetworkNext]_networkVars PROVE NetworkInv'
  OBVIOUS
<1>a. NetworkTyped /\ \A g \in Fetchers : FlightIsPrivate(g)
  BY DEF NetworkInv
<1>b. Resting.at = "idle" /\ Resting \in {Resting} \cup Flights
  BY DEF Resting
<1>c. ASSUME NEW g \in Fetchers, flight[g].at # "idle"
      PROVE  flight[g] \in Flights /\ Private(flight[g].key)
  BY <1>a, <1>b, <1>c DEF NetworkTyped, FlightIsPrivate
<1>1. CASE Fetch
  <2>1. PICK g \in Fetchers, u \in Addresses, bare \in BOOLEAN : LookUp(g, "page", u, bare)
    BY <1>1 DEF Fetch
  <2>2. PICK c \in Caches : c = "page"
    BY DEF Caches
  <2> QED  BY <2>1, <2>2, LookUpKeeps
<1>2. CASE GetImage
  <2>1. PICK g \in Fetchers, u \in Addresses : LookUp(g, "image", u, TRUE)
    BY <1>2 DEF GetImage
  <2>2. PICK c \in Caches, bare \in BOOLEAN : c = "image" /\ bare = TRUE
    BY DEF Caches
  <2>3. LookUp(g, c, u, bare)
    BY <2>1, <2>2
  <2> QED  BY <2>3, LookUpKeeps
<1>3. CASE RoundTrip
  <2>1. PICK g \in Fetchers :
           /\ flight[g].at = "sending"
           /\ flight' = [flight EXCEPT ![g].at = "waiting", ![g].url = upgradeHTTPURL(flight[g].url)]
           /\ UNCHANGED <<cached, order>>
    BY <1>3 DEF RoundTrip
  <2>2. flight[g] \in Flights /\ Private(flight[g].key) /\ flight[g].url \in Addresses
    BY <1>c, <2>1 DEF Flights
  <2>3. PICK url \in Addresses : url = upgradeHTTPURL(flight[g].url) /\ Private(url)
    BY <2>2, UpgradedIsPrivate
  <2>4. PICK fl : fl = [flight[g] EXCEPT !.at = "waiting", !.url = url]
    OBVIOUS
  <2>5. fl \in Flights /\ fl.key = flight[g].key /\ fl.url = url
    BY <2>2, <2>4 DEF Flights
  <2>6. flight' = [flight EXCEPT ![g] = fl]
    BY <1>a, <2>1, <2>3, <2>4 DEF NetworkTyped
  <2> QED  BY <2>1, <2>2, <2>3, <2>5, <2>6, FlightMoves
<1>4. CASE Responds
  <2>1. PICK g \in Fetchers :
           /\ flight[g].at = "waiting" /\ flight' = [flight EXCEPT ![g].at = "answered"]
           /\ UNCHANGED <<cached, order>>
    BY <1>4 DEF Responds
  <2>2. flight[g] \in Flights /\ Private(flight[g].key) /\ Private(flight[g].url)
    BY <1>a, <1>c, <2>1 DEF FlightIsPrivate
  <2>3. PICK fl : fl = [flight[g] EXCEPT !.at = "answered"]
    OBVIOUS
  <2>4. fl \in Flights /\ fl.key = flight[g].key /\ fl.url = flight[g].url
    BY <2>2, <2>3 DEF Flights
  <2>5. flight' = [flight EXCEPT ![g] = fl]
    BY <1>a, <2>1, <2>3 DEF NetworkTyped
  <2> QED  BY <2>1, <2>2, <2>4, <2>5, FlightMoves
<1>5. CASE FollowRedirect
  <2>1. PICK g \in Fetchers, u \in Addresses :
           /\ flight[g].at = "answered" /\ flight' = [flight EXCEPT ![g].at = "sending", ![g].url = u]
           /\ UNCHANGED <<cached, order>>
    BY <1>5 DEF FollowRedirect
  <2>2. flight[g] \in Flights /\ Private(flight[g].key)
    BY <1>c, <2>1
  <2>3. PICK fl : fl = [flight[g] EXCEPT !.at = "sending", !.url = u]
    OBVIOUS
  <2>4. fl \in Flights /\ fl.key = flight[g].key /\ fl.at = "sending"
    BY <2>2, <2>3 DEF Flights
  <2>5. flight' = [flight EXCEPT ![g] = fl]
    BY <1>a, <2>1, <2>3 DEF NetworkTyped
  <2> QED  BY <2>1, <2>2, <2>4, <2>5, FlightMoves
<1>6. CASE FetchFails
  <2>1. PICK g \in Fetchers : flight' = [flight EXCEPT ![g] = Resting] /\ UNCHANGED <<cached, order>>
    BY <1>6 DEF FetchFails
  <2> QED  BY <1>b, <2>1, FlightMoves
<1>7. CASE Answer
  <2>1. PICK g \in Fetchers :
           /\ flight[g].at = "answered"
           /\ IF flight[g].bare THEN AddResource(flight[g].cache, flight[g].key, flight[g].url)
              ELSE UNCHANGED <<cached, order>>
           /\ flight' = [flight EXCEPT ![g] = Resting]
    BY <1>7 DEF Answer
  <2>2. /\ Private(flight[g].key) /\ Private(flight[g].url)
        /\ flight[g].cache \in Caches /\ flight[g].key \in Addresses /\ flight[g].url \in Addresses
    BY <1>a, <1>c, <2>1 DEF FlightIsPrivate, Flights
  <2>3. CASE ~flight[g].bare
    BY <1>b, <2>1, <2>3, FlightMoves
  <2>4. CASE flight[g].bare
    <3>1. /\ DOMAIN cached' = Caches /\ DOMAIN order' = Caches
          /\ \A d \in Caches : Lists(order'[d], cached'[d]) /\ AllPrivate(cached'[d])
      BY <2>1, <2>2, <2>4, AddKeeps
    <3>2. /\ flight' \in [Fetchers -> {Resting} \cup Flights]
          /\ flight'[g].at = "idle" /\ \A h \in Fetchers \ {g} : flight'[h] = flight[h]
      BY <1>a, <1>b, <2>1 DEF NetworkTyped
    <3>3. \A h \in Fetchers : FlightIsPrivate(h)'
      BY <1>a, <3>2 DEF FlightIsPrivate
    <3> QED  BY <3>1, <3>2, <3>3 DEF NetworkInv, NetworkTyped
  <2> QED  BY <2>3, <2>4
<1>8. CASE PolicyExpires \/ UNCHANGED networkVars
  <2>1. UNCHANGED <<cached, order, flight>>
    BY <1>8 DEF PolicyExpires, networkVars
  <2> QED  BY <2>1 DEF NetworkInv, NetworkTyped, FlightIsPrivate
<1> QED  BY <1>1, <1>2, <1>3, <1>4, <1>5, <1>6, <1>7, <1>8 DEF NetworkNext

LEMMA CachesHold == NetworkInv => CachesAreBounded
<1> SUFFICES ASSUME NetworkInv, NEW c \in Caches
             PROVE  /\ ToSet(order[c]) = DOMAIN cached[c]
                    /\ Cardinality(DOMAIN cached[c]) = Len(order[c])
                    /\ Len(order[c]) <= MaxCached
  BY DEF CachesAreBounded
<1>1. Lists(order[c], cached[c])
  BY DEF NetworkInv
<1>2. ToSet(order[c]) = DOMAIN cached[c]
  BY <1>1 DEF Lists, ToSet
<1>3. DOMAIN order[c] = 1..Len(order[c]) /\ Len(order[c]) \in Nat
  BY <1>1, ListProperties DEF Lists
<1> DEFINE f == [i \in 1..Len(order[c]) |-> order[c][i]]
<1>4. f \in Bijection(1..Len(order[c]), DOMAIN cached[c])
  <2>1. f \in [1..Len(order[c]) -> DOMAIN cached[c]]
    BY <1>1, <1>3 DEF Lists
  <2>2. \A i, j \in 1..Len(order[c]) : f[i] = f[j] => i = j
    BY <1>1, <1>3 DEF Lists
  <2>3. \A k \in DOMAIN cached[c] : \E i \in 1..Len(order[c]) : f[i] = k
    BY <1>1, <1>3 DEF Lists
  <2> HIDE DEF f
  <2> QED  BY <2>1, <2>2, <2>3 DEF Bijection, Injection, Surjection, IsInjective
<1>5. Cardinality(1..Len(order[c])) = Len(order[c]) /\ IsFiniteSet(1..Len(order[c]))
  BY <1>3, NumbersUpTo
<1>6. Cardinality(DOMAIN cached[c]) = Len(order[c])
  <2> HIDE DEF f
  <2>1. ExistsBijection(1..Len(order[c]), DOMAIN cached[c])
    BY <1>4 DEF ExistsBijection
  <2> QED  BY <1>5, <2>1, FS_Bijection
<1> QED  BY <1>1, <1>2, <1>6 DEF Lists

LEMMA NothingPlainHolds == NetworkInv => NothingPlain
<1> SUFFICES ASSUME NetworkInv PROVE NothingPlain
  OBVIOUS
<1>1. \A u : Private(u) /\ u.host \in RemoteHosts => u.scheme = "https"
  BY NetworkAssumption DEF Private, LocalHosts, NetworkAssumption
<1>2. \A c \in Caches : \A k \in DOMAIN cached[c] : \A u \in {k, cached[c][k]} : u.host \in RemoteHosts => u.scheme = "https"
  BY <1>1 DEF NetworkInv, AllPrivate
<1>3. \A g \in Fetchers : flight[g].at \in {"waiting", "answered"} => flight[g].url.host \in LocalHosts \/ flight[g].url.scheme = "https"
  BY DEF NetworkInv, FlightIsPrivate, Private
<1> QED  BY <1>2, <1>3 DEF NothingPlain

-----------------------------------------------------------------------------
(* The sum: a step of the services is one part's step, and leaves what     *)
(* the other parts keep as it is.                                          *)

LEMMA StepsOfParts ==
    ASSUME [Next]_vars
    PROVE  /\ [ContainersNext]_containerVars /\ [PinsNext]_pinVars
           /\ [MenusNext]_menuVars /\ [GrantsNext]_grantVars /\ [NotesNext]_noteVars
           /\ [MessagesNext]_messageVars /\ [EventsNext]_eventVars /\ [CallsNext]_stackVars
           /\ [DownloadsNext]_downloadVars /\ [RequestsNext]_requestVars /\ [UpdatesNext]_updateVars
           /\ [TelemetryNext]_telemetryVars /\ [FaultsNext]_faultVars /\ [NetworkNext]_networkVars
           /\ [CookiesNext]_cookieVars /\ [GalleryNext]_galleryVars
<1>1. CASE UNCHANGED vars
  BY <1>1 DEF vars, recordVars
<1>9. CASE part = "messages" /\ MessagesNext /\ Still("messages")
  BY <1>9 DEF Still, recordVars
<1>10. CASE part = "events" /\ EventsNext /\ Still("events")
  BY <1>10 DEF Still, recordVars
<1>11. CASE part = "calls" /\ CallsNext /\ Still("calls")
  BY <1>11 DEF Still, recordVars
<1>12. CASE part = "downloads" /\ DownloadsNext /\ Still("downloads")
  BY <1>12 DEF Still, recordVars
<1>13. CASE part = "requests" /\ RequestsNext /\ Still("requests")
  BY <1>13 DEF Still, recordVars
<1>14. CASE part = "updates" /\ UpdatesNext /\ Still("updates")
  BY <1>14 DEF Still, recordVars
<1>15. CASE part = "telemetry" /\ TelemetryNext /\ Still("telemetry")
  BY <1>15 DEF Still, recordVars
<1>16. CASE part = "crashes" /\ CrashesNext /\ Still("crashes")
  BY <1>16 DEF Still, recordVars, FaultsNext
<1>17. CASE part = "errors" /\ ErrorsNext /\ Still("errors")
  BY <1>17 DEF Still, recordVars, FaultsNext
<1>18. CASE part = "network" /\ NetworkNext /\ Still("network")
  BY <1>18 DEF Still, recordVars
<1>2. CASE part = "containers" /\ ContainersNext /\ Still("containers")
  BY <1>2 DEF Still, recordVars
<1>3. CASE part = "pins" /\ PinsNext /\ Still("pins")
  BY <1>3 DEF Still, recordVars
<1>4. CASE part = "menus" /\ MenusNext /\ Still("menus")
  <2>1. UNCHANGED <<grantVars, noteVars>>
    BY <1>4 DEF MenusNext, CreateContextMenu, UpdateContextMenu, RemoveContextMenu, RemoveAllContextMenus
  <2> QED BY <1>4, <2>1 DEF Still
<1>5. CASE part = "grants" /\ GrantsNext /\ Still("grants")
  <2>1. UNCHANGED <<menuVars, noteVars>>
    BY <1>5 DEF GrantsNext, ManifestChanges, RequestPermissions, RemovePermissions
  <2> QED BY <1>5, <2>1 DEF Still
<1>6. CASE part = "notes" /\ NotesNext /\ Still("notes")
  <2>1. UNCHANGED <<menuVars, grantVars>>
    BY <1>6 DEF NotesNext, CreateNotification, ClearNotification, FireNotification
  <2> QED BY <1>6, <2>1 DEF Still
<1>7. CASE part = "cookies" /\ CookiesNext /\ Still("cookies")
  BY <1>7 DEF Still, recordVars
<1>19. CASE part = "gallery" /\ GalleryNext /\ Still("gallery")
  BY <1>19 DEF Still, recordVars
<1> QED BY <1>1, <1>2, <1>3, <1>4, <1>5, <1>6, <1>7, <1>9, <1>10, <1>11, <1>12, <1>13, <1>14, <1>15,
        <1>16, <1>17, <1>18, <1>19 DEF Next

(* What the stores of containers and of certificate pins hold in memory is *)
(* what a restart would read, unless the write of it failed.               *)
THEOREM StoresStayOnDisk == Spec => []StoresAreOnDisk
<1>1. Init => BoxInv /\ PinsInv
  BY BoxesStart, PinsStart DEF Init
<1>2. BoxInv /\ PinsInv /\ [Next]_vars => BoxInv' /\ PinsInv'
  BY StepsOfParts, BoxesKeep, PinsKeep
<1>3. BoxInv /\ PinsInv => StoresAreOnDisk
  BY DEF BoxInv, PinsInv, StoresAreOnDisk
<1> QED BY <1>1, <1>2, <1>3, PTL DEF Spec

RecordsInv == MenusInv /\ GrantsInv /\ NotesInv

LEMMA RecordsHold == RecordsInv => RecordsAreKept
<1> SUFFICES ASSUME RecordsInv PROVE RecordsAreKept
  OBVIOUS
<1>1. \A m \in menuItems : m.id = KeptAs(m.key) /\ Cardinality(UnderKey(m.id)) <= IF m.id = "menu-1" THEN 2 ELSE 1
  BY MenusAreKept DEF RecordsInv
<1>2. \A id \in missed : UnderKey(id) = {}
  BY DEF RecordsInv, MenusInv
<1>3. ContainsPermissions(Grants) \subseteq onceDeclared
  BY DEF RecordsInv, GrantsInv, ContainsPermissions
<1>4. \A n \in NoteIDs : fired[n] + Closing(n) + (IF n \in notes THEN 1 ELSE 0) <= made[n]
  BY DEF RecordsInv, NotesInv, Closing, Closers, Closed, Shown
<1> QED BY <1>1, <1>2, <1>3, <1>4 DEF RecordsAreKept

(* A cookie is in one partition of one jar or in none, and there it is of  *)
(* the site that set it, whatever transfers, responses and removals come   *)
(* between; a menu item can be removed by the ID it was made with; what an *)
(* extension may do some manifest declared; no notification closes more    *)
(* often than it was made; and a cache lists its resources once each, of   *)
(* which it has no more than its bound.                                    *)
THEOREM KeptInOnePlace == Spec => []OnePlaceEach
<1>1. Init => JarInv /\ RecordsInv /\ NetworkInv
  BY JarsStart, MenusStart, GrantsStart, NotesStart, NetworkStart DEF Init, RecordsInv
<1>2. JarInv /\ RecordsInv /\ NetworkInv /\ [Next]_vars => JarInv' /\ RecordsInv' /\ NetworkInv'
  BY StepsOfParts, JarsKeep, MenusKeep, GrantsKeep, NotesKeep, NetworkKeep DEF RecordsInv
<1>3. JarInv /\ RecordsInv /\ NetworkInv => OnePlaceEach
  BY JarsAreInOnePlace, RecordsHold, CachesHold DEF OnePlaceEach
<1> QED BY <1>1, <1>2, <1>3, PTL DEF Spec

WorkInv == DownloadsInv /\ RequestsInv /\ NetworkInv /\ UpdatesInv /\ TelemetryInv /\ FaultsInv

(* A download that is shown as running has somebody at work on it, and one *)
(* shown as complete was fetched; a request shows the answer to what it    *)
(* asks and is loaded once; nothing goes to another host in the clear; a   *)
(* release that was given out is whole, checked and newer than what runs;  *)
(* the endpoint gets a metric once unless a submission failed or overlaps  *)
(* another; and a log has the newest faults, none marked as recovered that *)
(* was not.                                                                *)
THEOREM ResultsStayTrue == Spec => []ResultsAreTrue
<1>1. Init => WorkInv
  BY DownloadsStart, RequestsStart, NetworkStart, UpdatesStart, TelemetryStart, FaultsStart DEF Init, WorkInv
<1>2. WorkInv /\ [Next]_vars => WorkInv'
  BY StepsOfParts, DownloadsKeep, RequestsKeep, NetworkKeep, UpdatesKeep, TelemetryKeep, FaultsKeep
     DEF WorkInv
<1>3. WorkInv => ResultsAreTrue
  BY DownloadsHold, RequestsHold, NothingPlainHolds, UpdatesHold, TelemetryHolds, FaultsHold
     DEF WorkInv, ResultsAreTrue
<1> QED BY <1>1, <1>2, <1>3, PTL DEF Spec

SayInv == MessagesInv /\ OwedInv /\ EventsInv /\ CallsInv

(* A message posted to a window that runs does not go missing before it is *)
(* run or the window pauses, navigates or goes; it is run at most once,    *)
(* and windows that post to each other never wait for each other.  The two *)
(* tables of request listeners agree as long as no two goroutines are in   *)
(* one extension.  A call of chrome.* that is done has called its callback *)
(* once, and its event says what it did.                                   *)
THEOREM SaidIsNotLost == Spec => []NothingSaidIsLost
<1>1. Init => SayInv
  BY MessagesStart, OwedStart, EventsStart, CallsStart DEF Init, SayInv
<1>2. SayInv /\ [Next]_vars => SayInv'
  BY StepsOfParts, MessagesKeep, OwedKeep, EventsKeep, CallsKeep DEF SayInv
<1>3. SayInv => NothingSaidIsLost
  BY MessagesHold, EventsHold, CallsHold DEF NothingSaidIsLost, SayInv
<1> QED BY <1>1, <1>2, <1>3, PTL DEF Spec
===============================================================================
