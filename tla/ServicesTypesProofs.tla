------------------------- MODULE ServicesTypesProofs --------------------------
(***************************************************************************)
(* Theorems about the cookies of the pages and about the gallery; and the  *)
(* types of the services, which rest on the invariants of all the parts.   *)
(***************************************************************************)
EXTENDS ServicesProofs

-----------------------------------------------------------------------------
(* Cookies of the pages.  A path is below another in the code as it is in  *)
(* the property: prefixes are told element by element.                     *)
LEMMA PrefixIs ==
    ASSUME NEW T, NEW s \in Seq(T), NEW t \in Seq(T)
    PROVE  IsPrefix(s, t) <=> Len(s) <= Len(t) /\ \A i \in 1..Len(s) : s[i] = t[i]
<1>1. Len(s) \in Nat /\ Len(t) \in Nat
  BY ListProperties
<1>2. CASE ~(Len(s) <= Len(t))
  BY <1>2 DEF IsPrefix
<1>3. CASE Len(s) <= Len(t)
  <2> DEFINE x == SubSeq(s, 1, Len(s))
             y == SubSeq(t, 1, Len(s))
  <2>1. x \in Seq(T) /\ Len(x) = Len(s) /\ \A i \in 1..Len(s) : x[i] = s[i]
    BY <1>1, SubSeqProperties
  <2>2. y \in Seq(T) /\ Len(y) = Len(s) /\ \A i \in 1..Len(s) : y[i] = t[i]
    BY <1>1, <1>3, SubSeqProperties
  <2> HIDE DEF x, y
  <2>3. x = y <=> \A i \in 1..Len(s) : x[i] = y[i]
    BY <2>1, <2>2, SeqEqual
  <2> QED  BY <1>3, <2>1, <2>2, <2>3 DEF IsPrefix, x, y
<1> QED  BY <1>2, <1>3

LEMMA SlashIsPath == Root \in Seq(Characters) /\ Len(Root) = 1 /\ Root[1] = "/"
<1>1. "/" \in Characters
  BY DEF Characters
<1>2. \A T : \A x \in T : <<x>> \in Seq(T) /\ Len(<<x>>) = 1 /\ <<x>>[1] = x
  OBVIOUS
<1> QED  BY <1>1, <1>2 DEF Root

LEMMA PathsMatchBelow ==
    ASSUME NEW p \in Seq(Characters), NEW q \in Seq(Characters), Len(q) > 0, q[1] = "/", IsPrefix(Root, p)
    PROVE  pathMatches(p, q) <=> Below(p, q)
<1> DEFINE n == Len(q)
           m == Len(p)
           same == \A i \in 1..n : q[i] = p[i]
           rest == SubSeq(p, n + 1, m)
<1>1. n \in Nat /\ m \in Nat /\ n >= 1
  BY ListProperties
<1>2. m >= 1 /\ p[1] = "/"
  <2>1. Len(Root) <= m /\ \A i \in 1..Len(Root) : Root[i] = p[i]
    <3>1. Root \in Seq(Characters)
      BY SlashIsPath
    <3> QED  BY <3>1, PrefixIs
  <2>2. 1 \in 1..Len(Root)
    BY SlashIsPath
  <2> QED  BY <2>1, <2>2, SlashIsPath
<1>3. IsPrefix(q, p) <=> n <= m /\ same
  BY PrefixIs
<1>4. IsPrefix(q \o Root, p) <=> n + 1 <= m /\ same /\ p[n + 1] = "/"
  <2> DEFINE r == q \o Root
  <2>1. /\ r \in Seq(Characters) /\ Len(r) = n + 1
        /\ \A i \in 1..n + 1 : r[i] = IF i <= n THEN q[i] ELSE Root[i - n]
    <3>1. Root \in Seq(Characters) /\ Len(Root) = 1
      BY SlashIsPath
    <3>2. /\ r \in Seq(Characters) /\ Len(r) = n + Len(Root)
          /\ \A i \in 1..n + Len(Root) : r[i] = IF i <= n THEN q[i] ELSE Root[i - n]
      BY <3>1, ConcatProperties
    <3> HIDE DEF r, n
    <3> QED  BY <3>1, <3>2
  <2> HIDE DEF r
  <2>2. \A i \in 1..n : r[i] = q[i]
    BY <1>1, <2>1
  <2>3. r[n + 1] = "/"
    BY <1>1, <2>1, SlashIsPath
  <2>4. IsPrefix(r, p) <=> n + 1 <= m /\ \A i \in 1..n + 1 : r[i] = p[i]
    BY <2>1, PrefixIs
  <2>5. (\A i \in 1..n + 1 : r[i] = p[i]) <=> same /\ r[n + 1] = p[n + 1]
    <3>1. 1..n + 1 = 1..n \cup {n + 1}
      BY <1>1
    <3> QED  BY <2>2, <3>1
  <2> QED  BY <2>3, <2>4, <2>5 DEF r
<1>5. p = q <=> n = m /\ same
  BY SeqEqual
<1>6. q = Root <=> n = 1
  BY SeqEqual, SlashIsPath, <1>1
<1>7. n < m => /\ rest \in Seq(Characters) /\ Len(rest) = m - n /\ \A i \in 1..m - n : rest[i] = p[n + i]
               /\ rest # <<>> /\ rest[1] = p[n + 1]
  <2> SUFFICES ASSUME n < m
               PROVE  /\ rest \in Seq(Characters) /\ Len(rest) = m - n /\ \A i \in 1..m - n : rest[i] = p[n + i]
                      /\ rest # <<>> /\ rest[1] = p[n + 1]
    OBVIOUS
  <2>1. rest \in Seq(Characters) /\ Len(rest) = m - n /\ \A i \in 1..m - n : rest[i] = p[n + i]
    BY <1>1, SubSeqProperties
  <2>2. m - n # 0 /\ 1 \in 1..m - n
    BY <1>1
  <2> HIDE DEF rest
  <2> QED  BY <2>1, <2>2
<1>8. ~(n < m) => rest = <<>>
  BY <1>1 DEF rest
<1>9. n < m => (p = q \o rest <=> same)
  <2> SUFFICES ASSUME n < m PROVE p = q \o rest <=> same
    OBVIOUS
  <2> DEFINE r == q \o rest
  <2>1. /\ r \in Seq(Characters) /\ Len(r) = n + Len(rest)
        /\ \A i \in 1..n + Len(rest) : r[i] = IF i <= n THEN q[i] ELSE rest[i - n]
    BY <1>7, ConcatProperties
  <2> HIDE DEF r, rest
  <2>2. Len(r) = m /\ Len(rest) = m - n
    BY <1>1, <1>7, <2>1
  <2>3. \A i \in 1..m : r[i] = IF i <= n THEN q[i] ELSE p[i]
    <3> SUFFICES ASSUME NEW i \in 1..m PROVE r[i] = IF i <= n THEN q[i] ELSE p[i]
      OBVIOUS
    <3>1. CASE i <= n
      BY <1>1, <2>1, <2>2, <3>1
    <3>2. CASE ~(i <= n)
      <4>1. i - n \in 1..m - n /\ n + (i - n) = i
        BY <1>1, <3>2
      <4> QED  BY <1>1, <1>7, <2>1, <2>2, <3>2, <4>1
    <3> QED  BY <3>1, <3>2
  <2>4. p = r <=> \A i \in 1..m : p[i] = r[i]
    BY <2>1, <2>2, SeqEqual
  <2>5. (\A i \in 1..m : p[i] = r[i]) <=> same
    BY <1>1, <2>3
  <2> QED  BY <2>4, <2>5 DEF r
<1>10. Below(p, q) <=> p = q \/ (p = q \o rest /\ rest # <<>> /\ (q[n] = "/" \/ rest[1] = "/"))
  BY DEF Below, Last
<1>11. pathMatches(p, q) <=> \/ q = Root
                             \/ IsPrefix(q, p) /\ (q[n] = "/" \/ p = q \/ IsPrefix(q \o Root, p))
  BY DEF pathMatches, Last
<1> HIDE DEF rest
<1>12. Below(p, q) <=> n <= m /\ same /\ (n = m \/ q[n] = "/" \/ p[n + 1] = "/")
  <2>1. CASE n < m
    BY <1>1, <1>5, <1>7, <1>9, <1>10, <2>1
  <2>2. CASE ~(n < m)
    BY <1>1, <1>5, <1>8, <1>10, <2>2
  <2> QED  BY <2>1, <2>2
<1>13. q = Root => n <= m /\ same /\ q[n] = "/"
  <2> SUFFICES ASSUME q = Root PROVE n <= m /\ same /\ q[n] = "/"
    OBVIOUS
  <2>1. n = 1
    BY <1>6
  <2>2. \A i \in 1..1 : i = 1
    OBVIOUS
  <2> QED  BY <1>1, <1>2, <2>1, <2>2
<1> HIDE DEF same
<1> QED  BY <1>1, <1>3, <1>4, <1>5, <1>11, <1>12, <1>13

(* The lines of a jar, told of any list of them.                           *)
Origins == {Origin(u) : u \in Pages}
Lines == [url : Pages, line : Cookies]
CookieOf(r) == Prepared(r.url, r.line)

Replaces(r, s) == Works(r) /\ Origin(r.url) = Origin(s.url) /\ cookieIdentity(CookieOf(r), CookieOf(s))

CurrentOf(rs, i) ==
    /\ Works(rs[i]) /\ CookieOf(rs[i]).until \notin {"past", "over"}
    /\ \A j \in (i + 1)..Len(rs) : ~Replaces(rs[j], rs[i])

IsCurrentIn(d, o, rs) == \E i \in 1..Len(rs) : Origin(rs[i].url) = o /\ CurrentOf(rs, i) /\ d = CookieOf(rs[i])

(* The jar of an origin has, of what is not over, the current cookies.     *)
JarIsCurrent(jar, o, rs) == \A d : d \in ToSet(jar) /\ d.until # "over" <=> IsCurrentIn(d, o, rs)

CookiesInv ==
    /\ received \in Seq(Lines) /\ Len(received) <= MaxLines
    /\ kept \in [Origins -> Seq(Cookies)]
    /\ \A o \in Origins : JarIsCurrent(kept[o], o, received)

LEMMA PagesHavePaths ==
    ASSUME NEW u \in Pages
    PROVE  u.host \in Seq(Labels) /\ u.path \in Seq(Characters) /\ IsPrefix(Root, u.path)
  BY CookieAssumption DEF CookieAssumption

LEMMA DefaultPath ==
    ASSUME NEW u \in Pages
    PROVE  LET q == defaultCookiePath(u.path) IN q \in Seq(Characters) /\ Len(q) > 0 /\ q[1] = "/"
<1> DEFINE p == u.path
           slashes == {i \in DOMAIN p : p[i] = "/"}
<1>1. p \in Seq(Characters) /\ IsPrefix(Root, p) /\ DOMAIN p = 1..Len(p) /\ Len(p) \in Nat
  BY PagesHavePaths, ListProperties
<1>2. CASE ~\E i \in slashes : i > 1
  <2>1. defaultCookiePath(p) = Root
    BY <1>2 DEF defaultCookiePath
  <2> QED  BY <2>1, SlashIsPath
<1>3. CASE \E i \in slashes : i > 1
  <2>1. slashes \in SUBSET (0..Len(p)) /\ slashes # {}
    BY <1>1, <1>3
  <2> HIDE DEF slashes
  <2>2. Max(slashes) \in slashes /\ \A i \in slashes : i <= Max(slashes)
    BY <1>1, <2>1, MaxIsGreatest
  <2> DEFINE k == Max(slashes) - 1
             q == SubSeq(p, 1, k)
  <2>3. k \in 1..Len(p)
    <3>1. PICK i \in slashes : i > 1
      BY <1>3
    <3>2. Max(slashes) \in 0..Len(p) /\ i \in 0..Len(p) /\ i <= Max(slashes)
      BY <2>1, <2>2
    <3> QED  BY <1>1, <3>1, <3>2
  <2> HIDE DEF k
  <2>4. q \in Seq(Characters) /\ Len(q) = k /\ \A i \in 1..k : q[i] = p[i]
    BY <1>1, <2>3, SubSeqProperties
  <2>5. p[1] = "/"
    <3>1. Root \in Seq(Characters) /\ Len(Root) = 1 /\ Root[1] = "/"
      BY SlashIsPath
    <3>2. \A i \in 1..Len(Root) : Root[i] = p[i]
      BY <1>1, <3>1, PrefixIs
    <3>3. 1 \in 1..Len(Root)
      BY <3>1
    <3> QED  BY <3>1, <3>2, <3>3
  <2>6. defaultCookiePath(p) = q
    BY <1>3 DEF defaultCookiePath, slashes, k
  <2> HIDE DEF q
  <2> QED  BY <1>1, <2>3, <2>4, <2>5, <2>6
<1> QED  BY <1>2, <1>3

LEMMA PreparedIs ==
    ASSUME NEW u \in Pages, NEW c \in Cookies
    PROVE  LET d == Prepared(u, c) IN
           /\ d \in Cookies /\ Len(d.path) > 0 /\ d.path[1] = "/"
           /\ d.domain = c.domain /\ d.secure = c.secure /\ d.site = c.site /\ d.until = c.until
<1> DEFINE none == c.path = <<>> \/ c.path[1] # "/"
           q == IF none THEN defaultCookiePath(u.path) ELSE c.path
<1>1. Prepared(u, c) = [c EXCEPT !.path = q]
  BY DEF Prepared
<1>2. q \in Seq(Characters) /\ Len(q) > 0 /\ q[1] = "/"
  <2>1. CASE none
    BY <2>1, DefaultPath
  <2>2. CASE ~none
    <3>1. c.path \in Seq(Characters) /\ c.path # <<>> /\ c.path[1] = "/"
      BY <2>2 DEF Cookies
    <3>2. Len(c.path) > 0
      BY <3>1, ListProperties
    <3> QED  BY <2>2, <3>1, <3>2
  <2> QED  BY <2>1, <2>2
<1> HIDE DEF q
<1> QED  BY <1>1, <1>2 DEF Cookies

(* What the property asks of a line is what the jar asks.                  *)
LEMMA WorksIs ==
    ASSUME NEW r \in Lines
    PROVE  LET c == CookieOf(r) IN
           Works(r) <=> Acceptable(r.url, c) /\ (c.until = "past" \/ (pathMatches(r.url.path, c.path) /\ (c.secure => r.url.scheme = "https")))
<1> DEFINE c == CookieOf(r)
           u == r.url
<1>1. u \in Pages /\ r.line \in Cookies
  BY DEF Lines
<1>2. c \in Cookies /\ Len(c.path) > 0 /\ c.path[1] = "/"
  BY <1>1, PreparedIs DEF CookieOf
<1>3. pathMatches(u.path, c.path) <=> Below(u.path, c.path)
  <2>1. c.path \in Seq(Characters)
    BY <1>2 DEF Cookies
  <2> HIDE DEF c, u
  <2> QED  BY <1>1, <1>2, <2>1, PagesHavePaths, PathsMatchBelow
<1>4. validCookieDomain(u.host, c.domain) <=> IsSuffix(c.domain, u.host) /\ (c.domain # u.host => Len(c.domain) # 1)
  <2>1. c.domain \in Seq(Labels) /\ u.host \in Seq(Labels)
    BY <1>1, <1>2, PagesHavePaths DEF Cookies
  <2>2. Len(c.domain) \in Nat /\ (c.domain = NoHost <=> Len(c.domain) = 0)
    BY <2>1, ListProperties DEF NoHost
  <2>3. c.domain = NoHost => IsSuffix(c.domain, u.host)
    BY <2>1 DEF NoHost, IsSuffix, IsPrefix, Reverse
  <2> DEFINE d == c.domain
             h == u.host
  <2>4. validCookieDomain(h, d) <=> (d = NoHost \/ IsSuffix(d, h)) /\ (d = NoHost \/ d = h \/ Len(d) >= 2)
    BY DEF validCookieDomain, domainMatches
  <2> HIDE DEF d, h
  <2>5. CASE d = NoHost
    BY <2>2, <2>3, <2>4, <2>5 DEF d, h
  <2>6. CASE d # NoHost
    <3>1. Len(d) \in Nat /\ Len(d) # 0
      BY <2>2, <2>6 DEF d
    <3>2. Len(d) >= 2 <=> Len(d) # 1
      BY <3>1
    <3> QED  BY <2>4, <2>6, <3>2 DEF d, h
  <2> QED  BY <2>5, <2>6
<1>5. Works(r) <=> /\ c.site = "none" => c.secure
                   /\ IsSuffix(c.domain, u.host) /\ (c.domain # u.host => Len(c.domain) # 1)
                   /\ c.until = "past" \/ (Below(u.path, c.path) /\ (c.secure => u.scheme = "https"))
  BY DEF Works, CookieOf
<1>6. Acceptable(u, c) <=> (c.site = "none" => c.secure) /\ validCookieDomain(u.host, c.domain)
  BY DEF Acceptable
<1> HIDE DEF c, u
<1>7. Works(r) <=> Acceptable(u, c) /\ (c.until = "past" \/ (pathMatches(u.path, c.path) /\ (c.secure => u.scheme = "https")))
  BY <1>3, <1>4, <1>5, <1>6
<1> QED  BY <1>7 DEF c, u

(* One more line: whoever it replaces is current no longer.                *)
LEMMA LineArrives ==
    ASSUME NEW rs \in Seq(Lines), NEW r \in Lines, NEW o, NEW d
    PROVE  IsCurrentIn(d, o, Append(rs, r))
           <=> \/ IsCurrentIn(d, o, rs) /\ ~(Works(r) /\ Origin(r.url) = o /\ cookieIdentity(CookieOf(r), d))
               \/ Origin(r.url) = o /\ Works(r) /\ CookieOf(r).until \notin {"past", "over"} /\ d = CookieOf(r)
<1> DEFINE n == Len(rs)
           ss == Append(rs, r)
<1>1. n \in Nat /\ Len(ss) = n + 1 /\ ss[n + 1] = r /\ \A i \in 1..n : ss[i] = rs[i]
  BY AppendProperties, ListProperties
<1> HIDE DEF ss
<1>2. ASSUME NEW i \in 1..n PROVE CurrentOf(ss, i) <=> CurrentOf(rs, i) /\ ~Replaces(r, rs[i])
  <2>1. (i + 1)..n + 1 = (i + 1)..n \cup {n + 1}
    BY <1>1
  <2>2. \A j \in (i + 1)..n : ss[j] = rs[j]
    BY <1>1
  <2>3. (\A j \in (i + 1)..n + 1 : ~Replaces(ss[j], ss[i])) <=> (\A j \in (i + 1)..n : ~Replaces(rs[j], rs[i])) /\ ~Replaces(r, rs[i])
    BY <1>1, <2>1, <2>2
  <2> QED  BY <1>1, <2>3 DEF CurrentOf
<1>3. CurrentOf(ss, n + 1) <=> Works(r) /\ CookieOf(r).until \notin {"past", "over"}
  <2>1. (n + 1 + 1)..n + 1 = {}
    BY <1>1
  <2> QED  BY <1>1, <2>1 DEF CurrentOf
<1>4. 1..n + 1 = 1..n \cup {n + 1}
  BY <1>1
<1> HIDE DEF n
<1>5. (\E i \in 1..n + 1 : Origin(ss[i].url) = o /\ CurrentOf(ss, i) /\ d = CookieOf(ss[i]))
      <=> \/ \E i \in 1..n : Origin(rs[i].url) = o /\ CurrentOf(rs, i) /\ ~Replaces(r, rs[i]) /\ d = CookieOf(rs[i])
          \/ Origin(r.url) = o /\ Works(r) /\ CookieOf(r).until \notin {"past", "over"} /\ d = CookieOf(r)
  BY <1>1, <1>2, <1>3, <1>4
<1>6. \A i \in 1..n : Origin(rs[i].url) = o => (Replaces(r, rs[i]) <=> Works(r) /\ Origin(r.url) = o /\ cookieIdentity(CookieOf(r), CookieOf(rs[i])))
  BY DEF Replaces
<1>7. IsCurrentIn(d, o, ss)
      <=> \/ IsCurrentIn(d, o, rs) /\ ~(Works(r) /\ Origin(r.url) = o /\ cookieIdentity(CookieOf(r), d))
          \/ Origin(r.url) = o /\ Works(r) /\ CookieOf(r).until \notin {"past", "over"} /\ d = CookieOf(r)
  BY <1>1, <1>5, <1>6 DEF IsCurrentIn, n
<1> QED  BY <1>7 DEF ss

LEMMA RemovedCookies ==
    ASSUME NEW jar \in Seq(Cookies), NEW c
    PROVE  /\ removeCookie(jar, c) \in Seq(Cookies)
           /\ ToSet(removeCookie(jar, c)) = {d \in ToSet(jar) : ~cookieIdentity(d, c)}
<1> DEFINE S == {d \in ToSet(jar) : ~cookieIdentity(d, c)}
<1>1. S = ToSet(jar) \cap S
  OBVIOUS
<1>2. Chosen(jar, S) \in Seq(Cookies) /\ ToSet(Chosen(jar, S)) = ToSet(jar) \cap S
  <2> HIDE DEF S
  <2> QED  BY ChosenElements
<1> QED  BY <1>1, <1>2 DEF removeCookie

LEMMA UpsertedCookies ==
    ASSUME NEW jar \in Seq(Cookies), NEW c \in Cookies
    PROVE  /\ upsertCookie(jar, c) \in Seq(Cookies)
           /\ ToSet(upsertCookie(jar, c)) = {d \in ToSet(jar) : ~cookieIdentity(d, c)} \cup {c}
<1>1. DOMAIN jar = 1..Len(jar) /\ Len(jar) \in Nat /\ \A i \in 1..Len(jar) : jar[i] \in Cookies
  BY ListProperties
<1>2. CASE \E i \in DOMAIN jar : cookieIdentity(jar[i], c)
  <2> DEFINE s == [i \in DOMAIN jar |-> IF cookieIdentity(jar[i], c) THEN c ELSE jar[i]]
  <2>1. upsertCookie(jar, c) = s
    BY <1>2 DEF upsertCookie
  <2>2. s \in Seq(Cookies) /\ DOMAIN s = DOMAIN jar
    BY <1>1
  <2>3. \A i \in DOMAIN jar : s[i] = IF cookieIdentity(jar[i], c) THEN c ELSE jar[i]
    OBVIOUS
  <2> HIDE DEF s
  <2> QED  BY <1>2, <2>1, <2>2, <2>3 DEF ToSet
<1>3. CASE ~\E i \in DOMAIN jar : cookieIdentity(jar[i], c)
  <2>1. upsertCookie(jar, c) = Append(jar, c)
    BY <1>3 DEF upsertCookie
  <2>2. Append(jar, c) \in Seq(Cookies) /\ ToSet(Append(jar, c)) = ToSet(jar) \cup {c}
    BY AppendProperties, AppendedElements
  <2>3. \A d \in ToSet(jar) : ~cookieIdentity(d, c)
    BY <1>3 DEF ToSet
  <2> QED  BY <2>1, <2>2, <2>3
<1> QED  BY <1>2, <1>3

LEMMA CookiesStart == CookiesInit => CookiesInv
<1> SUFFICES ASSUME CookiesInit PROVE CookiesInv
  OBVIOUS
<1>1. received = <<>> /\ Len(received) = 0 /\ \A o \in Origins : kept[o] = <<>> /\ ToSet(kept[o]) = {}
  BY DEF CookiesInit, Origins, ToSet
<1>2. MaxLines \in Nat
  BY CookieAssumption DEF CookieAssumption
<1>3. kept \in [Origins -> Seq(Cookies)]
  BY DEF CookiesInit, Origins
<1>4. \A o \in Origins : JarIsCurrent(kept[o], o, received)
  BY <1>1 DEF JarIsCurrent, IsCurrentIn
<1> QED  BY <1>1, <1>2, <1>3, <1>4 DEF CookiesInv

LEMMA ResponseKeepsCookies == CookiesInv /\ ResponseArrives => CookiesInv'
<1> SUFFICES ASSUME CookiesInv, ResponseArrives PROVE CookiesInv'
  OBVIOUS
<1>1. PICK u \in Pages, line \in CookieLines :
          /\ Len(received) < MaxLines /\ received' = Append(received, [url |-> u, line |-> line])
          /\ SetCookies(u, line)
  BY DEF ResponseArrives
<1> DEFINE r == [url |-> u, line |-> line]
           o == Origin(u)
           c == Prepared(u, line)
           jar == kept[o]
<1>2. line \in Cookies /\ line.until # "over"
  BY CookieAssumption DEF CookieAssumption
<1>3. r \in Lines /\ r.url = u /\ CookieOf(r) = c /\ o \in Origins /\ jar \in Seq(Cookies)
  BY <1>2 DEF Lines, CookieOf, Origins, CookiesInv
<1>4. c \in Cookies /\ c.until # "over" /\ c.until \in {"never", "later", "past"}
  <2>1. c \in Cookies /\ c.until = line.until
    BY <1>2, PreparedIs
  <2> QED  BY <1>2, <2>1 DEF Cookies
<1>5. kept' = [kept EXCEPT ![o] = IF ~Acceptable(u, c) THEN @
                                  ELSE IF c.until = "past" THEN removeCookie(@, c)
                                  ELSE IF isValidCookieForURL(u, c) THEN upsertCookie(@, c) ELSE @]
  BY <1>1 DEF SetCookies
<1>6. Works(r) <=> Acceptable(u, c) /\ (c.until = "past" \/ (pathMatches(u.path, c.path) /\ (c.secure => u.scheme = "https")))
  BY <1>3, WorksIs
<1>7. Acceptable(u, c) => (isValidCookieForURL(u, c) <=> pathMatches(u.path, c.path) /\ (c.secure => u.scheme = "https"))
  BY <1>4 DEF Acceptable, isValidCookieForURL, validCookieDomain
<1>8. received \in Seq(Lines) /\ received' \in Seq(Lines) /\ Len(received') = Len(received) + 1 /\ Len(received') <= MaxLines
  <2>1. received \in Seq(Lines) /\ Len(received) \in Nat /\ MaxLines \in Nat
    BY ListProperties, CookieAssumption DEF CookiesInv, CookieAssumption
  <2> HIDE DEF r
  <2> QED  BY <1>1, <1>3, <2>1, AppendProperties DEF r
<1> HIDE DEF c, r, o
<1>9. /\ kept'[o] \in Seq(Cookies)
      /\ ToSet(kept'[o]) = IF ~Works(r) THEN ToSet(jar)
                           ELSE IF c.until = "past" THEN {d \in ToSet(jar) : ~cookieIdentity(d, c)}
                           ELSE {d \in ToSet(jar) : ~cookieIdentity(d, c)} \cup {c}
  <2>1. kept'[o] = IF ~Acceptable(u, c) THEN jar
                   ELSE IF c.until = "past" THEN removeCookie(jar, c)
                   ELSE IF isValidCookieForURL(u, c) THEN upsertCookie(jar, c) ELSE jar
    BY <1>3, <1>5 DEF CookiesInv
  <2>2. CASE ~Works(r)
    <3>1. kept'[o] = jar
      BY <1>6, <1>7, <2>1, <2>2
    <3> QED  BY <1>3, <2>2, <3>1
  <2>3. CASE Works(r) /\ c.until = "past"
    <3>1. kept'[o] = removeCookie(jar, c)
      BY <1>6, <2>1, <2>3
    <3> QED  BY <1>3, <2>3, <3>1, RemovedCookies
  <2>4. CASE Works(r) /\ c.until # "past"
    <3>1. kept'[o] = upsertCookie(jar, c)
      BY <1>6, <1>7, <2>1, <2>4
    <3> QED  BY <1>3, <1>4, <2>4, <3>1, UpsertedCookies
  <2> QED  BY <2>2, <2>3, <2>4
<1>10. kept' \in [Origins -> Seq(Cookies)] /\ \A x \in Origins : x # o => kept'[x] = kept[x]
  BY <1>5, <1>9 DEF CookiesInv
<1>11. ASSUME NEW x \in Origins PROVE JarIsCurrent(kept'[x], x, received')
  <2>1. JarIsCurrent(kept[x], x, received)
    BY DEF CookiesInv
  <2>2. ASSUME NEW d
        PROVE  IsCurrentIn(d, x, received')
               <=> \/ d \in ToSet(kept[x]) /\ d.until # "over" /\ ~(Works(r) /\ o = x /\ cookieIdentity(c, d))
                   \/ o = x /\ Works(r) /\ c.until # "past" /\ d = c
    <3>1. received' = Append(received, r)
      BY <1>1 DEF r
    <3>2. Origin(r.url) = o
      BY <1>3 DEF o
    <3>3. d \in ToSet(kept[x]) /\ d.until # "over" <=> IsCurrentIn(d, x, received)
      BY <2>1 DEF JarIsCurrent
    <3>4. IsCurrentIn(d, x, Append(received, r))
          <=> \/ IsCurrentIn(d, x, received) /\ ~(Works(r) /\ Origin(r.url) = x /\ cookieIdentity(CookieOf(r), d))
              \/ Origin(r.url) = x /\ Works(r) /\ CookieOf(r).until \notin {"past", "over"} /\ d = CookieOf(r)
      BY <1>3, <1>8, LineArrives
    <3> QED  BY <1>3, <1>4, <3>1, <3>2, <3>3, <3>4
  <2>3. \A d : cookieIdentity(c, d) <=> cookieIdentity(d, c)
    BY DEF cookieIdentity
  <2>4. CASE x # o
    BY <1>10, <2>2, <2>4 DEF JarIsCurrent
  <2>5. CASE x = o
    <3>1. \A d : d \in ToSet(kept'[x]) /\ d.until # "over"
              <=> \/ d \in ToSet(kept[x]) /\ d.until # "over" /\ ~(Works(r) /\ cookieIdentity(c, d))
                  \/ Works(r) /\ c.until # "past" /\ d = c
      BY <1>4, <1>9, <2>3, <2>5
    <3> QED  BY <2>2, <2>5, <3>1 DEF JarIsCurrent
  <2> QED  BY <2>4, <2>5
<1> QED  BY <1>8, <1>10, <1>11 DEF CookiesInv

(* Time passes for what was sent and for what is kept alike.               *)
Aged(c) == [c EXCEPT !.until = IF @ = "later" THEN "over" ELSE @]
AgedLine(r) == [r EXCEPT !.line.until = IF @ = "later" THEN "over" ELSE @]

LEMMA AgedIs ==
    ASSUME NEW c \in Cookies
    PROVE  /\ Aged(c) \in Cookies /\ Aged(c).domain = c.domain /\ Aged(c).path = c.path
           /\ Aged(c).secure = c.secure /\ Aged(c).site = c.site
           /\ Aged(c).until = IF c.until = "later" THEN "over" ELSE c.until
           /\ c.until # "later" => Aged(c) = c
  BY DEF Aged, Cookies

LEMMA AgedLineIs ==
    ASSUME NEW r \in Lines
    PROVE  /\ AgedLine(r) \in Lines /\ AgedLine(r).url = r.url
           /\ CookieOf(AgedLine(r)) = Aged(CookieOf(r)) /\ (Works(AgedLine(r)) <=> Works(r))
<1> DEFINE u == r.url
           c == r.line
           d == CookieOf(r)
<1>1. u \in Pages /\ c \in Cookies
  BY DEF Lines
<1>2. AgedLine(r) = [url |-> u, line |-> Aged(c)]
  BY DEF AgedLine, Aged, Lines, Cookies
<1>3. AgedLine(r) \in Lines /\ AgedLine(r).url = u /\ AgedLine(r).line = Aged(c)
  <2>1. Aged(c) \in Cookies
    BY <1>1, AgedIs
  <2> HIDE DEF c, u
  <2> QED  BY <1>1, <1>2, <2>1 DEF Lines
<1>4. Prepared(u, Aged(c)) = Aged(Prepared(u, c))
  <2> DEFINE q == IF c.path = <<>> \/ c.path[1] # "/" THEN defaultCookiePath(u.path) ELSE c.path
  <2>1. Prepared(u, c) = [c EXCEPT !.path = q] /\ Prepared(u, c) \in Cookies
    BY <1>1, PreparedIs DEF Prepared
  <2>2. Aged(c) \in Cookies /\ Aged(c).path = c.path
    BY <1>1, AgedIs
  <2>3. Prepared(u, Aged(c)) = [Aged(c) EXCEPT !.path = q]
    BY <2>2 DEF Prepared
  <2> HIDE DEF q, u, c
  <2>4. [Aged(c) EXCEPT !.path = q] = Aged([c EXCEPT !.path = q])
    BY <1>1 DEF Aged, Cookies
  <2> QED  BY <2>1, <2>3, <2>4
<1>5. CookieOf(AgedLine(r)) = Aged(d)
  BY <1>3, <1>4 DEF CookieOf
<1>6. d \in Cookies
  BY <1>1, PreparedIs DEF CookieOf
<1>7. /\ Aged(d).domain = d.domain /\ Aged(d).path = d.path /\ Aged(d).secure = d.secure /\ Aged(d).site = d.site
      /\ Aged(d).until = "past" <=> d.until = "past"
  BY <1>6, AgedIs
<1>8. Works(AgedLine(r)) <=> Works(r)
  <2>1. Works(r) <=> /\ d.site = "none" => d.secure
                     /\ IsSuffix(d.domain, u.host) /\ (d.domain # u.host => Len(d.domain) # 1)
                     /\ d.until = "past" \/ (Below(u.path, d.path) /\ (d.secure => u.scheme = "https"))
    BY DEF Works, CookieOf
  <2> DEFINE x == AgedLine(r)
             e == CookieOf(x)
  <2>2. Works(x) <=> /\ e.site = "none" => e.secure
                     /\ IsSuffix(e.domain, x.url.host) /\ (e.domain # x.url.host => Len(e.domain) # 1)
                     /\ e.until = "past" \/ (Below(x.url.path, e.path) /\ (e.secure => x.url.scheme = "https"))
    BY DEF Works, CookieOf
  <2> HIDE DEF d, u
  <2>3. e = Aged(d) /\ x.url = u
    BY <1>3, <1>5
  <2> HIDE DEF e, x
  <2>4. Works(x) <=> Works(r)
    BY <1>7, <2>1, <2>2, <2>3
  <2> QED  BY <2>4 DEF x
<1> QED  BY <1>3, <1>5, <1>8

LEMMA TimeKeepsCookies == CookiesInv /\ TimePasses => CookiesInv'
<1> SUFFICES ASSUME CookiesInv, TimePasses PROVE CookiesInv'
  OBVIOUS
<1> DEFINE n == Len(received)
<1>1. /\ received \in Seq(Lines) /\ n \in Nat /\ n <= MaxLines /\ DOMAIN received = 1..n
      /\ \A i \in 1..n : received[i] \in Lines
  BY ListProperties DEF CookiesInv
<1>2. received' = [i \in 1..n |-> AgedLine(received[i])]
  BY <1>1 DEF TimePasses, AgedLine
<1>3. /\ received' \in Seq(Lines) /\ Len(received') = n
      /\ \A i \in 1..n : received'[i] = AgedLine(received[i])
  <2>1. \A i \in 1..n : AgedLine(received[i]) \in Lines
    BY <1>1, AgedLineIs
  <2> HIDE DEF n
  <2> QED  BY <1>1, <1>2, <2>1
<1> HIDE DEF n
<1>4. ASSUME NEW i \in 1..n
      PROVE  /\ received'[i].url = received[i].url /\ CookieOf(received'[i]) = Aged(CookieOf(received[i]))
             /\ Works(received'[i]) <=> Works(received[i])
             /\ CookieOf(received[i]) \in Cookies
  <2>1. received[i] \in Lines /\ received[i].url \in Pages /\ received[i].line \in Cookies
    BY <1>1 DEF Lines
  <2> QED  BY <1>3, <2>1, AgedLineIs, PreparedIs DEF CookieOf
<1>5. ASSUME NEW i \in 1..n PROVE CurrentOf(received', i) <=> CurrentOf(received, i) /\ CookieOf(received[i]).until # "later"
  <2>1. (i + 1)..n \subseteq 1..n
    BY <1>1
  <2>2. ASSUME NEW j \in (i + 1)..n PROVE Replaces(received'[j], received'[i]) <=> Replaces(received[j], received[i])
    <3>1. j \in 1..n
      BY <2>1
    <3>2. /\ CookieOf(received'[i]).domain = CookieOf(received[i]).domain /\ CookieOf(received'[i]).path = CookieOf(received[i]).path
          /\ CookieOf(received'[j]).domain = CookieOf(received[j]).domain /\ CookieOf(received'[j]).path = CookieOf(received[j]).path
      BY <1>4, <3>1, AgedIs
    <3> QED  BY <1>4, <3>1, <3>2 DEF Replaces, cookieIdentity
  <2>3. CookieOf(received'[i]).until \notin {"past", "over"}
        <=> CookieOf(received[i]).until \notin {"past", "over"} /\ CookieOf(received[i]).until # "later"
    BY <1>4, AgedIs
  <2> QED  BY <1>1, <1>3, <1>4, <2>2, <2>3 DEF CurrentOf, n
<1>6. ASSUME NEW o, NEW d PROVE IsCurrentIn(d, o, received') <=> IsCurrentIn(d, o, received) /\ d.until # "later"
  <2>1. ASSUME NEW i \in 1..n, CookieOf(received[i]).until # "later" PROVE CookieOf(received'[i]) = CookieOf(received[i])
    BY <1>4, <2>1, AgedIs
  <2> QED  BY <1>3, <1>4, <1>5, <2>1 DEF IsCurrentIn, n
<1>7. ASSUME NEW o \in Origins
      PROVE  /\ kept'[o] \in Seq(Cookies) /\ JarIsCurrent(kept'[o], o, received')
  <2> DEFINE jar == kept[o]
  <2>1. jar \in Seq(Cookies) /\ DOMAIN jar = 1..Len(jar) /\ Len(jar) \in Nat /\ \A i \in 1..Len(jar) : jar[i] \in Cookies
    <3>1. jar \in Seq(Cookies)
      BY DEF CookiesInv
    <3> HIDE DEF jar
    <3> QED  BY <3>1, ListProperties
  <2>2. kept'[o] = [i \in 1..Len(jar) |-> Aged(jar[i])]
    BY <2>1 DEF TimePasses, CookiesInv, Aged
  <2>3. \A i \in 1..Len(jar) : Aged(jar[i]) \in Cookies
    BY <2>1, AgedIs
  <2>4. JarIsCurrent(jar, o, received)
    BY DEF CookiesInv
  <2> HIDE DEF jar
  <2>5. kept'[o] \in Seq(Cookies)
    BY <2>1, <2>2, <2>3
  <2>6. ToSet(kept'[o]) = {Aged(d) : d \in ToSet(jar)} /\ ToSet(jar) \subseteq Cookies
    BY <2>1, <2>2 DEF ToSet
  <2>7. ASSUME NEW d PROVE d \in ToSet(kept'[o]) /\ d.until # "over" <=> d \in ToSet(jar) /\ d.until # "over" /\ d.until # "later"
    <3>1. ASSUME d \in ToSet(kept'[o]), d.until # "over" PROVE d \in ToSet(jar) /\ d.until # "over" /\ d.until # "later"
      <4>1. PICK e \in ToSet(jar) : d = Aged(e) /\ e \in Cookies
        BY <2>6, <3>1
      <4>2. e.until # "later"
        BY <3>1, <4>1, AgedIs
      <4> QED  BY <3>1, <4>1, <4>2, AgedIs
    <3>2. ASSUME d \in ToSet(jar), d.until # "over", d.until # "later" PROVE d \in ToSet(kept'[o]) /\ d.until # "over"
      <4>1. Aged(d) = d
        BY <2>6, <3>2, AgedIs
      <4> QED  BY <2>6, <3>2, <4>1
    <3> QED  BY <3>1, <3>2
  <2> QED  BY <1>6, <2>4, <2>5, <2>7 DEF JarIsCurrent
<1>8. kept' \in [Origins -> Seq(Cookies)]
  <2>1. kept' = [o \in Origins |-> kept'[o]]
    BY DEF TimePasses, CookiesInv
  <2> QED  BY <1>7, <2>1
<1> QED  BY <1>1, <1>3, <1>7, <1>8 DEF CookiesInv

LEMMA CookiesKeep == CookiesInv /\ [CookiesNext]_cookieVars => CookiesInv'
<1>1. CookiesInv /\ UNCHANGED cookieVars => CookiesInv'
  BY DEF CookiesInv, cookieVars
<1> QED  BY <1>1, ResponseKeepsCookies, TimeKeepsCookies DEF CookiesNext

LEMMA CookiesHold == CookiesInv => CookiesTypeOK /\ CookiesAreMeant
<1> SUFFICES ASSUME CookiesInv PROVE CookiesTypeOK /\ CookiesAreMeant
  OBVIOUS
<1>1. CookiesTypeOK
  <2>1. ASSUME NEW o \in DOMAIN kept, NEW i \in DOMAIN kept[o] PROVE kept[o][i] \in Cookies
    <3>1. kept[o] \in Seq(Cookies)
      BY DEF CookiesInv
    <3> QED  BY <3>1, ListProperties
  <2> QED  BY <2>1 DEF CookiesInv, CookiesTypeOK
<1>2. ASSUME NEW u \in Pages, NEW from \in Pages \cup {NoInitiator}, NEW method \in {"GET", "POST", "OPTIONS"}
      PROVE  CookiesForRequest(u, from, method) =
                {c \in {Prepared(received[i].url, received[i].line) : i \in
                           {j \in DOMAIN received : Origin(received[j].url) = Origin(u) /\ Current(j)}} :
                    /\ method # "OPTIONS" /\ Below(u.path, c.path) /\ (c.secure => u.scheme = "https")
                    /\ Crosses(u, from) => \/ c.site = "none"
                                           \/ c.site = "lax" /\ from = NoInitiator /\ method = "GET"}
  <2> DEFINE o == Origin(u)
             current == {Prepared(received[i].url, received[i].line) : i \in
                           {j \in DOMAIN received : Origin(received[j].url) = Origin(u) /\ Current(j)}}
             Meant(c) == /\ method # "OPTIONS" /\ Below(u.path, c.path) /\ (c.secure => u.scheme = "https")
                         /\ Crosses(u, from) => \/ c.site = "none"
                                                \/ c.site = "lax" /\ from = NoInitiator /\ method = "GET"
             Taken(c) == method # "OPTIONS" /\ isValidCookieForURL(u, c) /\ sameSiteAllows(c, u, from, method)
  <2>1. received \in Seq(Lines) /\ DOMAIN received = 1..Len(received) /\ \A i \in 1..Len(received) : received[i] \in Lines
    BY ListProperties DEF CookiesInv
  <2>2. \A i \in 1..Len(received) : Current(i) <=> CurrentOf(received, i)
    BY DEF Current, CurrentOf, Replaces, CookieOf
  <2>3. \A d : d \in current <=> IsCurrentIn(d, o, received)
    BY <2>1, <2>2 DEF IsCurrentIn, CookieOf
  <2>4. \A d : d \in ToSet(kept[o]) /\ d.until # "over" <=> IsCurrentIn(d, o, received)
    BY DEF CookiesInv, JarIsCurrent, Origins
  <2>5. CookiesForRequest(u, from, method) = {c \in ToSet(kept[o]) : Taken(c)}
    BY DEF CookiesForRequest
  <2>6. ASSUME NEW c, Taken(c) PROVE c.until # "over"
    BY <2>6 DEF isValidCookieForURL
  <2>7. ASSUME NEW c \in current PROVE Taken(c) <=> Meant(c)
    <3>1. PICK i \in 1..Len(received) : Origin(received[i].url) = o /\ CurrentOf(received, i) /\ c = CookieOf(received[i])
      BY <2>3, <2>7 DEF IsCurrentIn
    <3>2. received[i] \in Lines /\ received[i].url \in Pages /\ received[i].line \in Cookies
      BY <2>1 DEF Lines
    <3>3. c \in Cookies /\ Len(c.path) > 0 /\ c.path[1] = "/" /\ c.path \in Seq(Characters) /\ c.site \in SitePolicies
      BY <3>1, <3>2, PreparedIs DEF CookieOf, Cookies
    <3>4. received[i].url.host = u.host
      BY <3>1 DEF Origin
    <3>5. Acceptable(received[i].url, c) /\ c.until # "over"
      BY <3>1, <3>2, WorksIs DEF CurrentOf
    <3>6. (c.site = "none" => c.secure) /\ domainMatches(u.host, c.domain)
      BY <3>4, <3>5 DEF Acceptable, validCookieDomain
    <3>7. pathMatches(u.path, c.path) <=> Below(u.path, c.path)
      BY <3>3, PagesHavePaths, PathsMatchBelow
    <3>8. isValidCookieForURL(u, c) <=> (c.secure => u.scheme = "https") /\ Below(u.path, c.path)
      BY <3>5, <3>6, <3>7 DEF isValidCookieForURL
    <3>9. Crosses(u, from) <=> ~sameSite(u, from)
      BY DEF Crosses, sameSite
    <3>10. method # "OPTIONS" => (sameSiteAllows(c, u, from, method) <=> (Crosses(u, from) => c.site = "none" \/ (c.site = "lax" /\ from = NoInitiator /\ method = "GET")))
      BY <3>3, <3>9 DEF sameSiteAllows, SitePolicies
    <3> QED  BY <3>8, <3>10
  <2> HIDE DEF current, Taken, Meant, o
  <2>8. {c \in ToSet(kept[o]) : Taken(c)} = {c \in current : Meant(c)}
    BY <2>3, <2>4, <2>6, <2>7
  <2> QED  BY <2>5, <2>8 DEF current, Meant
<1> QED  BY <1>1, <1>2 DEF CookiesAreMeant

-----------------------------------------------------------------------------
(* The gallery.  A package is unpacked entry by entry.                     *)
SameFile(x, y) == x.name = y.name /\ x.under = y.under

LEMMA PackagesAreLists ==
    ASSUME NEW a \in Archives
    PROVE  a \in Seq(ToSet(a)) /\ DOMAIN a = 1..Len(a) /\ Len(a) \in Nat
<1>1. a \in Seq(ToSet(a))
  BY GalleryAssumption DEF GalleryAssumption
<1> QED  BY <1>1, ListProperties

Packages == Archives \cup {NoArchive}

(* What unpacking a package may leave.                                     *)
Unpackings(a) ==
    LET lying == (UNION {scanDirs[id] : id \in ListingIDs}) \cup ToSet(a) IN
    [dirs : [ListingIDs -> SUBSET lying], files : [PackageFiles -> Packages], ok : BOOLEAN]

(* All entries of the package stay in the directory it is unpacked into.   *)
StaysInside(a) == \A e \in ToSet(a) : e.leads = "in"

\* What there is after each entry.
AreExtractions(f, id, file, a) ==
    /\ f[0] = [dirs |-> scanDirs, files |-> downloadDir, ok |-> TRUE] /\ Extracted(id, file, a) = f[Len(a)]
    /\ \A n \in 1..Len(a) : f[n] = IF f[n - 1].ok THEN Laid(f[n - 1], id, file, a[n]) ELSE f[n - 1]
    /\ \A n \in 0..Len(a) : f[n] \in Unpackings(a)

(* One entry.                                                              *)
LEMMA EntriesAreLaid ==
    ASSUME NEW a \in Archives, NEW e \in ToSet(a), NEW at \in Unpackings(a),
           NEW id \in ListingIDs, NEW file \in PackageFiles
    PROVE  /\ Laid(at, id, file, e) \in Unpackings(a)
           /\ Laid(at, id, file, e).ok => Laid(at, id, file, e).files[file] = at.files[file]
           /\ e.leads = "in" /\ Laid(at, id, file, e).ok => Laid(at, id, file, e).dirs[id] = Placed(at.dirs[id], e)
<1> DEFINE lying == (UNION {scanDirs[x] : x \in ListingIDs}) \cup ToSet(a)
           laid == Laid(at, id, file, e)
           dir == IF e.leads = "in" THEN id ELSE e.leads
<1>0. /\ {"in", "beside", "away"} \cap ListingIDs = {}
      /\ e.leads \in {"in", "beside", "away"} \cup ListingIDs
      /\ e.leads = "beside" => e.name \in PackageFiles /\ e.holds \in Packages
  BY GalleryAssumption DEF GalleryAssumption, Packages
<1>1. /\ at.dirs \in [ListingIDs -> SUBSET lying] /\ at.files \in [PackageFiles -> Packages] /\ at.ok \in BOOLEAN
      /\ at = [dirs |-> at.dirs, files |-> at.files, ok |-> at.ok]
  BY DEF Unpackings
<1>2. \A d, f, b : /\ [dirs |-> d, files |-> f, ok |-> b] \in Unpackings(a) <=>
                         d \in [ListingIDs -> SUBSET lying] /\ f \in [PackageFiles -> Packages] /\ b \in BOOLEAN
  BY DEF Unpackings
<1>7. \A d \in [ListingIDs -> SUBSET lying], f \in [PackageFiles -> Packages] :
          [dirs |-> d, files |-> f, ok |-> FALSE] \in Unpackings(a)
  BY DEF Unpackings
<1>3. CASE e.leads = "away"
  BY <1>3 DEF Laid
<1>4. CASE e.leads = "beside" /\ e.name = file
  <2>1. laid = [dirs |-> at.dirs, files |-> [at.files EXCEPT ![file] = NoArchive], ok |-> FALSE]
    BY <1>1, <1>4 DEF Laid
  <2>2. [at.files EXCEPT ![file] = NoArchive] \in [PackageFiles -> Packages]
    BY <1>1 DEF Packages
  <2>3. laid \in Unpackings(a)
    BY <1>1, <1>7, <2>1, <2>2
  <2> QED  BY <1>4, <2>1, <2>3
<1>5. CASE e.leads = "beside" /\ e.name # file
  <2>1. laid = [dirs |-> at.dirs, files |-> [at.files EXCEPT ![e.name] = e.holds], ok |-> at.ok]
    BY <1>1, <1>5 DEF Laid
  <2>2. [at.files EXCEPT ![e.name] = e.holds] \in [PackageFiles -> Packages]
    BY <1>0, <1>1, <1>5
  <2>3. laid \in Unpackings(a)
    BY <1>1, <1>2, <2>1, <2>2
  <2>4. laid.files[file] = at.files[file]
    BY <1>1, <1>5, <2>1
  <2> QED  BY <1>5, <2>3, <2>4
<1>6. CASE e.leads \notin {"away", "beside"}
  <2>1. dir \in ListingIDs /\ (e.leads = "in" => dir = id)
    BY <1>0, <1>6
  <2>2. CASE Fits(at.dirs[dir], e)
    <3>1. laid = [dirs |-> [at.dirs EXCEPT ![dir] = Placed(at.dirs[dir], e)], files |-> at.files, ok |-> at.ok]
      BY <1>1, <1>6, <2>2 DEF Laid
    <3>2. Placed(at.dirs[dir], e) \in SUBSET lying
      BY <1>1, <2>1 DEF Placed
    <3>3. [at.dirs EXCEPT ![dir] = Placed(at.dirs[dir], e)] \in [ListingIDs -> SUBSET lying]
      BY <1>1, <3>2
    <3>4. laid \in Unpackings(a)
      BY <1>1, <1>2, <3>1, <3>3
    <3>5. e.leads = "in" => laid.dirs[id] = Placed(at.dirs[id], e)
      BY <1>1, <2>1, <3>1
    <3> QED  BY <3>1, <3>4, <3>5
  <2>3. CASE ~Fits(at.dirs[dir], e)
    <3>1. laid = [dirs |-> at.dirs, files |-> at.files, ok |-> FALSE]
      BY <1>1, <1>6, <2>3 DEF Laid
    <3>2. laid \in Unpackings(a)
      BY <1>1, <1>7, <3>1
    <3> QED  BY <3>1, <3>2
  <2> QED  BY <2>2, <2>3
<1> QED  BY <1>3, <1>4, <1>5, <1>6

LEMMA ExtractionSteps ==
    ASSUME NEW a \in Archives, NEW id \in ListingIDs, NEW file \in PackageFiles,
           downloadDir \in [PackageFiles -> Packages], scanDirs = [x \in ListingIDs |-> scanDirs[x]]
    PROVE  \E f : AreExtractions(f, id, file, a)
<1> DEFINE N == Len(a)
           V == Unpackings(a)
           Next1(x, n) == IF x.ok THEN Laid(x, id, file, a[n]) ELSE x
           step == [n \in 1..N |-> [x \in V |-> Next1(x, n)]]
           v == [dirs |-> scanDirs, files |-> downloadDir, ok |-> TRUE]
           Upon(f) == [n \in 0..N |->
                          IF n = 0 THEN [dirs |-> scanDirs, files |-> downloadDir, ok |-> TRUE]
                          ELSE IF f[n - 1].ok THEN Laid(f[n - 1], id, file, a[n])
                               ELSE f[n - 1]]
<1>0. N \in Nat /\ DOMAIN a = 1..N
  BY PackagesAreLists
<1>1. v \in V
  BY DEF Unpackings
<1>2. ASSUME NEW x \in V, NEW n \in 1..N PROVE Next1(x, n) \in V
  <2>1. a[n] \in ToSet(a)
    BY <1>0 DEF ToSet
  <2> QED  BY <2>1, EntriesAreLaid
<1>3. \A x \in V, n \in 1..N : step[n][x] = Next1(x, n)
  OBVIOUS
<1>4. PICK f : IsRun(f, v, step, N, V)
  <2> HIDE DEF V, step, Next1, v
  <2>1. StaysIn(step, N, V)
    BY <1>2, <1>3 DEF StaysIn
  <2> QED  BY <1>0, <1>1, <2>1, DefinedUpTo
<1>5. ASSUME NEW n \in 1..N PROVE f[n] = Next1(f[n - 1], n)
  <2>1. n - 1 \in 0..N
    BY <1>0
  <2> HIDE DEF step, V, Next1
  <2>2. f[n - 1] \in V /\ f[n] = step[n][f[n - 1]]
    BY <1>4, <2>1 DEF IsRun
  <2> QED  BY <1>3, <2>2
<1>6. f = Upon(f)
  <2>1. \A n \in 0..N : n # 0 => n \in 1..N
    BY <1>0
  <2>2. f[0] = v /\ f = [n \in 0..N |-> f[n]]
    <3> HIDE DEF V, step, v
    <3> QED  BY <1>4 DEF IsRun
  <2>3. \A n \in 0..N : f[n] = Upon(f)[n]
    BY <1>5, <2>1, <2>2
  <2> QED  BY <2>2, <2>3
<1> DEFINE F == CHOOSE g : g = Upon(g)
<1>7. F = Upon(F)
  <2> HIDE DEF Upon
  <2> QED  BY <1>6
<1>8. Extracted(id, file, a) = F[N]
  BY DEF Extracted
<1> HIDE DEF F
<1>9. /\ F[0] = v
      /\ \A n \in 1..N : F[n] = Next1(F[n - 1], n)
  <2>1. 0 \in 0..N /\ \A n \in 1..N : n # 0 /\ n \in 0..N
    BY <1>0
  <2>2. F[0] = Upon(F)[0] /\ \A n \in 1..N : F[n] = Upon(F)[n]
    BY <1>7
  <2> QED  BY <2>1, <2>2
<1>10. \A n \in 0..N : F[n] \in V
  <2> DEFINE P == {n \in 0..N : F[n] \in V}
  <2>1. 0 \in P
    BY <1>0, <1>1, <1>9
  <2>2. ASSUME NEW n \in 1..N, n - 1 \in P PROVE n \in P
    <3>1. F[n - 1] \in V /\ n \in 0..N
      BY <1>0, <2>2
    <3>2. F[n] = Next1(F[n - 1], n)
      BY <1>9
    <3> HIDE DEF V, Next1
    <3> QED  BY <1>2, <3>1, <3>2
  <2>3. \A n \in 0..N : n \in P
    <3> HIDE DEF P, N
    <3> QED  BY <1>0, <2>1, <2>2, AllUpTo
  <2> QED  BY <2>3
<1>11. AreExtractions(F, id, file, a)
  BY <1>8, <1>9, <1>10 DEF AreExtractions
<1> QED  BY <1>11

(* When all of a package was unpacked, its file is what it was, and, if no *)
(* entry led elsewhere, its entries are in the directory.                  *)
LEMMA UnpackedFiles ==
    ASSUME NEW a \in Archives, NEW id \in ListingIDs, NEW file \in PackageFiles,
           downloadDir \in [PackageFiles -> Packages], scanDirs = [x \in ListingIDs |-> scanDirs[x]]
    PROVE  /\ Extracted(id, file, a) \in Unpackings(a)
           /\ Extracted(id, file, a).ok => Extracted(id, file, a).files[file] = downloadDir[file]
           /\ Extracted(id, file, a).ok /\ StaysInside(a) => Lasting(a) \subseteq Extracted(id, file, a).dirs[id]
<1>0. a \in Seq(ToSet(a)) /\ DOMAIN a = 1..Len(a) /\ Len(a) \in Nat
  BY PackagesAreLists
<1> DEFINE N == Len(a)
<1>1. PICK f : AreExtractions(f, id, file, a)
  BY ExtractionSteps
<1> DEFINE Lies(n) == StaysInside(a) => \A k \in 1..n : (\A m \in k + 1..n : ~SameFile(a[m], a[k])) => a[k] \in f[n].dirs[id]
           P == {n \in 0..N : f[n].ok => f[n].files[file] = downloadDir[file] /\ Lies(n)}
<1>2. 0 \in P
  BY <1>0, <1>1 DEF AreExtractions
<1>3. ASSUME NEW n \in 1..N, n - 1 \in P PROVE n \in P
  <2>1. n \in 0..N /\ n \in Nat /\ n >= 1 /\ a[n] \in ToSet(a) /\ n - 1 \in 0..N
    BY <1>0 DEF ToSet
  <2> SUFFICES ASSUME f[n].ok PROVE f[n].files[file] = downloadDir[file] /\ Lies(n)
    BY <2>1
  <2>2. f[n] = IF f[n - 1].ok THEN Laid(f[n - 1], id, file, a[n]) ELSE f[n - 1]
    BY <1>1 DEF AreExtractions
  <2>3. f[n - 1].ok /\ f[n] = Laid(f[n - 1], id, file, a[n])
    BY <2>2
  <2>4. f[n - 1].files[file] = downloadDir[file] /\ Lies(n - 1)
    BY <1>3, <2>3
  <2>5. f[n - 1] \in Unpackings(a)
    BY <1>1, <2>1 DEF AreExtractions
  <2>6. /\ f[n].files[file] = f[n - 1].files[file]
        /\ a[n].leads = "in" => f[n].dirs[id] = Placed(f[n - 1].dirs[id], a[n])
    BY <2>1, <2>3, <2>5, EntriesAreLaid
  <2> SUFFICES ASSUME StaysInside(a), NEW k \in 1..n, \A m \in k + 1..n : ~SameFile(a[m], a[k])
               PROVE  a[k] \in f[n].dirs[id]
    BY <2>4, <2>6
  <2>7. f[n].dirs[id] = Placed(f[n - 1].dirs[id], a[n])
    BY <2>1, <2>6 DEF StaysInside
  <2>8. CASE k = n
    BY <2>7, <2>8 DEF Placed
  <2>9. CASE k # n
    <3>1. k \in 1..n - 1 /\ n \in k + 1..n /\ \A m \in k + 1..n - 1 : m \in k + 1..n
      BY <2>1, <2>9
    <3>2. a[k] \in f[n - 1].dirs[id] /\ ~SameFile(a[n], a[k])
      BY <2>4, <3>1
    <3> QED  BY <2>7, <3>2 DEF Placed, SameFile
  <2> QED  BY <2>8, <2>9
<1>4. N \in P
  <2> HIDE DEF P, N
  <2>1. \A n \in 0..N : n \in P
    BY <1>0, <1>2, <1>3, AllUpTo DEF N
  <2> QED  BY <1>0, <2>1 DEF N
<1>5. Extracted(id, file, a) = f[N] /\ f[N] \in Unpackings(a)
  BY <1>0, <1>1 DEF AreExtractions
<1>6. f[N].ok => f[N].files[file] = downloadDir[file] /\ Lies(N)
  BY <1>4
<1>7. ASSUME f[N].ok, StaysInside(a), NEW e \in Lasting(a) PROVE e \in f[N].dirs[id]
  <2>1. PICK k \in DOMAIN a : /\ e = a[k]
                              /\ \A m \in DOMAIN a : a[m].name = a[k].name /\ a[m].under = a[k].under => m <= k
    BY <1>7 DEF Lasting
  <2>2. k \in 1..N /\ \A m \in k + 1..N : m \in DOMAIN a /\ ~(m <= k)
    BY <1>0
  <2>3. \A m \in k + 1..N : ~SameFile(a[m], a[k])
    BY <2>1, <2>2 DEF SameFile
  <2> QED  BY <1>6, <1>7, <2>1, <2>2, <2>3
<1> QED  BY <1>5, <1>6, <1>7

Places == {"idle", "verify", "extract", "scan", "install", "installed"}
AllOffers == UNION {Offers[id] : id \in ListingIDs}
Jobs == [at : Places, id : ListingIDs \cup {PackageRoot}, offer : AllOffers \cup {PackageRoot},
         strict : BOOLEAN, alone : BOOLEAN, took : Archives \cup {NoArchive}]

(* What the files of a package went through that nobody disturbed.         *)
IsSafe(a, strict) == \A entry \in Lasting(a) : ~Refused(entry, strict)

JobIsRight(j, dirs, files) ==
    LET a == files[j.offer.file] IN
    /\ j.at # "idle" => j.id \in ListingIDs /\ j.offer \in AllOffers
    /\ j.alone => /\ j.at \in {"extract", "scan", "install"} => j.offer.sum \in {NoArchive, a}
                  /\ j.at \in {"scan", "install"} => a # NoArchive /\ (StaysInside(a) => Lasting(a) \subseteq dirs[j.id])
                  /\ j.at = "install" /\ StaysInside(a) => IsSafe(a, j.strict)
                  /\ j.at = "installed" => /\ j.offer.sum \in {NoArchive, j.took}
                                           /\ j.took # NoArchive /\ IsSafe(j.took, j.strict)

(* Of two installations of one listing neither is alone.                   *)
AloneInListing ==
    \A i, j \in Installers : i # j /\ job[i].at # "idle" /\ job[j].at # "idle" /\ job[i].id = job[j].id
                             => ~job[i].alone /\ ~job[j].alone

IndexIsRebuilt ==
    /\ DOMAIN listings \subseteq ListingIDs /\ \A id \in DOMAIN listings : listings[id] \in AllOffers
    /\ IsFiniteSet(DOMAIN listings)
    /\ \A c \in Categories : categories[c] \in Popular(listings, {id \in DOMAIN listings : listings[id].category = c})

GalleryInv ==
    /\ strictRules \in BOOLEAN /\ downloadDir \in [PackageFiles -> Packages]
    /\ scanDirs = [id \in ListingIDs |-> scanDirs[id]]
    /\ job \in [Installers -> Jobs]
    /\ \A i \in Installers : JobIsRight(job[i], scanDirs, downloadDir)
    /\ AloneInListing /\ IndexIsRebuilt

LEMMA OffersAreOfFiles ==
    /\ NoArchive \notin Archives
    /\ \A o \in AllOffers : o.file \in PackageFiles /\ o.sum \in Packages
  BY GalleryAssumption DEF GalleryAssumption, Packages, AllOffers

LEMMA EmptyIndex == Bijection(1..Cardinality({}), {}) # {} /\ \A f \in Bijection(1..Cardinality({}), {}) : f = <<>>
<1>1. Cardinality({}) = 0 /\ 1..0 = {}
  BY FS_EmptySet
<1>2. <<>> \in [{} -> {}] /\ \A f \in [{} -> {}] : f = <<>>
  OBVIOUS
<1>3. DOMAIN <<>> = {}
  OBVIOUS
<1>4. <<>> \in Bijection({}, {})
  BY <1>2, <1>3 DEF Bijection, Injection, Surjection, IsInjective
<1> QED  BY <1>1, <1>2, <1>4 DEF Bijection, Injection

LEMMA GalleryStarts == GalleryInit => GalleryInv
<1> SUFFICES ASSUME GalleryInit PROVE GalleryInv
  OBVIOUS
<1>1. job \in [Installers -> Jobs] /\ \A i \in Installers : job[i].at = "idle" /\ job[i].alone /\ job[i].at \notin {"extract", "scan", "install", "installed"}
  BY DEF GalleryInit, NoJob, Jobs, Places
<1>2. \A i \in Installers : JobIsRight(job[i], scanDirs, downloadDir)
  BY <1>1 DEF JobIsRight
<1>3. AloneInListing
  BY <1>1 DEF AloneInListing
<1>4. IndexIsRebuilt
  <2>1. DOMAIN listings = {}
    BY DEF GalleryInit
  <2>2. \A c \in Categories : categories[c] = <<>> /\ {id \in DOMAIN listings : listings[id].category = c} = {}
    BY <2>1 DEF GalleryInit
  <2>3. <<>> \in Popular(listings, {})
    <3>1. <<>> \in Bijection(1..Cardinality({}), {})
      BY EmptyIndex
    <3> QED  BY <3>1 DEF Popular
  <2>4. \A c \in Categories : categories[c] \in Popular(listings, {id \in DOMAIN listings : listings[id].category = c})
    BY <2>2, <2>3
  <2>5. IsFiniteSet(DOMAIN listings)
    BY <2>1, FS_EmptySet
  <2> QED  BY <2>1, <2>4, <2>5 DEF IndexIsRebuilt
<1>5. strictRules \in BOOLEAN /\ downloadDir \in [PackageFiles -> Packages] /\ scanDirs = [id \in ListingIDs |-> scanDirs[id]]
  BY DEF GalleryInit, Packages
<1> QED  BY <1>1, <1>2, <1>3, <1>4, <1>5 DEF GalleryInv

LEMMA AddListingKeeps == GalleryInv /\ AddListing => GalleryInv'
<1> SUFFICES ASSUME GalleryInv, AddListing PROVE GalleryInv'
  OBVIOUS
<1>1. PICK id \in ListingIDs, o \in AllOffers :
          /\ listings' = [x \in DOMAIN listings \cup {id} |-> IF x = id THEN o ELSE listings[x]]
          /\ categories' \in rebuildCategories(listings')
  BY DEF AddListing, AllOffers
<1>2. UNCHANGED <<strictRules, downloadDir, scanDirs, job>>
  BY DEF AddListing
<1>3. IndexIsRebuilt'
  <2>1. DOMAIN listings' \subseteq ListingIDs /\ \A x \in DOMAIN listings' : listings'[x] \in AllOffers
    BY <1>1 DEF GalleryInv, IndexIsRebuilt
  <2>2. \A c \in Categories : categories'[c] \in Popular(listings', {x \in DOMAIN listings' : listings'[x].category = c})
    BY <1>1 DEF rebuildCategories
  <2>3. DOMAIN listings' = DOMAIN listings \cup {id}
    BY <1>1
  <2>4. IsFiniteSet(DOMAIN listings')
    BY <2>3, FS_AddElement DEF GalleryInv, IndexIsRebuilt
  <2> QED  BY <2>1, <2>2, <2>4 DEF IndexIsRebuilt
<1>4. AloneInListing'
  BY <1>2 DEF GalleryInv, AloneInListing
<1> QED  BY <1>2, <1>3, <1>4 DEF GalleryInv

LEMMA StagePackageKeeps == GalleryInv /\ StagePackage => GalleryInv'
<1> SUFFICES ASSUME GalleryInv, StagePackage PROVE GalleryInv'
  OBVIOUS
<1>0. PICK d \in Deliveries :
          /\ downloadDir' = [downloadDir EXCEPT ![d.file] = d.package]
          /\ job' = [i \in Installers |->
                 IF job[i].at # "idle" /\ job[i].offer.file = d.file THEN [job[i] EXCEPT !.alone = FALSE] ELSE job[i]]
  BY DEF StagePackage
<1>1. PICK f \in PackageFiles, a \in Archives :
          /\ downloadDir' = [downloadDir EXCEPT ![f] = a]
          /\ job' = [i \in Installers |->
                 IF job[i].at # "idle" /\ job[i].offer.file = f THEN [job[i] EXCEPT !.alone = FALSE] ELSE job[i]]
  BY <1>0, GalleryAssumption DEF GalleryAssumption
<1>2. UNCHANGED <<listings, categories, strictRules, scanDirs>>
  BY DEF StagePackage
<1>3. downloadDir' \in [PackageFiles -> Packages]
  BY <1>1 DEF GalleryInv, Packages
<1>4. ASSUME NEW i \in Installers
      PROVE  /\ job'[i] \in Jobs /\ job'[i].at = job[i].at /\ job'[i].id = job[i].id
             /\ job'[i].alone => job[i].alone
             /\ JobIsRight(job[i], scanDirs, downloadDir)' 
  <2>1. job[i] \in Jobs /\ JobIsRight(job[i], scanDirs, downloadDir)
    BY DEF GalleryInv
  <2>2. CASE job[i].at # "idle" /\ job[i].offer.file = f
    <3>1. job'[i] = [job[i] EXCEPT !.alone = FALSE]
      BY <1>1, <2>2
    <3>2. job'[i] \in Jobs /\ job'[i].at = job[i].at /\ job'[i].id = job[i].id /\ ~job'[i].alone /\ job'[i].offer = job[i].offer
      BY <2>1, <3>1 DEF Jobs
    <3> QED  BY <2>1, <3>2 DEF JobIsRight
  <2>3. CASE ~(job[i].at # "idle" /\ job[i].offer.file = f)
    <3>1. job'[i] = job[i]
      BY <1>1, <2>3
    <3>2. CASE job[i].at = "idle"
      BY <2>1, <3>1, <3>2 DEF JobIsRight
    <3>3. CASE job[i].at # "idle"
      <4>1. job[i].offer \in AllOffers /\ job[i].offer.file \in PackageFiles /\ job[i].offer.file # f
        BY <2>1, <2>3, <3>3, OffersAreOfFiles DEF JobIsRight
      <4>2. downloadDir'[job[i].offer.file] = downloadDir[job[i].offer.file]
        BY <1>1, <4>1 DEF GalleryInv
      <4> QED  BY <1>2, <2>1, <3>1, <4>2 DEF JobIsRight
    <3> QED  BY <2>1, <3>1, <3>2, <3>3
  <2> QED  BY <2>2, <2>3
<1>5. job' \in [Installers -> Jobs]
  BY <1>1, <1>4
<1>6. AloneInListing'
  BY <1>4 DEF GalleryInv, AloneInListing
<1>7. IndexIsRebuilt'
  BY <1>2 DEF GalleryInv, IndexIsRebuilt, Popular
<1> QED  BY <1>2, <1>3, <1>4, <1>5, <1>6, <1>7 DEF GalleryInv

LEMMA GetListingKeeps == GalleryInv /\ GetListing => GalleryInv'
<1> SUFFICES ASSUME GalleryInv, GetListing PROVE GalleryInv'
  OBVIOUS
<1>1. PICK i \in Installers, id \in DOMAIN listings :
          LET others == {j \in Installers : job[j].at # "idle" /\ job[j].id = id} IN
          /\ JobAt(i, "idle")
          /\ job' = [j \in Installers |->
                 IF j = i THEN [NoJob EXCEPT !.at = "verify", !.id = id, !.offer = listings[id], !.alone = others = {}]
                 ELSE IF j \in others THEN [job[j] EXCEPT !.alone = FALSE] ELSE job[j]]
  BY DEF GetListing
<1> DEFINE others == {j \in Installers : job[j].at # "idle" /\ job[j].id = id}
<1>2. UNCHANGED <<listings, categories, strictRules, downloadDir, scanDirs>>
  BY DEF GetListing
<1>3. id \in ListingIDs /\ listings[id] \in AllOffers
  BY DEF GalleryInv, IndexIsRebuilt
<1>4. /\ job'[i] \in Jobs /\ job'[i].at = "verify" /\ job'[i].id = id /\ job'[i].offer = listings[id]
      /\ job'[i].alone <=> others = {}
  <2>1. job'[i] = [at |-> "verify", id |-> id, offer |-> listings[id], strict |-> FALSE, alone |-> others = {}, took |-> NoArchive]
    BY <1>1 DEF NoJob
  <2>2. (others = {}) \in BOOLEAN
    OBVIOUS
  <2> HIDE DEF others
  <2>3. job'[i] \in Jobs /\ job'[i].at = "verify" /\ job'[i].id = id /\ job'[i].offer = listings[id]
    BY <1>3, <2>1, <2>2 DEF Jobs, Places
  <2>4. job'[i].alone = (others = {})
    BY <2>1
  <2> QED  BY <2>3, <2>4
<1>5. ASSUME NEW j \in Installers \ {i}
      PROVE  /\ job'[j] \in Jobs /\ job'[j].at = job[j].at /\ job'[j].id = job[j].id
             /\ job'[j].alone => job[j].alone /\ j \notin others
             /\ JobIsRight(job[j], scanDirs, downloadDir)'
  <2>1. job[j] \in Jobs /\ JobIsRight(job[j], scanDirs, downloadDir)
    BY DEF GalleryInv
  <2>2. CASE j \in others
    <3>1. job'[j] = [job[j] EXCEPT !.alone = FALSE]
      BY <1>1, <2>2
    <3>2. /\ job'[j] \in Jobs /\ job'[j].at = job[j].at /\ job'[j].id = job[j].id /\ ~job'[j].alone
          /\ job'[j].offer = job[j].offer
      BY <2>1, <3>1 DEF Jobs
    <3> QED  BY <2>1, <3>2 DEF JobIsRight
  <2>3. CASE j \notin others
    <3>1. job'[j] = job[j]
      BY <1>1, <2>3
    <3> QED  BY <1>2, <2>1, <2>3, <3>1
  <2> QED  BY <2>2, <2>3
<1>6. JobIsRight(job[i], scanDirs, downloadDir)'
  BY <1>3, <1>4 DEF JobIsRight
<1>7. job' \in [Installers -> Jobs]
  BY <1>1, <1>4, <1>5
<1>8. AloneInListing'
  <2> SUFFICES ASSUME NEW j \in Installers, NEW k \in Installers, j # k,
                      job'[j].at # "idle", job'[k].at # "idle", job'[j].id = job'[k].id
               PROVE  ~job'[j].alone /\ ~job'[k].alone
    BY DEF AloneInListing
  <2>1. CASE j # i /\ k # i
    BY <1>5, <2>1 DEF GalleryInv, AloneInListing
  <2>2. ASSUME NEW m \in Installers \ {i}, job'[m].at # "idle", job'[m].id = id
        PROVE  ~job'[m].alone /\ ~job'[i].alone
    <3>1. m \in others
      BY <1>5, <2>2
    <3> QED  BY <1>4, <1>5, <3>1
  <2> HIDE DEF others
  <2>3. CASE j = i
    BY <1>4, <2>2, <2>3
  <2>4. CASE k = i
    BY <1>4, <2>2, <2>4
  <2> QED  BY <2>1, <2>3, <2>4
<1>9. IndexIsRebuilt'
  BY <1>2 DEF GalleryInv, IndexIsRebuilt, Popular
<1> QED  BY <1>2, <1>5, <1>6, <1>7, <1>8, <1>9 DEF GalleryInv

LEMMA NoJobIsRight == NoJob \in Jobs /\ NoJob.at = "idle" /\ \A dirs, files : JobIsRight(NoJob, dirs, files)
<1>1. NoJob \in Jobs /\ NoJob.at = "idle"
  BY DEF NoJob, Jobs, Places
<1> QED  BY <1>1 DEF JobIsRight

(* What the other steps of an installation have in common: what it wrote   *)
(* to is its own, or the one it belongs to is no longer alone.             *)
LEMMA InstallationKeeps ==
    ASSUME GalleryInv, NEW i \in Installers, NEW x \in Jobs, NEW done, job' = Beside(i, x, done),
           x.at = "idle" \/ (x.id = job[i].id /\ x.alone = job[i].alone /\ job[i].at # "idle"),
           UNCHANGED <<listings, categories, strictRules>>,
           scanDirs' = done.dirs, downloadDir' = done.files,
           done.dirs = [id \in ListingIDs |-> done.dirs[id]], done.files \in [PackageFiles -> Packages],
           JobIsRight(x, done.dirs, done.files)
    PROVE  GalleryInv'
<1>1. job'[i] = x
  BY DEF Beside
<1>2. ASSUME NEW j \in Installers \ {i}
      PROVE  /\ job'[j] \in Jobs /\ job'[j].at = job[j].at /\ job'[j].id = job[j].id
             /\ job'[j].alone => job[j].alone
             /\ JobIsRight(job'[j], done.dirs, done.files)
  <2>1. job[j] \in Jobs /\ JobIsRight(job[j], scanDirs, downloadDir)
    BY DEF GalleryInv
  <2> DEFINE other == job[j].at # "idle" /\ (\/ done.files[job[j].offer.file] # PackageOf(j)
                                             \/ done.dirs[job[j].id] # scanDirs[job[j].id])
  <2>2. CASE other
    <3>1. job'[j] = [job[j] EXCEPT !.alone = FALSE]
      BY <2>2 DEF Beside
    <3>2. /\ job'[j] \in Jobs /\ job'[j].at = job[j].at /\ job'[j].id = job[j].id
          /\ ~job'[j].alone /\ job'[j].offer = job[j].offer
      BY <2>1, <3>1 DEF Jobs
    <3> QED  BY <2>1, <3>2 DEF JobIsRight
  <2>3. CASE ~other
    <3>1. job'[j] = job[j]
      BY <2>3 DEF Beside
    <3>2. CASE job[j].at = "idle"
      BY <2>1, <3>1, <3>2 DEF JobIsRight
    <3>3. CASE job[j].at # "idle"
      <4>1. /\ done.files[job[j].offer.file] = downloadDir[job[j].offer.file]
            /\ done.dirs[job[j].id] = scanDirs[job[j].id]
        BY <2>3, <3>3 DEF PackageOf
      <4> QED  BY <2>1, <3>1, <4>1 DEF JobIsRight
    <3> QED  BY <2>1, <3>1, <3>2, <3>3
  <2> QED  BY <2>2, <2>3
<1>3. job' \in [Installers -> Jobs]
  <2>1. job' = [j \in Installers |-> job'[j]]
    BY DEF Beside
  <2>2. \A j \in Installers : job'[j] \in Jobs
    BY <1>1, <1>2
  <2> QED  BY <2>1, <2>2
<1>4. AloneInListing'
  <2> SUFFICES ASSUME NEW j \in Installers, NEW k \in Installers, j # k,
                      job'[j].at # "idle", job'[k].at # "idle", job'[j].id = job'[k].id
               PROVE  ~job'[j].alone /\ ~job'[k].alone
    BY DEF AloneInListing
  <2>1. \A m \in Installers : job'[m].at # "idle" =>
                                   job[m].at # "idle" /\ job'[m].id = job[m].id /\ (job'[m].alone => job[m].alone)
    BY <1>1, <1>2
  <2>2. job[j].at # "idle" /\ job[k].at # "idle" /\ job[j].id = job[k].id
    BY <2>1
  <2>3. ~job[j].alone /\ ~job[k].alone
    BY <2>2 DEF GalleryInv, AloneInListing
  <2> QED  BY <2>1, <2>3
<1>5. \A j \in Installers : JobIsRight(job'[j], scanDirs', downloadDir')
  BY <1>1, <1>2
<1>6. IndexIsRebuilt'
  BY DEF GalleryInv, IndexIsRebuilt, Popular
<1> QED  BY <1>3, <1>4, <1>5, <1>6 DEF GalleryInv

(* A step that writes nothing.                                             *)
LEMMA QuietStepKeeps ==
    ASSUME GalleryInv, NEW i \in Installers, NEW x \in Jobs, job' = [job EXCEPT ![i] = x],
           x.at = "idle" \/ (x.id = job[i].id /\ x.alone = job[i].alone /\ job[i].at # "idle"),
           UNCHANGED <<listings, categories, strictRules, downloadDir, scanDirs>>,
           JobIsRight(x, scanDirs, downloadDir)
    PROVE  GalleryInv'
<1> DEFINE done == [dirs |-> scanDirs, files |-> downloadDir]
<1>1. done.dirs = scanDirs /\ done.files = downloadDir
  OBVIOUS
<1>2. job = [j \in Installers |-> job[j]]
  BY DEF GalleryInv
<1>3. job' = Beside(i, x, done)
  BY <1>1, <1>2 DEF Beside, PackageOf
<1>4. done.dirs = [id \in ListingIDs |-> done.dirs[id]] /\ done.files \in [PackageFiles -> Packages]
  BY <1>1 DEF GalleryInv
<1> HIDE DEF done
<1> QED  BY <1>1, <1>3, <1>4, InstallationKeeps

LEMMA InstallingKeeps ==
    GalleryInv /\ (VerifyChecksum \/ ExtractXPI \/ ScanListing \/ InstallPackage \/ JobEnds) => GalleryInv'
<1> SUFFICES ASSUME GalleryInv, VerifyChecksum \/ ExtractXPI \/ ScanListing \/ InstallPackage \/ JobEnds
             PROVE  GalleryInv'
  OBVIOUS
<1>0. \A i \in Installers : job[i] \in Jobs /\ JobIsRight(job[i], scanDirs, downloadDir)
  BY DEF GalleryInv
<1>1. ASSUME NEW i \in Installers, Stops(i),
             UNCHANGED <<listings, categories, strictRules, downloadDir, scanDirs>>
      PROVE  GalleryInv'
  BY <1>1, NoJobIsRight, QuietStepKeeps DEF Stops
<1>2. ASSUME NEW i \in Installers, NEW x \in Jobs, job[i].at # "idle", job' = [job EXCEPT ![i] = x],
             x.id = job[i].id /\ x.alone = job[i].alone, JobIsRight(x, scanDirs, downloadDir),
             UNCHANGED <<listings, categories, strictRules, downloadDir, scanDirs>>
      PROVE  GalleryInv'
  BY <1>2, QuietStepKeeps
<1>3. CASE VerifyChecksum
  <2>1. PICK i \in Installers :
            /\ JobAt(i, "verify")
            /\ IF job[i].offer.sum \in {NoArchive, PackageOf(i)} THEN Goes(i, "extract") ELSE Stops(i)
            /\ UNCHANGED <<listings, categories, strictRules, downloadDir, scanDirs>>
    BY <1>3 DEF VerifyChecksum
  <2>2. job[i].at = "verify" /\ job[i].at # "idle" /\ job[i].at \in Places
    BY <2>1 DEF JobAt, Places
  <2>3. CASE job[i].offer.sum \in {NoArchive, PackageOf(i)}
    <3> DEFINE x == [job[i] EXCEPT !.at = "extract"]
    <3>1. x \in Jobs /\ x.at = "extract" /\ x.id = job[i].id /\ x.alone = job[i].alone /\ x.offer = job[i].offer
      BY <1>0 DEF Jobs, Places
    <3>2. job' = [job EXCEPT ![i] = x]
      BY <2>1, <2>3 DEF Goes
    <3> HIDE DEF x
    <3>3. JobIsRight(x, scanDirs, downloadDir)
      BY <1>0, <2>2, <2>3, <3>1 DEF JobIsRight, PackageOf
    <3> QED  BY <1>2, <2>1, <2>2, <3>1, <3>2, <3>3
  <2>4. CASE ~(job[i].offer.sum \in {NoArchive, PackageOf(i)})
    BY <1>1, <2>1, <2>2, <2>4
  <2> QED  BY <2>3, <2>4
<1>4. CASE ExtractXPI
  <2>1. PICK i \in Installers :
            /\ JobAt(i, "extract")
            /\ IF PackageOf(i) = NoArchive THEN Stops(i) /\ UNCHANGED <<scanDirs, downloadDir>>
               ELSE LET done == Extracted(job[i].id, job[i].offer.file, PackageOf(i)) IN
                    /\ scanDirs' = done.dirs /\ downloadDir' = done.files
                    /\ job' = Beside(i, IF done.ok THEN [job[i] EXCEPT !.at = "scan"] ELSE NoJob, done)
            /\ UNCHANGED <<listings, categories, strictRules>>
    BY <1>4 DEF ExtractXPI
  <2>2. /\ job[i].at = "extract" /\ job[i].at # "idle" /\ job[i] \in Jobs
        /\ job[i].id \in ListingIDs /\ job[i].offer \in AllOffers /\ job[i].offer.file \in PackageFiles
    BY <1>0, <2>1, OffersAreOfFiles DEF JobAt, JobIsRight
  <2>3. CASE PackageOf(i) = NoArchive
    BY <1>1, <2>1, <2>2, <2>3
  <2>4. CASE PackageOf(i) # NoArchive
    <3> DEFINE a == PackageOf(i)
               done == Extracted(job[i].id, job[i].offer.file, a)
               x == IF done.ok THEN [job[i] EXCEPT !.at = "scan"] ELSE NoJob
    <3>1. a \in Archives /\ a = downloadDir[job[i].offer.file]
      BY <2>2, <2>4 DEF PackageOf, GalleryInv, Packages
    <3>2. scanDirs' = done.dirs /\ downloadDir' = done.files /\ job' = Beside(i, x, done)
      BY <2>1, <2>4
    <3>3. /\ done \in Unpackings(a)
          /\ done.ok => done.files[job[i].offer.file] = a
          /\ done.ok /\ StaysInside(a) => Lasting(a) \subseteq done.dirs[job[i].id]
      BY <2>2, <3>1, UnpackedFiles DEF GalleryInv
    <3> HIDE DEF done
    <3>4. done.dirs = [id \in ListingIDs |-> done.dirs[id]] /\ done.files \in [PackageFiles -> Packages]
      BY <3>3 DEF Unpackings
    <3>5. CASE ~done.ok
      <4>1. x = NoJob
        BY <3>5
      <4>2. JobIsRight(x, done.dirs, done.files) /\ x \in Jobs /\ x.at = "idle"
        BY <4>1, NoJobIsRight
      <4> HIDE DEF x
      <4> QED  BY <2>1, <3>2, <3>4, <4>2, InstallationKeeps
    <3>6. CASE done.ok
      <4>1. x = [job[i] EXCEPT !.at = "scan"]
        BY <3>6
      <4>2. x \in Jobs /\ x.at = "scan" /\ x.id = job[i].id /\ x.alone = job[i].alone /\ x.offer = job[i].offer
        BY <2>2, <4>1 DEF Jobs, Places
      <4> HIDE DEF x
      <4>3. JobIsRight(x, done.dirs, done.files)
        BY <1>0, <2>2, <2>4, <3>1, <3>3, <3>6, <4>2 DEF JobIsRight
      <4> QED  BY <2>1, <2>2, <3>2, <3>4, <4>2, <4>3, InstallationKeeps
    <3> QED  BY <3>5, <3>6
  <2> QED  BY <2>3, <2>4
<1>5. CASE ScanListing
  <2>1. PICK i \in Installers :
            /\ JobAt(i, "scan")
            /\ IF \E e \in scanDirs[job[i].id] : Refused(e, strictRules) THEN Stops(i)
               ELSE job' = [job EXCEPT ![i].at = "install", ![i].strict = strictRules]
            /\ UNCHANGED <<listings, categories, strictRules, downloadDir, scanDirs>>
    BY <1>5 DEF ScanListing
  <2>2. job[i].at = "scan" /\ job[i].at # "idle" /\ job[i] \in Jobs
    BY <1>0, <2>1 DEF JobAt
  <2>3. CASE \E e \in scanDirs[job[i].id] : Refused(e, strictRules)
    BY <1>1, <2>1, <2>2, <2>3
  <2>4. CASE ~\E e \in scanDirs[job[i].id] : Refused(e, strictRules)
    <3> DEFINE x == [job[i] EXCEPT !.at = "install", !.strict = strictRules]
    <3>1. /\ x \in Jobs /\ x.at = "install" /\ x.id = job[i].id /\ x.alone = job[i].alone
          /\ x.offer = job[i].offer /\ x.strict = strictRules
      BY <2>2 DEF Jobs, Places, GalleryInv
    <3>2. job' = [job EXCEPT ![i] = x]
      BY <2>1, <2>4 DEF GalleryInv
    <3> HIDE DEF x
    <3>3. JobIsRight(x, scanDirs, downloadDir)
      BY <1>0, <2>2, <2>4, <3>1 DEF JobIsRight, IsSafe
    <3> QED  BY <1>2, <2>1, <2>2, <3>1, <3>2, <3>3
  <2> QED  BY <2>3, <2>4
<1>6. CASE InstallPackage
  <2>1. PICK i \in Installers :
            /\ JobAt(i, "install")
            /\ IF PackageOf(i) = NoArchive \/ \E e \in ToSet(PackageOf(i)) : e.leads # "in" THEN Stops(i)
               ELSE job' = [job EXCEPT ![i].at = "installed", ![i].took = PackageOf(i)]
            /\ UNCHANGED <<listings, categories, strictRules, downloadDir, scanDirs>>
    BY <1>6 DEF InstallPackage
  <2>2. /\ job[i].at = "install" /\ job[i].at # "idle" /\ job[i] \in Jobs
        /\ job[i].offer \in AllOffers
    BY <1>0, <2>1 DEF JobAt, JobIsRight
  <2>3. PackageOf(i) \in Packages
    BY <2>2, OffersAreOfFiles DEF PackageOf, GalleryInv
  <2>4. CASE PackageOf(i) = NoArchive \/ \E e \in ToSet(PackageOf(i)) : e.leads # "in"
    BY <1>1, <2>1, <2>4
  <2>5. CASE ~(PackageOf(i) = NoArchive \/ \E e \in ToSet(PackageOf(i)) : e.leads # "in")
    <3> DEFINE x == [job[i] EXCEPT !.at = "installed", !.took = PackageOf(i)]
    <3>1. /\ x \in Jobs /\ x.at = "installed" /\ x.id = job[i].id /\ x.alone = job[i].alone
          /\ x.offer = job[i].offer /\ x.strict = job[i].strict /\ x.took = PackageOf(i)
      BY <2>2, <2>3 DEF Jobs, Places, Packages
    <3>2. job' = [job EXCEPT ![i] = x]
      BY <2>1, <2>5 DEF GalleryInv
    <3> HIDE DEF x
    <3>3. StaysInside(PackageOf(i)) /\ PackageOf(i) # NoArchive
      BY <2>5 DEF StaysInside
    <3>4. JobIsRight(x, scanDirs, downloadDir)
      BY <1>0, <2>2, <3>1, <3>3 DEF JobIsRight, PackageOf
    <3> QED  BY <1>2, <2>1, <2>2, <3>1, <3>2, <3>4
  <2> QED  BY <2>4, <2>5
<1>7. CASE JobEnds
  <2>1. PICK i \in Installers :
            /\ JobAt(i, "installed") /\ Stops(i)
            /\ UNCHANGED <<listings, categories, strictRules, downloadDir, scanDirs>>
    BY <1>7 DEF JobEnds
  <2>2. job[i].at # "idle"
    BY <2>1 DEF JobAt
  <2> QED  BY <1>1, <2>1, <2>2
<1> QED  BY <1>3, <1>4, <1>5, <1>6, <1>7

LEMMA GalleryKeeps == GalleryInv /\ [GalleryNext]_galleryVars => GalleryInv'
<1> SUFFICES ASSUME GalleryInv, [GalleryNext]_galleryVars PROVE GalleryInv'
  OBVIOUS
<1>1. ASSUME UNCHANGED <<listings, categories, downloadDir, scanDirs, job>>, strictRules' \in BOOLEAN PROVE GalleryInv'
  BY <1>1 DEF GalleryInv, AloneInListing, IndexIsRebuilt, Popular
<1>2. CASE AddRule
  BY <1>1, <1>2 DEF AddRule
<1>3. CASE UNCHANGED galleryVars
  BY <1>1, <1>3 DEF galleryVars, GalleryInv
<1> QED
  BY <1>2, <1>3, AddListingKeeps, StagePackageKeeps, GetListingKeeps, InstallingKeeps DEF GalleryNext

LEMMA GalleryHolds == GalleryInv => GalleryTypeOK /\ InstalledWasScanned
<1> SUFFICES ASSUME GalleryInv PROVE GalleryTypeOK /\ InstalledWasScanned
  OBVIOUS
<1>1. GalleryTypeOK
  BY DEF GalleryInv, GalleryTypeOK, IndexIsRebuilt, Jobs, Places, Packages
<1>2. ASSUME NEW i \in Installers, JobAt(i, "installed"), job[i].alone
      PROVE  /\ job[i].offer.sum \in {NoArchive, job[i].took} /\ job[i].took # NoArchive
             /\ \A entry \in Lasting(job[i].took) : ~Refused(entry, job[i].strict)
  <2>1. JobIsRight(job[i], scanDirs, downloadDir)
    BY DEF GalleryInv
  <2> QED  BY <1>2, <2>1 DEF JobIsRight, IsSafe, JobAt
<1>3. ASSUME NEW table, NEW ids, NEW list \in Popular(table, ids), IsFiniteSet(ids)
      PROVE  /\ \A id : Contains(list, id) <=> id \in ids
             /\ IsInjective(list) /\ \A k \in DOMAIN list : list[k] \in ids
  <2>1. Cardinality(ids) \in Nat
    BY <1>3, FS_CardinalityType
  <2>2. /\ list \in [1..Cardinality(ids) -> ids] /\ IsInjective(list)
        /\ \A id \in ids : \E k \in 1..Cardinality(ids) : list[k] = id
    BY <1>3 DEF Popular, Bijection, Injection, Surjection
  <2>3. Len(list) = Cardinality(ids)
    BY <2>1, <2>2
  <2> QED  BY <2>2, <2>3 DEF Contains
<1>4. \A ids \in SUBSET DOMAIN listings : IsFiniteSet(ids)
  BY FS_Subset DEF GalleryInv, IndexIsRebuilt
<1>5. ASSUME NEW c \in Categories
      PROVE  /\ \A id \in DOMAIN listings : Contains(ListByCategory(c), id) <=> listings[id].category = c
             /\ IsInjective(ListByCategory(c))
  <2> DEFINE ids == {id \in DOMAIN listings : listings[id].category = c}
  <2>1. categories[c] \in Popular(listings, ids) /\ IsFiniteSet(ids)
    BY <1>4 DEF GalleryInv, IndexIsRebuilt
  <2>2. /\ \A id : Contains(categories[c], id) <=> id \in ids
        /\ IsInjective(categories[c])
    <3> HIDE DEF ids
    <3> QED  BY <1>3, <2>1
  <2> QED  BY <2>2 DEF ListByCategory
<1>6. ASSUME NEW list \in ListAll, NEW i \in DOMAIN list
      PROVE  Contains(ListByCategory(listings[list[i]].category), list[i])
  <2>1. list \in Popular(listings, DOMAIN listings) /\ IsFiniteSet(DOMAIN listings)
    BY <1>4 DEF ListAll
  <2>2. list[i] \in DOMAIN listings
    BY <1>3, <2>1
  <2>3. listings[list[i]].category \in Categories
    BY <2>2 DEF GalleryInv, IndexIsRebuilt, Categories, AllOffers
  <2> QED  BY <1>5, <2>2, <2>3
<1> QED  BY <1>1, <1>2, <1>5, <1>6 DEF InstalledWasScanned

-----------------------------------------------------------------------------
(* Types.  What the invariants of the parts say no more of than they need  *)
(* themselves, each part adds here.                                        *)

LEMMA ContainersTyped ==
    /\ ContainersInit => unsaved \in BOOLEAN
    /\ unsaved \in BOOLEAN /\ [ContainersNext]_containerVars => unsaved' \in BOOLEAN
    /\ BoxInv /\ JarInv /\ unsaved \in BOOLEAN => ContainersTypeOK
<1>1. ContainersInit => unsaved \in BOOLEAN
  BY DEF ContainersInit
<1>2. ASSUME unsaved \in BOOLEAN, [ContainersNext]_containerVars PROVE unsaved' \in BOOLEAN
  <2>1. CASE UNCHANGED unsaved
    BY <1>2, <2>1
  <2>2. CASE Create \/ Update \/ RemoveBox \/ RestartContainers
    BY <2>2 DEF Create, Update, RemoveBox, RestartContainers, Saved
  <2> QED
    BY <1>2, <2>1, <2>2
    DEF ContainersNext, SetCookie, ClearCookies, ResponseSetsCookie, ResponseRemovesCookie,
        MoveTab, VisitSite, WindowEnds, boxVars, containerVars
<1>3. ASSUME BoxInv, JarInv, unsaved \in BOOLEAN PROVE ContainersTypeOK
  <2>1. \A b \in Stores : \A s \in Sites : extJar[b][s] \in 0..cookies
    <3>1. \A p \in Spots : Table[p] \in 0..cookies
      BY <1>3 DEF JarInv, OneSpotEach
    <3>2. \A b \in Stores, s \in Sites : <<b, s>> \in Spots /\ Table[<<b, s>>] = extJar[b][s]
      BY TableEntries
    <3> QED  BY <3>1, <3>2
  <2> QED  BY <1>3, <2>1 DEF BoxInv, BoxesTyped, JarInv, ContainersTypeOK
<1> QED  BY <1>1, <1>2, <1>3

(* A pin is put only for the host of its certificate.                      *)
LEMMA PinsTyped ==
    /\ PinsInit => PinsTypeOK
    /\ PinsTypeOK /\ [PinsNext]_pinVars => PinsTypeOK'
<1>0. Unpinned \in PinTables
  BY DEF Unpinned, PinTables
<1>1. PinsInit => PinsTypeOK
  BY <1>0 DEF PinsInit, PinsTypeOK
<1>2. ASSUME PinsTypeOK, [PinsNext]_pinVars PROVE PinsTypeOK'
  <2>1. CASE OpenStore
    BY <1>2, <2>1 DEF OpenStore, PinsTypeOK
  <2>2. CASE Inspect \/ Handshake \/ CertificateExpires
    BY <1>2, <2>2 DEF Inspect, Handshake, CertificateExpires, PinsTypeOK
  <2>3. CASE TrustCertificate
    <3>1. reviewed \in Certificates /\ reviewed.selfSigned /\ reviewed.host \in Hosts
      BY <1>2, <2>3 DEF TrustCertificate, PinsTypeOK, Pinnable, Certificates
    <3>2. PICK c \in Certificates, h \in Hosts : c = reviewed /\ h = c.host /\ c.selfSigned
      BY <3>1
    <3>3. [pins EXCEPT ![h] = c] \in PinTables
      BY <1>2, <3>2 DEF PinsTypeOK, PinTables
    <3>4. \E written \in BOOLEAN : PersistedOrUndone([pins EXCEPT ![h] = c], written)
      BY <2>3, <3>2 DEF TrustCertificate
    <3> QED  BY <1>2, <2>3, <3>3, <3>4 DEF TrustCertificate, PersistedOrUndone, PinsTypeOK
  <2>4. CASE RemoveCertificate
    <3>1. PICK h \in Hosts, written \in BOOLEAN :
             /\ PersistedOrUndone([pins EXCEPT ![h] = NoPin], written)
             /\ UNCHANGED <<tofuStore, fileIs, expired, reviewed, connection>>
      BY <2>4 DEF RemoveCertificate
    <3>2. [pins EXCEPT ![h] = NoPin] \in PinTables
      BY <1>2 DEF PinsTypeOK, PinTables
    <3> QED  BY <1>2, <3>1, <3>2 DEF PersistedOrUndone, PinsTypeOK
  <2>5. CASE RestartPins
    BY <1>0, <1>2, <2>5 DEF RestartPins, PinsTypeOK
  <2>6. CASE UNCHANGED pinVars
    BY <1>2, <2>6 DEF pinVars, PinsTypeOK
  <2> QED  BY <1>2, <2>1, <2>2, <2>3, <2>4, <2>5, <2>6 DEF PinsNext
<1> QED  BY <1>1, <1>2

DownloadsGiven == owned \subseteq 1..nextDownloadID /\ \A d \in DownloadIDs : target[d] \in 0..nextDownloadID

LEMMA DownloadsGivenKeep ==
    /\ DownloadsInit => DownloadsGiven
    /\ DownloadsInv /\ DownloadsGiven /\ [DownloadsNext]_downloadVars => DownloadsGiven'
    /\ DownloadsInv /\ DownloadsGiven => DownloadsTypeOK
<1>1. ASSUME DownloadsInit PROVE DownloadsGiven
  <2>1. nextDownloadID = 0 /\ owned = {} /\ \A d \in DownloadIDs : target[d] = 0
    BY <1>1 DEF DownloadsInit
  <2> QED  BY <2>1 DEF DownloadsGiven
<1>2. ASSUME DownloadsInv, DownloadsGiven, [DownloadsNext]_downloadVars PROVE DownloadsGiven'
  <2>1. nextDownloadID \in Nat /\ target \in [DownloadIDs -> Nat]
    <3>1. nextDownloadID \in 0..MaxDownloads /\ target \in [DownloadIDs -> Nat]
      BY <1>2 DEF DownloadsInv, DownloadsTyped
    <3> QED  BY <3>1
  <2>2. CASE Download
    BY <1>2, <2>1, <2>2 DEF Download, fetchVars, DownloadsGiven
  <2>3. CASE Launch
    BY <1>2, <2>1, <2>3 DEF Launch, DownloadsGiven
  <2>4. CASE Erase
    BY <1>2, <2>4 DEF Erase, callVars, fetchVars, DownloadsGiven
  <2>5. CASE UNCHANGED <<nextDownloadID, target, owned>>
    BY <1>2, <2>5 DEF DownloadsGiven
  <2> QED
    BY <1>2, <2>2, <2>3, <2>4, <2>5
    DEF DownloadsNext, Begins, updateDownload, failDownload, Completes, Cancel, Pause, Resume,
        callVars, fetchVars, downloadVars
<1>3. ASSUME DownloadsInv, DownloadsGiven PROVE DownloadsTypeOK
  <2>1. \A d \in DownloadIDs :
           /\ downloads[d] \in States /\ paused[d] \in BOOLEAN
           /\ local[d].state \in States /\ local[d].paused \in BOOLEAN
           /\ calls[d] \in {"not made", "announcing", "returned"}
           /\ fetching[d] \in {"no", "started", "transferring", "over"}
    BY <1>3 DEF DownloadsInv, DownloadsTyped
  <2>2. nextDownloadID \in 0..MaxDownloads
    BY <1>3 DEF DownloadsInv, DownloadsTyped
  <2> QED  BY <1>3, <2>1, <2>2 DEF DownloadsGiven, DownloadsTypeOK
<1> QED  BY <1>1, <1>2, <1>3

RequestsGiven ==
    /\ request \in 0..MaxOpens /\ response \in 0..request
    /\ \A s \in Sends : asked[s].address \in 0..request /\ asked[s].method \in 0..request

LEMMA RequestsGivenKeep ==
    /\ RequestsInit => RequestsGiven
    /\ RequestsInv /\ RequestsGiven /\ [RequestsNext]_requestVars => RequestsGiven'
    /\ RequestsInv /\ RequestsGiven => RequestsTypeOK
<1>0. MaxOpens \in Nat
  BY RequestsAssumption DEF RequestsAssumption
<1>1. ASSUME RequestsInit PROVE RequestsGiven
  <2>1. request = 0 /\ response = 0 /\ \A s \in Sends : asked[s].address = 0 /\ asked[s].method = 0
    BY <1>1 DEF RequestsInit
  <2> QED  BY <1>0, <2>1 DEF RequestsGiven
<1>2. ASSUME RequestsInv, RequestsGiven, [RequestsNext]_requestVars PROVE RequestsGiven'
  <2>1. /\ request \in Nat /\ asked \in [Sends -> [address : Nat, method : Nat]]
        /\ answers \in Seq(Answers)
    BY <1>2 DEF RequestsInv, RequestsTyped
  <2>2. CASE Open
    BY <1>0, <1>2, <2>1, <2>2 DEF Open, netSide, RequestsGiven
  <2>3. CASE ReadsAddress
    BY <1>2, <2>1, <2>3 DEF ReadsAddress, pageSide, RequestsGiven
  <2>4. CASE Preflight
    BY <1>2, <2>1, <2>4 DEF Preflight, pageSide, RequestsGiven
  <2>5. CASE FrameStarts
    <3>1. PICK a \in Answers : a = Head(answers)
      BY <2>1, <2>5, HeadTailProperties DEF FrameStarts
    <3>2. response' \in {response, 0, asked[a.send].address} /\ UNCHANGED <<request, asked>> /\ a.send \in Sends
      BY <2>5, <3>1 DEF FrameStarts, netSide, Answers
    <3>3. response' \in 0..request
      BY <1>2, <2>1, <3>2 DEF RequestsGiven
    <3> QED  BY <1>2, <3>2, <3>3 DEF RequestsGiven
  <2>6. CASE UNCHANGED <<request, response, asked>>
    BY <1>2, <2>6 DEF RequestsGiven
  <2> QED
    BY <1>2, <2>2, <2>3, <2>4, <2>5, <2>6
    DEF RequestsNext, Send, Answered, FrameSteps, PauseOrResume, pageSide, netSide, requestVars
<1>3. ASSUME RequestsInv, RequestsGiven PROVE RequestsTypeOK
  BY <1>3 DEF RequestsInv, RequestsTyped, RequestsGiven, RequestsTypeOK, UNSENT, DONE
<1> QED  BY <1>1, <1>2, <1>3

PoliciesKnown == policies \subseteq NetworkHosts

LEMMA PoliciesKnownKeep ==
    /\ NetworkInit => PoliciesKnown
    /\ NetworkInv /\ PoliciesKnown /\ [NetworkNext]_networkVars => PoliciesKnown'
    /\ NetworkInv /\ PoliciesKnown => NetworkTypeOK
<1>1. NetworkInit => PoliciesKnown
  BY DEF NetworkInit, PoliciesKnown
<1>2. ASSUME NetworkInv, PoliciesKnown, [NetworkNext]_networkVars PROVE PoliciesKnown'
  <2>1. CASE Responds
    <3>1. PICK g \in Fetchers, header \in {"none", "policy", "zero"} :
             flight[g].at = "waiting" /\ ProcessHeader(flight[g].url.host, header)
      BY <2>1 DEF Responds
    <3>2. flight[g] \in Flights
      BY <1>2, <3>1 DEF NetworkInv, NetworkTyped, Resting
    <3>3. PICK h \in NetworkHosts : h = flight[g].url.host
      BY <3>2 DEF Flights, Addresses
    <3>4. policies' \in {policies, policies \cup {h}, policies \ {h}}
      BY <3>1, <3>3 DEF ProcessHeader
    <3> QED  BY <1>2, <3>4 DEF PoliciesKnown
  <2>2. CASE PolicyExpires
    BY <1>2, <2>2 DEF PolicyExpires, PoliciesKnown
  <2>3. CASE UNCHANGED policies
    BY <1>2, <2>3 DEF PoliciesKnown
  <2> QED
    BY <1>2, <2>1, <2>2, <2>3
    DEF NetworkNext, Fetch, GetImage, LookUp, RoundTrip, FollowRedirect, FetchFails, Answer, networkVars
<1>3. ASSUME NetworkInv, PoliciesKnown PROVE NetworkTypeOK
  <2>1. ASSUME NEW c \in Caches PROVE DOMAIN cached[c] \subseteq Addresses
    <3>1. /\ order[c] \in Seq(Addresses)
          /\ \A k \in DOMAIN cached[c] : \E i \in DOMAIN order[c] : order[c][i] = k
      BY <1>3 DEF NetworkInv, Lists
    <3>2. \A i \in DOMAIN order[c] : order[c][i] \in Addresses
      BY <3>1, ListProperties
    <3> QED  BY <3>1, <3>2
  <2>2. \A g \in Fetchers : flight[g].at \in {"idle", "sending", "waiting", "answered"}
    BY <1>3 DEF NetworkInv, NetworkTyped, Resting, Flights
  <2> QED  BY <1>3, <2>1, <2>2 DEF PoliciesKnown, NetworkTypeOK
<1> QED  BY <1>1, <1>2, <1>3

NotTooDeep == ended \in {"alive", "panic"} /\ Len(frames) <= MaxDepth + 1

LEMMA DepthKept ==
    /\ CallsInit => NotTooDeep
    /\ CallsInv /\ NotTooDeep /\ [CallsNext]_stackVars => NotTooDeep'
    /\ CallsInv /\ NotTooDeep => CallsTypeOK
<1>0. MaxDepth \in Nat
  BY CallsAssumption DEF CallsAssumption
<1>1. ASSUME CallsInit PROVE NotTooDeep
  <2>1. frames = <<>> /\ Len(<<>>) = 0
    BY <1>1 DEF CallsInit
  <2> QED  BY <1>0, <1>1, <2>1 DEF CallsInit, NotTooDeep
<1>2. ASSUME CallsInv, NotTooDeep, [CallsNext]_stackVars PROVE NotTooDeep'
  <2>0. /\ frames \in Seq(CallRecords) /\ Len(frames) \in Nat /\ DOMAIN frames = 1..Len(frames)
        /\ ended \in {"alive", "panic"} /\ Len(frames) <= MaxDepth + 1
    BY <1>2, ListProperties DEF CallsInv, NotTooDeep
  <2>1. CASE Begin
    <3>1. Len(frames) <= MaxDepth /\ ended' \in {ended, "panic"} /\ (frames' = frames \/ \E c : frames' = Append(frames, c))
      BY <2>1 DEF Begin
    <3>2. \A c : Len(Append(frames, c)) = Len(frames) + 1
      <4> TAKE c
      <4>1. frames \in Seq(CallRecords \cup {c})
        BY <2>0, SeqMonotonic
      <4> QED  BY <4>1, AppendProperties
    <3> QED  BY <1>0, <2>0, <3>1, <3>2 DEF NotTooDeep
  <2>2. ASSUME NEW c, Becomes(c), UNCHANGED ended PROVE NotTooDeep'
    <3>1. Len([frames EXCEPT ![Len(frames)] = c]) = Len(frames)
      BY <2>0
    <3> QED  BY <2>0, <2>2, <3>1 DEF Becomes, NotTooDeep
  <2>3. CASE Finish
    <3>1. PICK n : /\ n = Len(frames) - 1 /\ frames # <<>> /\ UNCHANGED ended
                   /\ \/ frames' = SubSeq(frames, 1, n)
                      \/ n # 0 /\ \E c : frames' = Append(SubSeq(frames, 1, n - 1), c)
      BY <2>3 DEF Finish
    <3>2. n \in Nat /\ n <= Len(frames)
      BY <2>0, <3>1, ListProperties
    <3>3. ASSUME NEW m \in Nat, m <= n
          PROVE  Len(SubSeq(frames, 1, m)) = m /\ SubSeq(frames, 1, m) \in Seq(CallRecords)
      <4>1. \A i \in 1..m : frames[i] \in CallRecords
        BY <2>0, <3>2, <3>3, ListProperties
      <4> QED  BY <2>0, <3>2, <3>3, <4>1, SubSeqProperties
    <3>4. CASE frames' = SubSeq(frames, 1, n)
      <4>1. Len(frames') = n
        BY <3>2, <3>3, <3>4
      <4> QED  BY <1>0, <2>0, <3>1, <3>2, <4>1 DEF NotTooDeep
    <3>5. CASE n # 0 /\ \E c : frames' = Append(SubSeq(frames, 1, n - 1), c)
      <4>1. PICK c : frames' = Append(SubSeq(frames, 1, n - 1), c)
        BY <3>5
      <4>2. n - 1 \in Nat /\ n - 1 <= n
        BY <3>2, <3>5
      <4>3. SubSeq(frames, 1, n - 1) \in Seq(CallRecords \cup {c}) /\ Len(SubSeq(frames, 1, n - 1)) = n - 1
        BY <3>3, <4>2, SeqMonotonic
      <4>4. Len(frames') = n
        BY <3>2, <4>1, <4>3, AppendProperties
      <4> QED  BY <1>0, <2>0, <3>1, <3>2, <4>4 DEF NotTooDeep
    <3> QED  BY <3>1, <3>4, <3>5
  <2>4. CASE Perform \/ ListenersEnd \/ CallbackEnds
    <3>1. UNCHANGED ended /\ \E c : Becomes(c)
      BY <2>4 DEF Perform, ListenersEnd, CallbackEnds
    <3> QED  BY <2>2, <3>1
  <2>5. CASE UNCHANGED stackVars
    BY <1>2, <2>5 DEF stackVars, NotTooDeep
  <2> QED  BY <1>2, <2>1, <2>3, <2>4, <2>5 DEF CallsNext
<1>3. ASSUME CallsInv, NotTooDeep PROVE CallsTypeOK
  <2>1. DOMAIN frames = 1..Len(frames) /\ \A i \in 1..Len(frames) : frames[i] \in CallRecords
    BY <1>3, ListProperties DEF CallsInv
  <2> QED  BY <1>3, <2>1 DEF NotTooDeep, CallsTypeOK, CallRecords
<1> QED  BY <1>1, <1>2, <1>3

RecordsGiven == given \subseteq Grants /\ missed \subseteq {KeptAs(id) : id \in MenuIDs}

LEMMA RecordsGivenKeep ==
    /\ RecordsInit => RecordsGiven
    /\ RecordsGiven /\ [MenusNext]_menuVars /\ [GrantsNext]_grantVars => RecordsGiven'
    /\ NotesInv /\ RecordsGiven => RecordsTypeOK
<1>1. RecordsInit => RecordsGiven
  BY DEF RecordsInit, RecordsGiven
<1>2. ASSUME RecordsGiven, [MenusNext]_menuVars, [GrantsNext]_grantVars PROVE RecordsGiven'
  <2>1. given' \subseteq Grants
    BY <1>2 DEF RecordsGiven, GrantsNext, ManifestChanges, RequestPermissions, RemovePermissions, grantVars
  <2>2. \/ missed' \in {missed, {}}
        \/ \E id \in {KeptAs(i) : i \in MenuIDs} : missed' = {id}
    BY <1>2
    DEF MenusNext, CreateContextMenu, UpdateContextMenu, RemoveContextMenu, RemoveAllContextMenus, menuVars
  <2> QED  BY <1>2, <2>1, <2>2 DEF RecordsGiven
<1>3. NotesInv /\ RecordsGiven => RecordsTypeOK
  BY DEF NotesInv, NotesTyped, RecordsGiven, RecordsTypeOK
<1> QED  BY <1>1, <1>2, <1>3

OptInKnown == enabled \in OptInState /\ recorded \in 0..MaxMetrics

LEMMA OptInKnownKeep ==
    /\ TelemetryInit => OptInKnown
    /\ OptInKnown /\ [TelemetryNext]_telemetryVars => OptInKnown'
    /\ TelemetryInv /\ OptInKnown => TelemetryTypeOK
<1>0. MaxMetrics \in Nat
  BY TelemetryAssumption DEF TelemetryAssumption
<1>1. TelemetryInit => OptInKnown
  BY <1>0 DEF TelemetryInit, OptInKnown, OptInState
<1>2. ASSUME OptInKnown, [TelemetryNext]_telemetryVars PROVE OptInKnown'
  <2>1. enabled' \in OptInState
    BY <1>2
    DEF OptInKnown, OptInState, TelemetryNext, OptInOrOut, Record, BeginSubmit, Delivered, SubmitFails, SubmitEnds,
        RestartTelemetry, telemetryVars
  <2>2. recorded' = recorded \/ (recorded < MaxMetrics /\ recorded' = recorded + 1)
    BY <1>2
    DEF TelemetryNext, OptInOrOut, Record, BeginSubmit, Delivered, SubmitFails, SubmitEnds,
        RestartTelemetry, telemetryVars
  <2> QED  BY <1>0, <1>2, <2>1, <2>2 DEF OptInKnown
<1>3. ASSUME TelemetryInv, OptInKnown PROVE TelemetryTypeOK
  <2>1. Range(metrics) \subseteq 1..recorded
    BY <1>3, RangeIsIn DEF TelemetryInv, TelemetryTyped
  <2> QED  BY <1>3, <2>1 DEF TelemetryInv, TelemetryTyped, OptInKnown, TelemetryTypeOK
<1> QED  BY <1>1, <1>2, <1>3

LogsAreBounded ==
    /\ Len(crashes) <= MostEvents /\ Len(errorLog) <= MostEvents
    /\ crashed \in 0..MaxFaults /\ logged \in 0..MaxFaults

LEMMA LogsAreBoundedKeep ==
    /\ FaultsInit => LogsAreBounded
    /\ FaultsInv /\ LogsAreBounded /\ [FaultsNext]_faultVars => LogsAreBounded'
    /\ FaultsInv /\ LogsAreBounded => FaultsTypeOK
<1>0. MaxFaults \in Nat /\ MostEvents \in Nat
  BY FaultsAssumption DEF FaultsAssumption
<1>1. ASSUME FaultsInit PROVE LogsAreBounded
  <2>1. crashes = <<>> /\ errorLog = <<>> /\ crashed = 0 /\ logged = 0 /\ Len(<<>>) = 0
    BY <1>1 DEF FaultsInit
  <2> QED  BY <1>0, <2>1 DEF LogsAreBounded
<1>2. ASSUME FaultsInv, LogsAreBounded, [FaultsNext]_faultVars PROVE LogsAreBounded'
  <2>0. crashes \in Seq(CrashEvents) /\ errorLog \in Seq(Nat) /\ Len(<<>>) = 0
    BY <1>2 DEF FaultsInv, CrashInv, FaultsTyped, ErrorInv
  <2>1. ASSUME NEW s, NEW S, s \in Seq(S), NEW c PROVE Len(Newest(Append(s, c))) <= MostEvents
    <3>1. Append(s, c) \in Seq(S \cup {c})
      <4>1. s \in Seq(S \cup {c})
        BY <2>1, SeqMonotonic
      <4> QED  BY <4>1, AppendProperties
    <3> QED  BY <3>1, NewestIsEnd
  <2>2. ASSUME NEW ext, NEW why, Crash(ext, why) PROVE Len(crashes') <= MostEvents /\ crashed' \in 0..MaxFaults
    <3>1. \E c : crashes' = Newest(Append(crashes, c))
      BY <2>2 DEF Crash
    <3>2. Len(crashes') <= MostEvents
      BY <2>0, <2>1, <3>1
    <3> QED  BY <1>0, <1>2, <2>2, <3>2 DEF Crash, LogsAreBounded
  <2>3. CASE SafeRun
    BY <1>2, <2>2, <2>3 DEF SafeRun, LogsAreBounded
  <2>4. CASE RestartFails
    BY <1>2, <2>2, <2>4 DEF RestartFails, LogsAreBounded
  <2>5. CASE MarkRecovered
    <3>1. PICK g \in Menders : crashes' = [i \in DOMAIN crashes |->
             IF i \in Marked(g) THEN [crashes[i] EXCEPT !.recovered = TRUE, !.by = mending[g]] ELSE crashes[i]]
      BY <2>5 DEF MarkRecovered
    <3>2. DOMAIN crashes = 1..Len(crashes) /\ Len(crashes) \in Nat
      BY <2>0, ListProperties
    <3>3. Len(crashes') = Len(crashes)
      <4>1. crashes' \in Seq(CrashEvents)
        BY <1>2, FaultsKeep DEF FaultsInv, CrashInv, FaultsTyped
      <4>2. DOMAIN crashes' = 1..Len(crashes') /\ Len(crashes') \in Nat
        BY <4>1, ListProperties
      <4>3. DOMAIN crashes' = DOMAIN crashes
        BY <3>1
      <4>4. \A m, n \in Nat : 1..m = 1..n => m = n
        OBVIOUS
      <4> QED  BY <3>2, <4>2, <4>3, <4>4
    <3> QED  BY <1>2, <2>5, <3>3 DEF MarkRecovered, LogsAreBounded
  <2>6. CASE Log
    <3>1. Len(errorLog') <= MostEvents
      BY <2>0, <2>1, <2>6 DEF Log
    <3> QED  BY <1>0, <1>2, <2>6, <3>1 DEF Log, LogsAreBounded
  <2>7. CASE ClearCrashes \/ ClearErrors
    BY <1>0, <1>2, <2>0, <2>7 DEF ClearCrashes, ClearErrors, LogsAreBounded
  <2>8. CASE UNCHANGED <<crashes, crashed, errorLog, logged>>
    BY <1>2, <2>8 DEF LogsAreBounded
  <2> QED
    BY <1>2, <2>3, <2>4, <2>5, <2>6, <2>7, <2>8
    DEF FaultsNext, CrashesNext, ErrorsNext, SetRestartCallback, BeginRecover, Restarted, faultVars
<1>3. FaultsInv /\ LogsAreBounded => FaultsTypeOK
  BY DEF FaultsInv, CrashInv, FaultsTyped, Recoveries, LogsAreBounded, FaultsTypeOK
<1> QED  BY <1>1, <1>2, <1>3

LEMMA UpdatesAreTyped == UpdatesInv => UpdatesTypeOK
  BY DEF UpdatesInv, UpdatesTyped, Releases, UpdatesTypeOK

EventsGiven ==
    /\ shared \subseteq Exts
    /\ \A e \in Exts : handlers[e] <= MaxListeners /\ entries[e] <= MaxListeners
    /\ wanted \in [Goroutines -> {"none", "router", "permissions"}]

LEMMA EventsGivenKeep ==
    /\ EventsInit => EventsGiven
    /\ EventsInv /\ EventsGiven /\ [EventsNext]_eventVars => EventsGiven'
    /\ EventsInv /\ EventsGiven => EventsTypeOK
<1>0. MaxListeners \in Nat
  BY EventsAssumption DEF EventsAssumption
<1>1. EventsInit => EventsGiven
  BY <1>0 DEF EventsInit, EventsGiven
<1>2. ASSUME EventsInv, EventsGiven, [EventsNext]_eventVars PROVE EventsGiven'
  <2>0. /\ started \subseteq Exts /\ shared \subseteq Exts
        /\ handlers \in [Exts -> Nat] /\ entries \in [Exts -> Nat]
        /\ \A e \in Exts : handlers[e] <= MaxListeners /\ entries[e] <= MaxListeners
        /\ wanted \in [Goroutines -> {"none", "router", "permissions"}]
    BY <1>2 DEF EventsInv, EventsTyped, EventsGiven
  <2>1. ASSUME NEW g \in Goroutines, NEW called, Calling(g, called),
               \A i \in DOMAIN called : called[i].ext \in Exts
        PROVE  shared' \subseteq Exts
    BY <2>0, <2>1 DEF Calling
  <2>2. /\ \A e, event, count, lock : \A i \in DOMAIN Round(e, event, count, lock) : Round(e, event, count, lock)[i].ext = e
        /\ \A e, event, count, lock : \A i \in DOMAIN <<Frame(e, event, count, lock)>> :
               <<Frame(e, event, count, lock)>>[i].ext = e
        /\ DOMAIN <<>> = {}
    BY DEF Round, Frame
  <2>3. \A g \in Goroutines : Scripting(g) => Caller(g) \in Exts
    BY <1>2, ScriptingCalls
  <2>4. UNCHANGED <<handlers, entries>> => \A e \in Exts : handlers'[e] <= MaxListeners /\ entries'[e] <= MaxListeners
    BY <2>0
  <2>5. UNCHANGED wanted \/ (\E g \in Goroutines, lock \in {"none", "router", "permissions"} : wanted' = [wanted EXCEPT ![g] = lock])
            => wanted' \in [Goroutines -> {"none", "router", "permissions"}]
    BY <2>0
  <2>6. CASE StartExtension
    <3>1. shared' \subseteq Exts
      BY <2>1, <2>2, <2>6 DEF StartExtension
    <3> QED  BY <2>4, <2>5, <2>6, <3>1 DEF StartExtension, EventsGiven
  <2>7. CASE Occurs
    <3>1. shared' \subseteq Exts
      BY <2>0, <2>1, <2>2, <2>7 DEF Occurs
    <3> QED  BY <2>4, <2>5, <2>7, <3>1 DEF Occurs, tables, EventsGiven
  <2>8. CASE OwnEvent
    <3>1. shared' \subseteq Exts
      BY <2>1, <2>2, <2>3, <2>8 DEF OwnEvent, Calls
    <3> QED  BY <2>4, <2>5, <2>8, <3>1 DEF OwnEvent, tables, EventsGiven
  <2>9. CASE EventForAll
    <3>1. PICK g \in Goroutines, turn \in Orders({e \in started : listeners[e]["all"] > 0}) :
             Calling(g, [i \in DOMAIN turn |-> Frame(turn[i], "all", listeners[turn[i]]["all"], "none")])
      BY <2>9 DEF EventForAll
    <3>2. \A i \in DOMAIN turn : turn[i] \in Exts
      BY <2>0, <3>1 DEF Orders
    <3>3. shared' \subseteq Exts
      BY <2>1, <3>1, <3>2 DEF Frame
    <3> QED  BY <2>4, <2>5, <2>9, <3>3 DEF EventForAll, tables, EventsGiven
  <2>10. CASE AddMessageListener
    <3>1. PICK g \in Goroutines :
             /\ Scripting(g) /\ handlers[Caller(g)] < MaxListeners
             /\ handlers' = [handlers EXCEPT ![Caller(g)] = @ + 1]
             /\ wanted' = [wanted EXCEPT ![g] = "none"]
             /\ UNCHANGED <<entries, shared>>
      BY <2>10 DEF AddMessageListener, Locks
    <3>2. PICK c \in Exts : c = Caller(g)
      BY <2>3, <3>1
    <3>3. \A e \in Exts : handlers'[e] <= MaxListeners /\ entries'[e] <= MaxListeners
      BY <1>0, <2>0, <3>1, <3>2
    <3> QED  BY <2>0, <2>5, <3>1, <3>3 DEF EventsGiven
  <2>11. CASE SendMessage
    <3>1. PICK g \in Goroutines :
             /\ Scripting(g) /\ Calling(g, Round(Caller(g), "message", handlers[Caller(g)], "router"))
             /\ wanted' = [wanted EXCEPT ![g] = "none"] /\ UNCHANGED <<handlers, entries>>
      BY <2>11 DEF SendMessage, Locks, tables
    <3>2. shared' \subseteq Exts
      BY <2>1, <2>2, <2>3, <3>1
    <3> QED  BY <2>4, <2>5, <3>1, <3>2 DEF EventsGiven
  <2>12. CASE AskPermission
    <3>1. PICK g \in Goroutines :
             /\ Scripting(g)
             /\ RequestPermission(g) \/ UNCHANGED shared
             /\ wanted' = [wanted EXCEPT ![g] = "none"] /\ UNCHANGED <<handlers, entries>>
      BY <2>12 DEF AskPermission, Locks
    <3>2. shared' \subseteq Exts
      BY <2>0, <2>1, <2>2, <2>3, <3>1 DEF RequestPermission
    <3> QED  BY <2>4, <2>5, <3>1, <3>2 DEF EventsGiven
  <2>13. CASE Blocks
    BY <2>0, <2>4, <2>5, <2>13 DEF Blocks, tables, EventsGiven
  <2>14. CASE AddRequestListener
    <3>1. PICK g \in Goroutines :
             /\ Scripting(g) /\ entries[Caller(g)] < MaxListeners
             /\ entries' = [entries EXCEPT ![Caller(g)] = @ + 1]
             /\ Calling(g, <<Frame(Caller(g), "adding", 1, "none")>>)
             /\ UNCHANGED <<handlers, wanted>>
      BY <2>14 DEF AddRequestListener, Calls
    <3>2. PICK c \in Exts : c = Caller(g)
      BY <2>3, <3>1
    <3>3. \A e \in Exts : handlers'[e] <= MaxListeners /\ entries'[e] <= MaxListeners
      BY <1>0, <2>0, <3>1, <3>2
    <3>4. shared' \subseteq Exts
      BY <2>1, <2>2, <2>3, <3>1
    <3> QED  BY <2>5, <3>1, <3>3, <3>4 DEF EventsGiven
  <2>15. CASE RemoveRequestListeners
    <3>1. PICK g \in Goroutines :
             /\ Scripting(g) /\ entries' = [entries EXCEPT ![Caller(g)] = 0]
             /\ Calling(g, <<Frame(Caller(g), "removing", 1, "none")>>)
             /\ UNCHANGED <<handlers, wanted>>
      BY <2>15 DEF RemoveRequestListeners, Calls
    <3>2. \A e \in Exts : handlers'[e] <= MaxListeners /\ entries'[e] <= MaxListeners
      BY <1>0, <2>0, <3>1
    <3>3. shared' \subseteq Exts
      BY <2>1, <2>2, <2>3, <3>1
    <3> QED  BY <2>5, <3>1, <3>2, <3>3 DEF EventsGiven
  <2>16. CASE ObserverCalls
    <3>1. PICK g \in Goroutines, e \in Exts :
             /\ Calling(g, IF e \in started THEN Round(e, "request", listeners[e]["request"], "none") ELSE <<>>)
             /\ UNCHANGED <<tables, wanted>>
      BY <2>16 DEF ObserverCalls
    <3>2. shared' \subseteq Exts
      BY <2>1, <2>2, <3>1
    <3> QED  BY <2>4, <2>5, <3>1, <3>2 DEF tables, EventsGiven
  <2>17. CASE UNCHANGED <<handlers, entries, wanted, shared>>
    BY <2>0, <2>17 DEF EventsGiven
  <2> QED
    BY <1>2, <2>6, <2>7, <2>8, <2>9, <2>10, <2>11, <2>12, <2>13, <2>14, <2>15, <2>16, <2>17
    DEF EventsNext, StopExtension, AddListener, SecondTable, RequestObserved, ListenerReturns, tables, eventVars
<1>3. ASSUME EventsInv, EventsGiven PROVE EventsTypeOK
  <2>1. \A e \in Exts : handlers[e] \in Nat /\ entries[e] \in Nat
    BY <1>3 DEF EventsInv, EventsTyped
  <2> QED  BY <1>0, <1>3, <2>1 DEF EventsInv, EventsTyped, EventsGiven, EventsTypeOK
<1> QED  BY <1>1, <1>2, <1>3

LEMMA MessagesAreNumbers ==
    ASSUME NEW s \in Seq(WindowCalls), NEW i \in DOMAIN s PROVE s[i] \in WindowCalls /\ s[i].message \in Nat
<1>1. s[i] \in WindowCalls
  BY ListProperties
<1> QED  BY <1>1 DEF WindowCalls

(* Calls with messages of up to n.                                         *)
Numbered(s, n) == s \in Seq(WindowCalls) /\ \A i \in DOMAIN s : s[i].message <= n

LEMMA NumberedLists ==
    ASSUME NEW n \in Nat, NEW s, Numbered(s, n)
    PROVE  /\ s # <<>> => Numbered(Front(s), n)
           /\ \A c \in WindowCalls : c.message <= n => /\ s # <<>> => Numbered(Front(s) \o <<c>>, n)
                                                       /\ Numbered(Append(s, c), n)
<1>1. s \in Seq(WindowCalls) /\ \A i \in DOMAIN s : s[i].message <= n
  BY DEF Numbered
<1>2. ASSUME s # <<>> PROVE Numbered(Front(s), n)
  BY <1>1, <1>2, FrontProperties DEF Numbered
<1>3. ASSUME NEW c \in WindowCalls, c.message <= n, s # <<>> PROVE Numbered(Front(s) \o <<c>>, n)
  <2>1. PICK r : r = Front(s) \o <<c>>
    OBVIOUS
  <2>2. r \in Seq(WindowCalls) /\ DOMAIN r = DOMAIN s /\ \A k \in DOMAIN s : r[k] = IF k = Len(s) THEN c ELSE s[k]
    BY <1>1, <1>3, <2>1, LastReplaced
  <2>3. Numbered(r, n)
    BY <1>1, <1>3, <2>2 DEF Numbered
  <2> QED  BY <2>1, <2>3
<1>4. ASSUME NEW c \in WindowCalls, c.message <= n PROVE Numbered(Append(s, c), n)
  BY <1>1, <1>4, ListExtended DEF Numbered
<1> QED  BY <1>2, <1>3, <1>4

MessagesGiven ==
    /\ \A w \in Windows : page[w] <= MaxPages /\ bound[w] <= MaxPages
    /\ sent <= MaxMessages
    /\ \A g \in Workers : Numbered(stack[g], sent)

(* What is queued, and what a call has still to bring, was sent.           *)
LEMMA BroughtWasSent ==
    ASSUME MessagesInv
    PROVE  /\ \A w \in Windows : \A i \in DOMAIN mailbox[w] : mailbox[w][i].message <= sent
           /\ \A g \in Workers : stack[g] # <<>> /\ Top(g).todo # {} => Top(g).posting <= sent
<1>1. \A w \in Windows, m \in Nat : Brought(w, m) \/ Waiting(w, m) => m <= sent
  BY DEF MessagesInv, OnePlaceOnly
<1>2. ASSUME NEW w \in Windows, NEW i \in DOMAIN mailbox[w] PROVE mailbox[w][i].message <= sent
  <2>1. mailbox[w][i] \in Letters
    BY ListProperties DEF MessagesInv, MessagesTyped
  <2>2. mailbox[w][i].message \in Nat /\ Waiting(w, mailbox[w][i].message)
    BY <2>1 DEF Letters, Waiting
  <2> QED  BY <1>1, <2>2
<1>3. ASSUME NEW g \in Workers, stack[g] # <<>>, Top(g).todo # {} PROVE Top(g).posting <= sent
  <2>1. /\ Len(stack[g]) \in DOMAIN stack[g] /\ Top(g) = stack[g][Len(stack[g])]
        /\ Top(g).posting \in Nat /\ Top(g).todo \subseteq Windows
    BY <1>3, TopCall
  <2>2. PICK w \in Windows : w \in Top(g).todo
    BY <1>3, <2>1
  <2>3. Brought(w, Top(g).posting)
    BY <2>1, <2>2 DEF Brought, Brings
  <2> QED  BY <1>1, <2>1, <2>3
<1> QED  BY <1>2, <1>3

LEMMA OneListNumbered ==
    ASSUME MessagesInv, MessagesGiven, NEW g \in Workers, NEW s, stack' = [stack EXCEPT ![g] = s],
           sent' \in Nat, sent <= sent', Numbered(s, sent')
    PROVE  \A h \in Workers : Numbered(stack'[h], sent')
<1>1. stack \in [Workers -> Seq(WindowCalls)] /\ sent \in Nat
  BY DEF MessagesInv, MessagesTyped
<1>2. ASSUME NEW h \in Workers, h # g PROVE Numbered(stack'[h], sent')
  <2>1. stack'[h] = stack[h] /\ stack[h] \in Seq(WindowCalls) /\ \A i \in DOMAIN stack[h] : stack[h][i].message <= sent
    BY <1>1, <1>2 DEF MessagesGiven, Numbered
  <2>2. \A i \in DOMAIN stack[h] : stack[h][i].message \in Nat
    BY <2>1, MessagesAreNumbers
  <2> QED  BY <1>1, <2>1, <2>2 DEF Numbered
<1>3. stack'[g] = s
  BY <1>1
<1> QED  BY <1>2, <1>3

(* What is owed to a window was sent.                                      *)
OwedWereSent == \A w \in Windows : owed[w] \subseteq 1..sent

LEMMA OwedWereSentKeep ==
    /\ MessagesInit => OwedWereSent
    /\ MessagesInv /\ OwedInv /\ OwedWereSent /\ [MessagesNext]_messageVars => OwedWereSent'
<1>1. MessagesInit => OwedWereSent
  BY DEF MessagesInit, OwedWereSent
<1>2. ASSUME MessagesInv, OwedInv, OwedWereSent, [MessagesNext]_messageVars PROVE OwedWereSent'
  <2>0. sent \in Nat /\ owed \in [Windows -> SUBSET Nat] /\ \A w \in Windows : owed[w] \subseteq 1..sent
    BY <1>2 DEF MessagesInv, MessagesTyped, OwedInv, OwedTyped, OwedWereSent
  <2>1. ASSUME sent' = sent, \A w \in Windows : owed'[w] \subseteq owed[w] PROVE OwedWereSent'
    BY <2>0, <2>1 DEF OwedWereSent
  <2>2. CASE PostMessage
    <3>1. PICK targets \in Targets :
             /\ sent' = sent + 1
             /\ owed' = [w \in Windows |-> IF w \in targets /\ running[w] THEN owed[w] \cup {sent + 1} ELSE owed[w]]
      BY <2>2 DEF PostMessage
    <3>2. \A w \in Windows : owed'[w] \subseteq owed[w] \cup {sent + 1}
      BY <3>1
    <3> QED  BY <2>0, <3>1, <3>2 DEF OwedWereSent
  <2>3. CASE Toggle
    BY <2>0, <2>1, <2>3 DEF Toggle
  <2>4. CASE LoadPage
    BY <2>0, <2>1, <2>4 DEF LoadPage
  <2>5. CASE Destroyed
    BY <2>0, <2>1, <2>5 DEF Destroyed
  <2>6. CASE UNCHANGED <<sent, owed>>
    BY <2>1, <2>6
  <2>7. CASE RunsScript \/ DrainStarts \/ DrainTakes \/ ReachesTarget \/ Deliver \/ ScriptEnds \/ BindPage
    BY <2>6, <2>7 DEF RunsScript, DrainStarts, DrainTakes, ReachesTarget, Deliver, ScriptEnds, BindPage
  <2> QED  BY <1>2, <2>2, <2>3, <2>4, <2>5, <2>6, <2>7 DEF MessagesNext, messageVars
<1> QED  BY <1>1, <1>2

LEMMA MessagesGivenKeep ==
    /\ MessagesInit => MessagesGiven
    /\ MessagesInv /\ MessagesGiven /\ [MessagesNext]_messageVars => MessagesGiven'
    /\ MessagesInv /\ MessagesGiven /\ OwedWereSent => MessagesTypeOK
<1>0. MaxMessages \in Nat /\ MaxPages \in Nat
  BY MessagesAssumption DEF MessagesAssumption
<1>1. ASSUME MessagesInit PROVE MessagesGiven
  <2>1. /\ sent = 0 /\ \A w \in Windows : page[w] = 0 /\ bound[w] = 0
        /\ \A g \in Workers : stack[g] = <<>>
    BY <1>1 DEF MessagesInit
  <2>2. Numbered(<<>>, 0)
    BY EmptySeq DEF Numbered
  <2> QED  BY <1>0, <2>1, <2>2 DEF MessagesGiven
<1>2. ASSUME MessagesInv, MessagesGiven, [MessagesNext]_messageVars PROVE MessagesGiven'
  <2>0. /\ page \in [Windows -> Nat] /\ bound \in [Windows -> Nat] /\ sent \in Nat /\ registered \subseteq Windows
        /\ stack \in [Workers -> Seq(WindowCalls)]
        /\ \A w \in Windows : page[w] <= MaxPages /\ bound[w] <= MaxPages
        /\ sent <= MaxMessages /\ \A g \in Workers : Numbered(stack[g], sent)
    BY <1>2 DEF MessagesInv, MessagesTyped, MessagesGiven
  <2>1. ASSUME NEW g \in Workers, NEW s, stack' = [stack EXCEPT ![g] = s], Numbered(s, sent), UNCHANGED <<page, bound, sent>>
        PROVE  MessagesGiven'
    <3>1. \A h \in Workers : Numbered(stack'[h], sent')
      BY <1>2, <2>0, <2>1, OneListNumbered
    <3> QED  BY <2>0, <2>1, <3>1 DEF MessagesGiven
  <2>2. ASSUME NEW g \in Workers, stack[g] # <<>>
        PROVE  /\ Numbered(Front(stack[g]), sent)
               /\ Top(g) \in WindowCalls /\ Top(g).message <= sent /\ Top(g).win \in Windows
               /\ \A c \in WindowCalls : c.message <= sent =>
                      /\ Numbered(Instead(g, c), sent)
                      /\ \A d \in WindowCalls : d.message <= sent => Numbered(Append(Instead(g, c), d), sent)
    <3>1. Numbered(Front(stack[g]), sent) /\ \A c \in WindowCalls : c.message <= sent => Numbered(Front(stack[g]) \o <<c>>, sent)
      BY <2>0, <2>2, NumberedLists
    <3>2. Top(g) \in WindowCalls /\ Top(g).win \in Windows /\ Top(g).message <= sent
      BY <1>2, <2>0, <2>2, TopCall DEF Numbered
    <3>3. ASSUME NEW c \in WindowCalls, c.message <= sent, NEW d \in WindowCalls, d.message <= sent
          PROVE  Numbered(Append(Instead(g, c), d), sent)
      <4>1. Numbered(Instead(g, c), sent)
        BY <3>1, <3>3 DEF Instead
      <4> QED  BY <2>0, <3>3, <4>1, NumberedLists
    <3> QED  BY <3>1, <3>2, <3>3 DEF Instead
  <2>3. \A w \in Windows, does \in Doings, m \in Nat, n \in Nat : Call(w, does, m, n) \in WindowCalls /\ Call(w, does, m, n).message = m
    BY NewCall DEF Call
  <2>4. CASE RunsScript \/ DrainStarts
    <3>1. PICK g \in Workers, w \in Windows, does \in Doings, n \in Nat :
             stack' = [stack EXCEPT ![g] = Append(@, Call(w, does, 0, n))] /\ UNCHANGED <<page, bound, sent>>
      <4>1. CASE RunsScript
        BY <2>0, <4>1 DEF RunsScript, Push, Doings, windowVars
      <4>2. CASE DrainStarts
        <5>1. PICK g \in Workers, w \in registered :
                 Push(g, Call(w, "drain", 0, Len(mailbox[w]))) /\ UNCHANGED windowVars /\ UNCHANGED sent
          BY <4>2 DEF DrainStarts
        <5>2. Len(mailbox[w]) \in Nat /\ w \in Windows
          BY <1>2, <2>0, ListProperties DEF MessagesInv, MessagesTyped
        <5> QED  BY <5>1, <5>2 DEF Push, Doings, windowVars
      <4> QED  BY <2>4, <4>1, <4>2
    <3>2. PICK c \in WindowCalls : c = Call(w, does, 0, n) /\ c.message <= sent
      BY <2>0, <2>3
    <3>3. stack' = [stack EXCEPT ![g] = Append(stack[g], c)]
      BY <3>1, <3>2
    <3>4. Numbered(Append(stack[g], c), sent)
      BY <2>0, <3>2, NumberedLists
    <3> QED  BY <2>1, <3>1, <3>3, <3>4
  <2>5. ASSUME NEW g \in Workers, stack[g] # <<>>, Return(g), UNCHANGED <<page, bound, sent>> PROVE MessagesGiven'
    BY <2>1, <2>2, <2>5 DEF Return
  <2>6. CASE DrainTakes
    <3>1. PICK g \in Workers : /\ stack[g] # <<>> /\ UNCHANGED <<page, bound, sent>>
                               /\ \/ Return(g)
                                  \/ LET w == Top(g).win IN
                                     /\ Top(g).left > 0 /\ mailbox[w] # <<>>
                                     /\ stack' = [stack EXCEPT ![g] =
                                           Append(Instead(g, [Top(g) EXCEPT !.left = Top(g).left - 1]),
                                                  Call(w, "deliver", Head(mailbox[w]).message, Head(mailbox[w]).page))]
      BY <2>6 DEF DrainTakes, windowVars
    <3>2. CASE ~Return(g)
      <4>1. PICK w \in Windows, t \in WindowCalls : w = Top(g).win /\ t = Top(g) /\ t.message <= sent
        BY <2>2, <3>1
      <4>2. mailbox[w] \in Seq(Letters) /\ mailbox[w] # <<>> /\ t.left > 0
        BY <1>2, <3>1, <3>2, <4>1 DEF MessagesInv, MessagesTyped
      <4>3. Head(mailbox[w]) \in Letters /\ Head(mailbox[w]) = mailbox[w][1] /\ 1 \in DOMAIN mailbox[w]
        BY <4>2, ListProperties, HeadTailProperties
      <4>4. PICK m \in Nat, p \in Nat : m = Head(mailbox[w]).message /\ p = Head(mailbox[w]).page /\ m <= sent
        BY <1>2, <4>3, BroughtWasSent DEF Letters
      <4>5. PICK c \in WindowCalls : c = [t EXCEPT !.left = t.left - 1] /\ c.message <= sent
        <5>1. PICK l \in Nat : l = t.left - 1
          BY <4>2 DEF WindowCalls
        <5>2. [t EXCEPT !.left = l] \in WindowCalls /\ [t EXCEPT !.left = l].message = t.message
          BY DEF WindowCalls
        <5> QED  BY <4>1, <5>1, <5>2
      <4>6. PICK d \in WindowCalls : d = Call(w, "deliver", m, p) /\ d.message <= sent
        BY <2>3, <4>4 DEF Doings
      <4>7. stack' = [stack EXCEPT ![g] = Append(Instead(g, c), d)]
        BY <3>1, <3>2, <4>1, <4>4, <4>5, <4>6
      <4>8. Numbered(Append(Instead(g, c), d), sent)
        BY <2>2, <3>1, <4>5, <4>6
      <4> QED  BY <2>1, <3>1, <4>7, <4>8
    <3> QED  BY <2>5, <3>1, <3>2
  <2>7. CASE PostMessage
    <3>1. PICK g \in Workers, targets \in Targets :
             /\ stack[g] # <<>> /\ sent < MaxMessages /\ sent' = sent + 1 /\ UNCHANGED <<page, bound>>
             /\ stack' = [stack EXCEPT ![g] = Instead(g, [Top(g) EXCEPT !.posting = sent + 1, !.todo = targets])]
      BY <2>7 DEF PostMessage, InScript, windowVars
    <3>2. targets \subseteq Windows
      BY <2>0 DEF Targets
    <3>3. PICK t \in WindowCalls : t = Top(g) /\ t.message <= sent
      BY <2>2, <3>1
    <3>4. PICK c \in WindowCalls : c = [t EXCEPT !.posting = sent + 1, !.todo = targets] /\ c.message <= sent
      <4>1. PICK q \in Nat : q = sent + 1
        BY <2>0
      <4>2. [t EXCEPT !.posting = q, !.todo = targets] \in WindowCalls /\ [t EXCEPT !.posting = q, !.todo = targets].message = t.message
        BY <3>2 DEF WindowCalls
      <4> QED  BY <3>3, <4>1, <4>2
    <3>5. stack' = [stack EXCEPT ![g] = Instead(g, c)]
      BY <3>1, <3>3, <3>4
    <3>6. Numbered(Instead(g, c), sent + 1)
      <4>1. Numbered(Instead(g, c), sent)
        BY <2>2, <3>1, <3>4
      <4>2. \A i \in DOMAIN Instead(g, c) : Instead(g, c)[i].message \in Nat
        BY <4>1, MessagesAreNumbers DEF Numbered
      <4> QED  BY <2>0, <4>1, <4>2 DEF Numbered
    <3>7. \A h \in Workers : Numbered(stack'[h], sent')
      <4>1. sent' \in Nat /\ sent <= sent' /\ Numbered(Instead(g, c), sent')
        BY <2>0, <3>1, <3>6
      <4>2. PICK s : s = Instead(g, c)
        OBVIOUS
      <4> QED  BY <1>2, <3>5, <4>1, <4>2, OneListNumbered
    <3> QED  BY <1>0, <2>0, <3>1, <3>7 DEF MessagesGiven
  <2>8. CASE ReachesTarget
    <3>0. PICK g \in Workers :
             stack[g] # <<>> /\ (\E t \in Top(g).todo : Reach(g, t)) /\ UNCHANGED <<page, bound, sent>>
      BY <2>8 DEF ReachesTarget, InScript, windowVars
    <3>1. PICK t \in Top(g).todo : stack[g] # <<>> /\ Reach(g, t) /\ UNCHANGED <<page, bound, sent>>
      BY <3>0
    <3>2. PICK top \in WindowCalls : top = Top(g) /\ top.message <= sent /\ top.posting <= sent /\ t \in top.todo
      BY <1>2, <2>2, <3>1, BroughtWasSent
    <3>3. PICK c \in WindowCalls : c = [top EXCEPT !.todo = top.todo \ {t}] /\ c.message <= sent
      <4>1. PICK T \in SUBSET Windows : T = top.todo \ {t}
        BY DEF WindowCalls
      <4>2. [top EXCEPT !.todo = T] \in WindowCalls /\ [top EXCEPT !.todo = T].message = top.message
        BY DEF WindowCalls
      <4> QED  BY <3>2, <4>1, <4>2
    <3>4. Visited(g, t) = Instead(g, c)
      BY <3>2, <3>3 DEF Visited
    <3>5. t \in Windows /\ page[t] \in Nat /\ top.posting \in Nat
      BY <2>0, <3>2 DEF WindowCalls
    <3>6. PICK d \in WindowCalls : d = Call(t, "deliver", top.posting, page[t]) /\ d.message <= sent
      BY <2>3, <3>2, <3>5 DEF Doings
    <3>7. \/ stack' = [stack EXCEPT ![g] = Instead(g, c)]
          \/ stack' = [stack EXCEPT ![g] = Append(Instead(g, c), d)]
      BY <3>1, <3>2, <3>4, <3>6 DEF Reach
    <3>8. Numbered(Instead(g, c), sent) /\ Numbered(Append(Instead(g, c), d), sent)
      BY <2>2, <3>1, <3>3, <3>6
    <3> QED  BY <2>1, <3>1, <3>7, <3>8
  <2>9. CASE Deliver
    <3>1. PICK g \in Workers : /\ stack[g] # <<>> /\ UNCHANGED <<page, bound, sent>>
                               /\ \/ Return(g)
                                  \/ stack' = [stack EXCEPT ![g] = Instead(g, Call(Top(g).win, "listen", Top(g).message, 0))]
      BY <2>9 DEF Deliver, windowVars
    <3>2. PICK w \in Windows, m \in Nat : w = Top(g).win /\ m = Top(g).message /\ m <= sent
      BY <1>2, <2>2, <3>1, TopCall
    <3>3. PICK c \in WindowCalls : c = Call(w, "listen", m, 0) /\ c.message <= sent
      BY <2>3, <3>2 DEF Doings
    <3>4. Numbered(Instead(g, c), sent)
      BY <2>2, <3>1, <3>3
    <3> QED  BY <2>1, <2>5, <3>1, <3>2, <3>3, <3>4
  <2>10. CASE ScriptEnds
    BY <2>5, <2>10 DEF ScriptEnds, InScript, windowVars
  <2>11. CASE LoadPage \/ BindPage
    <3>1. UNCHANGED <<stack, sent>>
      BY <2>11 DEF LoadPage, BindPage
    <3>2. \A w \in Windows : page'[w] <= MaxPages /\ bound'[w] <= MaxPages
      <4>1. CASE LoadPage
        <5>1. PICK v \in registered : page[v] < MaxPages /\ page' = [page EXCEPT ![v] = page[v] + 1] /\ UNCHANGED bound
          BY <4>1 DEF LoadPage
        <5> QED  BY <1>0, <2>0, <5>1
      <4>2. CASE BindPage
        <5>1. PICK v \in registered : bound' = [bound EXCEPT ![v] = page[v]] /\ UNCHANGED page
          BY <4>2 DEF BindPage
        <5> QED  BY <2>0, <5>1
      <4> QED  BY <2>11, <4>1, <4>2
    <3> QED  BY <2>0, <3>1, <3>2 DEF MessagesGiven
  <2>12. CASE UNCHANGED <<page, bound, stack, sent>>
    BY <2>0, <2>12 DEF MessagesGiven
  <2> QED
    BY <1>2, <2>4, <2>6, <2>7, <2>8, <2>9, <2>10, <2>11, <2>12
    DEF MessagesNext, Toggle, Destroyed, windowVars, messageVars
<1>3. ASSUME MessagesInv, MessagesGiven, OwedWereSent PROVE MessagesTypeOK
  <2>1. ASSUME NEW g \in Workers, NEW i \in DOMAIN stack[g]
        PROVE  stack[g][i].message \in 0..sent /\ stack[g][i].todo \subseteq Windows
    <3>1. stack[g][i] \in WindowCalls /\ stack[g][i].message <= sent /\ sent \in Nat
      BY <1>3, ListProperties DEF MessagesGiven, Numbered, MessagesInv, MessagesTyped
    <3> QED  BY <3>1 DEF WindowCalls
  <2> QED  BY <1>0, <1>3, <2>1 DEF MessagesInv, MessagesTyped, MessagesGiven, OwedWereSent, MessagesTypeOK
<1> QED  BY <1>1, <1>2, <1>3

-----------------------------------------------------------------------------
(* A request carries the cookies of the last line of each identity that    *)
(* its site was sent, if the page is below their path and they may cross,  *)
(* until they are over; what is installed alone of a listing is a package  *)
(* of the sum that the listing gives, whose files passed the rules that    *)
(* held; and each listing is once in the list of its category only.        *)
THEOREM EverythingTakenAsMeant == Spec => []TakenAsMeant
<1>1. Init => CookiesInv /\ GalleryInv
  BY CookiesStart, GalleryStarts DEF Init
<1>2. CookiesInv /\ GalleryInv /\ [Next]_vars => CookiesInv' /\ GalleryInv'
  BY StepsOfParts, CookiesKeep, GalleryKeeps
<1>3. CookiesInv /\ GalleryInv => TakenAsMeant
  BY CookiesHold, GalleryHolds DEF TakenAsMeant
<1> QED BY <1>1, <1>2, <1>3, PTL DEF Spec

TypesInv ==
    /\ part \in Parts
    /\ BoxInv /\ JarInv /\ unsaved \in BOOLEAN
    /\ PinsTypeOK
    /\ DownloadsInv /\ DownloadsGiven
    /\ MessagesInv /\ MessagesGiven /\ OwedInv /\ OwedWereSent
    /\ RequestsInv /\ RequestsGiven
    /\ EventsInv /\ EventsGiven
    /\ CookiesInv /\ GalleryInv
    /\ NetworkInv /\ PoliciesKnown
    /\ CallsInv /\ NotTooDeep
    /\ UpdatesInv
    /\ NotesInv /\ RecordsGiven
    /\ TelemetryInv /\ OptInKnown
    /\ FaultsInv /\ LogsAreBounded

LEMMA TypesKeep == TypesInv /\ [Next]_vars => TypesInv'
<1> SUFFICES ASSUME TypesInv, [Next]_vars PROVE TypesInv'
  OBVIOUS
<1>1. part' = part
  BY DEF Next, Still, vars
<1>2. BoxInv' /\ JarInv' /\ unsaved' \in BOOLEAN /\ PinsTypeOK'
  BY StepsOfParts, BoxesKeep, JarsKeep, ContainersTyped, PinsTyped DEF TypesInv
<1>3. DownloadsInv' /\ DownloadsGiven' /\ MessagesInv' /\ MessagesGiven' /\ OwedInv' /\ OwedWereSent'
  BY StepsOfParts, DownloadsKeep, DownloadsGivenKeep, MessagesKeep, MessagesGivenKeep, OwedKeep, OwedWereSentKeep
     DEF TypesInv
<1>4. RequestsInv' /\ RequestsGiven' /\ EventsInv' /\ EventsGiven'
  BY StepsOfParts, RequestsKeep, RequestsGivenKeep, EventsKeep, EventsGivenKeep DEF TypesInv
<1>5. CookiesInv' /\ GalleryInv' /\ NetworkInv' /\ PoliciesKnown'
  BY StepsOfParts, CookiesKeep, GalleryKeeps, NetworkKeep, PoliciesKnownKeep DEF TypesInv
<1>6. CallsInv' /\ NotTooDeep' /\ UpdatesInv'
  BY StepsOfParts, CallsKeep, DepthKept, UpdatesKeep DEF TypesInv
<1>7. NotesInv' /\ RecordsGiven' /\ TelemetryInv' /\ OptInKnown' /\ FaultsInv' /\ LogsAreBounded'
  BY StepsOfParts, NotesKeep, RecordsGivenKeep, TelemetryKeep, OptInKnownKeep, FaultsKeep, LogsAreBoundedKeep
     DEF TypesInv
<1> QED  BY <1>1, <1>2, <1>3, <1>4, <1>5, <1>6, <1>7 DEF TypesInv

(* The state of every part has its types: what refers to a download, an    *)
(* open() or a message refers to one there was, pins are of the host of    *)
(* their certificate, a cookie that is kept was set, and listeners, calls  *)
(* within calls and logs stay within their bounds.                         *)
THEOREM EveryPartIsTyped == Spec => []TypeOK
<1>1. Init => TypesInv
  BY BoxesStart, JarsStart, ContainersTyped, PinsTyped, DownloadsStart, DownloadsGivenKeep,
     MessagesStart, MessagesGivenKeep, OwedStart, OwedWereSentKeep, RequestsStart, RequestsGivenKeep, EventsStart, EventsGivenKeep,
     CookiesStart, GalleryStarts, NetworkStart, PoliciesKnownKeep, CallsStart, DepthKept, UpdatesStart,
     NotesStart, RecordsGivenKeep, TelemetryStart, OptInKnownKeep, FaultsStart, LogsAreBoundedKeep
     DEF Init, TypesInv
<1>2. TypesInv /\ [Next]_vars => TypesInv'
  BY TypesKeep
<1>3. TypesInv => TypeOK
  BY ContainersTyped, DownloadsGivenKeep, MessagesGivenKeep, RequestsGivenKeep, EventsGivenKeep,
     CookiesHold, GalleryHolds, PoliciesKnownKeep, DepthKept, UpdatesAreTyped, RecordsGivenKeep,
     OptInKnownKeep, LogsAreBoundedKeep
     DEF TypesInv, TypeOK
<1> QED BY <1>1, <1>2, <1>3, PTL DEF Spec
===============================================================================
