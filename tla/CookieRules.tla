------------------------------ MODULE CookieRules ------------------------------
(***************************************************************************)
(* The cookie jar of one client: which Set-Cookie lines it keeps, and      *)
(* which cookies go with a request.  The jar is divided by origin.         *)
(*                                                                         *)
(* A host is the sequence of its labels and a path the sequence of its     *)
(* characters.  The public suffixes are the names of one label, so that a  *)
(* registrable domain has two.  Time passes for all cookies at once.       *)
(***************************************************************************)
EXTENDS Naturals, Sequences, SequencesExt, ListChoice

CONSTANTS Pages,       \* URLs: records of scheme, host, path
          CookieLines, \* Set-Cookie lines, see Cookies below
          MaxLines     \* bound on the Set-Cookie lines received

VARIABLES kept,    \* OriginCookieJar.cookies: the cookies of each origin, in order
          received \* history: the Set-Cookie lines, each with the URL that sent it

cookieVars == <<kept, received>>

Root == <<"/">>
NoHost == <<>>
SitePolicies == {"none", "lax", "strict"}

(* until: "past" for Max-Age < 0 or an Expires that is over on arrival; an *)
(* Expires to come is "later" and, once it is over, "over".                *)
Labels == UNION {ToSet(u.host) : u \in Pages} \cup UNION {ToSet(c.domain) : c \in CookieLines}
Characters == {"/"} \cup UNION {ToSet(u.path) : u \in Pages} \cup UNION {ToSet(c.path) : c \in CookieLines}
Cookies == [domain : Seq(Labels), path : Seq(Characters), secure : BOOLEAN, site : SitePolicies,
            until : {"never", "later", "over", "past"}]

ASSUME CookieAssumption ==
    /\ MaxLines \in Nat
    /\ \A u \in Pages : u.host \in Seq(Labels) /\ u.path \in Seq(Characters) /\ IsPrefix(Root, u.path)
    /\ \A c \in CookieLines : c \in Cookies /\ c.until # "over"

Origin(u) == <<u.scheme, u.host>>

CookiesInit ==
    /\ kept = [o \in {Origin(u) : u \in Pages} |-> <<>>]
    /\ received = <<>>

-----------------------------------------------------------------------------
domainMatches(host, domain) == domain = NoHost \/ IsSuffix(domain, host)

validCookieDomain(host, domain) ==
    /\ domainMatches(host, domain)
    /\ domain \in {NoHost, host} \/ Len(domain) >= 2

pathMatches(path, cookiePath) ==
    \/ cookiePath = Root
    \/ /\ IsPrefix(cookiePath, path)
       /\ \/ Last(cookiePath) = "/"
          \/ path = cookiePath
          \/ IsPrefix(cookiePath \o Root, path)

(* The path up to its last slash, but not nothing.                         *)
defaultCookiePath(path) ==
    LET slashes == {i \in DOMAIN path : path[i] = "/"} IN
    IF \E i \in slashes : i > 1 THEN SubSeq(path, 1, Max(slashes) - 1) ELSE Root

registrableDomain(host) == IF Len(host) < 2 THEN host ELSE SubSeq(host, Len(host) - 1, Len(host))

\* A request of an address bar or of an image has no initiator.
NoInitiator == [scheme |-> "", host |-> NoHost, path |-> Root]

sameSite(u, from) ==
    u.scheme = from.scheme /\ registrableDomain(u.host) = registrableDomain(from.host)

sameSiteAllows(c, u, from, method) ==
    \/ c.site = "none"
    \/ sameSite(u, from)
    \/ c.site # "strict" /\ from = NoInitiator /\ method # "POST"

isValidCookieForURL(u, c) ==
    /\ c.secure => u.scheme = "https"
    /\ c.site = "none" => c.secure
    /\ domainMatches(u.host, c.domain)
    /\ pathMatches(u.path, c.path)
    /\ c.until # "over"

-----------------------------------------------------------------------------
(* What the jar makes of a line: a path of its own if it has none.         *)
Prepared(u, c) == [c EXCEPT !.path = IF @ = <<>> \/ @[1] # "/" THEN defaultCookiePath(u.path) ELSE @]
Acceptable(u, c) == (c.site = "none" => c.secure) /\ validCookieDomain(u.host, c.domain)

\* The name is the same for all lines.
cookieIdentity(c, d) == c.domain = d.domain /\ c.path = d.path

removeCookie(cookies, c) == Chosen(cookies, {d \in ToSet(cookies) : ~cookieIdentity(d, c)})

\* Faulty form of the next definition: a new cookie beside the old one.
appendCookie(cookies, c) == Append(cookies, c)

upsertCookie(cookies, c) ==
    IF \E i \in DOMAIN cookies : cookieIdentity(cookies[i], c)
    THEN [i \in DOMAIN cookies |-> IF cookieIdentity(cookies[i], c) THEN c ELSE cookies[i]]
    ELSE Append(cookies, c)

SetCookies(u, line) ==
    LET c == Prepared(u, line) IN
    kept' = [kept EXCEPT ![Origin(u)] =
        IF ~Acceptable(u, c) THEN @
        ELSE IF c.until = "past" THEN removeCookie(@, c)
        ELSE IF isValidCookieForURL(u, c) THEN upsertCookie(@, c)
        ELSE @]

ResponseArrives == \E u \in Pages, line \in CookieLines :
    /\ Len(received) < MaxLines
    /\ received' = Append(received, [url |-> u, line |-> line])
    /\ SetCookies(u, line)

(* Expires is compared with the clock whenever a cookie is asked for.      *)
TimePasses ==
    /\ kept' = [o \in DOMAIN kept |-> [i \in DOMAIN kept[o] |->
           [kept[o][i] EXCEPT !.until = IF @ = "later" THEN "over" ELSE @]]]
    /\ received' = [i \in DOMAIN received |->
           [received[i] EXCEPT !.line.until = IF @ = "later" THEN "over" ELSE @]]
    /\ received' # received

CookiesForRequest(u, from, method) ==
    IF method = "OPTIONS" THEN {}
    ELSE {c \in ToSet(kept[Origin(u)]) : isValidCookieForURL(u, c) /\ sameSiteAllows(c, u, from, method)}

CookiesNext == ResponseArrives \/ TimePasses

-----------------------------------------------------------------------------
CookiesTypeOK ==
    /\ Len(received) <= MaxLines
    /\ \A o \in DOMAIN kept : \A i \in DOMAIN kept[o] : kept[o][i] \in Cookies

(* What a server may count on, said of the lines it sent: the cookie with  *)
(* the last line of its identity, if that did not end it, goes to the      *)
(* paths below its own, to https alone if secure, and across sites only as *)
(* its site policy says.                                                   *)
Below(path, top) ==
    \/ path = top
    \/ \E rest \in {SubSeq(path, Len(top) + 1, Len(path))} :
           path = top \o rest /\ rest # <<>> /\ (Last(top) = "/" \/ rest[1] = "/")

Crosses(u, from) == from.scheme # u.scheme \/ registrableDomain(from.host) # registrableDomain(u.host)

Works(e) ==
    LET c == Prepared(e.url, e.line) IN
    /\ c.site = "none" => c.secure
    /\ IsSuffix(c.domain, e.url.host) /\ (c.domain # e.url.host => Len(c.domain) # 1)
    /\ \/ c.until = "past"
       \/ Below(e.url.path, c.path) /\ (c.secure => e.url.scheme = "https")

Current(i) ==
    LET c(j) == Prepared(received[j].url, received[j].line) IN
    /\ Works(received[i]) /\ c(i).until \notin {"past", "over"}
    /\ \A j \in (i + 1)..Len(received) :
           /\ Works(received[j])
           /\ Origin(received[j].url) = Origin(received[i].url)
           => ~cookieIdentity(c(j), c(i))

(* Every request takes exactly the cookies it should: those of its origin  *)
(* that are current and meant for its path, its scheme and its initiator.  *)
CookiesAreMeant == \A u \in Pages, from \in Pages \cup {NoInitiator}, method \in {"GET", "POST", "OPTIONS"} :
    CookiesForRequest(u, from, method) =
        {c \in {Prepared(received[i].url, received[i].line) : i \in
                   {j \in DOMAIN received : Origin(received[j].url) = Origin(u) /\ Current(j)}} :
            /\ method # "OPTIONS" /\ Below(u.path, c.path) /\ (c.secure => u.scheme = "https")
            /\ Crosses(u, from) => \/ c.site = "none"
                                   \/ c.site = "lax" /\ from = NoInitiator /\ method = "GET"}
=============================================================================
