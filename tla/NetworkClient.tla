------------------------------ MODULE NetworkClient ------------------------------
(***************************************************************************)
(* A request from the page to the network and back: the upgrade to https,  *)
(* the cache, the round trips (one more for every redirect) with HSTS, and *)
(* the entry the answer makes in the cache.  Pages and images have a cache *)
(* each, shared by all windows; the store of HSTS policies is shared too.  *)
(* Cookies are the subject of CookieRules and Containers, certificates     *)
(* that of CertificatePins.                                                *)
(***************************************************************************)
EXTENDS Naturals, Sequences, FiniteSets, SequencesExt

CONSTANTS Fetchers,   \* goroutines that fetch
          RemoteHosts,
          MaxCached,  \* maxResourceCacheEntries, maxImgCacheEntries
          MaxFetches  \* bound on the round trips

ASSUME NetworkAssumption ==
    /\ MaxCached \in Nat \ {0} /\ MaxFetches \in Nat
    /\ RemoteHosts \cap {"localhost", "127.0.0.1"} = {}

VARIABLES
    policies, \* HSTSStore.entries: the hosts with a policy that has not expired
    cached,   \* ResourceCache.entries, ImgCache.entries: what is cached for a URL
    order,    \* their order
    flight,   \* where each fetcher is
    trips     \* number of round trips

networkVars == <<policies, cached, order, flight, trips>>

Caches == {"page", "image"}
LocalHosts == {"localhost", "127.0.0.1"}
NetworkHosts == RemoteHosts \cup LocalHosts
Addresses == [scheme : {"http", "https"}, host : NetworkHosts]
Resting == [at |-> "idle"]

NetworkInit ==
    /\ policies = {}
    /\ cached = [c \in Caches |-> <<>>] /\ order = [c \in Caches |-> <<>>]
    /\ flight = [g \in Fetchers |-> Resting] /\ trips = 0

-----------------------------------------------------------------------------
(* ShouldUpgrade drops the expired policies, then looks the host up.       *)
ShouldUpgrade(h) == h \in policies

\* Faulty form of the next definition: only HSTS upgrades.
upgradeForHSTS(u) ==
    IF ShouldUpgrade(u.host) THEN [u EXCEPT !.scheme = "https"] ELSE u

(* Every host but a local one is asked by https, HSTS or not.              *)
upgradeHTTPURL(u) ==
    IF u.host \notin LocalHosts \/ ShouldUpgrade(u.host) THEN [u EXCEPT !.scheme = "https"] ELSE u

(* The cache is looked up under the upgraded URL, and answers a GET        *)
(* without a body.                                                         *)
LookUp(g, cache, u, bare) ==
    LET key == upgradeHTTPURL(u) IN
    /\ flight[g] = Resting
    /\ ~(bare /\ key \in DOMAIN cached[cache])
    /\ flight' = [flight EXCEPT ![g] =
           [at |-> "sending", cache |-> cache, key |-> key, url |-> key, bare |-> bare]]
    /\ UNCHANGED <<policies, cached, order, trips>>

Fetch == \E g \in Fetchers, u \in Addresses, bare \in BOOLEAN : LookUp(g, "page", u, bare)

GetImage == \E g \in Fetchers, u \in Addresses : LookUp(g, "image", u, TRUE)

(* RoundTrip: the upgrade again, for the URL may be that of a redirect.    *)
RoundTrip == \E g \in Fetchers :
    /\ flight[g].at = "sending" /\ trips < MaxFetches
    /\ trips' = trips + 1
    /\ flight' = [flight EXCEPT ![g].at = "waiting", ![g].url = upgradeHTTPURL(flight[g].url)]
    /\ UNCHANGED <<policies, cached, order>>

(* ProcessHeader takes a header of an encrypted answer, of a host that has *)
(* a name; max-age=0 ends the policy, and one without max-age is no header.*)
ProcessHeader(h, header) ==
    policies' = CASE header = "none" \/ h = "127.0.0.1" -> policies
                  [] header = "policy" /\ h # "127.0.0.1" -> policies \cup {h}
                  [] header = "zero" /\ h # "127.0.0.1" -> policies \ {h}

Responds == \E g \in Fetchers, header \in {"none", "policy", "zero"} :
    /\ flight[g].at = "waiting"
    /\ flight[g].url.scheme = "http" => header = "none"
    /\ ProcessHeader(flight[g].url.host, header)
    /\ flight' = [flight EXCEPT ![g].at = "answered"]
    /\ UNCHANGED <<cached, order, trips>>

(* http.Client follows a redirect by another round trip.                   *)
FollowRedirect == \E g \in Fetchers, u \in Addresses :
    /\ flight[g].at = "answered"
    /\ flight' = [flight EXCEPT ![g].at = "sending", ![g].url = u]
    /\ UNCHANGED <<policies, cached, order, trips>>

(* An observer that refuses, a handshake, a connection or a body that      *)
(* fails: an error page that is not cached.                                *)
FetchFails == \E g \in Fetchers :
    /\ flight[g].at \in {"sending", "waiting", "answered"}
    /\ flight' = [flight EXCEPT ![g] = Resting]
    /\ UNCHANGED <<policies, cached, order, trips>>

-----------------------------------------------------------------------------
Kept(cache, key, from) ==
    [k \in DOMAIN cached[cache] \cup {key} |-> IF k = key THEN from ELSE cached[cache][k]]

\* Faulty form of the next definition: without the look for the key.
AddTwice(cache, key, from) ==
    /\ order' = [order EXCEPT ![cache] = IF Len(@) = MaxCached THEN Append(Tail(@), key) ELSE Append(@, key)]
    /\ cached' = [cached EXCEPT ![cache] =
           IF Len(order[cache]) = MaxCached
           THEN [k \in (DOMAIN Kept(cache, key, from)) \ {order[cache][1]} |-> Kept(cache, key, from)[k]]
           ELSE Kept(cache, key, from)]

(* AddResource, AddImage: a known key keeps its place, a new one may push  *)
(* the oldest out.                                                         *)
AddResource(cache, key, from) ==
    IF key \in DOMAIN cached[cache]
    THEN /\ cached' = [cached EXCEPT ![cache] = Kept(cache, key, from)]
         /\ order' = order
    ELSE LET all == Append(order[cache], key)
             out == IF Len(all) > MaxCached THEN {all[1]} ELSE {} IN
         /\ order' = [order EXCEPT ![cache] = IF out = {} THEN all ELSE Tail(all)]
         /\ cached' = [cached EXCEPT ![cache] =
                [k \in (DOMAIN Kept(cache, key, from)) \ out |-> Kept(cache, key, from)[k]]]

(* The answer is kept whatever its status; only a GET without a body is.   *)
Answer == \E g \in Fetchers :
    /\ flight[g].at = "answered"
    /\ IF flight[g].bare \* a GET without a body
       THEN AddResource(flight[g].cache, flight[g].key, flight[g].url)
       ELSE UNCHANGED <<cached, order>>
    /\ flight' = [flight EXCEPT ![g] = Resting]
    /\ UNCHANGED <<policies, trips>>

PolicyExpires == \E h \in policies :
    /\ policies' = policies \ {h}
    /\ UNCHANGED <<cached, order, flight, trips>>

NetworkNext ==
    \/ Fetch \/ GetImage \/ RoundTrip \/ Responds \/ FollowRedirect \/ FetchFails \/ Answer \/ PolicyExpires

-----------------------------------------------------------------------------
NetworkTypeOK ==
    /\ policies \subseteq NetworkHosts
    /\ \A c \in Caches : DOMAIN cached[c] \subseteq Addresses
    /\ \A g \in Fetchers : flight[g].at \in {"idle", "sending", "waiting", "answered"}

(* However many fetches of one URL overlap, each cache holds what its      *)
(* order lists, once, and no more than its limit.                          *)
CachesAreBounded == \A c \in Caches :
    /\ ToSet(order[c]) = DOMAIN cached[c]
    /\ Cardinality(DOMAIN cached[c]) = Len(order[c])
    /\ Len(order[c]) <= MaxCached

(* No request goes to another computer unencrypted, also after a redirect, *)
(* and no answer that came unencrypted from one is kept.                   *)
NothingPlain ==
    /\ \A g \in Fetchers : flight[g].at \in {"waiting", "answered"} =>
           flight[g].url.host \in LocalHosts \/ flight[g].url.scheme = "https"
    /\ \A c \in Caches : \A k \in DOMAIN cached[c] : \A u \in {k, cached[c][k]} :
           u.host \in RemoteHosts => u.scheme = "https"
=============================================================================
