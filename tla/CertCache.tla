------------------------------- MODULE CertCache -------------------------------
(***************************************************************************)
(* The certificate cache of auth/gamecenter.go.  Verify runs on the hub       *)
(* goroutine only, so one certificate is asked for at a time; the clock goes   *)
(* on while Apple is asked.  A certificate is represented by when it was       *)
(* fetched, time is counted in units that no reader sees, and whether the      *)
(* signature agrees with the certificate is left out.  The clock is read once   *)
(* for the eviction and the entry that is stored.                            *)
(***************************************************************************)
EXTENDS Integers, FiniteSets

CONSTANTS Urls,       \* public key URLs with the allowed prefix
          NoUrl,
          MaxSize,    \* maxCertCacheSize
          TTL,        \* certCacheTTL
          FetchTime,  \* what is left of the context when Verify asks for the certificate
          MaxTime     \* bound on the clock

ASSUME CertCacheAssumption ==
    /\ IsFiniteSet(Urls) /\ NoUrl \notin Urls
    /\ MaxSize \in Nat \ {0}
    /\ TTL \in Nat \ {0} /\ FetchTime \in Nat /\ MaxTime \in Nat

VARIABLES
    cache,    \* certCache: per URL when its certificate expires, None when there is none
    now,
    url,      \* the URL that is being fetched
    began,    \* since when
    fetched,  \* per URL when Apple last answered for it (history)
    served    \* the age of the certificate that Verify used last (history)

cacheVars == <<cache, now, url, began, fetched, served>>

None == -1

Cached(c) == {u \in Urls : c[u] # None}

CacheInit ==
    /\ cache = [u \in Urls |-> None]
    /\ now = 0 /\ url = NoUrl /\ began = 0
    /\ fetched = [u \in Urls |-> None]
    /\ served = 0

\* (Mutant of Fresh: the last instant counts.)
FreshTooLong(u) == cache[u] # None /\ now <= cache[u]

\* time.Now().Before(cached.expiresAt)
Fresh(u) == cache[u] # None /\ now < cache[u]

Hit(u) ==
    /\ url = NoUrl /\ Fresh(u)
    /\ served' = now - fetched[u]
    /\ UNCHANGED <<cache, now, url, began, fetched>>

Miss(u) ==
    /\ url = NoUrl /\ ~Fresh(u)
    /\ url' = u /\ began' = now
    /\ UNCHANGED <<cache, now, fetched, served>>

\* (Mutant of FetchFails: a failure is remembered like a certificate.)
FetchFailsCached ==
    /\ url # NoUrl
    /\ url' = NoUrl
    /\ cache' = [cache EXCEPT ![url] = now + TTL]
    /\ UNCHANGED <<now, began, fetched, served>>

FetchFails ==
    /\ url # NoUrl
    /\ url' = NoUrl
    /\ UNCHANGED <<cache, now, began, fetched, served>>

(***************************************************************************)
(* evictExpiredLocked: the caches it may leave behind.                       *)
(***************************************************************************)

\* (Mutant of Expired: an entry goes when a fetch of it would still be of use.)
ExpiredEarly(c, u) == c[u] # None /\ now + 1 >= c[u]

\* now.After(cached.expiresAt): at the last instant it neither serves nor goes.
Expired(c, u) == c[u] # None /\ now > c[u]

Sweep == [u \in Urls |-> IF Expired(cache, u) THEN None ELSE cache[u]]

Full(c) == Cardinality(Cached(c)) >= MaxSize

\* (Mutant of Evicted: what is expired is all that goes.)
SweepOnly == {Sweep}

\* The range over a map begins anywhere.
Evicted == IF Full(Sweep) THEN {[Sweep EXCEPT ![u] = None] : u \in Cached(Sweep)} ELSE {Sweep}

\* Apple has answered: the certificate is stored and used.
Store ==
    /\ url # NoUrl
    /\ \E c \in IF Full(cache) THEN Evicted ELSE {cache} :
          cache' = [c EXCEPT ![url] = now + TTL]
    /\ fetched' = [fetched EXCEPT ![url] = now]
    /\ served' = 0
    /\ url' = NoUrl
    /\ UNCHANGED <<now, began>>

\* The context ends a fetch that takes too long.
Tick ==
    /\ now < MaxTime
    /\ url # NoUrl => now < began + FetchTime
    /\ now' = now + 1
    /\ UNCHANGED <<cache, url, began, fetched, served>>

CacheNext ==
    \/ \E u \in Urls : Hit(u) \/ Miss(u)
    \/ FetchFails \/ Store \/ Tick

CacheSpec == CacheInit /\ [][CacheNext]_cacheVars

(***************************************************************************)
(* Properties.                                                              *)
(***************************************************************************)

\* Types, and that an entry lasts a day from the last answer for its URL.
CacheTypeOK ==
    /\ cache \in [Urls -> Nat \cup {None}]
    /\ \A u \in Urls : cache[u] # None => fetched[u] # None /\ cache[u] = fetched[u] + TTL
    /\ now \in Nat /\ began \in Nat /\ began <= now
    /\ url \in Urls \cup {NoUrl}
    /\ fetched \in [Urls -> (0..now) \cup {None}]
    /\ served \in Nat

\* The cache never outgrows its limit, although an answer may be for a URL that
\* is already in it and the entry that is evicted for it may be any.
WithinSize == Cardinality(Cached(cache)) <= MaxSize

\* No certificate serves for longer than a day after it was fetched.
ServedInTime == served < TTL

\* At most one certificate that would still serve is lost to another URL at a
\* time, and only when the cache is full of entries that are not expired.
LosesOnlyWhenFull ==
    [][\A u \in Urls :
         cache[u] # None /\ now < cache[u] /\ cache'[u] = None =>
            /\ \A v \in Urls \ {u} : cache[v] # None /\ now < cache[v] => cache'[v] # None
            /\ Cardinality({v \in Urls : cache[v] # None /\ now <= cache[v]}) >= MaxSize]_cacheVars
===============================================================================
