---------------------------- MODULE ServicesProofs -----------------------------
(***************************************************************************)
(* Proofs about Auth, CertCache and Shutdown, for any number of clients,      *)
(* players, accounts, restarts and connections, any finite number of URLs,     *)
(* any limit and any lifetime.                                               *)
(***************************************************************************)
EXTENDS MCServices, FiniteSetTheorems, TLAPS

(***************************************************************************)
(* Auth.                                                                   *)
(***************************************************************************)

USE AuthAssumption

\* Where a call is: whom it is for is not logged in yet, and what it has found or
\* drawn so far is in order.
CallOK ==
    /\ \A row \in pending : row[1] \in drawn
    /\ step # "idle" => ~auth[caller]
    /\ step \in {"find", "create", "update"} => proved[caller] = asked
    /\ step = "create" => acc \in drawn
    /\ step = "update" => table[acc] = asked
    /\ \A c \in Clients : auth[c] => account[c] \in AccountIds

AuthInv == AuthTypeOK /\ CallOK /\ OneAccountPerGamer /\ AuthenticatedStored

LEMMA AuthInvInit == AuthInit => AuthInv
<1> SUFFICES ASSUME AuthInit PROVE AuthInv
  OBVIOUS
<1> USE DEF AuthInit, Owners
<1>1. AuthTypeOK
  <2>1. table \in [AccountIds -> Owners \cup {NoAccount}] /\ proved \in [Clients -> Owners]
    OBVIOUS
  <2>2. auth \in [Clients -> BOOLEAN] /\ account \in [Clients -> AccountIds \cup {NoAccount}]
    OBVIOUS
  <2>3. pending \subseteq AccountIds \X Owners /\ restarts \in 0..MaxRestarts
    OBVIOUS
  <2> QED
    BY <2>1, <2>2, <2>3 DEF AuthTypeOK
<1>2. CallOK
  BY DEF CallOK
<1>3. OneAccountPerGamer /\ AuthenticatedStored
  BY DEF OneAccountPerGamer, AuthenticatedStored
<1> QED
  BY <1>1, <1>2, <1>3 DEF AuthInv

(***************************************************************************)
(* The table.                                                               *)
(***************************************************************************)

\* A row that may be inserted keeps the players' accounts single and the rows
\* that are there.
LEMMA InsertKeeps ==
    ASSUME AuthTypeOK, OneAccountPerGamer,
           NEW a \in AccountIds, NEW o \in Owners, Free(a, o), Insert(a, o)
    PROVE  /\ table' \in [AccountIds -> Owners \cup {NoAccount}]
           /\ table'[a] = o
           /\ \A b \in AccountIds : table[b] # NoAccount => table'[b] = table[b]
           /\ \A b \in AccountIds : table'[b] # NoAccount => b = a \/ table[b] # NoAccount
           /\ OneAccountPerGamer'
<1> USE DEF AuthTypeOK, Insert, Owners
<1>1. /\ table' = [table EXCEPT ![a] = o] /\ table[a] = NoAccount
      /\ o = Guest \/ \A b \in AccountIds : table[b] # o
  BY DEF Free
<1>2. OneAccountPerGamer'
  BY <1>1 DEF OneAccountPerGamer
<1> QED
  BY <1>1, <1>2

\* What is logged in and what is at hand outlives an insertion.
LEMMA InsertOK ==
    ASSUME AuthInv, NEW a \in AccountIds, NEW o \in Owners, Free(a, o), Insert(a, o)
    PROVE  /\ \A c \in Clients : auth[c] => table'[account[c]] = proved[c]
           /\ step = "update" => table'[acc] = asked
<1> USE DEF AuthInv
<1>1. \A b \in AccountIds : table[b] # NoAccount => table'[b] = table[b]
  BY InsertKeeps
<1>2. \A c \in Clients : auth[c] => account[c] \in AccountIds /\ table[account[c]] = proved[c]
  BY DEF CallOK, AuthenticatedStored
<1>3. \A c \in Clients : proved[c] # NoAccount
  BY DEF AuthTypeOK, Owners
<1>4. step = "update" => acc \in AccountIds /\ table[acc] = asked /\ asked # NoAccount
  BY DEF CallOK, AuthTypeOK, Owners
<1> QED
  BY <1>1, <1>2, <1>3, <1>4

(***************************************************************************)
(* The steps.                                                               *)
(***************************************************************************)

LEMMA LateInsertStep == AuthInv /\ (LateInsert \/ LoseInsert) => AuthInv'
<1> SUFFICES ASSUME AuthInv, LateInsert \/ LoseInsert PROVE AuthInv'
  OBVIOUS
<1> USE DEF AuthInv, session, call
<1>1. PICK row \in pending :
         /\ pending' = pending \ {row}
         /\ UNCHANGED <<drawn, session, call, expired, restarts>>
         /\ (Free(row[1], row[2]) /\ Insert(row[1], row[2])) \/ UNCHANGED table
  BY DEF LateInsert, LoseInsert
<1>2. CASE UNCHANGED table
  BY <1>1, <1>2 DEF AuthTypeOK, CallOK, OneAccountPerGamer, AuthenticatedStored
<1>3. CASE Free(row[1], row[2]) /\ Insert(row[1], row[2])
  <2>1. row[1] \in AccountIds /\ row[2] \in Owners /\ row[1] \in drawn
    BY DEF AuthTypeOK, CallOK
  <2>2. /\ table' \in [AccountIds -> Owners \cup {NoAccount}]
        /\ \A b \in AccountIds : table'[b] # NoAccount => b = row[1] \/ table[b] # NoAccount
        /\ OneAccountPerGamer'
    BY <1>3, <2>1, InsertKeeps
  <2>3. /\ \A c \in Clients : auth[c] => table'[account[c]] = proved[c]
        /\ step = "update" => table'[acc] = asked
    BY <1>3, <2>1, InsertOK
  <2>4. AuthTypeOK'
    BY <1>1, <2>1, <2>2 DEF AuthTypeOK
  <2>5. CallOK'
    BY <1>1, <2>3 DEF CallOK
  <2>6. AuthenticatedStored'
    BY <1>1, <2>3 DEF AuthenticatedStored
  <2> QED
    BY <2>2, <2>4, <2>5, <2>6
<1> QED
  BY <1>1, <1>2, <1>3

\* A login begins for a client that is not logged in.
LEMMA LoginStep == AuthInv /\ Login => AuthInv'
<1> SUFFICES ASSUME AuthInv, NEW c \in Clients,
                    AskGuest(c) \/ \E g \in Gamers : AskGameCenter(c, g)
             PROVE  AuthInv'
  BY DEF Login
<1> USE DEF AuthInv, AuthTypeOK, CallOK, OneAccountPerGamer, AuthenticatedStored,
            store, session, Owners, MayAsk
<1>1. CASE AskGuest(c)
  BY <1>1 DEF AskGuest, NewAccount
<1>2. ASSUME NEW g \in Gamers, AskGameCenter(c, g) PROVE AuthInv'
  BY <1>2 DEF AskGameCenter
<1> QED
  BY <1>1, <1>2

\* The client that is logged in is the one that asked, with an account that is
\* stored for whom its credential named.
LEMMA AuthenticateStep ==
    ASSUME AuthInv, step # "idle", Authenticate, UNCHANGED <<drawn, restarts>>,
           acc \in AccountIds, pending' = pending,
           proved[caller] = asked,
           table' \in [AccountIds -> Owners \cup {NoAccount}], table'[acc] = asked,
           \A b \in AccountIds : table'[b] # NoAccount => b \in drawn,
           \A c \in Clients : auth[c] => table'[account[c]] = proved[c],
           OneAccountPerGamer', expired' = expired
    PROVE  AuthInv'
<1> USE DEF AuthInv, AuthTypeOK, Authenticate, NoCall, Owners
<1>1. AuthTypeOK'
  OBVIOUS
<1>2. CallOK'
  BY DEF CallOK
<1>3. AuthenticatedStored'
  BY DEF AuthenticatedStored
<1> QED
  BY <1>1, <1>2, <1>3

LEMMA AnswerStep == AuthInv /\ Answer => AuthInv'
<1> SUFFICES ASSUME AuthInv, Answer PROVE AuthInv'
  OBVIOUS
<1>1. CASE Verified
  BY <1>1 DEF Verified, AuthInv, AuthTypeOK, CallOK, OneAccountPerGamer, AuthenticatedStored,
              store
<1>2. CASE FindsAccount
  BY <1>2 DEF FindsAccount, AuthInv, AuthTypeOK, CallOK, OneAccountPerGamer,
              AuthenticatedStored, store, session
<1>3. CASE FindsNone
  BY <1>3 DEF FindsNone, NewAccount, AuthInv, AuthTypeOK, CallOK, OneAccountPerGamer,
              AuthenticatedStored, store, session
<1>4. CASE Created
  <2>1. /\ step = "create" /\ Free(acc, asked) /\ Insert(acc, asked) /\ Authenticate
        /\ UNCHANGED <<pending, drawn, expired, restarts>>
    BY <1>4 DEF Created
  <2>2. acc \in AccountIds /\ asked \in Owners /\ acc \in drawn /\ proved[caller] = asked
    BY <2>1 DEF AuthInv, AuthTypeOK, CallOK
  <2>3. /\ table' \in [AccountIds -> Owners \cup {NoAccount}] /\ table'[acc] = asked
        /\ \A b \in AccountIds : table'[b] # NoAccount => b = acc \/ table[b] # NoAccount
        /\ OneAccountPerGamer'
    BY <2>1, <2>2, InsertKeeps DEF AuthInv
  <2>4. \A c \in Clients : auth[c] => table'[account[c]] = proved[c]
    BY <2>1, <2>2, InsertOK
  <2>5. \A b \in AccountIds : table'[b] # NoAccount => b \in drawn
    BY <2>2, <2>3 DEF AuthInv, AuthTypeOK
  <2> QED
    BY <2>1, <2>2, <2>3, <2>4, <2>5, AuthenticateStep
<1>5. CASE Updated
  <2>1. /\ step = "update" /\ Authenticate
        /\ UNCHANGED <<table, pending, drawn, expired, restarts>>
    BY <1>5 DEF Updated, store
  <2>2. /\ acc \in AccountIds /\ proved[caller] = asked /\ table[acc] = asked
        /\ table \in [AccountIds -> Owners \cup {NoAccount}]
        /\ \A b \in AccountIds : table[b] # NoAccount => b \in drawn
        /\ \A c \in Clients : auth[c] => table[account[c]] = proved[c]
    BY <2>1 DEF AuthInv, AuthTypeOK, CallOK, AuthenticatedStored
  <2>3. OneAccountPerGamer'
    BY <2>1 DEF AuthInv, OneAccountPerGamer
  <2> QED
    BY <2>1, <2>2, <2>3, AuthenticateStep
<1> QED
  BY <1>1, <1>2, <1>3, <1>4, <1>5 DEF Answer

LEMMA FailStep == AuthInv /\ (Fail \/ Expire \/ Restart) => AuthInv'
<1> SUFFICES ASSUME AuthInv, Fail \/ Expire \/ Restart PROVE AuthInv'
  OBVIOUS
<1> USE DEF AuthInv, AuthTypeOK, CallOK, OneAccountPerGamer, AuthenticatedStored,
            store, session, call, NoCall, Owners
<1>1. CASE FindFails
  BY <1>1 DEF FindFails
<1>2. CASE CreateFails
  BY <1>2 DEF CreateFails
<1>3. CASE Expire
  BY <1>3 DEF Expire
<1>4. CASE Restart
  <2>1. \A row \in pending' : row \in AccountIds \X Owners /\ row[1] \in drawn
    BY <1>4 DEF Restart
  <2>2. /\ \A c \in Clients : ~auth'[c] /\ account'[c] = NoAccount /\ proved'[c] = Guest
        /\ auth' \in [Clients -> BOOLEAN]
        /\ account' \in [Clients -> AccountIds \cup {NoAccount}]
        /\ proved' \in [Clients -> Owners]
        /\ UNCHANGED <<table, drawn>> /\ restarts' \in 0..MaxRestarts /\ expired' = FALSE
        /\ step' = "idle" /\ caller' = NoClient /\ asked' = Guest /\ acc' = NoAccount
    BY <1>4 DEF Restart
  <2> QED
    BY <2>1, <2>2
<1> QED
  BY <1>1, <1>2, <1>3, <1>4 DEF Fail

LEMMA AuthInvStep == AuthInv /\ [AuthNext]_authVars => AuthInv'
<1>1. AuthInv /\ UNCHANGED authVars => AuthInv'
  BY DEF authVars, store, session, call, AuthInv, AuthTypeOK, CallOK, OneAccountPerGamer,
         AuthenticatedStored
<1> QED
  BY <1>1, LateInsertStep, LoginStep, AnswerStep, FailStep DEF AuthNext

LEMMA AuthInvCorrect == AuthSpec => []AuthInv
BY AuthInvInit, AuthInvStep, PTL DEF AuthSpec

\* Every variable keeps its type, and every stored row has an id that was drawn
\* (auth.go:58-154, postgres.go:76-83).
THEOREM AuthTypeCorrect == AuthSpec => []AuthTypeOK
<1>1. AuthInv => AuthTypeOK
  BY DEF AuthInv
<1> QED
  BY AuthInvCorrect, <1>1, PTL

\* A Game Center player never has two accounts, whatever becomes of the INSERTs
\* the server has given up (auth.go:107-113).
THEOREM OneAccountCorrect == AuthSpec => []OneAccountPerGamer
<1>1. AuthInv => OneAccountPerGamer
  BY DEF AuthInv
<1> QED
  BY AuthInvCorrect, <1>1, PTL

\* Nobody is logged in without a stored account of its own (auth.go:99-119,
\* 131-144).
THEOREM StoredCorrect == AuthSpec => []AuthenticatedStored
<1>1. AuthInv => AuthenticatedStored
  BY DEF AuthInv
<1> QED
  BY AuthInvCorrect, <1>1, PTL

\* A client that is logged in keeps its account until the server restarts
\* (auth.go:59-62, 142-144).
THEOREM LoginIsFinalCorrect == AuthSpec => LoginIsFinal
<1> DEFINE Kept == \A c \in Clients : auth[c] /\ auth'[c] => account'[c] = account[c]
<1>1. AuthInv /\ [AuthNext]_authVars => [Kept]_authVars
  <2> SUFFICES ASSUME AuthInv, AuthNext PROVE Kept
    OBVIOUS
  <2> USE DEF session, AuthInv, AuthTypeOK, CallOK
  <2>1. CASE Created \/ Updated
    BY <2>1 DEF Created, Updated, Authenticate
  <2>2. CASE Restart
    BY <2>2 DEF Restart
  <2> QED
    BY <2>1, <2>2 DEF AuthNext, Login, AskGuest, AskGameCenter, Verified, FindsAccount, FindsNone,
                      Answer, Fail, FindFails, CreateFails, Expire, LateInsert, LoseInsert
<1> QED
  BY <1>1, AuthInvCorrect, PTL DEF AuthSpec, LoginIsFinal

(***************************************************************************)
(* CertCache.                                                              *)
(***************************************************************************)

USE CertCacheAssumption

CacheInv == CacheTypeOK /\ WithinSize /\ ServedInTime

LEMMA CachedFinite == Cached(cache) \subseteq Urls /\ IsFiniteSet(Cached(cache))
BY FS_Subset DEF Cached

LEMMA CacheInvInit == CacheInit => CacheInv
<1> SUFFICES ASSUME CacheInit PROVE CacheInv
  OBVIOUS
<1> USE DEF CacheInit, None
<1>1. CacheTypeOK
  BY DEF CacheTypeOK
<1>2. Cached(cache) = {}
  BY DEF Cached
<1>3. WithinSize /\ ServedInTime
  BY <1>2, FS_EmptySet DEF WithinSize, ServedInTime
<1> QED
  BY <1>1, <1>3 DEF CacheInv

(***************************************************************************)
(* The eviction.                                                            *)
(***************************************************************************)

\* An eviction only drops entries.
LEMMA EvictedDrops ==
    ASSUME CacheTypeOK, NEW c \in Evicted
    PROVE  /\ c \in [Urls -> Nat \cup {None}]
           /\ \A u \in Urls : c[u] = cache[u] \/ c[u] = None
BY DEF Evicted, Sweep, CacheTypeOK, Cached

\* And it makes room.
LEMMA EvictedHasRoom ==
    ASSUME CacheTypeOK, WithinSize, NEW c \in Evicted
    PROVE  IsFiniteSet(Cached(c)) /\ Cardinality(Cached(c)) < MaxSize
<1>1. Sweep \in [Urls -> Nat \cup {None}] /\ Cached(Sweep) \subseteq Cached(cache)
  BY DEF Sweep, Cached, CacheTypeOK
<1>2. /\ IsFiniteSet(Cached(Sweep))
      /\ Cardinality(Cached(Sweep)) <= MaxSize /\ Cardinality(Cached(Sweep)) \in Nat
  <2>1. /\ Cardinality(Cached(Sweep)) <= Cardinality(Cached(cache))
        /\ IsFiniteSet(Cached(Sweep))
    BY <1>1, CachedFinite, FS_Subset
  <2>2. Cardinality(Cached(Sweep)) \in Nat /\ Cardinality(Cached(cache)) \in Nat
    BY <2>1, CachedFinite, FS_CardinalityType
  <2> QED
    BY <2>1, <2>2 DEF WithinSize
<1>3. CASE ~Full(Sweep)
  BY <1>2, <1>3 DEF Evicted, Full
<1>4. CASE Full(Sweep)
  <2>1. PICK u \in Cached(Sweep) : c = [Sweep EXCEPT ![u] = None]
    BY <1>4 DEF Evicted
  <2>2. Cached(c) = Cached(Sweep) \ {u}
    BY <1>1, <2>1 DEF Cached
  <2>3. IsFiniteSet(Cached(c)) /\ Cardinality(Cached(c)) = Cardinality(Cached(Sweep)) - 1
    BY <1>2, <2>2, FS_RemoveElement
  <2> QED
    BY <1>2, <2>3
<1> QED
  BY <1>3, <1>4

(***************************************************************************)
(* The invariant.                                                           *)
(***************************************************************************)

\* Whatever is left to store into has room for one entry, and only entries of
\* the cache.
LEMMA StoreStep == CacheInv /\ Store => CacheInv'
<1> SUFFICES ASSUME CacheInv, Store PROVE CacheInv'
  OBVIOUS
<1>1. CacheTypeOK /\ WithinSize /\ url \in Urls
  BY DEF CacheInv, Store, CacheTypeOK
<1>2. PICK c \in IF Full(cache) THEN Evicted ELSE {cache} :
         cache' = [c EXCEPT ![url] = now + TTL]
  BY DEF Store
<1>3. /\ c \in [Urls -> Nat \cup {None}]
      /\ \A u \in Urls : c[u] = cache[u] \/ c[u] = None
  <2>1. CASE c \in Evicted
    BY <1>1, <2>1, EvictedDrops
  <2>2. CASE c = cache
    BY <1>1, <2>2 DEF CacheTypeOK
  <2> QED
    BY <1>2, <2>1, <2>2
<1>4. IsFiniteSet(Cached(c)) /\ Cardinality(Cached(c)) < MaxSize
  <2>1. CASE Full(cache)
    BY <1>1, <1>2, <2>1, EvictedHasRoom
  <2>2. CASE ~Full(cache)
    BY <1>2, <2>2, CachedFinite, FS_CardinalityType DEF Full
  <2> QED
    BY <2>1, <2>2
<1>5. CacheTypeOK'
  <2>1. /\ now \in Nat /\ began \in Nat /\ began <= now /\ TTL \in Nat
        /\ now' = now /\ began' = began /\ url' = NoUrl /\ served' = 0
        /\ fetched' = [fetched EXCEPT ![url] = now]
        /\ fetched \in [Urls -> (0..now) \cup {None}]
    BY <1>1, CertCacheAssumption DEF Store, CacheTypeOK
  <2>2. now + TTL \in Nat /\ now \in 0..now /\ now # None
    BY <2>1 DEF None
  <2>3. cache' \in [Urls -> Nat \cup {None}]
    BY <1>1, <1>2, <1>3, <2>2
  <2>4. fetched' \in [Urls -> (0..now) \cup {None}]
    BY <1>1, <2>1, <2>2
  <2>5. ASSUME NEW u \in Urls, cache'[u] # None
        PROVE  fetched'[u] # None /\ cache'[u] = fetched'[u] + TTL
    <3>1. CASE u = url
      BY <1>1, <1>2, <1>3, <2>1, <2>2, <3>1
    <3>2. CASE u # url
      <4>1. cache'[u] = c[u] /\ fetched'[u] = fetched[u]
        BY <1>2, <1>3, <2>1, <3>2
      <4>2. cache[u] = cache'[u] /\ cache[u] # None
        BY <1>3, <2>5, <4>1
      <4> QED
        BY <1>1, <4>1, <4>2 DEF CacheTypeOK
    <3> QED
      BY <3>1, <3>2
  <2> QED
    BY <2>1, <2>3, <2>4, <2>5 DEF CacheTypeOK
<1>6. WithinSize'
  <2>1. Cached(cache)' \subseteq Cached(c) \cup {url}
    BY <1>2, <1>3 DEF Cached
  <2>2. /\ IsFiniteSet(Cached(c) \cup {url})
        /\ Cardinality(Cached(c) \cup {url}) \in {Cardinality(Cached(c)), Cardinality(Cached(c)) + 1}
    BY <1>4, FS_AddElement
  <2>3. /\ Cardinality(Cached(cache)') <= Cardinality(Cached(c) \cup {url})
        /\ IsFiniteSet(Cached(cache)')
    BY <2>1, <2>2, FS_Subset
  <2>4. Cardinality(Cached(c)) \in Nat /\ Cardinality(Cached(cache)') \in Nat
    BY <1>4, <2>3, FS_CardinalityType
  <2> QED
    BY <1>4, <2>2, <2>3, <2>4 DEF WithinSize
<1>7. ServedInTime'
  BY DEF Store, ServedInTime
<1> QED
  BY <1>5, <1>6, <1>7 DEF CacheInv

LEMMA CacheInvStep == CacheInv /\ [CacheNext]_cacheVars => CacheInv'
<1> SUFFICES ASSUME CacheInv, [CacheNext]_cacheVars PROVE CacheInv'
  OBVIOUS
<1> USE DEF CacheInv, CacheTypeOK, WithinSize, ServedInTime, Cached
<1>1. ASSUME NEW u \in Urls, Hit(u) PROVE CacheInv'
  BY <1>1 DEF Hit, Fresh, None
<1>2. ASSUME NEW u \in Urls, Miss(u) PROVE CacheInv'
  BY <1>2 DEF Miss
<1>3. CASE FetchFails
  BY <1>3 DEF FetchFails
<1>4. CASE Tick
  BY <1>4 DEF Tick
<1>5. CASE UNCHANGED cacheVars
  BY <1>5 DEF cacheVars
<1> QED
  BY <1>1, <1>2, <1>3, <1>4, <1>5, StoreStep DEF CacheNext

LEMMA CacheInvCorrect == CacheSpec => []CacheInv
BY CacheInvInit, CacheInvStep, PTL DEF CacheSpec

\* An entry always stems from the last answer for its URL, and lasts a lifetime
\* from there (gamecenter.go:187-196).
THEOREM CacheTypeCorrect == CacheSpec => []CacheTypeOK
<1>1. CacheInv => CacheTypeOK
  BY DEF CacheInv
<1> QED
  BY CacheInvCorrect, <1>1, PTL

\* The cache never holds more than maxCertCacheSize certificates
\* (gamecenter.go:187-215).
THEOREM WithinSizeCorrect == CacheSpec => []WithinSize
<1>1. CacheInv => WithinSize
  BY DEF CacheInv
<1> QED
  BY CacheInvCorrect, <1>1, PTL

\* A certificate that is used was fetched less than certCacheTTL ago
\* (gamecenter.go:152-158).
THEOREM ServedCorrect == CacheSpec => []ServedInTime
<1>1. CacheInv => ServedInTime
  BY DEF CacheInv
<1> QED
  BY CacheInvCorrect, <1>1, PTL

(***************************************************************************)
(* What an answer may cost.                                                 *)
(***************************************************************************)

\* What the sweep keeps are the entries that are not expired.
LEMMA SweepKeeps ==
    ASSUME CacheTypeOK
    PROVE  /\ Cached(Sweep) = {v \in Urls : cache[v] # None /\ now <= cache[v]}
           /\ \A v \in Urls : now < cache[v] => Sweep[v] = cache[v]
<1>1. \A v \in Urls : Sweep[v] = IF cache[v] # None /\ now > cache[v] THEN None ELSE cache[v]
  BY DEF Sweep, Expired
<1>2. now \in Int /\ \A v \in Urls : cache[v] \in Int
  BY DEF CacheTypeOK, None
<1> QED
  BY <1>1, <1>2 DEF Cached

\* One certificate that still serves is lost at most, and only from a cache that is
\* full without the expired ones (gamecenter.go:187-215).
THEOREM LosesCorrect == CacheSpec => LosesOnlyWhenFull
<1> DEFINE Kept ==
      \A u \in Urls :
         cache[u] # None /\ now < cache[u] /\ cache'[u] = None =>
            /\ \A v \in Urls \ {u} : cache[v] # None /\ now < cache[v] => cache'[v] # None
            /\ Cardinality({v \in Urls : cache[v] # None /\ now <= cache[v]}) >= MaxSize
<1>1. CacheTypeOK /\ [CacheNext]_cacheVars => [Kept]_cacheVars
  <2> SUFFICES ASSUME CacheTypeOK, [CacheNext]_cacheVars,
                      NEW u \in Urls, cache[u] # None, now < cache[u], cache'[u] = None
               PROVE  /\ \A v \in Urls \ {u} :
                            cache[v] # None /\ now < cache[v] => cache'[v] # None
                      /\ Cardinality({v \in Urls : cache[v] # None /\ now <= cache[v]}) >= MaxSize
    OBVIOUS
  <2>1. CASE Store
    <3>1. PICK c \in IF Full(cache) THEN Evicted ELSE {cache} :
             cache' = [c EXCEPT ![url] = now + TTL]
      BY <2>1 DEF Store
    <3>2. now + TTL # None /\ url \in Urls
      BY <2>1, CertCacheAssumption DEF CacheTypeOK, None, Store
    <3>3. c \in [Urls -> Nat \cup {None}]
      BY <3>1, EvictedDrops DEF CacheTypeOK
    <3>4. c[u] = None /\ c # cache
      BY <3>1, <3>2, <3>3
    <3>5. c \in Evicted
      BY <3>1, <3>4
    <3>6. c # Sweep
      BY <3>4, SweepKeeps
    <3>7. Full(Sweep) /\ \E x \in Cached(Sweep) : c = [Sweep EXCEPT ![x] = None]
      BY <3>5, <3>6 DEF Evicted
    <3>8. PICK x \in Cached(Sweep) : c = [Sweep EXCEPT ![x] = None]
      BY <3>7
    <3>9. x = u
      BY <3>4, <3>8, SweepKeeps DEF Sweep
    <3>10. ASSUME NEW v \in Urls \ {u}, cache[v] # None, now < cache[v] PROVE cache'[v] # None
      <4>1. c[v] = cache[v]
        BY <3>8, <3>9, <3>10, SweepKeeps DEF Sweep
      <4> QED
        BY <3>1, <3>2, <3>3, <3>10, <4>1
    <3> QED
      BY <3>7, <3>10, SweepKeeps DEF Full
  <2>2. CASE UNCHANGED cache
    BY <2>2
  <2> QED
    BY <2>1, <2>2 DEF CacheNext, Hit, Miss, FetchFails, Tick, cacheVars
<1> QED
  BY <1>1, CacheTypeCorrect, PTL DEF CacheSpec, LosesOnlyWhenFull

(***************************************************************************)
(* Shutdown.                                                               *)
(***************************************************************************)

\* The process starts with nothing; once the requests are drained there is none,
\* nor a connection that may send one, and the hub only asks an open pool.
Draining ==
    /\ main = "starting" => stopper = "none"
    /\ stopper \in {"closing", "cancelling", "done"} =>
          \A c \in Conns : conn[c] \notin {"idle", "active"}
    /\ query => pool = "open"

ShutdownInv == ShutdownTypeOK /\ Draining

LEMMA ShutdownInvInit == ShutdownInit => ShutdownInv
BY DEF ShutdownInit, ShutdownInv, ShutdownTypeOK, Draining

LEMMA ShutdownInvStep == ShutdownInv /\ [ShutdownNext]_shutdownVars => ShutdownInv'
<1> SUFFICES ASSUME ShutdownInv, [ShutdownNext]_shutdownVars PROVE ShutdownInv'
  OBVIOUS
<1> USE DEF ShutdownInv, ShutdownTypeOK, Draining
<1>1. CASE Start \/ StartFails \/ Return
  BY <1>1 DEF Start, StartFails, Return
<1>2. CASE Signal \/ Drained
  BY <1>2 DEF Signal, Drained, Running
<1>3. CASE CloseStore \/ Cancel
  BY <1>3 DEF CloseStore, Cancel, Running
<1>4. ASSUME NEW c \in Conns, Connection(c) PROVE ShutdownInv'
  <2>1. CASE Accept(c)
    BY <2>1 DEF Accept, Moves, Running, Stopping
  <2>2. CASE Request(c) \/ Respond(c)
    BY <2>2 DEF Request, Respond, Moves, Running
  <2>3. CASE Upgrade(c) \/ Register(c) \/ Disconnect(c)
    BY <2>3 DEF Upgrade, Register, Disconnect, Moves, Running
  <2> QED
    BY <1>4, <2>1, <2>2, <2>3 DEF Connection
<1>5. CASE Query \/ Answered
  BY <1>5 DEF Query, Answered, Running
<1>6. CASE UNCHANGED shutdownVars
  BY <1>6 DEF shutdownVars
<1> QED
  BY <1>1, <1>2, <1>3, <1>4, <1>5, <1>6 DEF ShutdownNext

\* The pool is closed exactly from CloseStore on, and every connection is in one
\* state of its life (main.go:46-79).
THEOREM ShutdownTypeCorrect == ShutdownSpec => []ShutdownTypeOK
<1>1. ShutdownInv => ShutdownTypeOK
  BY DEF ShutdownInv
<1> QED
  BY <1>1, ShutdownInvInit, ShutdownInvStep, PTL DEF ShutdownSpec

\* No request is still served, and no call of the hub is under way, when the pool
\* is closed (main.go:67-79).
THEOREM StoreOutlivesCorrect == ShutdownSpec => []StoreOutlivesRequests
<1>1. ShutdownInv => StoreOutlivesRequests
  BY DEF ShutdownInv, ShutdownTypeOK, Draining, StoreOutlivesRequests
<1> QED
  BY <1>1, ShutdownInvInit, ShutdownInvStep, PTL DEF ShutdownSpec

(***************************************************************************)
(* The three in the one specification of MCServices.                          *)
(***************************************************************************)

\* Each part keeps to its own specification, whichever of them is the one that moves,
\* so that what is proved of a part holds there too (main.go:46-87).
THEOREM PartsKeepTheirSpecs == ServicesSpec => AuthSpec /\ CacheSpec /\ ShutdownSpec
<1>1. ServicesInit => AuthInit /\ CacheInit /\ ShutdownInit
  BY DEF ServicesInit
<1>2. [ServicesNext /\ UNCHANGED part]_servicesVars =>
         [AuthNext]_authVars /\ [CacheNext]_cacheVars /\ [ShutdownNext]_shutdownVars
  BY DEF ServicesNext, servicesVars
<1> QED
  BY <1>1, <1>2, PTL DEF ServicesSpec, AuthSpec, CacheSpec, ShutdownSpec

\* The types of the three modules, with how far each is (auth.go:80-154,
\* gamecenter.go:152-199, main.go:64-86).
THEOREM ServicesTypeCorrect == ServicesSpec => []ServicesTypeOK
<1>1. AuthTypeOK /\ CacheTypeOK /\ ShutdownTypeOK => ServicesTypeOK
  BY DEF ServicesTypeOK
<1> QED
  BY <1>1, PartsKeepTheirSpecs, AuthTypeCorrect, CacheTypeCorrect, ShutdownTypeCorrect, PTL
================================================================================
