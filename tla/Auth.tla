--------------------------------- MODULE Auth ---------------------------------
(***************************************************************************)
(* Logging in: handler/auth.go on the hub goroutine, account/account.go and  *)
(* the accounts table that store/postgres.go writes.  The database is         *)
(* external: its answer may come, come too late or never, and an INSERT that  *)
(* the server has given up may still be carried out.                          *)
(*                                                                          *)
(* What Verify does with a credential is cryptography and a certificate       *)
(* (CertCache): here it says yes or no.  A no, like malformed data, is         *)
(* answered and changes nothing.                                             *)
(***************************************************************************)
EXTENDS Integers, FiniteSets

CONSTANTS Clients, NoClient,
          Gamers,      \* Game Center player ids
          Guest,       \* what game_center_id NULL stands for
          AccountIds,  \* uuids still to be drawn: a bound on the accounts
          NoAccount,
          MaxRestarts  \* bound on the restarts of the server

ASSUME AuthAssumption ==
    /\ NoClient \notin Clients
    /\ Guest \notin Gamers
    /\ NoAccount \notin AccountIds \cup Gamers \cup {Guest}
    /\ MaxRestarts \in Nat

VARIABLES
    table,    \* accounts: per id its game_center_id, NoAccount where there is no row
    pending,  \* INSERTs given up by the server but not by the database
    drawn,    \* ids that uuid.New has returned
    auth,     \* per client: Client.Authenticated
    account,  \* per client: Client.AccountID
    proved,   \* per client: whom its last accepted credential names (history)
    step,     \* the call the hub goroutine waits for, "idle" when it waits for none
    caller,   \* whose authenticate message it is handling
    asked,    \* whom it names
    acc,      \* the account at hand
    expired,  \* the context of the handler is done
    restarts

store == <<table, pending>>
session == <<auth, account, proved>>
call == <<step, caller, asked, acc>>
authVars == <<store, drawn, session, call, expired, restarts>>

Owners == Gamers \cup {Guest}

NoCall == step' = "idle" /\ caller' = NoClient /\ asked' = Guest /\ acc' = NoAccount

AuthInit ==
    /\ table = [a \in AccountIds |-> NoAccount] /\ pending = {} /\ drawn = {}
    /\ auth = [c \in Clients |-> FALSE]
    /\ account = [c \in Clients |-> NoAccount]
    /\ proved = [c \in Clients |-> Guest]
    /\ step = "idle" /\ caller = NoClient /\ asked = Guest /\ acc = NoAccount
    /\ expired = FALSE /\ restarts = 0

(***************************************************************************)
(* The table.                                                               *)
(***************************************************************************)

\* (Mutant of Free: game_center_id is not UNIQUE.)
FreeId(a, owner) == table[a] = NoAccount

\* id is the PRIMARY KEY; game_center_id is UNIQUE, which NULLs do not offend.
Free(a, owner) ==
    /\ table[a] = NoAccount
    /\ owner = Guest \/ \A b \in AccountIds : table[b] # owner

Insert(a, owner) == table' = [table EXCEPT ![a] = owner]

\* The database carries out an INSERT nobody waits for any more, or drops it.
LateInsert ==
    \E row \in pending :
        /\ pending' = pending \ {row}
        /\ IF Free(row[1], row[2]) THEN Insert(row[1], row[2]) ELSE UNCHANGED table
        /\ UNCHANGED <<drawn, session, call, expired, restarts>>

LoseInsert ==
    \E row \in pending :
        /\ pending' = pending \ {row}
        /\ UNCHANGED <<table, drawn, session, call, expired, restarts>>

(***************************************************************************)
(* HandleAuthenticate.                                                      *)
(***************************************************************************)

MayAsk(c) == step = "idle" /\ ~auth[c]

\* handleGameCenter begins to verify a credential, which may need a certificate
\* from Apple.
AskGameCenter(c, g) ==
    /\ MayAsk(c)
    /\ step' = "verify" /\ caller' = c /\ asked' = g /\ acc' = NoAccount
    /\ expired' = FALSE
    /\ UNCHANGED <<store, drawn, session, restarts>>

\* The credential is in order.  A certificate at hand is used whatever the time.
Verified ==
    /\ step = "verify"
    /\ step' = "find"
    /\ proved' = [proved EXCEPT ![caller] = asked]
    /\ UNCHANGED <<store, drawn, auth, account, caller, asked, acc, expired, restarts>>

\* NewGameCenterAccount and NewGuestAccount draw an id.
NewAccount == \E a \in AccountIds \ drawn : acc' = a /\ drawn' = drawn \cup {a}

\* handleGuest: a nickname is all it takes.
AskGuest(c) ==
    /\ MayAsk(c)
    /\ step' = "create" /\ caller' = c /\ asked' = Guest
    /\ NewAccount
    /\ proved' = [proved EXCEPT ![c] = Guest]
    /\ expired' = FALSE
    /\ UNCHANGED <<store, auth, account, restarts>>

\* (Mutant of Expire: creating a guest takes the time it takes.)
ExpireUnlessGuest ==
    /\ step # "idle" /\ ~expired /\ asked # Guest
    /\ expired' = TRUE
    /\ UNCHANGED <<store, drawn, session, call, restarts>>

\* The five seconds of the context are over; they cover all calls of a handler.
Expire ==
    /\ step # "idle" /\ ~expired
    /\ expired' = TRUE
    /\ UNCHANGED <<store, drawn, session, call, restarts>>

\* authenticateClient.
Authenticate ==
    /\ auth' = [auth EXCEPT ![caller] = TRUE]
    /\ account' = [account EXCEPT ![caller] = acc]
    /\ NoCall
    /\ UNCHANGED proved

FindsAccount ==
    /\ step = "find" /\ ~expired
    /\ \E a \in AccountIds : table[a] = asked /\ acc' = a
    /\ step' = "update"
    /\ UNCHANGED <<store, drawn, session, caller, asked, expired, restarts>>

FindsNone ==
    /\ step = "find" /\ ~expired
    /\ \A a \in AccountIds : table[a] # asked
    /\ NewAccount
    /\ step' = "create"
    /\ UNCHANGED <<store, session, caller, asked, expired, restarts>>

\* The INSERT is done and the server learns of it.
Created ==
    /\ step = "create" /\ ~expired
    /\ Free(acc, asked)
    /\ Insert(acc, asked)
    /\ Authenticate
    /\ UNCHANGED <<pending, drawn, expired, restarts>>

\* (Mutant of CreateFails: the error is only logged.)
CreateFailsButGoesOn ==
    /\ step = "create"
    /\ pending' \in {pending, pending \cup {<<acc, asked>>}}
    /\ Authenticate
    /\ UNCHANGED <<table, drawn, expired, restarts>>

\* The INSERT is refused, does not reach the database, or the server does not
\* learn in time what becomes of it.
CreateFails ==
    /\ step = "create"
    /\ pending' \in {pending, pending \cup {<<acc, asked>>}}
    /\ NoCall
    /\ UNCHANGED <<table, drawn, session, expired, restarts>>

\* Verify rejects the credential or gets no certificate; the SELECT fails.
FindFails ==
    /\ step \in {"verify", "find"}
    /\ NoCall
    /\ UNCHANGED <<store, drawn, session, expired, restarts>>

\* UpdateLastLogin has answered or not: its error is ignored.
Updated ==
    /\ step = "update"
    /\ Authenticate
    /\ UNCHANGED <<store, drawn, expired, restarts>>

\* The server dies and is started again: connections and calls are gone, the
\* table and what is on its way to it are not.
Restart ==
    /\ restarts < MaxRestarts /\ restarts' = restarts + 1
    /\ auth' = [c \in Clients |-> FALSE]
    /\ account' = [c \in Clients |-> NoAccount]
    /\ proved' = [c \in Clients |-> Guest]
    /\ NoCall
    /\ pending' \in {pending} \cup (IF step = "create" THEN {pending \cup {<<acc, asked>>}} ELSE {})
    /\ expired' = FALSE
    /\ UNCHANGED <<table, drawn>>

Login == \E c \in Clients : AskGuest(c) \/ \E g \in Gamers : AskGameCenter(c, g)
Fail == FindFails \/ CreateFails
Answer == Verified \/ FindsAccount \/ FindsNone \/ Created \/ Updated

AuthNext == Login \/ Expire \/ Answer \/ Fail \/ LateInsert \/ LoseInsert \/ Restart

AuthSpec == AuthInit /\ [][AuthNext]_authVars

\* The clock goes on, and pgx returns once the context is done; the database owes
\* no answer.
AuthFairness ==
    /\ WF_authVars(Expire)
    /\ WF_authVars(expired /\ (Fail \/ Updated))

(***************************************************************************)
(* Properties.                                                              *)
(***************************************************************************)

AuthTypeOK ==
    /\ table \in [AccountIds -> Owners \cup {NoAccount}]
    /\ pending \subseteq AccountIds \X Owners
    /\ drawn \subseteq AccountIds
    /\ \A a \in AccountIds : table[a] # NoAccount => a \in drawn
    /\ auth \in [Clients -> BOOLEAN]
    /\ account \in [Clients -> AccountIds \cup {NoAccount}]
    /\ proved \in [Clients -> Owners]
    /\ step \in {"idle", "verify", "find", "create", "update"}
    /\ caller \in Clients \cup {NoClient} /\ (step # "idle" => caller \in Clients)
    /\ asked \in Owners
    /\ acc \in AccountIds \cup {NoAccount} /\ (step \in {"create", "update"} => acc \in AccountIds)
    /\ expired \in BOOLEAN
    /\ restarts \in 0..MaxRestarts

\* A Game Center player has at most one account, although two logins may both
\* find none: the INSERT of the first may be carried out after the server has
\* given it up, or after a restart.
OneAccountPerGamer ==
    \A a, b \in AccountIds : table[a] = table[b] /\ table[a] \in Gamers => a = b

\* A client is logged in only with an account that is stored and belongs to whom
\* its credential named, whatever failed on the way.
AuthenticatedStored == \A c \in Clients : auth[c] => table[account[c]] = proved[c]

\* The account of a connection never changes once it is logged in.
LoginIsFinal ==
    [][\A c \in Clients : auth[c] /\ auth'[c] => account'[c] = account[c]]_authVars

\* The hub gets over every login, though the database may never answer.
LoginsEnd == (step # "idle") ~> (step = "idle")
===============================================================================
