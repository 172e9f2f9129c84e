------------------------------- MODULE Shutdown -------------------------------
(***************************************************************************)
(* Start and end of the process (cmd/server/main.go): the main goroutine,    *)
(* the goroutine that waits for a signal, the handlers of HTTP connections,  *)
(* and the hub goroutine as far as it uses the account store.                *)
(*                                                                          *)
(* External: http.Server.Shutdown closes the listeners at once and then waits *)
(* for the connections that are active; a connection that was hijacked for a  *)
(* WebSocket is none of its business.  pgxpool.Close waits for the calls in   *)
(* flight.                                                                  *)
(***************************************************************************)
EXTENDS Integers

CONSTANT Conns   \* connections to the HTTP server

VARIABLES
    main,    \* "starting", "listening", "exited"
    stopper, \* the goroutine of the signal: "none", "waiting", "draining", "closing", "cancelling", "done"
    pool,    \* the connections to the database: "none", "open", "closed"
    conn,    \* per connection: "none", "idle", "active", "hijacked", "registered", "closed"
    query    \* the hub waits for the database

shutdownVars == <<main, stopper, pool, conn, query>>

ShutdownInit ==
    /\ main = "starting" /\ stopper = "none" /\ pool = "none"
    /\ conn = [c \in Conns |-> "none"]
    /\ query = FALSE

\* Shutdown has been called: srv.inShutdown is set, the listeners are closed.
Stopping == stopper \notin {"none", "waiting"}

(***************************************************************************)
(* main.                                                                    *)
(***************************************************************************)

Start ==
    /\ main = "starting"
    /\ main' = "listening" /\ stopper' = "waiting" /\ pool' = "open"
    /\ UNCHANGED <<conn, query>>

\* The database does not answer, the port is taken: os.Exit(1).
StartFails ==
    /\ main = "starting" \/ (main = "listening" /\ ~Stopping)
    /\ main' = "exited"
    /\ UNCHANGED <<stopper, pool, conn, query>>

\* (Mutant of Return: main waits for the goroutine.)
ReturnWhenDone ==
    /\ main = "listening" /\ stopper = "done"
    /\ main' = "exited"
    /\ UNCHANGED <<stopper, pool, conn, query>>

\* ListenAndServe returns http.ErrServerClosed, main returns, the process ends.
Return ==
    /\ main = "listening" /\ Stopping
    /\ main' = "exited"
    /\ UNCHANGED <<stopper, pool, conn, query>>

(***************************************************************************)
(* The goroutine of the signal.                                             *)
(***************************************************************************)

Running == main = "listening"

\* One signal is enough; later ones stay in sigCh.
Signal ==
    /\ Running /\ stopper = "waiting"
    /\ stopper' = "draining"
    /\ UNCHANGED <<main, pool, conn, query>>

\* (Mutant of Drained: Shutdown with a context that is already done.)
DrainedAtOnce ==
    /\ Running /\ stopper = "draining"
    /\ stopper' = "closing"
    /\ UNCHANGED <<main, pool, conn, query>>

\* Shutdown returns: idle connections are closed, none is active.
Drained ==
    /\ Running /\ stopper = "draining"
    /\ \A c \in Conns : conn[c] # "active"
    /\ conn' = [c \in Conns |-> IF conn[c] = "idle" THEN "closed" ELSE conn[c]]
    /\ stopper' = "closing"
    /\ UNCHANGED <<main, pool, query>>

CloseStore ==
    /\ Running /\ stopper = "closing" /\ ~query
    /\ pool' = "closed" /\ stopper' = "cancelling"
    /\ UNCHANGED <<main, conn, query>>

Cancel ==
    /\ Running /\ stopper = "cancelling"
    /\ stopper' = "done"
    /\ UNCHANGED <<main, pool, conn, query>>

(***************************************************************************)
(* Connections and the hub.                                                 *)
(***************************************************************************)

Moves(c, from, to) ==
    /\ Running /\ conn[c] = from
    /\ conn' = [conn EXCEPT ![c] = to]
    /\ UNCHANGED <<main, stopper, pool, query>>

Accept(c) == ~Stopping /\ Moves(c, "none", "idle")
Request(c) == Moves(c, "idle", "active")
Respond(c) == Moves(c, "active", "idle") \/ Moves(c, "active", "closed")
Upgrade(c) == Moves(c, "active", "hijacked")

\* hub.Register <- client, which the hub takes between two messages.
Register(c) == ~query /\ Moves(c, "hijacked", "registered")
Disconnect(c) == ~query /\ Moves(c, "registered", "closed")

\* A client authenticates; with the pool closed the call fails at once.
Query ==
    /\ Running /\ ~query /\ pool = "open"
    /\ \E c \in Conns : conn[c] = "registered"
    /\ query' = TRUE
    /\ UNCHANGED <<main, stopper, pool, conn>>

Answered ==
    /\ Running /\ query
    /\ query' = FALSE
    /\ UNCHANGED <<main, stopper, pool, conn>>

Connection(c) ==
    Accept(c) \/ Request(c) \/ Respond(c) \/ Upgrade(c) \/ Register(c) \/ Disconnect(c)

ShutdownNext ==
    \/ Start \/ StartFails \/ Return
    \/ Signal \/ Drained \/ CloseStore \/ Cancel
    \/ \E c \in Conns : Connection(c)
    \/ Query \/ Answered

ShutdownSpec == ShutdownInit /\ [][ShutdownNext]_shutdownVars

\* The goroutine of main is scheduled; clients and the database owe nothing.
ShutdownFairness == WF_shutdownVars(Return)

(***************************************************************************)
(* Properties.                                                              *)
(***************************************************************************)

\* Types, and how far the shutdown is when the pool is closed.
ShutdownTypeOK ==
    /\ main \in {"starting", "listening", "exited"}
    /\ stopper \in {"none", "waiting", "draining", "closing", "cancelling", "done"}
    /\ pool \in {"none", "open", "closed"}
    /\ (pool = "closed") <=> stopper \in {"cancelling", "done"}
    /\ conn \in [Conns -> {"none", "idle", "active", "hijacked", "registered", "closed"}]
    /\ query \in BOOLEAN

\* No request that was accepted is still served without a database, and no call
\* of the hub loses its connection under way.
StoreOutlivesRequests ==
    pool = "closed" => ~query /\ \A c \in Conns : conn[c] # "active"

\* Once a signal came the process ends, whatever connections and database do: a
\* request that never completes and an open WebSocket hold nothing up.
Exits == (main = "listening" /\ Stopping) ~> (main = "exited")
===============================================================================
