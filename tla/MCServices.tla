------------------------------ MODULE MCServices ------------------------------
(* Instances for TLC of the modules around the game that run alone: Auth,       *)
(* CertCache and Shutdown.  They share no state, so a behaviour is one of one   *)
(* of them, while the others stay where they begin.                            *)
EXTENDS Auth, CertCache, Shutdown, TLC

VARIABLE part   \* which of the modules

ServicesInit ==
    /\ part \in {"auth", "certs", "shutdown"}
    /\ AuthInit /\ CacheInit /\ ShutdownInit

ServicesNext ==
    \/ part = "auth" /\ AuthNext /\ UNCHANGED <<cacheVars, shutdownVars>>
    \/ part = "certs" /\ CacheNext /\ UNCHANGED <<authVars, shutdownVars>>
    \/ part = "shutdown" /\ ShutdownNext /\ UNCHANGED <<authVars, cacheVars>>

servicesVars == <<part, authVars, cacheVars, shutdownVars>>

\* A module that rests has no step that fairness demands.
ServicesSpec ==
    /\ ServicesInit /\ [][ServicesNext /\ UNCHANGED part]_servicesVars
    /\ AuthFairness /\ ShutdownFairness

\* The type invariants of the three, with what they say of how far a login and the
\* shutdown are and of the last answer for each URL (auth.go:80-154, main.go:64-86,
\* gamecenter.go:152-199).
ServicesTypeOK == AuthTypeOK /\ CacheTypeOK /\ ShutdownTypeOK
===============================================================================
