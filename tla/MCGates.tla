------------------------------ MODULE MCGates ------------------------------
(***************************************************************************)
(* What a request passes before it reaches the notes: the rate limiter,    *)
(* the failed-login counters and the API tokens.  They share no variable,  *)
(* so a behaviour of all of them is one behaviour of each side by side;    *)
(* every behaviour here runs one of them and leaves the others as they     *)
(* are, which checks each on all its behaviours.                           *)
(***************************************************************************)
EXTENDS RateLimit, Lockout, Tokens

VARIABLE gate

vars == <<gate, limiterVars, lockoutVars, tokensVars>>

Init ==
  /\ gate \in {"limiter", "lockout", "tokens"}
  /\ LimiterInit /\ TokensInit
  /\ LockoutInit /\ (gate # "lockout" => ~forever)

Next ==
  /\ UNCHANGED gate
  /\ \/ gate = "limiter" /\ LimiterNext /\ UNCHANGED <<lockoutVars, tokensVars>>
     \/ gate = "lockout" /\ LockoutNext /\ UNCHANGED <<limiterVars, tokensVars>>
     \/ gate = "tokens" /\ TokensNext /\ UNCHANGED <<limiterVars, lockoutVars>>

\* The recorder's goroutine keeps running (main.go:126).
Spec == Init /\ [][Next]_vars /\ WF_tokensVars(Drain)

TypeOK == RateLimitTypeOK /\ LockoutTypeOK /\ TokensTypeOK
=============================================================================
