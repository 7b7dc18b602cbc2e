------------------------------ MODULE LoginPromise ------------------------------
(***************************************************************************)
(* What login() and attemptSilentReauthorize() promise: tokens only for a  *)
(* login whose every factor MitID accepted, in order, and only for the     *)
(* authorization this call asked for; and one outcome per call.            *)
(***************************************************************************)
EXTENDS Sequences, Naturals

VARIABLES method,     \* APP, CODE_TOKEN, or silent: the broker's session vouches
          stage,      \* open, asserted, granted, failed
          factors     \* accepted by MitID so far

Methods == {"APP", "CODE_TOKEN", "silent"}
Required(m) == IF m = "APP" THEN <<"APP">>
               ELSE IF m = "CODE_TOKEN" THEN <<"CODE_TOKEN", "PASSWORD">> ELSE <<>>

Init == method \in Methods /\ stage = "open" /\ factors = <<>>

Accept == /\ stage = "open" /\ Len(factors) < Len(Required(method))
          /\ factors' = Append(factors, Required(method)[Len(factors) + 1])
          /\ UNCHANGED <<method, stage>>

\* Aula answered this call's own authorization request.
Assert == /\ stage = "open" /\ factors = Required(method)
          /\ stage' = "asserted"
          /\ UNCHANGED <<method, factors>>

Grant == stage = "asserted" /\ stage' = "granted" /\ UNCHANGED <<method, factors>>

Fail == /\ stage \in {"open", "asserted"} /\ stage' = "failed"
        /\ UNCHANGED <<method, factors>>

Next == Accept \/ Assert \/ Grant \/ Fail
Spec == Init /\ [][Next]_<<method, stage, factors>>
=============================================================================
