----------------------------- MODULE MCAulaContext -----------------------------
\* Instances of AulaContext for TLC.
EXTENDS AulaContext, TLC

ASSUME ContextAssumption == TokenRefresherAssumption /\ AulaContextAssumption

AnyContext == Permutations(Callers)

\* What a context can tell apart: all but the history variables of TokenRefresher,
\* which no action reads.
Visible == <<store, versions, expired, fields, loads, waitsOn, session>>
=============================================================================
