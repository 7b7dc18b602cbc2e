---------------------------------- MODULE Srp ----------------------------------
(***************************************************************************)
(* The SRP handshake of one MitID factor: CustomSrp (packages/aula-auth/   *)
(* src/srp.ts) against MitID, over a small group.  A hash is any value the *)
(* two sides compute alike, chosen once: x, u and k; the proofs M1 and M2  *)
(* are the values they are hashes of.  JavaScript's % takes the sign of    *)
(* its left operand.  The server is external.                              *)
(***************************************************************************)
EXTENDS Integers

CONSTANTS
    N,              \* SRP_N
    g,              \* SRP_g
    MaxExponent     \* bound: secrets and hashes are 0..MaxExponent

SrpAssumption == N \in Nat \ {0, 1} /\ g \in 1..N - 1 /\ MaxExponent \in Nat

VARIABLES
    secretA,        \* the client's a
    x,              \* the hash of salt and password, as the client computes it
    registered,     \* external: the hash MitID holds the verifier of
    u, k,           \* the hash of A and B, the multiplier (a hash of N and g)
    secretB,        \* external: the server's b
    serverB,        \* B as it came over the wire
    sessionKey,     \* what K is the hash of, -1: none
    step            \* stage1, sent, proved, accepted, refused

vars == <<secretA, x, registered, u, k, secretB, serverB, sessionKey, step>>

Hash == 0..MaxExponent
Init == /\ secretA \in Hash /\ secretB \in Hash /\ x \in Hash /\ registered \in Hash
        /\ u \in Hash /\ k \in Hash
        /\ serverB = 0 /\ sessionKey = -1 /\ step = "stage1"

-----------------------------------------------------------------------------
\* JavaScript's remainder.
Rem(n, d) == IF n < 0 THEN -((-n) % d) ELSE n % d

\* Square and multiply, low bit first.
SquareMultiply(base, exp, mod) ==
    LET Rest == (1 - mod)..(mod - 1)
        loop[s \in [e : 0..exp, b : Rest, result : Rest]] ==
            IF s.e = 0 THEN s.result
            ELSE loop[[e |-> s.e \div 2, b |-> Rem(s.b * s.b, mod),
                       result |-> IF s.e % 2 = 1 THEN Rem(s.result * s.b, mod) ELSE s.result]]
    IN loop[[e |-> exp, b |-> base, result |-> Rem(1, mod)]]

KeepsSign(base, exp, mod) == SquareMultiply(Rem(base, mod), exp, mod)
ModPow(base, exp, mod) ==
    IF mod = 1 THEN 0 ELSE SquareMultiply(Rem(Rem(base, mod) + mod, mod), exp, mod)

\* A, which stage1 sends.
PublicA == ModPow(g, secretA, N)

\* computeSessionSecret: base and exponent are not reduced.
SessionSecret(B) == ModPow(B - ModPow(g, x, N) * k, u * x + secretA, N)

\* MitID answers init with the salt and B.
ServerAnswers(B) == /\ step = "stage1"
                    /\ serverB' = B
                    /\ step' = "sent"
                    /\ UNCHANGED <<secretA, x, registered, u, k, secretB, sessionKey>>

Safe(B) == B # 0 /\ B % N # 0
Stage3 == /\ step = "sent"
          /\ IF Safe(serverB)
             THEN sessionKey' = SessionSecret(serverB) /\ step' = "proved"
             ELSE step' = "refused" /\ UNCHANGED sessionKey
          /\ UNCHANGED <<secretA, x, registered, u, k, secretB, serverB>>

-----------------------------------------------------------------------------
(* MitID, by the definition of SRP-6a                                       *)

Pow(b, e) == LET power[i \in Hash] == IF i = 0 THEN 1 % N ELSE (b * power[i - 1]) % N
             IN  power[e]
Verifier == Pow(g, registered)
ServerPublic == (k * Verifier + Pow(g, secretB)) % N
ServerSecret == Pow((PublicA * Pow(Verifier, u)) % N, secretB)

\* stage5: M2 is the hash of A, M1 and K, and M1 of A, B and K.
Stage5 == /\ step = "proved"
          /\ step' = IF sessionKey = ServerSecret THEN "accepted" ELSE "refused"
          /\ UNCHANGED <<secretA, x, registered, u, k, secretB, serverB, sessionKey>>

Over == step \in {"accepted", "refused"} /\ UNCHANGED vars

Next == ServerAnswers(ServerPublic) \/ ServerAnswers(0) \/ Stage3 \/ Stage5 \/ Over
Spec == Init /\ [][Next]_vars

-----------------------------------------------------------------------------
TypeOK == /\ {secretA, secretB, x, registered, u, k} \subseteq Hash
          /\ serverB \in 0..N - 1 /\ sessionKey \in (1 - N)..N - 1
          /\ step \in {"stage1", "sent", "proved", "accepted", "refused"}

\* With the password MitID knows, both sides hold the same secret, in the range of the
\* group, also when B - k * g^x is negative; and B = 0 is never answered with a proof
\* (srp.ts:125-130, 203-210).
SecretsAgree == /\ step = "proved" /\ x = registered => sessionKey = ServerSecret
                /\ step = "proved" => serverB # 0
=============================================================================
