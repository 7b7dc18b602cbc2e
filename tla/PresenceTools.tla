----------------------------- MODULE PresenceTools -----------------------------
(***************************************************************************)
(* aula.presence.report_sick (packages/mcp-server/src/tools.ts) while the  *)
(* staff and other guardians change the same statuses.  Concurrent calls,  *)
(* each for a set of ids the caller made up; a write may be lost on its    *)
(* way, or its answer on the way back.  Aula and its staff are external.   *)
(***************************************************************************)
EXTENDS Integers, FiniteSets

CONSTANTS
    ReportCall,     \* concurrent calls
    Own,            \* the guardian's children
    Others,         \* ids that are not
    None

PresenceAssumption == Own \cap Others = {}

Ids == Own \cup Others
Status == {"absent", "sick", "present"}

VARIABLES
    status,         \* what Aula holds of each child of the guardian
    ids, sick,      \* the arguments of each call
    at,             \* idle, profiles, overview, write
    overview,       \* statusById: what getDailyOverview answered, by child
    outcome         \* none, ok, refused, failed

args == <<ids, sick>>
vars == <<status, args, at, overview, outcome>>

Init == /\ status \in [Own -> {"absent", "present"}]
        /\ ids = [c \in ReportCall |-> {}] /\ sick = [c \in ReportCall |-> TRUE]
        /\ at = [c \in ReportCall |-> "idle"]
        /\ overview = [c \in ReportCall |-> [i \in Ids |-> None]]
        /\ outcome = [c \in ReportCall |-> "none"]

-----------------------------------------------------------------------------
Goes(c, there, how) == /\ at' = [at EXCEPT ![c] = there]
                       /\ outcome' = [outcome EXCEPT ![c] = how]

Report(c, wanted, ill) ==
    /\ at[c] = "idle"
    /\ Goes(c, "profiles", "none")
    /\ ids' = [ids EXCEPT ![c] = wanted] /\ sick' = [sick EXCEPT ![c] = ill]
    /\ overview' = [overview EXCEPT ![c] = [i \in Ids |-> None]]
    /\ UNCHANGED status

\* ownChildren, from getProfilesByLogin: one unknown id refuses the whole call.
Known(c) == ids[c] \subseteq Own
ProfilesAnswered(c) ==
    /\ at[c] = "profiles"
    /\ IF ~Known(c) THEN Goes(c, "idle", "refused")
       ELSE Goes(c, IF sick[c] THEN "write" ELSE "overview", "none")
    /\ UNCHANGED <<status, args, overview>>

\* getDailyOverview may leave a child out.  notSick must be empty.
SomeUnreportable(c, seen) == \E i \in ids[c] : seen[i] = "sick"
Unreportable(c, seen) == \A i \in ids[c] : seen[i] = "sick"
OverviewAnswered(c, covered) ==
    LET seen == [i \in Ids |-> IF i \in covered THEN status[i] ELSE None] IN
    /\ at[c] = "overview" /\ covered \subseteq ids[c]
    /\ overview' = [overview EXCEPT ![c] = seen]
    /\ IF Unreportable(c, seen) THEN Goes(c, "write", "none")
       ELSE Goes(c, "idle", "refused")
    /\ UNCHANGED <<status, args>>

Written(c) == IF sick[c] THEN "sick" ELSE "absent"
Performed(c) == status' = [i \in Own |-> IF i \in ids[c] THEN Written(c) ELSE status[i]]

WriteAnswered(c) == /\ at[c] = "write"
                    /\ Performed(c)
                    /\ Goes(c, "idle", "ok")
                    /\ UNCHANGED <<args, overview>>

\* Performed, and the answer lost; or never there.
WriteLost(c, performed) == /\ at[c] = "write"
                           /\ IF performed THEN Performed(c) ELSE UNCHANGED status
                           /\ Goes(c, "idle", "failed")
                           /\ UNCHANGED <<args, overview>>

ReadFails(c) == /\ at[c] \in {"profiles", "overview"}
                /\ Goes(c, "idle", "failed")
                /\ UNCHANGED <<status, args, overview>>

Staff(i, s) == /\ status[i] # s
               /\ status' = [status EXCEPT ![i] = s]
               /\ UNCHANGED <<args, at, overview, outcome>>

Serve(c) == \/ ProfilesAnswered(c) \/ WriteAnswered(c) \/ ReadFails(c)
            \/ \E covered \in SUBSET Own : OverviewAnswered(c, covered)
            \/ \E performed \in BOOLEAN : WriteLost(c, performed)

Next == \/ \E c \in ReportCall :
              \/ Serve(c)
              \/ \E wanted \in SUBSET Ids \ {{}}, ill \in BOOLEAN : Report(c, wanted, ill)
        \/ \E i \in Own, s \in Status : Staff(i, s)

Spec == Init /\ [][Next]_vars /\ \A c \in ReportCall : WF_vars(Serve(c))

-----------------------------------------------------------------------------
TypeOK == /\ status \in [Own -> Status]
          /\ ids \in [ReportCall -> SUBSET Ids] /\ sick \in [ReportCall -> BOOLEAN]
          /\ at \in [ReportCall -> {"idle", "profiles", "overview", "write"}]
          /\ overview \in [ReportCall -> [Ids -> Status \cup {None}]]
          /\ outcome \in [ReportCall -> {"none", "ok", "refused", "failed"}]

\* A call comes to its write for own children only, and, to take a report back, only when
\* Aula called every child of the call sick in the overview it read (tools.ts:508-558).
WritesAreVetted ==
    [][\A c \in ReportCall : at[c] = "write" /\ at'[c] = "idle" =>
          /\ ids[c] \subseteq Own
          /\ ~sick[c] => \A i \in ids[c] : overview[c][i] = "sick"]_vars

\* Every call ends (tools.ts:497-565).
CallsEnd == \A c \in ReportCall : []<>(at[c] = "idle")
=============================================================================
