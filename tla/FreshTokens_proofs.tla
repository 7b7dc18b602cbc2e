------------------------- MODULE FreshTokens_proofs -------------------------
(***************************************************************************)
(* Theorems about withFreshTokens, for any set of processes, any guardians *)
(* and any commands running beside the refreshers: the types, and, on a    *)
(* store with a lock and as long as nothing has failed, that a refresh     *)
(* token is never presented twice and the one on disk can be redeemed.     *)
(***************************************************************************)
EXTENDS FreshTokens, TLAPS

\* What a process has read and received is there once it gets that far.
Shapes == \A p \in Proc :
    /\ pc[p] \in {"send", "reread", "save"} => cur[p] \in Record
    /\ pc[p] \in {"reread", "save"} => new[p] \in [at : Tok, rt : Tok]
    /\ pc[p] = "save" => lat[p] \in Record

Typed == TypeOK /\ Shapes

LEMMA TypedInit == Init => Typed
<1> SUFFICES ASSUME Init PROVE Typed
  OBVIOUS
<1> USE FreshTokensAssumption
<1>1. 1 \in Tok /\ 0 \in 0..MaxCalls
  BY DEF Tok
<1>2. store \in Record /\ owner \in [Tok -> Users]
  BY <1>1 DEF Init, Record
<1> QED
  BY <1>1, <1>2 DEF Init, MutexInit, Typed, TypeOK, Shapes, MutexTypeOK, Pair

LEMMA TypedStep == Typed /\ [Next]_vars => Typed'
<1> SUFFICES ASSUME Typed, [Next]_vars PROVE Typed'
  OBVIOUS
<1> USE FreshTokensAssumption DEF Typed, TypeOK, Shapes, MutexTypeOK, Happens
<1>1. ASSUME NEW p \in Proc, Call(p) PROVE Typed'
  BY <1>1 DEF Call, Goto, server, cli
<1>2. ASSUME NEW p \in Proc, LoadDone(p) \/ LoadExpired(p) \/ LockTimesOut(p)
      PROVE Typed'
  <2>1. CASE LoadDone(p)
    BY <2>1 DEF LoadDone, Goto, server, cli
  <2>2. CASE LoadExpired(p)
    BY <2>2 DEF LoadExpired, Goto, server, cli
  <2>3. CASE LockTimesOut(p)
    BY <2>3 DEF LockTimesOut, Goto, server, cli
  <2> QED
    BY <1>2, <2>1, <2>2, <2>3
<1>3. ASSUME NEW p \in Proc, Lock(p) PROVE Typed'
  BY <1>3 DEF Lock, EnterSection, Enter, Goto, server, cli
<1>left. ASSUME NEW p \in Proc, LeaveSection(p), Return(p)
         PROVE /\ MutexTypeOK' /\ Shapes'
               /\ pc' \in [Proc -> {"idle", "load", "lock", "reload", "send",
                                    "reread", "save", "dead"}]
               /\ cur' \in [Proc -> Record \cup {None}]
               /\ lat' \in [Proc -> Record \cup {None}]
               /\ new' \in [Proc -> Pair]
  <2>1. MutexTypeOK'
    BY <1>left DEF LeaveSection, Leave
  <2>2. NoPair \in Pair
    BY DEF Pair
  <2> QED
    BY <1>left, <2>1, <2>2 DEF Return, Goto
<1>4. ASSUME NEW p \in Proc,
             ReloadDone(p) \/ Refused(p) \/ RequestLost(p) \/ RereadDone(p) \/ SaveFails(p)
      PROVE Typed'
  <2>1. LeaveSection(p) /\ Return(p)
    BY <1>4 DEF ReloadDone, Refused, RequestLost, RereadDone, SaveFails
  <2>2. /\ UNCHANGED <<store, issued, owner, expired, spent, cookies, stepup, calls>>
        /\ replayed' \in BOOLEAN /\ happened' \subseteq {"fault", "foreign", "hasty"}
    BY <1>4 DEF ReloadDone, Refused, RequestLost, RereadDone, SaveFails, server, cli
  <2> QED
    BY ONLY Typed, <1>left, <2>1, <2>2 DEF Typed, TypeOK
<1>5. ASSUME NEW p \in Proc, ReloadExpired(p) PROVE Typed'
  BY <1>5 DEF ReloadExpired, Goto, server, cli
<1>6. ASSUME NEW p \in Proc, NEW r \in Rotations, Granted(p, r), cur[p] \in Record
      PROVE  /\ issued' \in Tok /\ issued' = issued + 1
             /\ owner' \in [Tok -> Users]
             /\ spent' \subseteq Tok /\ expired' = expired /\ replayed' = replayed
  <2>1. cur[p].rt \in Tok /\ owner[cur[p].rt] \in Users
    BY <1>6 DEF Record
  <2>2. /\ issued' = issued + 1 /\ issued + 1 \in Tok
        /\ owner' = [owner EXCEPT ![issued + 1] = owner[cur[p].rt]]
    BY <1>6 DEF Granted, Issue, Tok
  <2> QED
    BY <1>6, <2>1, <2>2 DEF Granted
<1>7. ASSUME NEW p \in Proc, NEW r \in Rotations, Refreshed(p, r) PROVE Typed'
  <2>1. cur[p] \in Record
    BY <1>7 DEF Refreshed
  <2>2. AnswerPair(cur[p].rt, issued + 1, r) \in [at : Tok, rt : Tok]
    BY <1>6, <1>7, <2>1 DEF Refreshed, AnswerPair, Record
  <2> QED
    BY <1>6, <1>7, <2>1, <2>2 DEF Refreshed, Goto, Pair, cli
<1>8. ASSUME NEW p \in Proc, NEW r \in Rotations, AnswerLost(p, r) PROVE Typed'
  <2>1. cur[p] \in Record
    BY <1>8 DEF AnswerLost
  <2>2. /\ Granted(p, r) /\ LeaveSection(p) /\ Return(p) /\ UNCHANGED <<store, cli, calls>>
        /\ happened' \subseteq {"fault", "foreign", "hasty"}
    BY <1>8 DEF AnswerLost
  <2> QED
    BY ONLY Typed, <1>left, <1>6, <2>1, <2>2 DEF Typed, TypeOK, cli
<1>9. ASSUME NEW p \in Proc, RereadOurs(p) PROVE Typed'
  BY <1>9 DEF RereadOurs, Goto, server, cli
<1>10. ASSUME NEW p \in Proc, Save(p) PROVE Typed'
  <2>1. Updated(p) \in Record
    BY <1>10 DEF Save, Updated, Record
  <2> QED
    BY <1>left, <1>10, <2>1 DEF Save, server, cli
<1>11. ASSUME NEW p \in Proc, Crash(p) PROVE Typed'
  BY <1>11 DEF Crash, Goto, Pair, server, cli
<1>12. ASSUME NEW p \in Proc, LockReclaimed(p) PROVE Typed'
  BY <1>12 DEF LockReclaimed, Leave, Goto, server, cli
<1>13. ASSUME NEW u \in Users, NEW k \in Persist, Login(u, k) PROVE Typed'
  BY <1>13 DEF Login, Issue, Record, Tok
<1>14. CASE Logout \/ PageLogout
  BY <1>14 DEF Logout, PageLogout, server, cli
<1>15. CASE StepupLoad \/ StepupCookies
  BY <1>15 DEF StepupLoad, StepupCookies, Record, server
<1>16. CASE StepupSave
  <2>1. stepup.user \in Users /\ stepup.session \in Users
    BY <1>16 DEF StepupSave
  <2>2. happened' \subseteq {"fault", "foreign", "hasty"}
    BY <1>16 DEF StepupSave
  <2> QED
    BY <1>16, <2>1, <2>2 DEF StepupSave, Issue, Record, Tok
<1>17. ASSUME NEW t \in Tok, Expire(t) PROVE Typed'
  BY <1>17 DEF Expire, cli
<1>18. CASE UNCHANGED vars
  BY <1>18 DEF vars, server, cli
<1> QED
  BY <1>1, <1>2, <1>3, <1>4, <1>5, <1>7, <1>8, <1>9, <1>10, <1>11, <1>12, <1>13,
     <1>14, <1>15, <1>16, <1>17, <1>18 DEF Next, Step, Fault, Command

\* Every variable of the refresh keeps its type, whatever runs beside it and
\* whatever fails (withFreshTokens, token-store.ts:404-460).
THEOREM TypeCorrect == Spec => []TypeOK
<1>1. Typed => TypeOK
  BY DEF Typed
<1> QED
  BY <1>1, TypedInit, TypedStep, PTL DEF Spec

-----------------------------------------------------------------------------
\* A fault is never forgotten.
LEMMA FaultsStay == [Next]_vars /\ "fault" \notin happened' => "fault" \notin happened
  BY DEF Next, Step, Fault, Command, vars, Happens,
         Call, LoadDone, LoadExpired, Lock, LockTimesOut, ReloadDone, ReloadExpired,
         Refreshed, Refused, RequestLost, AnswerLost, RereadDone, RereadOurs, Save,
         SaveFails, Crash, LockReclaimed, Login, Logout, PageLogout, StepupLoad,
         StepupCookies, StepupSave, Expire

\* Who is past the lock holds it, alone.
Section == /\ \A p \in Proc :
                pc[p] \in {"reload", "send", "reread", "save"} => p \in holders
           /\ \A p, q \in holders : p = q
           /\ \A p \in Proc : pc[p] # "dead"

\* Refresh tokens are spent only once issued, and a record that has replaced the one
\* a refresher works on holds another refresh token.
Known == /\ \A t \in spent : t <= issued
         /\ store # None => store.rt <= issued
         /\ \A p \in Proc : /\ pc[p] \in {"send", "reread", "save"} => cur[p].rt <= issued
                            /\ pc[p] \in {"reread", "save"} => new[p].rt <= issued
         /\ \A p \in Proc :
              pc[p] \in {"send", "reread", "save"} /\ store # None /\ store.rt = cur[p].rt
                 => store.at = cur[p].at

\* A process in the section works with refresh tokens that are still good.
Unspent == \A p \in Proc :
    /\ pc[p] = "send" => cur[p].rt \notin spent
    /\ pc[p] \in {"reread", "save"} => new[p].rt \notin spent

Quiet == Section /\ Known /\ Unspent
RefreshInv == StoreRedeemable /\ SingleUse /\ ("fault" \notin happened => Quiet)

LEMMA RefreshInit == Init => RefreshInv
  BY FreshTokensAssumption
  DEF Init, MutexInit, RefreshInv, Quiet, Section, Known, Unspent, StoreRedeemable,
      SingleUse, Record, Tok

LEMMA SectionStep ==
  ASSUME Locked
  PROVE  Typed /\ Quiet /\ [Next]_vars /\ "fault" \notin happened' => Section'
<1> SUFFICES ASSUME Typed, Quiet, [Next]_vars, "fault" \notin happened' PROVE Section'
  OBVIOUS
<1> USE FreshTokensAssumption, Locked DEF Typed, TypeOK, MutexTypeOK, Quiet, Section
<1>1. ASSUME NEW p \in Proc,
             Call(p) \/ LoadDone(p) \/ LoadExpired(p) \/ LockTimesOut(p)
             \/ ReloadExpired(p) \/ RereadOurs(p)
      PROVE Section'
  BY <1>1 DEF Call, LoadDone, LoadExpired, LockTimesOut, ReloadExpired, RereadOurs, Goto
<1>2. ASSUME NEW p \in Proc, Lock(p) PROVE Section'
  BY <1>2 DEF Lock, EnterSection, Enter, Goto
<1>3. ASSUME NEW p \in Proc, ReloadDone(p) \/ Refused(p) \/ RereadDone(p) \/ Save(p)
      PROVE Section'
  <2>1. LeaveSection(p) /\ Return(p)
    BY <1>3 DEF ReloadDone, Refused, RereadDone, Save
  <2> QED
    BY <2>1 DEF LeaveSection, Leave, Return, Goto
<1>4. ASSUME NEW p \in Proc, NEW r \in Rotations, Refreshed(p, r) PROVE Section'
  BY <1>4 DEF Refreshed, Goto
<1>5. ASSUME NEW p \in Proc, Fault(p) \/ LockReclaimed(p) PROVE FALSE
  BY <1>5 DEF Fault, RequestLost, AnswerLost, SaveFails, Crash, LockReclaimed, Happens
<1>6. CASE Command
  BY <1>6 DEF Command, Login, Logout, PageLogout, StepupLoad, StepupCookies, StepupSave
<1>7. ASSUME NEW t \in Tok, Expire(t) PROVE Section'
  BY <1>7 DEF Expire
<1>8. CASE UNCHANGED vars
  BY <1>8 DEF vars
<1> QED
  BY <1>1, <1>2, <1>3, <1>4, <1>5, <1>6, <1>7, <1>8 DEF Next, Step

TokensGood == Known /\ Unspent /\ StoreRedeemable /\ SingleUse

\* One step of each kind keeps every refresh token that may still be presented
\* out of `spent`.
LEMMA RefreshStep ==
  ASSUME Locked
  PROVE  Typed /\ RefreshInv /\ [Next]_vars /\ "fault" \notin happened' => TokensGood'
<1> SUFFICES ASSUME Typed, RefreshInv, [Next]_vars, "fault" \notin happened' PROVE TokensGood'
  OBVIOUS
<1>quiet. Quiet /\ "fault" \notin happened
  BY FaultsStay DEF RefreshInv
<1>known. \A p \in Proc :
            /\ pc[p] \in {"send", "reread", "save"} =>
                 cur[p].rt \in Nat /\ cur[p].rt <= issued
            /\ pc[p] \in {"reread", "save"} => new[p].rt \in Nat /\ new[p].rt <= issued
  <2>1. \A p \in Proc :
            /\ pc[p] \in {"send", "reread", "save"} => cur[p].rt \in Nat
            /\ pc[p] \in {"reread", "save"} => new[p].rt \in Nat
    BY DEF Typed, Shapes, Record, Tok
  <2> QED
    BY <1>quiet, <2>1 DEF Quiet, Known
<1> USE FreshTokensAssumption, Locked, <1>quiet
    DEF Typed, TypeOK, Shapes, RefreshInv, TokensGood, Quiet, Section, Known, Unspent,
        StoreRedeemable, SingleUse
<1>1. ASSUME NEW p \in Proc,
             Call(p) \/ LoadDone(p) \/ LoadExpired(p) \/ LockTimesOut(p) \/ Lock(p)
      PROVE TokensGood'
  BY <1>1 DEF Call, LoadDone, LoadExpired, LockTimesOut, Lock, Goto, server, cli
<1>2. ASSUME NEW p \in Proc, ReloadDone(p) PROVE TokensGood'
  BY <1>2 DEF ReloadDone, Return, Goto, server, cli
<1>3. ASSUME NEW p \in Proc, ReloadExpired(p) PROVE TokensGood'
  \* Nobody else is in the section, so the stored refresh token is unspent.
  <2>1. store.rt \notin spent
    BY <1>3 DEF ReloadExpired
  <2> QED
    BY <1>3, <2>1 DEF ReloadExpired, Goto, server, cli
<1>4. ASSUME NEW p \in Proc, NEW r \in Rotations, Refreshed(p, r) PROVE TokensGood'
  <2>1. /\ pc[p] = "send" /\ cur[p].rt \notin spent
        /\ cur[p].rt \in Nat /\ cur[p].rt <= issued
        /\ \A q \in Proc : q # p => pc[q] \notin {"send", "reread", "save"}
    BY <1>4, <1>known DEF Refreshed
  <2>2. /\ issued \in Nat /\ issued' = issued + 1 /\ r \in BOOLEAN
        /\ spent' = IF r THEN spent \cup {cur[p].rt} ELSE spent
        /\ UNCHANGED <<store, cur, replayed, happened>>
    BY <1>4 DEF Refreshed, Granted, Issue, Tok
  <2>3. /\ new' = [new EXCEPT ![p] = AnswerPair(cur[p].rt, issued + 1, r)]
        /\ pc' = [pc EXCEPT ![p] = "reread"]
    BY <1>4 DEF Refreshed, Goto
  <2>4. new'[p].rt = IF r THEN issued + 1 ELSE cur[p].rt
    BY <2>3 DEF AnswerPair
  <2>5. Known'
    <3>1. \A t \in spent' : t <= issued'
      <4>1. \A t \in spent' : t \in Nat /\ t <= issued
        BY <2>1, <2>2 DEF Tok
      <4> QED
        BY <2>2, <4>1
    <3>2. store' # None => store'.rt <= issued'
      BY <2>2 DEF Record, Tok
    <3>3. \A q \in Proc : pc'[q] \in {"send", "reread", "save"} => cur'[q].rt <= issued'
      BY <2>1, <2>2, <2>3
    <3>4. new'[p].rt <= issued'
      BY <2>1, <2>2, <2>4
    <3>5. \A q \in Proc : pc'[q] \in {"reread", "save"} => new'[q].rt <= issued'
      BY <2>1, <2>3, <3>4
    <3>6. \A q \in Proc :
            pc'[q] \in {"send", "reread", "save"} /\ store' # None /\ store'.rt = cur'[q].rt
               => store'.at = cur'[q].at
      BY <2>1, <2>2, <2>3
    <3> QED
      BY <3>1, <3>2, <3>3, <3>5, <3>6
  <2>6. Unspent'
    <3>1. new'[p].rt \notin spent'
      <4>1. CASE r
        BY <2>1, <2>2, <2>4, <4>1 DEF Tok
      <4>2. CASE ~r
        BY <2>1, <2>2, <2>4, <4>2
      <4> QED
        BY <4>1, <4>2
    <3> QED
      BY <2>1, <2>3, <3>1
  <2>7. StoreRedeemable' /\ SingleUse'
    BY <2>1, <2>2, <2>3
  <2> QED
    BY <2>5, <2>6, <2>7
<1>5. ASSUME NEW p \in Proc, Refused(p) PROVE FALSE
  BY <1>5 DEF Refused
<1>6. ASSUME NEW p \in Proc, RereadDone(p) PROVE TokensGood'
  \* What wins over ours was issued with another refresh token.
  <2>1. store # None => store.rt \notin spent
    BY <1>6 DEF RereadDone, NewerWins
  <2> QED
    BY <1>6, <2>1 DEF RereadDone, Return, Goto, server, cli
<1>7. ASSUME NEW p \in Proc, RereadOurs(p) PROVE TokensGood'
  BY <1>7 DEF RereadOurs, Goto, server, cli
<1>8. ASSUME NEW p \in Proc, Save(p) PROVE TokensGood'
  <2>1. store'.rt = new[p].rt /\ new[p].rt \notin spent /\ new[p].rt <= issued
    <3>1. pc[p] = "save" /\ store'.rt = new[p].rt
      BY <1>8 DEF Save, Updated
    <3> QED
      BY <1>known, <3>1
  <2> QED
    BY <1>8, <2>1 DEF Save, Return, Goto, server, cli
<1>9. ASSUME NEW p \in Proc, Fault(p) \/ LockReclaimed(p) PROVE FALSE
  BY <1>9 DEF Fault, RequestLost, AnswerLost, SaveFails, Crash, LockReclaimed, Happens
<1>10. ASSUME NEW u \in Users,
              issued' = issued + 1, store' = [user |-> u, at |-> issued + 1, rt |-> issued + 1],
              UNCHANGED <<spent, replayed, pc, cur, new>>
       PROVE TokensGood'
  <2>1. /\ issued + 1 \notin spent /\ issued \in Nat
        /\ \A t \in spent : t <= issued'
    BY <1>10 DEF Tok
  <2> QED
    BY <1>10, <1>known, <2>1
<1>11. CASE Command
  <2>1. ASSUME NEW u \in Users, NEW k \in Persist, Login(u, k) PROVE TokensGood'
    BY <2>1, <1>10 DEF Login, Issue
  <2>2. CASE StepupSave
    BY <2>2, <1>10 DEF StepupSave, Issue
  <2>3. CASE Logout \/ PageLogout \/ StepupLoad \/ StepupCookies
    BY <2>3 DEF Logout, PageLogout, StepupLoad, StepupCookies, server, cli
  <2> QED
    BY <1>11, <2>1, <2>2, <2>3 DEF Command
<1>12. ASSUME NEW t \in Tok, Expire(t) PROVE TokensGood'
  BY <1>12 DEF Expire, cli
<1>13. CASE UNCHANGED vars
  BY <1>13 DEF vars, server, cli
<1> QED
  BY <1>1, <1>2, <1>3, <1>4, <1>5, <1>6, <1>7, <1>8, <1>9, <1>11, <1>12, <1>13
     DEF Next, Step

LEMMA RefreshInvariant == ASSUME Locked PROVE Spec => []RefreshInv
<1>1. Typed /\ RefreshInv /\ [Next]_vars => RefreshInv'
  <2> SUFFICES ASSUME Typed, RefreshInv, [Next]_vars PROVE RefreshInv'
    OBVIOUS
  <2>1. CASE "fault" \in happened'
    BY <2>1 DEF RefreshInv, StoreRedeemable, SingleUse
  <2>2. CASE "fault" \notin happened'
    <3>1. Quiet
      BY <2>2, FaultsStay DEF RefreshInv
    <3>2. Section' /\ TokensGood'
      BY <2>2, <3>1, Locked, SectionStep, RefreshStep
    <3> QED
      BY <3>2 DEF RefreshInv, Quiet, TokensGood
  <2> QED
    BY <2>1, <2>2
<1> QED
  BY <1>1, TypedInit, TypedStep, RefreshInit, PTL DEF Spec

\* On a store with a lock, no refresh token is presented twice as long as nothing
\* fails, whatever the commands that write the store without the lock do
\* (token-store.ts:396-399).
THEOREM RefreshTokensAreSingleUse == ASSUME Locked PROVE Spec => []SingleUse
<1>1. RefreshInv => SingleUse
  BY DEF RefreshInv
<1> QED
  BY <1>1, Locked, RefreshInvariant, PTL

\* On a store with a lock, and as long as nothing fails, the refresh token on disk can
\* be redeemed, but for the moment between its redemption and the save
\* (token-store.ts:429-454).
THEOREM StoreStaysRedeemable == ASSUME Locked PROVE Spec => []StoreRedeemable
<1>1. RefreshInv => StoreRedeemable
  BY DEF RefreshInv
<1> QED
  BY <1>1, Locked, RefreshInvariant, PTL

-----------------------------------------------------------------------------
(* The record and its owner                                                *)

\* Who is past the lock holds it, alone; who died there holds it still.
Inside == {"reload", "send", "reread", "save", "dead"}
Working == {"send", "reread", "save"}
Alone == /\ \A p \in Proc : pc[p] \in Inside => p \in holders
         /\ \A p, q \in holders : p = q

LEMMA AloneStep == ASSUME Locked PROVE Typed /\ Alone /\ [Next]_vars => Alone'
<1> SUFFICES ASSUME Typed, Alone, [Next]_vars PROVE Alone'
  OBVIOUS
<1> USE FreshTokensAssumption, Locked DEF Typed, TypeOK, MutexTypeOK, Alone, Inside, Goto
<1>1. ASSUME NEW p \in Proc,
             Call(p) \/ LoadDone(p) \/ LoadExpired(p) \/ LockTimesOut(p)
             \/ ReloadExpired(p) \/ RereadOurs(p)
      PROVE Alone'
  BY <1>1 DEF Call, LoadDone, LoadExpired, LockTimesOut, ReloadExpired, RereadOurs
<1>2. ASSUME NEW p \in Proc, Lock(p) PROVE Alone'
  BY <1>2 DEF Lock, EnterSection, Enter
<1>3. ASSUME NEW p \in Proc, Leave(p), Goto(p, "idle") PROVE Alone'
  BY <1>3 DEF Leave
<1>4. ASSUME NEW p \in Proc,
             \/ ReloadDone(p) \/ Refused(p) \/ RequestLost(p) \/ RereadDone(p) \/ Save(p)
             \/ SaveFails(p) \/ LockReclaimed(p) \/ \E r \in Rotations : AnswerLost(p, r)
      PROVE Alone'
  BY <1>3, <1>4 DEF ReloadDone, Refused, RequestLost, RereadDone, Save, SaveFails,
     LockReclaimed, AnswerLost, LeaveSection, Return
<1>5. ASSUME NEW p \in Proc, Crash(p) PROVE Alone'
  BY <1>5 DEF Crash
<1>6. ASSUME NEW p \in Proc, NEW r \in Rotations, Refreshed(p, r) PROVE Alone'
  BY <1>6 DEF Refreshed
<1>7. CASE Command
  BY <1>7 DEF Command, Login, Logout, PageLogout, StepupLoad, StepupCookies, StepupSave
<1>8. ASSUME NEW t \in Tok, Expire(t) PROVE Alone'
  BY <1>8 DEF Expire
<1>9. CASE UNCHANGED vars
  BY <1>9 DEF vars
<1> QED
  BY <1>1, <1>2, <1>4, <1>5, <1>6, <1>7, <1>8, <1>9 DEF Next, Step, Fault

\* A record of issued tokens, of the guardian it names.
Of(u, at, rt) == at <= issued /\ rt <= issued /\ owner[at] = u /\ owner[rt] = u
Truthful(r) == Of(r.user, r.at, r.rt)

\* While a refresher works, the store is what it has read, or newer and still valid, or
\* gone; and what it is going to save belongs to the guardian whose record it read.
Sane == /\ \A t \in expired : t <= issued
        /\ store # None => Truthful(store)
        /\ \A p \in Proc : pc[p] \in Working =>
              /\ cur[p] # None /\ Truthful(cur[p])
              /\ store # None => store.at >= cur[p].at
              /\ store # None /\ store.at # cur[p].at => Fresh(store)
        /\ \A p \in Proc : pc[p] \in {"reread", "save"} =>
              Of(cur[p].user, new[p].at, new[p].rt)
        /\ \A p \in Proc : pc[p] = "save" => lat[p].user = cur[p].user
Strange == happened \cap {"foreign", "hasty"} # {}
RecordInv == Strange \/ Sane

LEMMA StrangeStays == Strange /\ [Next]_vars => Strange'
  BY DEF Strange, Next, Step, Fault, Command, vars, Happens,
         Call, LoadDone, LoadExpired, Lock, LockTimesOut, ReloadDone, ReloadExpired,
         Refreshed, Refused, RequestLost, AnswerLost, RereadDone, RereadOurs, Save,
         SaveFails, Crash, LockReclaimed, Login, Logout, PageLogout, StepupLoad,
         StepupCookies, StepupSave, Expire

LEMMA SaneStep ==
  Typed /\ Alone /\ Sane /\ [Next]_vars /\ ~Strange' => Sane'
<1> SUFFICES ASSUME Typed, Alone, Sane, [Next]_vars, ~Strange' PROVE Sane'
  OBVIOUS
<1>t. /\ issued \in Tok /\ owner \in [Tok -> Users] /\ expired \subseteq Tok
      /\ store \in Record \cup {None}
      /\ pc \in [Proc -> {"idle", "load", "lock", "reload", "send", "reread", "save", "dead"}]
      /\ cur \in [Proc -> Record \cup {None}] /\ lat \in [Proc -> Record \cup {None}]
      /\ new \in [Proc -> Pair]
  BY DEF Typed, TypeOK
<1>s. \A p \in Proc : /\ pc[p] \in Working => cur[p] \in Record
                      /\ pc[p] \in {"reread", "save"} => new[p] \in [at : Tok, rt : Tok]
                      /\ pc[p] = "save" => lat[p] \in Record
  BY DEF Typed, Shapes, Working
<1> USE FreshTokensAssumption, <1>t, <1>s DEF Sane, Working, Goto
\* Nothing that matters changes, or less is under way.
<1>q. ASSUME NEW p \in Proc, UNCHANGED <<store, issued, owner, expired>>,
             pc' \in [Proc -> {"idle", "load", "lock", "reload", "send", "reread", "save",
                               "dead"}],
             pc'[p] \notin Working,
             \A q \in Proc \ {p} : /\ pc'[q] = pc[q] /\ cur'[q] = cur[q]
                                   /\ lat'[q] = lat[q] /\ new'[q] = new[q]
      PROVE  Sane'
  BY <1>q DEF Truthful, Of, Fresh
<1>1. ASSUME NEW p \in Proc,
             \/ Call(p) \/ LoadDone(p) \/ LoadExpired(p) \/ LockTimesOut(p) \/ Lock(p)
             \/ LockReclaimed(p)
      PROVE  Sane'
  BY <1>1, <1>q DEF Call, LoadDone, LoadExpired, LockTimesOut, Lock, LockReclaimed, server
<1>2. ASSUME NEW p \in Proc,
             \/ ReloadDone(p) \/ Refused(p) \/ RequestLost(p) \/ RereadDone(p)
             \/ SaveFails(p)
      PROVE  Sane'
  <2>1. Return(p) /\ UNCHANGED <<store, issued, owner, expired>>
    BY <1>2 DEF ReloadDone, Refused, RequestLost, RereadDone, SaveFails, server
  <2> QED
    BY <1>q, <2>1 DEF Return
<1>3. ASSUME NEW p \in Proc, Crash(p) PROVE Sane'
  BY <1>3, <1>q DEF Crash, server
<1>4. ASSUME NEW p \in Proc, ReloadExpired(p) PROVE Sane'
  <2>1. /\ store # None /\ Truthful(store) /\ cur' = [cur EXCEPT ![p] = store]
        /\ pc' = [pc EXCEPT ![p] = "send"]
        /\ UNCHANGED <<store, issued, owner, expired, lat, new>>
    BY <1>4 DEF ReloadExpired, server
  <2>2. \A q \in Proc : pc'[q] \in Working =>
              /\ cur'[q] # None /\ Truthful(cur[q])'
              /\ store' # None => store'.at >= cur'[q].at
              /\ store' # None /\ store'.at # cur'[q].at => Fresh(store)'
    <3> SUFFICES ASSUME NEW q \in Proc, pc'[q] \in Working
                 PROVE  /\ cur'[q] # None /\ Truthful(cur[q])'
                        /\ store' # None => store'.at >= cur'[q].at
                        /\ store' # None /\ store'.at # cur'[q].at => Fresh(store)'
      OBVIOUS
    <3>1. CASE q = p
      BY <2>1, <3>1 DEF Truthful, Of, Record, Tok
    <3>2. CASE q # p
      BY <2>1, <3>2 DEF Truthful, Of, Fresh
    <3> QED
      BY <3>1, <3>2
  <2>3. store' # None => Truthful(store)'
    BY <2>1 DEF Truthful, Of
  <2>4. \A q \in Proc : /\ pc'[q] \in {"reread", "save"} =>
                             Of(cur[q].user, new[q].at, new[q].rt)'
                        /\ pc'[q] = "save" => lat'[q].user = cur'[q].user
    BY <2>1 DEF Of
  <2> QED
    BY <2>1, <2>2, <2>3, <2>4
\* A token nobody has yet: what is known of the older ones stays.
<1>o. ASSUME NEW u \in Users, Issue(u)
      PROVE  /\ issued \in Nat /\ issued' = issued + 1 /\ owner'[issued + 1] = u
             /\ issued + 1 \in Tok
             /\ \A v \in Users, a, b \in Tok : Of(v, a, b) => Of(v, a, b)'
  BY <1>o DEF Issue, Tok, Of
<1>5. ASSUME NEW p \in Proc, NEW r \in Rotations, Refreshed(p, r) PROVE Sane'
  <2>1. /\ cur[p] \in Record /\ Truthful(cur[p]) /\ owner[cur[p].rt] = cur[p].user
        /\ cur[p].user \in Users
    BY <1>5 DEF Refreshed, Truthful, Of, Record
  <2>2. Issue(cur[p].user) /\ UNCHANGED <<store, expired, cur, lat>>
    BY <1>5, <2>1 DEF Refreshed, Granted
  <2>3. /\ new' = [new EXCEPT ![p] = AnswerPair(cur[p].rt, issued + 1, r)]
        /\ pc' = [pc EXCEPT ![p] = "reread"] /\ pc[p] = "send"
    BY <1>5 DEF Refreshed
  <2>4. Of(cur[p].user, new[p].at, new[p].rt)'
    <3>1. new'[p].at = issued + 1 /\ new'[p].rt \in {issued + 1, cur[p].rt}
      BY <2>3 DEF AnswerPair
    <3>2. cur[p].rt \in Nat /\ cur[p].rt <= issued /\ owner'[cur[p].rt] = cur[p].user
      BY <2>1, <2>2 DEF Issue, Truthful, Of, Record, Tok
    <3> QED
      BY <1>o, <2>1, <2>2, <3>1, <3>2 DEF Of
  <2>5. \A t \in expired' : t <= issued'
    BY <1>o, <2>1, <2>2 DEF Tok
  <2>6. store' # None => Truthful(store)'
    BY <1>o, <2>1, <2>2 DEF Truthful, Record
  <2>7. \A q \in Proc : pc'[q] \in Working =>
              /\ cur'[q] # None /\ Truthful(cur[q])'
              /\ store' # None => store'.at >= cur'[q].at
              /\ store' # None /\ store'.at # cur'[q].at => Fresh(store)'
    BY <1>o, <2>1, <2>2, <2>3 DEF Truthful, Record, Fresh
  <2>8. \A q \in Proc : pc'[q] \in {"reread", "save"} =>
              Of(cur[q].user, new[q].at, new[q].rt)'
    BY <1>o, <2>1, <2>2, <2>3, <2>4 DEF Record
  <2>9. \A q \in Proc : pc'[q] = "save" => lat'[q].user = cur'[q].user
    BY <2>2, <2>3
  <2> QED
    BY <2>5, <2>6, <2>7, <2>8, <2>9
<1>6. ASSUME NEW p \in Proc, NEW r \in Rotations, AnswerLost(p, r) PROVE Sane'
  <2>1. cur[p] \in Record /\ owner[cur[p].rt] \in Users
    BY <1>6 DEF AnswerLost, Record
  <2>2. /\ Issue(owner[cur[p].rt]) /\ UNCHANGED <<store, expired>> /\ Return(p)
    BY <1>6 DEF AnswerLost, Granted
  <2>3. \A t \in expired' : t <= issued'
    BY <1>o, <2>1, <2>2 DEF Tok
  <2>4. store' # None => Truthful(store)'
    BY <1>o, <2>1, <2>2 DEF Truthful, Record
  <2>5. \A q \in Proc : pc'[q] \in Working =>
           /\ q # p /\ pc[q] = pc'[q]
           /\ cur'[q] = cur[q] /\ lat'[q] = lat[q] /\ new'[q] = new[q]
    BY <2>2 DEF Return
  <2>6. \A q \in Proc : pc'[q] \in Working =>
              /\ cur'[q] # None /\ Truthful(cur[q])'
              /\ store' # None => store'.at >= cur'[q].at
              /\ store' # None /\ store'.at # cur'[q].at => Fresh(store)'
    BY <1>o, <2>1, <2>2, <2>5 DEF Truthful, Record, Fresh
  <2>7. \A q \in Proc : pc'[q] \in {"reread", "save"} =>
              Of(cur[q].user, new[q].at, new[q].rt)'
    BY <1>o, <2>1, <2>2, <2>5 DEF Record
  <2>8. \A q \in Proc : pc'[q] = "save" => lat'[q].user = cur'[q].user
    BY <2>5
  <2> QED
    BY <2>3, <2>4, <2>6, <2>7, <2>8
<1>7. ASSUME NEW p \in Proc, RereadOurs(p) PROVE Sane'
  \* A newer record would have been valid, and would have won.
  <2>1. /\ store # None /\ store \in Record /\ cur[p] \in Record
        /\ Truthful(store) /\ Truthful(cur[p]) /\ store.at = cur[p].at
    BY <1>7 DEF RereadOurs, NewerWins
  <2>2. store.user = cur[p].user
    BY <2>1 DEF Truthful, Of
  <2> QED
    BY <1>7, <2>1, <2>2 DEF RereadOurs, server, Truthful, Of, Fresh
<1>8. ASSUME NEW p \in Proc, Save(p) PROVE Sane'
  <2>1. /\ pc[p] = "save" /\ lat[p].user = cur[p].user
        /\ Of(cur[p].user, new[p].at, new[p].rt)
    BY <1>8 DEF Save
  <2>2. store' = [user |-> lat[p].user, at |-> new[p].at, rt |-> new[p].rt]
    BY <1>8 DEF Save, Updated
  <2>3. UNCHANGED <<issued, owner, expired>> /\ Return(p)
    BY <1>8 DEF Save, server
  <2>4. Truthful(store)'
    BY <2>1, <2>2, <2>3 DEF Truthful, Of
  \* Nobody else is in the section.
  <2>5. \A q \in Proc : pc'[q] \notin Working
    BY <2>1, <2>3 DEF Alone, Inside, Return
  <2> QED
    BY <2>3, <2>4, <2>5
<1>9. ASSUME NEW u \in Users, Issue(u),
             store' = [user |-> u, at |-> issued + 1, rt |-> issued + 1],
             UNCHANGED <<expired, pc, cur, lat, new>>
      PROVE  Sane'
  <2>1. /\ \A t \in expired' : t <= issued'
        /\ Truthful(store)' /\ store'.at = issued + 1 /\ store'.at \notin expired'
    BY <1>9, <1>o DEF Truthful, Of, Tok
  <2>2. \A q \in Proc : pc'[q] \in Working =>
              /\ cur'[q] # None /\ Truthful(cur[q])'
              /\ store'.at >= cur'[q].at /\ Fresh(store)'
    BY <1>9, <1>o, <2>1 DEF Truthful, Record, Fresh, Of, Tok
  <2>3. \A q \in Proc : pc'[q] \in {"reread", "save"} =>
              Of(cur[q].user, new[q].at, new[q].rt)'
    BY <1>9, <1>o DEF Record
  <2> QED
    BY <1>9, <2>1, <2>2, <2>3
<1>10. ASSUME NEW u \in Users, NEW k \in Persist, Login(u, k) PROVE Sane'
  BY <1>9, <1>10 DEF Login
<1>11. CASE StepupSave
  \* The username was loaded before the cookies: unless they are the same guardian's,
  \* the step is marked.
  <2>1. stepup.user = stepup.session
    BY <1>11 DEF StepupSave, Happens, Strange
  <2>2. stepup.session \in Users
    BY <1>11 DEF StepupSave, Typed, TypeOK
  <2> QED
    BY <1>9, <1>11, <2>1, <2>2 DEF StepupSave
<1>12. ASSUME store' = None, UNCHANGED <<server, pc, cur, lat, new>> PROVE Sane'
  BY <1>12 DEF server, Truthful, Of
<1>13. CASE Logout \/ PageLogout
  BY <1>12, <1>13 DEF Logout, PageLogout
<1>14. ASSUME UNCHANGED <<store, server, pc, cur, lat, new>> PROVE Sane'
  BY <1>14 DEF server, Truthful, Of, Fresh
<1>15. CASE StepupLoad \/ StepupCookies \/ UNCHANGED vars
  BY <1>14, <1>15 DEF StepupLoad, StepupCookies, vars
<1>16. ASSUME NEW t \in Tok, Expire(t) PROVE Sane'
  \* What expires now is no newer than what any refresher works on.
  <2>1. \A p \in Proc : cur[p] # None => t <= cur[p].at
    BY <1>16 DEF Expire, Happens, Strange
  <2>2. /\ UNCHANGED <<store, issued, owner, pc, cur, lat, new>>
        /\ expired' = expired \cup {t} /\ t <= issued
    BY <1>16 DEF Expire
  <2>3. \A q \in Proc : pc[q] \in Working /\ store # None /\ store.at # cur[q].at
                           => store.at # t
    BY <2>1 DEF Record, Tok
  <2> QED
    BY <2>2, <2>3 DEF Truthful, Of, Fresh
<1> QED
  BY <1>1, <1>2, <1>3, <1>4, <1>5, <1>6, <1>7, <1>8, <1>10, <1>11, <1>13, <1>15, <1>16
     DEF Next, Step, Fault, Command

\* On a store with a lock, the username of the record is the guardian its tokens act for,
\* whatever fails and whichever command writes without the lock, unless refresh-stepup
\* used another guardian's cookies, or a token issued during a refresh expired before
\* its end (token-store.ts:437-453).
THEOREM RecordStaysConsistent == ASSUME Locked PROVE Spec => []RecordConsistent
<1>1. Init => Alone /\ RecordInv
  <2> SUFFICES ASSUME Init PROVE Alone /\ Sane
    BY DEF RecordInv
  <2>1. PICK u \in Users : /\ store = [user |-> u, at |-> 1, rt |-> 1]
                           /\ owner = [t \in Tok |-> u]
    BY DEF Init
  <2>2. Truthful(store)
    BY <2>1, FreshTokensAssumption DEF Init, Truthful, Of, Tok
  <2> QED
    BY <2>2 DEF Init, MutexInit, Alone, Inside, Sane, Working
<1>2. Typed /\ Alone /\ RecordInv /\ [Next]_vars => RecordInv'
  BY StrangeStays, SaneStep DEF RecordInv
<1>3. Typed /\ Alone /\ [Next]_vars => Alone'
  BY Locked, AloneStep
<1>4. RecordInv => RecordConsistent
  BY DEF RecordInv, RecordConsistent, Sane, Strange, Truthful, Of
<1> QED
  BY <1>1, <1>2, <1>3, <1>4, TypedInit, TypedStep, PTL DEF Spec
=============================================================================
