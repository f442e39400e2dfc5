-------------------------- MODULE ApiServices_proofs --------------------------
(***************************************************************************)
(* Proofs of what MCApiServices checks of the services that share no state, *)
(* for every value of its constants.  Each part has an invariant of its own *)
(* that its steps keep; the last section puts them together.                *)
(***************************************************************************)
EXTENDS MCApiServices, FormulaOrder_proofs, FiniteSetTheorems, TLAPS

-------------------------------------------------------------------------------
(* Sessions: the tokens of a session (SessionsAreSound), and what a step may *)
(* not do (DeactivatedGetsNothing, LockHolds), for any number of users,      *)
(* replicas, requests, tokens and failures.                                  *)

Refreshing(r) == call[r] # Idle /\ call[r].op = "refresh"

FamilyOf(r) == token[call[r].jti].fam

\* The replica that issued a token would let it through, were the family not revoked.
Live(j) == Issued(j) /\ jtis[token[j].home][j] = "live"

\* Families that are over, and of which the replica that issued them does not know it.
Forgotten == {f \in ended : f \notin revokedFamilies[token[f].home]}

\* Only the replica that issued a token knows of it, and it issued its whole family; what
\* refers to a token refers to one that is issued, and a refresh that got as far as the
\* user row is where it was issued.
TokensAreIssued ==
    /\ \A j \in Jtis : Issued(j) => /\ Issued(token[j].fam)
                                    /\ token[token[j].fam].home = token[j].home
    /\ \A p \in Replicas, j \in Jtis : jtis[p][j] # "unknown" => Issued(j) /\ token[j].home = p
    /\ \A r \in Requests : Refreshing(r) => /\ Issued(call[r].jti)
                                            /\ token[call[r].jti].home = call[r].at
    /\ \A f \in ended : Issued(f)

\* OneUsableToken whether or not the family is revoked.
OneLiveToken ==
    \A i, j \in Jtis : Live(i) /\ Live(j) /\ i # j /\ token[i].fam = token[j].fam
                          => token[i].fam \in overlapped

\* A refresh under way is of the only live token of its family, if of a live one, and
\* there is no second refresh in the family.
RefreshIsAlone ==
    \A r \in Requests : Refreshing(r) /\ FamilyOf(r) \notin overlapped =>
        /\ \A i \in Jtis : Issued(i) /\ token[i].fam = FamilyOf(r) /\ i # call[r].jti => ~Live(i)
        /\ \A s \in Requests \ {r} : Refreshing(s) => FamilyOf(s) # FamilyOf(r)

\* A family that is over is revoked, or a restart has forgotten all its tokens, and then
\* no refresh of it is under way.
EndedIsForgottenAtMost ==
    /\ \A j \in Jtis : Issued(j) /\ token[j].fam \in Forgotten => ~Live(j)
    /\ \A r \in Requests : Refreshing(r) => FamilyOf(r) \notin Forgotten

\* A call that found an active user began or went on while the user was active.
FoundWasActive ==
    \A r \in Requests :
        call[r] # Idle /\ (call[r].found = "active" \/ call[r].user \in active) => call[r].was

IInv == /\ TypeOK /\ TokensAreIssued /\ OneLiveToken /\ RefreshIsAlone
        /\ EndedIsForgottenAtMost /\ FoundWasActive

-------------------------------------------------------------------------------
(* Every step preserves IInv, one conjunct at a time.                        *)

\* What the types say of a call and of a token.
LEMMA CallTypes ==
  ASSUME TypeOK, NEW r \in Requests, call[r] # Idle
  PROVE  /\ call[r].op \in {"login", "refresh"}
         /\ call[r].at \in Replicas
         /\ call[r].user \in Users
         /\ call[r].found \in Found
         /\ call[r].was \in BOOLEAN
         /\ call[r].op = "refresh" => call[r].jti \in Jtis
  BY DEF TypeOK, Call

LEMMA TokenTypes ==
  ASSUME TypeOK, NEW j \in Jtis, Issued(j)
  PROVE  /\ token[j] \in Token /\ token[j].user \in Users /\ token[j].fam \in Jtis
         /\ token[j].home \in Replicas
  BY DEF TypeOK, Token, Issued

LEMMA NewTokenIsIssued ==
  ASSUME NEW u, NEW j, NEW p
  PROVE  [user |-> u, fam |-> j, home |-> p] # Unissued
  BY DEF Unissued

\* What a token is issued for, and what becomes of the others.
LEMMA LoginIssues ==
  ASSUME TypeOK, TokensAreIssued, NEW r \in Requests, NEW j \in Jtis, LoginSucceeds(r, j)
  PROVE  /\ ~Issued(j) /\ Issued(j)'
         /\ token'[j].user = call[r].user /\ token'[j].fam = j /\ token'[j].home = call[r].at
         /\ call[r].at \in Replicas
         /\ \A i \in Jtis \ {j} : token'[i] = token[i] /\ (Issued(i)' <=> Issued(i))
         /\ \A p \in Replicas, i \in Jtis :
               jtis'[p][i] = IF p = call[r].at /\ i = j THEN "live" ELSE jtis[p][i]
         /\ \A i \in Jtis : Live(i)' <=> (i = j \/ Live(i))
  <1>1. call[r].at \in Replicas
    BY CallTypes DEF LoginSucceeds
  <1>2. /\ ~Issued(j) /\ Issued(j)'
        /\ token'[j] = [user |-> call[r].user, fam |-> j, home |-> call[r].at]
        /\ \A i \in Jtis \ {j} : token'[i] = token[i] /\ (Issued(i)' <=> Issued(i))
    BY NewTokenIsIssued DEF TypeOK, LoginSucceeds, Fresh, Issued
  <1>3. \A p \in Replicas, i \in Jtis :
           jtis'[p][i] = IF p = call[r].at /\ i = j THEN "live" ELSE jtis[p][i]
    BY <1>1 DEF TypeOK, LoginSucceeds
  <1>4. \A i \in Jtis : Live(i)' <=> (i = j \/ Live(i))
    BY <1>1, <1>2, <1>3, TokenTypes DEF Live
  <1> QED BY <1>1, <1>2, <1>3, <1>4

LEMMA RotateIssues ==
  ASSUME TypeOK, TokensAreIssued, NEW r \in Requests, NEW j \in Jtis, Rotate(r, j)
  PROVE  /\ Refreshing(r) /\ call[r].jti \in Jtis /\ Issued(call[r].jti)
         /\ call[r].at \in Replicas /\ token[call[r].jti].home = call[r].at
         /\ ~Issued(j) /\ Issued(j)' /\ token'[j] = token[call[r].jti]
         /\ \A i \in Jtis \ {j} : token'[i] = token[i] /\ (Issued(i)' <=> Issued(i))
         /\ \A p \in Replicas, i \in Jtis :
               jtis'[p][i] = IF p = call[r].at /\ i = j THEN "live"
                             ELSE IF p = call[r].at /\ i = call[r].jti THEN "revoked" ELSE jtis[p][i]
         /\ \A i \in Jtis : Live(i)' <=> (i = j \/ (i # call[r].jti /\ Live(i)))
  <1>1. /\ Refreshing(r) /\ call[r].jti \in Jtis /\ Issued(call[r].jti)
        /\ call[r].at \in Replicas /\ token[call[r].jti].home = call[r].at
    BY CallTypes DEF Rotate, TokensAreIssued, Refreshing
  <1>2. /\ ~Issued(j) /\ Issued(j)' /\ token'[j] = token[call[r].jti]
        /\ \A i \in Jtis \ {j} : token'[i] = token[i] /\ (Issued(i)' <=> Issued(i))
    BY <1>1 DEF TypeOK, Rotate, Fresh, Issued
  <1>3. \A p \in Replicas, i \in Jtis :
           jtis'[p][i] = IF p = call[r].at /\ i = j THEN "live"
                         ELSE IF p = call[r].at /\ i = call[r].jti THEN "revoked" ELSE jtis[p][i]
    BY <1>1 DEF TypeOK, Rotate
  <1>4. \A i \in Jtis : Live(i)' <=> (i = j \/ (i # call[r].jti /\ Live(i)))
    BY <1>1, <1>2, <1>3, TokenTypes DEF Live
  <1> QED BY <1>1, <1>2, <1>3, <1>4

\* A restart forgets the tokens of the replica, and drops its calls.
LEMMA RestartForgets ==
  ASSUME TypeOK, NEW p \in Replicas, Restart(p)
  PROVE  /\ token' = token /\ \A j \in Jtis : Issued(j)' <=> Issued(j)
         /\ \A q \in Replicas, j \in Jtis : jtis'[q][j] = IF q = p THEN "unknown" ELSE jtis[q][j]
         /\ \A j \in Jtis : Live(j)' <=> (Live(j) /\ token[j].home # p)
         /\ \A r \in Requests : call'[r] = IF call[r] # Idle /\ call[r].at = p THEN Idle ELSE call[r]
  <1>1. /\ token' = token /\ \A j \in Jtis : Issued(j)' <=> Issued(j)
        /\ \A q \in Replicas, j \in Jtis : jtis'[q][j] = IF q = p THEN "unknown" ELSE jtis[q][j]
        /\ \A r \in Requests : call'[r] = IF call[r] # Idle /\ call[r].at = p THEN Idle ELSE call[r]
    BY DEF TypeOK, Restart, Issued
  <1>2. \A j \in Jtis : Live(j)' <=> (Live(j) /\ token[j].home # p)
    BY <1>1, TokenTypes DEF Live
  <1> QED BY <1>1, <1>2

\* The steps keep the types.
LEMMA TypeOKStep ==
  ASSUME SessionsAssumption, TypeOK, TokensAreIssued, [Next]_vars
  PROVE  TypeOK'
  <1>0. CASE UNCHANGED vars
    BY <1>0 DEF vars, TypeOK
  <1>1. ASSUME NEW r \in Requests, ReadUser(r) PROVE TypeOK'
    <2>1. [call[r] EXCEPT !.found = IF call[r].user \in active THEN "active" ELSE "inactive"]
             \in Call
      BY <1>1 DEF TypeOK, ReadUser, Call, Found
    <2> QED BY <1>1, <2>1 DEF TypeOK, ReadUser
  <1>2. ASSUME NEW r \in Requests, NEW u \in Users, NEW p \in Replicas, BeginLogin(r, u, p)
        PROVE  TypeOK'
    BY <1>2 DEF TypeOK, BeginLogin, Call, Found
  <1> DEFINE Counts == [count : 0 .. MaxFailures, locked : BOOLEAN]
  <1>3. ASSUME NEW r \in Requests, LoginFails(r) PROVE TypeOK'
    <2>1. call[r].user \in Users /\ call[r].at \in Replicas
      BY <1>3, CallTypes DEF LoginFails
    <2>2. failed[call[r].at][call[r].user] \in Counts
      BY <2>1 DEF TypeOK
    <2>3. Failure(failed[call[r].at][call[r].user]) \in Counts
      BY <2>2 DEF Failure, SessionsAssumption
    <2>4. failed' \in [Replicas -> [Users -> Counts]]
      BY <1>3, <2>1, <2>3 DEF TypeOK, LoginFails
    <2> QED BY <1>3, <2>4 DEF TypeOK, LoginFails, Answer
  <1>4. ASSUME NEW r \in Requests, NEW j \in Jtis, LoginSucceeds(r, j) PROVE TypeOK'
    <2>1. call[r].user \in Users /\ call[r].at \in Replicas
      BY <1>4, CallTypes DEF LoginSucceeds
    <2>2. NoFailures \in Counts
      BY DEF NoFailures, SessionsAssumption
    <2>3. [user |-> call[r].user, fam |-> j, home |-> call[r].at] \in Token
      BY <2>1 DEF Token
    <2>4. failed' \in [Replicas -> [Users -> Counts]]
      BY <1>4, <2>1, <2>2 DEF TypeOK, LoginSucceeds
    <2>5. jtis' \in [Replicas -> [Jtis -> {"unknown", "live", "revoked"}]]
      BY <1>4, <2>1 DEF TypeOK, LoginSucceeds
    <2> QED BY <1>4, <2>3, <2>4, <2>5 DEF TypeOK, LoginSucceeds, Answer
  <1>5. ASSUME NEW r \in Requests, NEW j \in Jtis, NEW p \in Replicas, BeginRefresh(r, j, p)
        PROVE  TypeOK'
    <2>1. token[j].user \in Users /\ token[j].fam \in Jtis
      BY <1>5, TokenTypes DEF BeginRefresh
    <2>2. [op |-> "refresh", at |-> p, user |-> token[j].user, found |-> "asked",
           was |-> token[j].user \in active, jti |-> j] \in Call
      BY <2>1 DEF Call, Found
    <2> QED BY <1>5, <2>1, <2>2 DEF TypeOK, BeginRefresh
  <1>6. ASSUME NEW r \in Requests, NEW j \in Jtis, Rotate(r, j) PROVE TypeOK'
    <2>1. call[r].at \in Replicas /\ call[r].jti \in Jtis /\ token[call[r].jti] \in Token
      BY <1>6, RotateIssues, TokenTypes
    <2>2. jtis' \in [Replicas -> [Jtis -> {"unknown", "live", "revoked"}]]
      BY <1>6, <2>1 DEF TypeOK, Rotate
    <2> QED BY <1>6, <2>1, <2>2 DEF TypeOK, Rotate, Answer
  <1>7. ASSUME NEW r \in Requests, RefreshRefused(r) PROVE TypeOK'
    BY <1>7 DEF TypeOK, RefreshRefused, Answer
  <1>8. ASSUME NEW j \in Jtis, NEW p \in Replicas, RefreshReused(j, p) \/ Logout(j, p) PROVE TypeOK'
    <2>1. token[j].fam \in Jtis
      BY <1>8, TokenTypes DEF RefreshReused, Logout
    <2>2. revokedFamilies' = [revokedFamilies EXCEPT ![p] = @ \cup {token[j].fam}]
      BY <1>8 DEF RefreshReused, Logout
    <2>3. revokedFamilies[p] \cup {token[j].fam} \in SUBSET Jtis
      BY <2>1 DEF TypeOK
    <2>4. revokedFamilies' \in [Replicas -> SUBSET Jtis]
      BY <2>2, <2>3 DEF TypeOK
    <2> QED BY <1>8, <2>1, <2>4 DEF TypeOK, RefreshReused, Logout
  <1>9. ASSUME NEW u \in Users, NEW p \in Replicas, LockExpires(u, p) PROVE TypeOK'
    <2>1. failed \in [Replicas -> [Users -> Counts]]
      BY DEF TypeOK
    <2>2. failed[p][u] \in Counts
      BY <2>1
    <2>3. \A c \in Counts : [c EXCEPT !.locked = FALSE] \in Counts
      OBVIOUS
    <2>4. [failed[p] EXCEPT ![u] = [failed[p][u] EXCEPT !.locked = FALSE]] \in [Users -> Counts]
      BY <2>1, <2>2, <2>3
    <2>5. failed' \in [Replicas -> [Users -> Counts]]
      BY <1>9, <2>1, <2>4 DEF LockExpires
    <2> QED BY <1>9, <2>5 DEF TypeOK, LockExpires
  <1>10. ASSUME NEW u \in Users, Deactivate(u) PROVE TypeOK'
    BY <1>10 DEF TypeOK, Deactivate
  <1>11. ASSUME NEW u \in Users, Reactivate(u) PROVE TypeOK'
    <2>1. \A r \in Requests : call[r] # Idle => [call[r] EXCEPT !.was = TRUE] \in Call
      BY DEF TypeOK, Call
    <2> QED BY <1>11, <2>1 DEF TypeOK, Reactivate
  <1>12. ASSUME NEW p \in Replicas, Restart(p) PROVE TypeOK'
    <2>1. NoFailures \in Counts
      BY DEF NoFailures, SessionsAssumption
    <2> QED BY <1>12, <2>1 DEF TypeOK, Restart
  <1> QED BY <1>0, <1>1, <1>2, <1>3, <1>4, <1>5, <1>6, <1>7, <1>8, <1>9, <1>10, <1>11, <1>12 DEF Next

\* What is issued stays so, and nothing else is issued but by a login or a rotation.
LEMMA IssuedStays ==
  ASSUME IInv, [Next]_vars, NEW j \in Jtis, Issued(j)
  PROVE  Issued(j)' /\ token'[j] = token[j]
  <1>1. ASSUME NEW r \in Requests, NEW i \in Jtis, LoginSucceeds(r, i)
        PROVE  Issued(j)' /\ token'[j] = token[j]
    BY <1>1, LoginIssues DEF IInv
  <1>2. ASSUME NEW r \in Requests, NEW i \in Jtis, Rotate(r, i)
        PROVE  Issued(j)' /\ token'[j] = token[j]
    BY <1>2, RotateIssues DEF IInv
  <1> QED
    BY <1>1, <1>2 DEF Next, vars, Issued, ReadUser, BeginLogin, LoginFails, BeginRefresh,
       RefreshRefused, RefreshReused, Logout, LockExpires, Deactivate, Reactivate, Restart

\* A refresh under way goes on for the same token, or began with this step.
LEMMA RefreshBegan ==
  ASSUME IInv, [Next]_vars, NEW r \in Requests, Refreshing(r)'
  PROVE  \/ Refreshing(r) /\ call'[r].jti = call[r].jti /\ call'[r].at = call[r].at
         \/ \E j \in Jtis, p \in Replicas : /\ BeginRefresh(r, j, p)
                                            /\ call'[r].jti = j /\ call'[r].at = p
  <1> DEFINE Same == Refreshing(r) /\ call'[r].jti = call[r].jti /\ call'[r].at = call[r].at
             Began == \E j \in Jtis, p \in Replicas : /\ BeginRefresh(r, j, p)
                                                     /\ call'[r].jti = j /\ call'[r].at = p
  <1>1. ASSUME NEW s \in Requests, ReadUser(s) PROVE Same
    BY <1>1 DEF IInv, TypeOK, ReadUser, Refreshing
  <1>2. ASSUME NEW s \in Requests, NEW u \in Users, NEW p \in Replicas, BeginLogin(s, u, p) PROVE Same
    BY <1>2 DEF IInv, TypeOK, BeginLogin, Refreshing
  <1>3. ASSUME NEW s \in Requests, Answer(s) PROVE Same
    BY <1>3 DEF IInv, TypeOK, Answer, Refreshing
  <1>4. ASSUME NEW s \in Requests, NEW j \in Jtis, NEW p \in Replicas, BeginRefresh(s, j, p)
        PROVE  Same \/ Began
    <2>1. CASE r = s
      BY <1>4, <2>1 DEF IInv, TypeOK, BeginRefresh
    <2>2. CASE r # s
      BY <1>4, <2>2 DEF IInv, TypeOK, BeginRefresh, Refreshing
    <2> QED BY <2>1, <2>2
  <1>5. ASSUME NEW u \in Users, Reactivate(u) PROVE Same
    BY <1>5 DEF IInv, TypeOK, Reactivate, Refreshing
  <1>6. ASSUME NEW p \in Replicas, Restart(p) PROVE Same
    BY <1>6 DEF Restart, Refreshing
  <1>7. ASSUME UNCHANGED call PROVE Same
    BY <1>7 DEF Refreshing
  <1> HIDE DEF Same, Began
  <1>8. Same \/ Began
    BY <1>1, <1>2, <1>3, <1>4, <1>5, <1>6, <1>7
    DEF Next, vars, LoginFails, LoginSucceeds, Rotate, RefreshRefused, RefreshReused, Logout,
        LockExpires, Deactivate
  <1> QED BY <1>8 DEF Same, Began

LEMMA TokensAreIssuedStep ==
  ASSUME IInv, [Next]_vars
  PROVE  TokensAreIssued'
  <1> USE DEF IInv
  <1>1. \A f \in Jtis : Issued(f) => Issued(f)' /\ token'[f] = token[f]
    BY IssuedStays
  <1>2. ASSUME NEW r \in Requests, Refreshing(r)'
        PROVE  Issued(call[r].jti)' /\ token'[call'[r].jti].home = call'[r].at
    <2>1. CASE Refreshing(r) /\ call'[r].jti = call[r].jti /\ call'[r].at = call[r].at
      <3>1. /\ call[r].jti \in Jtis /\ Issued(call[r].jti)
            /\ token[call[r].jti].home = call[r].at
        BY <2>1, CallTypes DEF Refreshing, TokensAreIssued
      <3> QED BY <2>1, <3>1, IssuedStays DEF Issued
    <2>2. CASE \E j \in Jtis, p \in Replicas : /\ BeginRefresh(r, j, p)
                                               /\ call'[r].jti = j /\ call'[r].at = p
      BY <2>2 DEF BeginRefresh, Issued, TokensAreIssued
    <2> QED BY <1>2, <2>1, <2>2, RefreshBegan
  <1>3. ASSUME NEW f \in ended' PROVE Issued(f)'
    <2>1. CASE f \in ended
      BY <2>1, <1>1 DEF TypeOK, TokensAreIssued
    <2>2. ASSUME NEW j \in Jtis, NEW p \in Replicas, RefreshReused(j, p) \/ Logout(j, p), f \notin ended
          PROVE  Issued(f)'
      BY <2>2, <1>1, TokenTypes DEF RefreshReused, Logout, TokensAreIssued
    <2> QED BY <1>3, <2>1, <2>2
      DEF Next, vars, ReadUser, BeginLogin, LoginFails, LoginSucceeds, BeginRefresh, Rotate,
          RefreshRefused, LockExpires, Deactivate, Reactivate, Restart
  <1> DEFINE Family(j) == Issued(j)' => /\ Issued(token[j].fam)'
                                        /\ token'[token'[j].fam].home = token'[j].home
             Known(p, j) == jtis'[p][j] # "unknown" => Issued(j)' /\ token'[j].home = p
  <1>4. ASSUME NEW j \in Jtis PROVE Family(j)
    <2>0. ASSUME Issued(j) PROVE Family(j)
      <3>1. token[j].fam \in Jtis /\ Issued(token[j].fam) /\ token[token[j].fam].home = token[j].home
        BY <2>0, TokenTypes DEF TokensAreIssued
      <3>2. token'[j] = token[j] /\ token'[token[j].fam] = token[token[j].fam] /\ Issued(token[j].fam)'
        BY <2>0, <3>1, IssuedStays DEF Issued
      <3> QED BY <3>1, <3>2 DEF Issued
    <2>1. ASSUME NEW r \in Requests, LoginSucceeds(r, j) PROVE Family(j)
      BY <2>1, LoginIssues DEF Issued
    <2>2. ASSUME NEW r \in Requests, Rotate(r, j) PROVE Family(j)
      <3> DEFINE k == call[r].jti
      <3>1. k \in Jtis /\ Issued(k) /\ token'[j] = token[k]
        BY <2>2, RotateIssues
      <3> HIDE DEF k
      <3>2. token[k].fam \in Jtis /\ Issued(token[k].fam) /\ token[token[k].fam].home = token[k].home
        BY <3>1, TokenTypes DEF TokensAreIssued
      <3>3. token'[token[k].fam] = token[token[k].fam] /\ token'[token[k].fam] # Unissued
        BY <1>1, <3>2 DEF Issued
      <3> QED BY <3>1, <3>2, <3>3 DEF Issued
    <2>3. ASSUME NEW r \in Requests, NEW i \in Jtis \ {j}, LoginSucceeds(r, i) \/ Rotate(r, i)
          PROVE  Issued(j)' => Issued(j)
      BY <2>3, LoginIssues, RotateIssues
    <2>4. CASE token' = token
      BY <2>0, <2>4 DEF Issued
    <2> HIDE DEF Family
    <2>5. ASSUME ~Issued(j)' PROVE Family(j)
      BY <2>5 DEF Family
    <2> QED BY <2>0, <2>1, <2>2, <2>3, <2>4, <2>5
      DEF Next, vars, ReadUser, BeginLogin, LoginFails, BeginRefresh, RefreshRefused,
          RefreshReused, Logout, LockExpires, Deactivate, Reactivate, Restart
  <1>5. ASSUME NEW p \in Replicas, NEW j \in Jtis PROVE Known(p, j)
    <2>1. ASSUME NEW r \in Requests, NEW i \in Jtis, LoginSucceeds(r, i) PROVE Known(p, j)
      BY <2>1, LoginIssues DEF TokensAreIssued
    <2>2. ASSUME NEW r \in Requests, NEW i \in Jtis, Rotate(r, i) PROVE Known(p, j)
      BY <2>2, RotateIssues DEF TokensAreIssued
    <2>3. ASSUME NEW q \in Replicas, Restart(q) PROVE Known(p, j)
      BY <2>3, RestartForgets DEF TokensAreIssued
    <2>4. CASE token' = token /\ jtis' = jtis
      BY <2>4 DEF TokensAreIssued, Issued
    <2> HIDE DEF Known
    <2> QED BY <2>1, <2>2, <2>3, <2>4
      DEF Next, vars, ReadUser, BeginLogin, LoginFails, BeginRefresh, RefreshRefused,
          RefreshReused, Logout, LockExpires, Deactivate, Reactivate
  <1> QED BY <1>2, <1>3, <1>4, <1>5 DEF TokensAreIssued, Refreshing

\* A live token was live, or is just issued.
LEMMA LiveBecame ==
  ASSUME IInv, [Next]_vars, NEW j \in Jtis, Live(j)'
  PROVE  \/ Live(j)
         \/ \E r \in Requests : LoginSucceeds(r, j) \/ Rotate(r, j)
  <1> USE DEF IInv
  <1>1. CASE token' = token /\ jtis' = jtis
    BY <1>1 DEF Live, Issued
  <1>2. ASSUME NEW r \in Requests, NEW i \in Jtis, i # j, LoginSucceeds(r, i)
        PROVE  Live(j)
    BY <1>2, LoginIssues
  <1>3. ASSUME NEW r \in Requests, NEW i \in Jtis, i # j, Rotate(r, i)
        PROVE  Live(j)
    BY <1>3, RotateIssues
  <1>4. ASSUME NEW p \in Replicas, Restart(p)
        PROVE  Live(j)
    BY <1>4, RestartForgets
  <1> QED
    BY <1>1, <1>2, <1>3, <1>4
    DEF Next, vars, ReadUser, BeginLogin, LoginFails, BeginRefresh, RefreshRefused,
        RefreshReused, Logout, LockExpires, Deactivate, Reactivate

LEMMA HistoryGrows ==
  ASSUME [Next]_vars
  PROVE  /\ overlapped \subseteq overlapped'
         /\ ended \subseteq ended'
  BY DEF Next, vars, ReadUser, BeginLogin, LoginFails, LoginSucceeds, BeginRefresh, Rotate,
     RefreshRefused, RefreshReused, Logout, LockExpires, Deactivate, Reactivate, Restart

\* The first token of a family is of no family there was.
LEMMA LoginBeginsFamily ==
  ASSUME IInv, NEW r \in Requests, NEW j \in Jtis, LoginSucceeds(r, j)
  PROVE  /\ \A i \in Jtis : Issued(i) => token[i].fam # j
         /\ j \notin ended /\ ended' = ended
  <1>1. ended' = ended
    BY DEF LoginSucceeds
  <1> QED BY <1>1, LoginIssues DEF IInv, TokensAreIssued

\* A refresh begins with a token that is live.
LEMMA RefreshOfLive ==
  ASSUME IInv, NEW r \in Requests, NEW j \in Jtis, NEW p \in Replicas, BeginRefresh(r, j, p)
  PROVE  Live(j) /\ token[j].home = p /\ token[j].fam \notin revokedFamilies[p]
  BY DEF IInv, TokensAreIssued, BeginRefresh, Live

LEMMA OneLiveTokenStep ==
  ASSUME IInv, [Next]_vars
  PROVE  OneLiveToken'
  <1> USE DEF IInv
  <1> SUFFICES ASSUME NEW i \in Jtis, NEW j \in Jtis, Live(i)', Live(j)', i # j,
                      token'[i].fam = token'[j].fam
               PROVE  token'[i].fam \in overlapped'
    BY DEF OneLiveToken
  <1>1. CASE Live(i) /\ Live(j)
    <2>1. Issued(i) /\ Issued(j)
      BY <1>1 DEF Live
    <2> QED BY <1>1, <2>1, IssuedStays, HistoryGrows DEF OneLiveToken
  <1>2. ASSUME NEW a \in Jtis, NEW b \in Jtis, a # b, token'[a].fam = token'[b].fam, Live(b)',
               \E r \in Requests : LoginSucceeds(r, a) \/ Rotate(r, a)
        PROVE  token'[a].fam \in overlapped'
    <2>1. ASSUME NEW r \in Requests, LoginSucceeds(r, a) PROVE FALSE
      <3>1. Issued(b) /\ token'[b] = token[b] /\ token'[a].fam = a
        BY <1>2, <2>1, LoginIssues DEF Live
      <3> QED BY <1>2, <2>1, <3>1, LoginBeginsFamily
    <2>2. ASSUME NEW r \in Requests, Rotate(r, a) PROVE token'[a].fam \in overlapped'
      <3>1. /\ Issued(b) /\ Live(b) /\ token'[b] = token[b] /\ b # call[r].jti
            /\ token'[a].fam = FamilyOf(r)
        BY <1>2, <2>2, RotateIssues DEF FamilyOf, Live
      <3>2. Refreshing(r)
        BY <2>2 DEF Rotate, Refreshing
      <3>3. FamilyOf(r) \in overlapped
        BY <1>2, <3>1, <3>2 DEF RefreshIsAlone
      <3> QED BY <3>1, <3>3, HistoryGrows
    <2> QED BY <1>2, <2>1, <2>2
  <1> QED BY <1>1, <1>2, LiveBecame

LEMMA RefreshIsAloneStep ==
  ASSUME IInv, [Next]_vars
  PROVE  RefreshIsAlone'
  <1> USE DEF IInv
  <1>0. \A r \in Requests : Refreshing(r) => call[r].jti \in Jtis /\ Issued(call[r].jti)
    BY CallTypes DEF Refreshing, TokensAreIssued
  <1> SUFFICES ASSUME NEW r \in Requests, Refreshing(r)', FamilyOf(r)' \notin overlapped'
               PROVE  /\ \A i \in Jtis : Issued(i)' /\ token'[i].fam = FamilyOf(r)'
                                            /\ i # call'[r].jti => ~Live(i)'
                      /\ \A s \in Requests \ {r} : Refreshing(s)' => FamilyOf(s)' # FamilyOf(r)'
    BY DEF RefreshIsAlone
  <1>1. ASSUME NEW i \in Jtis, token'[i].fam = FamilyOf(r)', i # call'[r].jti, Live(i)'
        PROVE  FALSE
    <2>1. CASE Refreshing(r) /\ call'[r].jti = call[r].jti
      <3>1. FamilyOf(r)' = FamilyOf(r) /\ FamilyOf(r) \notin overlapped
        BY <1>0, <2>1, IssuedStays, HistoryGrows DEF FamilyOf
      <3>2. CASE Live(i)
        <4>1. Issued(i)
          BY <3>2 DEF Live
        <4> QED BY <1>1, <2>1, <3>1, <3>2, <4>1, IssuedStays DEF RefreshIsAlone
      <3>3. ASSUME NEW s \in Requests, LoginSucceeds(s, i) PROVE FALSE
        BY <1>0, <1>1, <2>1, <3>1, <3>3, LoginIssues, LoginBeginsFamily DEF FamilyOf
      <3>4. ASSUME NEW s \in Requests, Rotate(s, i) PROVE FALSE
        <4>1. Refreshing(s) /\ FamilyOf(s) = FamilyOf(r)
          BY <1>1, <3>1, <3>4, RotateIssues DEF FamilyOf
        <4>2. s = r
          BY <2>1, <3>1, <4>1 DEF RefreshIsAlone
        <4>3. ~Refreshing(r)'
          BY <3>4, <4>2 DEF Rotate, Answer, TypeOK, Refreshing
        <4> QED BY <4>3
      <3> QED BY <1>1, <3>2, <3>3, <3>4, LiveBecame
    <2>2. ASSUME NEW j \in Jtis, NEW p \in Replicas, BeginRefresh(r, j, p), call'[r].jti = j
          PROVE  FALSE
      <3>1. token' = token /\ jtis' = jtis
        BY <2>2 DEF BeginRefresh
      <3>2. Live(i) /\ token[i].fam = token[j].fam
        BY <1>1, <2>2, <3>1 DEF Issued, FamilyOf, Live
      <3>3. Live(j) /\ token[j].fam \notin overlapped
        BY <2>2, <3>1, RefreshOfLive, HistoryGrows DEF FamilyOf
      <3> QED BY <1>1, <2>2, <3>2, <3>3 DEF OneLiveToken
    <2> QED BY <2>1, <2>2, RefreshBegan
  <1>2. ASSUME NEW s \in Requests \ {r}, Refreshing(s)', FamilyOf(s)' = FamilyOf(r)'
        PROVE  FALSE
    <2>1. ASSUME NEW a \in Requests, NEW b \in Requests, a # b,
                 Refreshing(a)', Refreshing(b)', FamilyOf(a)' = FamilyOf(b)',
                 FamilyOf(a)' \notin overlapped',
                 NEW j \in Jtis, NEW p \in Replicas, BeginRefresh(a, j, p), call'[a].jti = j
          PROVE  FALSE
      <3>1. Refreshing(b) /\ call'[b] = call[b]
        BY <2>1 DEF BeginRefresh, TypeOK, Refreshing
      <3>2. /\ FamilyOf(b) = token[j].fam /\ token[j].fam \notin overlapped'
            /\ Issued(j) /\ Live(j)
        BY <2>1, <3>1, RefreshOfLive DEF BeginRefresh, FamilyOf
      <3>3. CASE call[b].jti = j
        <4>1. b \in RefreshesOf(j)
          BY <3>1, <3>3 DEF RefreshesOf, Refreshing
        <4> QED BY <2>1, <3>2, <4>1 DEF BeginRefresh
      <3>4. CASE call[b].jti # j
        BY <3>1, <3>2, <3>4, HistoryGrows DEF RefreshIsAlone
      <3> QED BY <3>3, <3>4
    <2>2. CASE Refreshing(r) /\ call'[r].jti = call[r].jti
               /\ Refreshing(s) /\ call'[s].jti = call[s].jti
      <3>1. FamilyOf(r)' = FamilyOf(r) /\ FamilyOf(s)' = FamilyOf(s)
        BY <1>0, <2>2, IssuedStays DEF FamilyOf
      <3> QED BY <1>2, <2>2, <3>1, HistoryGrows DEF RefreshIsAlone
    <2> QED BY <1>2, <2>1, <2>2, RefreshBegan
  <1> QED BY <1>1, <1>2 DEF Live

\* Nothing but a restart of the replica that issued a family makes it forget that the
\* family is over.
LEMMA ForgottenBecame ==
  ASSUME IInv, [Next]_vars, NEW f \in Forgotten'
  PROVE  \/ f \in Forgotten
         \/ f \in Jtis /\ Issued(f) /\ Restart(token[f].home)
  <1> USE DEF IInv
  <1>0. CASE UNCHANGED <<token, revokedFamilies, ended>>
    BY <1>0 DEF Forgotten
  <1>1. ASSUME NEW j \in Jtis, NEW p \in Replicas, RefreshReused(j, p) \/ Logout(j, p)
        PROVE  f \in Forgotten
    <2>1. /\ token' = token /\ f \in ended' /\ f \notin revokedFamilies'[token[f].home]
          /\ Issued(j)
      BY <1>1 DEF Forgotten, RefreshReused, Logout
    <2>2. CASE f \in ended
      <3>1. f \in Jtis /\ Issued(f)
        BY <2>2 DEF TokensAreIssued, TypeOK
      <3>2. token[f].home \in Replicas
        BY <3>1, TokenTypes
      <3>3. revokedFamilies[token[f].home] \subseteq revokedFamilies'[token[f].home]
        BY <1>1, <3>2 DEF RefreshReused, Logout, TypeOK
      <3> QED BY <2>1, <2>2, <3>3 DEF Forgotten
    <2>3. CASE f \notin ended
      <3>1. f = token[j].fam /\ p = token[j].home
        BY <1>1, <2>1, <2>3 DEF RefreshReused, Logout, TokensAreIssued
      <3>2. token[f].home = p
        BY <2>1, <3>1 DEF TokensAreIssued
      <3>3. f \in revokedFamilies'[p]
        BY <1>1, <3>1 DEF RefreshReused, Logout, TypeOK
      <3> QED BY <2>1, <3>2, <3>3
    <2> QED BY <2>2, <2>3
  <1>2. ASSUME NEW r \in Requests, NEW j \in Jtis, LoginSucceeds(r, j) \/ Rotate(r, j)
        PROVE  f \in Forgotten
    <2>1. f \in ended /\ revokedFamilies' = revokedFamilies
      BY <1>2 DEF Forgotten, LoginSucceeds, Rotate
    <2>2. f \in Jtis /\ Issued(f)
      BY <2>1 DEF TokensAreIssued, TypeOK
    <2> QED BY <2>1, <2>2, IssuedStays DEF Forgotten
  <1>3. ASSUME NEW p \in Replicas, Restart(p)
        PROVE  \/ f \in Forgotten
               \/ f \in Jtis /\ Issued(f) /\ Restart(token[f].home)
    <2>1. f \in ended /\ f \notin revokedFamilies'[token[f].home]
      BY <1>3 DEF Forgotten, Restart
    <2>2. f \in Jtis /\ Issued(f)
      BY <2>1 DEF TokensAreIssued, TypeOK
    <2>3. CASE token[f].home = p
      BY <1>3, <2>2, <2>3
    <2>4. CASE token[f].home # p
      <3>1. token[f].home \in Replicas
        BY <2>2, TokenTypes
      <3>2. revokedFamilies'[token[f].home] = revokedFamilies[token[f].home]
        BY <1>3, <2>4, <3>1 DEF Restart, TypeOK
      <3>3. f \notin revokedFamilies[token[f].home]
        BY <2>1, <3>2
      <3> QED BY <2>1, <3>3 DEF Forgotten
    <2> QED BY <2>3, <2>4
  <1> QED BY <1>0, <1>1, <1>2, <1>3
    DEF Next, vars, ReadUser, BeginLogin, LoginFails, BeginRefresh, RefreshRefused,
        LockExpires, Deactivate, Reactivate

LEMMA EndedStep ==
  ASSUME IInv, [Next]_vars
  PROVE  EndedIsForgottenAtMost'
  <1> USE DEF IInv
  <1>0. \A r \in Requests : Refreshing(r) => /\ call[r].jti \in Jtis /\ Issued(call[r].jti)
                                             /\ token[call[r].jti].home = call[r].at
                                             /\ FamilyOf(r) \in Jtis
    BY CallTypes, TokenTypes DEF Refreshing, TokensAreIssued, FamilyOf
  <1>1. ASSUME NEW j \in Jtis, token'[j].fam \in Forgotten', Live(j)'
        PROVE  FALSE
    <2> DEFINE f == token'[j].fam
    <2>1. CASE Live(j)
      <3>1. Issued(j) /\ token'[j] = token[j]
        BY <2>1, IssuedStays DEF Live
      <3>2. CASE f \in Forgotten
        BY <2>1, <3>1, <3>2 DEF EndedIsForgottenAtMost
      <3>3. CASE Restart(token[f].home)
        <4>1. token[f].home = token[j].home /\ token[j].home \in Replicas
          BY <3>1, TokenTypes DEF TokensAreIssued
        <4> QED BY <1>1, <3>3, <4>1, RestartForgets
      <3> QED BY <1>1, <3>2, <3>3, ForgottenBecame
    <2>2. ASSUME NEW r \in Requests, LoginSucceeds(r, j) PROVE FALSE
      <3>1. f = j /\ j \notin ended'
        BY <2>2, LoginIssues, LoginBeginsFamily
      <3> QED BY <1>1, <3>1 DEF Forgotten
    <2>3. ASSUME NEW r \in Requests, Rotate(r, j) PROVE FALSE
      <3>1. Refreshing(r) /\ FamilyOf(r) = f
        BY <2>3, RotateIssues DEF FamilyOf
      <3>2. f \notin Forgotten
        BY <3>1 DEF EndedIsForgottenAtMost
      <3>3. ~Restart(token[f].home)
        <4>1. token'[j] # token[j]
          BY <2>3, RotateIssues DEF Issued
        <4> QED BY <4>1 DEF Restart
      <3> QED BY <1>1, <3>2, <3>3, ForgottenBecame
    <2> QED BY <1>1, <2>1, <2>2, <2>3, LiveBecame
  <1>2. ASSUME NEW r \in Requests, Refreshing(r)', FamilyOf(r)' \in Forgotten'
        PROVE  FALSE
    <2>1. CASE Refreshing(r) /\ call'[r].jti = call[r].jti /\ call'[r].at = call[r].at
      <3>1. FamilyOf(r)' = FamilyOf(r)
        BY <1>0, <2>1, IssuedStays DEF FamilyOf
      <3>2. FamilyOf(r) \notin Forgotten
        BY <2>1 DEF EndedIsForgottenAtMost
      <3>3. token[FamilyOf(r)].home = call[r].at /\ call[r].at \in Replicas
        BY <1>0, <2>1, CallTypes DEF TokensAreIssued, FamilyOf, Refreshing
      <3>4. ~Restart(call[r].at)
        BY <1>2, <2>1, <3>3, RestartForgets DEF Refreshing
      <3> QED BY <1>2, <3>1, <3>2, <3>3, <3>4, ForgottenBecame
    <2>2. ASSUME NEW j \in Jtis, NEW p \in Replicas, BeginRefresh(r, j, p), call'[r].jti = j
          PROVE  FALSE
      <3>1. Live(j) /\ Issued(j) /\ FamilyOf(r)' = token[j].fam
        BY <2>2, RefreshOfLive DEF BeginRefresh, FamilyOf
      <3>2. token[j].fam \notin Forgotten
        BY <3>1 DEF EndedIsForgottenAtMost
      <3>3. Forgotten' = Forgotten
        BY <2>2 DEF BeginRefresh, Forgotten
      <3> QED BY <1>2, <3>1, <3>2, <3>3
    <2> QED BY <1>2, <2>1, <2>2, RefreshBegan
  <1> QED BY <1>1, <1>2 DEF EndedIsForgottenAtMost, Live

LEMMA FoundWasActiveStep ==
  ASSUME IInv, [Next]_vars
  PROVE  FoundWasActive'
  <1> USE DEF IInv, TypeOK, FoundWasActive
  <1>0. CASE UNCHANGED <<active, call>>
    BY <1>0
  <1>1. ASSUME NEW r \in Requests, ReadUser(r) PROVE FoundWasActive'
    <2>1. call[r] \in Call
      BY <1>1 DEF ReadUser
    <2>2. /\ call'[r].user = call[r].user /\ call'[r].was = call[r].was
          /\ call'[r].found = IF call[r].user \in active THEN "active" ELSE "inactive"
      BY <1>1, <2>1 DEF ReadUser, Call
    <2> QED BY <1>1, <2>2 DEF ReadUser
  <1>2. ASSUME NEW r \in Requests, NEW u \in Users, NEW p \in Replicas, BeginLogin(r, u, p)
        PROVE  FoundWasActive'
    BY <1>2 DEF BeginLogin
  <1>3. ASSUME NEW r \in Requests, Answer(r), active' = active PROVE FoundWasActive'
    BY <1>3 DEF Answer
  <1>4. ASSUME NEW r \in Requests, NEW j \in Jtis, NEW p \in Replicas, BeginRefresh(r, j, p)
        PROVE  FoundWasActive'
    BY <1>4 DEF BeginRefresh
  <1>5. ASSUME NEW u \in Users, Deactivate(u) PROVE FoundWasActive'
    BY <1>5 DEF Deactivate
  <1>6. ASSUME NEW u \in Users, Reactivate(u) PROVE FoundWasActive'
    <2> SUFFICES ASSUME NEW r \in Requests, call'[r] # Idle,
                        call'[r].found = "active" \/ call'[r].user \in active'
                 PROVE  call'[r].was
      OBVIOUS
    <2>1. call[r] # Idle /\ call[r] \in Call
      BY <1>6 DEF Reactivate
    <2>2. CASE call[r].user = u
      BY <1>6, <2>1, <2>2 DEF Reactivate, Call
    <2>3. CASE call[r].user # u
      BY <1>6, <2>1, <2>3 DEF Reactivate
    <2> QED BY <2>2, <2>3
  <1>7. ASSUME NEW p \in Replicas, Restart(p) PROVE FoundWasActive'
    BY <1>7 DEF Restart
  <1> QED BY <1>0, <1>1, <1>2, <1>3, <1>4, <1>5, <1>6, <1>7
    DEF Next, vars, LoginFails, LoginSucceeds, Rotate, RefreshRefused, RefreshReused, Logout,
        LockExpires

-------------------------------------------------------------------------------
(* The theorems.                                                             *)

LEMMA InitIInv ==
  ASSUME SessionsAssumption, Init
  PROVE  IInv
  <1>1. \A j \in Jtis : ~Issued(j)
    BY DEF Init, Issued
  <1>2. TypeOK
    BY DEF TypeOK, Init, NoFailures, SessionsAssumption
  <1> QED
    BY <1>1, <1>2 DEF Init, IInv, TokensAreIssued, OneLiveToken, RefreshIsAlone,
       EndedIsForgottenAtMost, FoundWasActive, Refreshing, Live, Forgotten

LEMMA IInvStep ==
  ASSUME SessionsAssumption, IInv, [Next]_vars
  PROVE  IInv'
  <1>1. TypeOK'
    BY TypeOKStep DEF IInv
  <1> QED BY <1>1, TokensAreIssuedStep, OneLiveTokenStep, RefreshIsAloneStep, EndedStep,
             FoundWasActiveStep DEF IInv

\* IInv is all the theorems need of a state.
LEMMA IInvSuffices ==
  ASSUME IInv
  PROVE  SessionsAreSound
  <1>1. \A j \in Jtis, p \in Replicas :
           Usable(j, p) => Live(j) /\ p = token[j].home /\ token[j].fam \notin Forgotten
    <2> SUFFICES ASSUME NEW j \in Jtis, NEW p \in Replicas, Usable(j, p)
                 PROVE  Live(j) /\ p = token[j].home /\ token[j].fam \notin Forgotten
      OBVIOUS
    <2>1. Live(j) /\ p = token[j].home
      BY DEF IInv, TokensAreIssued, Usable, Live
    <2> QED BY <2>1 DEF IInv, EndedIsForgottenAtMost, Live
  <1>2. OneUsableToken
    <2> SUFFICES ASSUME NEW i \in Jtis, NEW j \in Jtis, NEW p \in Replicas, NEW q \in Replicas,
                        Usable(i, p), Usable(j, q), <<i, p>> # <<j, q>>, token[i].fam = token[j].fam
                 PROVE  i # j /\ p = q /\ token[i].fam \in overlapped
      BY DEF OneUsableToken
    <2>1. Live(i) /\ Live(j) /\ p = token[i].home /\ q = token[j].home
      BY <1>1
    <2>2. token[i].home = token[j].home
      BY <2>1 DEF IInv, TokensAreIssued, Live
    <2> QED BY <2>1, <2>2 DEF IInv, OneLiveToken
  <1>3. EndedStaysEnded
    <2> SUFFICES ASSUME NEW j \in Jtis, NEW p \in Replicas, token[j].fam \in ended, Usable(j, p)
                 PROVE  FALSE
      BY DEF EndedStaysEnded
    <2>1. Issued(j) /\ p = token[j].home /\ token[j].fam \notin Forgotten
      BY <1>1 DEF Live
    <2>2. token[j].fam \in revokedFamilies[p]
      BY <2>1 DEF Forgotten, IInv, TokensAreIssued
    <2> QED BY <2>2 DEF Usable
  <1> QED BY <1>2, <1>3 DEF IInv, SessionsAreSound

LEMMA Invariance ==
  ASSUME SessionsAssumption
  PROVE  Spec => []IInv
  <1>1. Init => IInv
    BY InitIInv
  <1>2. IInv /\ [Next]_vars => IInv'
    BY IInvStep
  <1> QED BY <1>1, <1>2, PTL DEF Spec

\* Rows, maps and calls keep their types.
THEOREM TypeCorrect ==
  ASSUME SessionsAssumption
  PROVE  Spec => []TypeOK
  <1>1. IInv => TypeOK
    BY DEF IInv
  <1> QED BY Invariance, <1>1, PTL

\* Of the tokens of a session one is usable at most, at one of the replicas, refreshes that
\* overlap apart, and none once the session is over, whatever is under way and however
\* often the replicas restart.  A logout ends the session if it is served by the replica
\* that issued the token.
THEOREM TokensOfASession ==
  ASSUME SessionsAssumption
  PROVE  Spec => []SessionsAreSound
  <1>1. IInv => SessionsAreSound
    BY IInvSuffices
  <1> QED BY Invariance, <1>1, PTL

\* A token is issued for a call that read the row of an active user.
LEMMA DeactivatedStep ==
  ASSUME IInv, [Next]_vars, NEW r \in Requests, NEW j \in DOMAIN token,
         ~Issued(j), Issued(j)', call'[r] # call[r]
  PROVE  call[r].was
  <1>0. j \in Jtis
    BY DEF IInv, TypeOK
  <1>1. ASSUME NEW s \in Requests, NEW i \in Jtis, LoginSucceeds(s, i) \/ Rotate(s, i)
        PROVE  call[r].was
    <2>1. r = s
      BY <1>1 DEF IInv, TypeOK, LoginSucceeds, Rotate, Answer
    <2> QED BY <1>1, <2>1 DEF IInv, FoundWasActive, LoginSucceeds, Rotate
  <1>2. token' # token
    BY DEF Issued
  <1> QED
    BY <1>1, <1>2
    DEF Next, vars, ReadUser, BeginLogin, LoginFails, BeginRefresh, RefreshRefused,
        RefreshReused, Logout, LockExpires, Deactivate, Reactivate, Restart

\* A user who is deactivated gets a token only of a call that began before.
THEOREM NothingForTheDeactivated ==
  ASSUME SessionsAssumption
  PROVE  Spec => DeactivatedGetsNothing
  <1> DEFINE A == \A r \in Requests, j \in DOMAIN token :
                     ~Issued(j) /\ Issued(j)' /\ token'[j].user \notin active /\ call'[r] # call[r]
                        => call[r].was
  <1>1. IInv /\ [Next]_vars => [A]_vars
    BY DeactivatedStep
  <1> QED BY Invariance, <1>1, PTL DEF Spec, DeactivatedGetsNothing

\* What neither expires the lock nor restarts the replica leaves an account locked.
LEMMA LockStep ==
  ASSUME IInv, [Next]_vars, NEW u \in Users, NEW p \in Replicas, failed[p][u].locked,
         ~LoggingIn(u, p), ~LockExpires(u, p), ~Restart(p)
  PROVE  failed'[p][u].locked /\ ~LoggingIn(u, p)'
  <1> DEFINE Holds == failed'[p][u].locked /\ ~LoggingIn(u, p)'
  <1>0. ASSUME UNCHANGED <<failed, call>> PROVE Holds
    BY <1>0 DEF LoggingIn
  <1> USE DEF IInv, TypeOK, LoggingIn
  <1>1. ASSUME NEW r \in Requests, ReadUser(r) PROVE Holds
    <2>1. call'[r].op = call[r].op /\ call'[r].user = call[r].user /\ call'[r].at = call[r].at
      BY <1>1 DEF ReadUser, Call
    <2> QED BY <1>1, <2>1 DEF ReadUser
  <1>2. ASSUME NEW r \in Requests, NEW v \in Users, NEW q \in Replicas, BeginLogin(r, v, q) PROVE Holds
    BY <1>2 DEF BeginLogin
  <1>3. ASSUME NEW r \in Requests, LoginFails(r) PROVE Holds
    <2>1. /\ call[r].user \in Users /\ call[r].at \in Replicas
          /\ call[r].user # u \/ call[r].at # p
      BY <1>3, CallTypes DEF LoginFails
    <2>2. failed'[p][u] = failed[p][u]
      BY <1>3, <2>1 DEF LoginFails
    <2> QED BY <1>3, <2>2 DEF LoginFails, Answer, Idle
  <1>4. ASSUME NEW r \in Requests, NEW j \in Jtis, LoginSucceeds(r, j) PROVE Holds
    <2>1. /\ call[r].user \in Users /\ call[r].at \in Replicas
          /\ call[r].user # u \/ call[r].at # p
      BY <1>4, CallTypes DEF LoginSucceeds
    <2>2. failed'[p][u] = failed[p][u]
      BY <1>4, <2>1 DEF LoginSucceeds
    <2> QED BY <1>4, <2>2 DEF LoginSucceeds, Answer, Idle
  <1>5. ASSUME NEW r \in Requests, NEW j \in Jtis, NEW q \in Replicas, BeginRefresh(r, j, q) PROVE Holds
    BY <1>5 DEF BeginRefresh
  <1>6. ASSUME NEW r \in Requests, Answer(r), failed' = failed PROVE Holds
    BY <1>6 DEF Answer, Idle
  <1>7. ASSUME NEW v \in Users, NEW q \in Replicas, LockExpires(v, q) PROVE Holds
    <2>1. v # u \/ q # p
      BY <1>7
    <2> QED BY <1>7, <2>1 DEF LockExpires
  <1>8. ASSUME NEW v \in Users, Reactivate(v) PROVE Holds
    <2>1. \A r \in Requests : /\ call'[r].op = call[r].op /\ call'[r].user = call[r].user
                              /\ call'[r].at = call[r].at
      BY <1>8 DEF Reactivate, Call
    <2>2. \A r \in Requests : call'[r] # Idle => call[r] # Idle
      BY <1>8 DEF Reactivate
    <2> QED BY <1>8, <2>1, <2>2 DEF Reactivate
  <1>9. ASSUME NEW q \in Replicas, Restart(q) PROVE Holds
    <2>1. q # p
      BY <1>9
    <2> QED BY <1>9, <2>1 DEF Restart, Idle
  <1> HIDE DEF Holds
  <1>10. Holds
    BY <1>0, <1>1, <1>2, <1>3, <1>4, <1>5, <1>6, <1>7, <1>8, <1>9
    DEF Next, vars, Rotate, RefreshRefused, RefreshReused, Logout, Deactivate
  <1> QED BY <1>10 DEF Holds

\* An account locked at a replica stays locked there, with no login under way, until its
\* lock expires or the replica restarts.
THEOREM LocksHold ==
  ASSUME SessionsAssumption
  PROVE  Spec => LockHolds
  <1> DEFINE A == \A u \in Users, p \in Replicas : failed[p][u].locked /\ ~LoggingIn(u, p) =>
                     \/ failed'[p][u].locked /\ ~LoggingIn(u, p)'
                     \/ LockExpires(u, p)
                     \/ Restart(p)
  <1>1. IInv /\ [Next]_vars => [A]_vars
    BY LockStep
  <1> QED BY Invariance, <1>1, PTL DEF Spec, LockHolds

-------------------------------------------------------------------------------
(* Materiality: surveys, responses, assessments and their signatures.        *)

\* Whoever assesses a survey found it closed, and it still is unless it was launched again.
AssessedIsClosed ==
    /\ \A r \in Requests : pending[r].op \in {"assess", "create"} =>
          survey[pending[r].survey] = "CLOSED" \/ pending[r].survey \in reopened
    /\ \A a \in Assessments : assessment[a] # Survey!NoAssessment =>
          survey[assessment[a].survey] = "CLOSED" \/ assessment[a].survey \in reopened

\* AssessmentCountsAll of what is about to be stored.
CountedIsComplete ==
    \A r \in Requests : pending[r].op = "create" =>
        LET s == pending[r].survey
        IN s \in reopened \/ Survey!ResponsesOf(s) \subseteq pending[r].counted \cup late

\* What holds of surveys and assessments at every step.
SurveyInv == /\ Survey!TypeOK /\ AssessedIsClosed /\ CountedIsComplete
             /\ Survey!AssessmentCountsAll

\* What the types say of a request by its op.
LEMMA PendingTypes ==
  ASSUME Survey!TypeOK, NEW r \in Requests
  PROVE  /\ pending[r].op \in {"launch", "submit", "close", "assess", "create"}
               => pending[r].survey \in Surveys
         /\ pending[r].op = "create" => pending[r].counted \subseteq Responses
         /\ pending[r].op = "sign" => /\ pending[r].assessment \in Assessments
                                      /\ pending[r].signer \in Signers
  BY DEF Survey!TypeOK, Survey!Pending, Survey!Idle

\* The types of the tables and of the requests stay right.
LEMMA SurveyTypes ==
  ASSUME Survey!TypeOK, AssessedIsClosed, [Survey!Next]_surveyVars
  PROVE  Survey!TypeOK'
  <1> USE DEF Survey!TypeOK
  <1>0. CASE UNCHANGED surveyVars
    BY <1>0 DEF surveyVars
  <1>1. ASSUME NEW s \in Surveys, Survey!CreateSurvey(s) PROVE Survey!TypeOK'
    BY <1>1 DEF Survey!CreateSurvey
  <1>2. ASSUME NEW r \in Requests, NEW q \in Survey!Pending, Survey!Begin(r, q)
        PROVE  Survey!TypeOK'
    BY <1>2 DEF Survey!Begin
  <1>3. ASSUME NEW r \in Requests, NEW s \in Surveys,
               \/ Survey!BeginLaunch(r, s) \/ Survey!BeginClose(r, s)
               \/ Survey!BeginSubmit(r, s) \/ Survey!BeginAssess(r, s)
        PROVE  Survey!TypeOK'
    <2>1. \A op \in {"launch", "submit", "close", "assess"} :
             [op |-> op, survey |-> s] \in Survey!Pending
      BY DEF Survey!Pending
    <2> QED BY <1>2, <1>3, <2>1 DEF Survey!BeginLaunch, Survey!BeginClose, Survey!BeginSubmit, Survey!BeginAssess
  <1>4. ASSUME NEW r \in Requests, Survey!WriteLaunch(r) \/ Survey!WriteClose(r)
        PROVE  Survey!TypeOK'
    <2>1. pending[r].survey \in Surveys
      BY <1>4, PendingTypes DEF Survey!WriteLaunch, Survey!WriteClose, Survey!Serves
    <2> QED BY <1>4, <2>1 DEF Survey!WriteLaunch, Survey!WriteClose, Survey!Answer
  <1>5. ASSUME NEW r \in Requests, NEW i \in Responses, Survey!WriteSubmit(r, i)
        PROVE  Survey!TypeOK'
    <2>1. pending[r].survey \in Surveys
      BY <1>5, PendingTypes DEF Survey!WriteSubmit, Survey!Serves
    <2> QED BY <1>5, <2>1 DEF Survey!WriteSubmit, Survey!Answer
  <1>6. ASSUME NEW r \in Requests, Survey!CountResponses(r) PROVE Survey!TypeOK'
    <2>1. pending[r].survey \in Surveys
      BY <1>6, PendingTypes DEF Survey!CountResponses, Survey!Serves
    <2>2. [op |-> "create", survey |-> pending[r].survey,
           counted |-> Survey!ResponsesOf(pending[r].survey)] \in Survey!Pending
      BY <2>1 DEF Survey!Pending, Survey!ResponsesOf
    <2> QED BY <1>6, <2>2 DEF Survey!CountResponses
  <1>7. ASSUME NEW r \in Requests, NEW a \in Assessments, Survey!CreateRun(r, a)
        PROVE  Survey!TypeOK'
    <2>1. pending[r].survey \in Surveys /\ pending[r].counted \subseteq Responses
      BY <1>7, PendingTypes DEF Survey!CreateRun, Survey!Serves
    <2>2. [survey |-> pending[r].survey, counted |-> pending[r].counted, signedBy |-> NoSigner]
             \in Survey!Assessment
      BY <2>1 DEF Survey!Assessment
    <2> QED BY <1>7, <2>2 DEF Survey!CreateRun, Survey!Answer
  <1>8. ASSUME NEW r \in Requests, NEW a \in Assessments, NEW x \in Signers,
               Survey!BeginSign(r, a, x)
        PROVE  Survey!TypeOK'
    <2>1. [op |-> "sign", assessment |-> a, signer |-> x] \in Survey!Pending
      BY DEF Survey!Pending
    <2> QED BY <1>2, <1>8, <2>1 DEF Survey!BeginSign
  <1>9. ASSUME NEW r \in Requests, Survey!WriteSign(r) PROVE Survey!TypeOK'
    <2>1. pending[r].assessment \in Assessments /\ pending[r].signer \in Signers
      BY <1>9, PendingTypes DEF Survey!WriteSign, Survey!Serves
    <2>2. [assessment[pending[r].assessment] EXCEPT !.signedBy = pending[r].signer]
             \in Survey!Assessment \cup {Survey!NoAssessment}
      <3>1. CASE assessment[pending[r].assessment] \in Survey!Assessment
        BY <2>1, <3>1 DEF Survey!Assessment
      <3>2. CASE assessment[pending[r].assessment] = Survey!NoAssessment
        BY <2>1, <3>2 DEF Survey!NoAssessment
      <3> QED BY <2>1, <3>1, <3>2
    <2> QED BY <1>9, <2>1, <2>2 DEF Survey!WriteSign, Survey!Answer
  <1>10. ASSUME NEW r \in Requests, Survey!Abandon(r) PROVE Survey!TypeOK'
    BY <1>10 DEF Survey!Abandon, Survey!Answer
  <1> QED BY <1>0, <1>1, <1>3, <1>4, <1>5, <1>6, <1>7, <1>8, <1>9, <1>10 DEF Survey!Next

\* A request that begins, but to count, changes nothing the rest of SurveyInv is about.
LEMMA SurveyBegins ==
  ASSUME SurveyInv, NEW r \in Requests, NEW q \in Survey!Pending, Survey!Begin(r, q),
         q.op \in {"launch", "submit", "close", "sign"}
  PROVE  AssessedIsClosed' /\ CountedIsComplete' /\ Survey!AssessmentCountsAll'
  BY DEF SurveyInv, Survey!TypeOK, Survey!Begin, AssessedIsClosed, CountedIsComplete,
         Survey!AssessmentCountsAll, Survey!ResponsesOf

\* The same for one that answers and changes no row.
LEMMA SurveyAnswers ==
  ASSUME SurveyInv, NEW r \in Requests, Survey!Answer(r),
         UNCHANGED <<survey, response, late, reopened>>,
         \A a \in Assessments : /\ (assessment'[a] = Survey!NoAssessment) <=> (assessment[a] = Survey!NoAssessment)
                                /\ assessment'[a].survey = assessment[a].survey
                                /\ assessment'[a].counted = assessment[a].counted
  PROVE  AssessedIsClosed' /\ CountedIsComplete' /\ Survey!AssessmentCountsAll'
  BY DEF SurveyInv, Survey!TypeOK, Survey!Answer, Survey!Idle, AssessedIsClosed, CountedIsComplete,
         Survey!AssessmentCountsAll, Survey!ResponsesOf

\* A count misses no response but the late ones: those that come while a survey is
\* assessed come late, because it was closed.
LEMMA SurveyInvStep ==
  ASSUME SurveyInv, [Survey!Next]_surveyVars
  PROVE  SurveyInv'
  <1> DEFINE Goal == AssessedIsClosed' /\ CountedIsComplete' /\ Survey!AssessmentCountsAll'
  <1>a. Survey!TypeOK /\ Survey!TypeOK'
    BY SurveyTypes DEF SurveyInv
  <1>0. CASE UNCHANGED surveyVars
    BY <1>0 DEF surveyVars, SurveyInv, AssessedIsClosed, CountedIsComplete,
       Survey!AssessmentCountsAll, Survey!ResponsesOf, Survey!TypeOK
  <1>1. ASSUME NEW s \in Surveys, Survey!CreateSurvey(s) PROVE Goal
    BY <1>a, <1>1 DEF Survey!CreateSurvey, SurveyInv, AssessedIsClosed, CountedIsComplete,
       Survey!AssessmentCountsAll, Survey!ResponsesOf, Survey!TypeOK
  <1>2. ASSUME NEW r \in Requests, NEW s \in Surveys,
               Survey!BeginLaunch(r, s) \/ Survey!BeginClose(r, s) \/ Survey!BeginSubmit(r, s)
        PROVE  Goal
    <2>1. \A op \in {"launch", "submit", "close"} :
             [op |-> op, survey |-> s] \in Survey!Pending
      BY DEF Survey!Pending
    <2> QED BY <1>2, <2>1, SurveyBegins DEF Survey!BeginLaunch, Survey!BeginClose, Survey!BeginSubmit
  <1>3. ASSUME NEW r \in Requests, NEW s \in Surveys, Survey!BeginAssess(r, s) PROVE Goal
    BY <1>a, <1>3 DEF Survey!BeginAssess, Survey!Begin, SurveyInv, AssessedIsClosed,
       CountedIsComplete, Survey!AssessmentCountsAll, Survey!ResponsesOf, Survey!TypeOK
  <1>4. ASSUME NEW r \in Requests, Survey!WriteLaunch(r) PROVE Goal
    <2>1. pending[r].survey \in Surveys
      BY <1>a, <1>4, PendingTypes DEF Survey!WriteLaunch, Survey!Serves
    <2>2. \A q \in Requests : pending'[q].op \in {"assess", "create"} => pending'[q] = pending[q]
      BY <1>a, <1>4 DEF Survey!WriteLaunch, Survey!Answer, Survey!Idle, Survey!TypeOK
    <2>3. AssessedIsClosed'
      BY <1>a, <1>4, <2>1, <2>2 DEF Survey!WriteLaunch, SurveyInv, AssessedIsClosed, Survey!TypeOK
    <2>4. CountedIsComplete' /\ Survey!AssessmentCountsAll'
      BY <1>a, <1>4, <2>1, <2>2 DEF Survey!WriteLaunch, SurveyInv, CountedIsComplete,
         Survey!AssessmentCountsAll, Survey!ResponsesOf, Survey!TypeOK
    <2> QED BY <2>3, <2>4
  <1>5. ASSUME NEW r \in Requests, Survey!WriteClose(r) PROVE Goal
    <2>1. pending[r].survey \in Surveys
      BY <1>a, <1>5, PendingTypes DEF Survey!WriteClose, Survey!Serves
    <2>2. \A q \in Requests : pending'[q].op \in {"assess", "create"} => pending'[q] = pending[q]
      BY <1>a, <1>5 DEF Survey!WriteClose, Survey!Answer, Survey!Idle, Survey!TypeOK
    <2>3. \A s : survey[s] = "CLOSED" => survey'[s] = "CLOSED"
      BY <1>a, <1>5, <2>1 DEF Survey!WriteClose, Survey!TypeOK
    <2> QED BY <1>a, <1>5, <2>2, <2>3 DEF Survey!WriteClose, SurveyInv, AssessedIsClosed,
       CountedIsComplete, Survey!AssessmentCountsAll, Survey!ResponsesOf
  <1>6. ASSUME NEW r \in Requests, NEW i \in Responses, Survey!WriteSubmit(r, i) PROVE Goal
    <2>1. pending[r].survey \in Surveys
      BY <1>a, <1>6, PendingTypes DEF Survey!WriteSubmit, Survey!Serves
    <2>2. \A q \in Requests : pending'[q].op \in {"assess", "create"} => pending'[q] = pending[q]
      BY <1>a, <1>6 DEF Survey!WriteSubmit, Survey!Answer, Survey!Idle, Survey!TypeOK
    <2>3. ASSUME NEW s \in Surveys, survey[s] = "CLOSED" \/ s \in reopened
          PROVE  s \in reopened' \/ Survey!ResponsesOf(s)' \subseteq Survey!ResponsesOf(s) \cup late'
      BY <1>a, <1>6, <2>1, <2>3 DEF Survey!WriteSubmit, Survey!ResponsesOf, Survey!TypeOK
    <2>4. AssessedIsClosed'
      BY <1>6, <2>2 DEF Survey!WriteSubmit, SurveyInv, AssessedIsClosed
    <2>5. late \subseteq late' /\ reopened' = reopened /\ assessment' = assessment
      BY <1>6 DEF Survey!WriteSubmit
    <2>6. CountedIsComplete'
      <3> SUFFICES ASSUME NEW q \in Requests, pending[q].op = "create", NEW s \in Surveys,
                          s = pending[q].survey, s \notin reopened
                   PROVE  Survey!ResponsesOf(s)' \subseteq pending[q].counted \cup late'
        BY <1>a, <2>2, <2>5, PendingTypes DEF CountedIsComplete, Survey!ResponsesOf
      <3>1. survey[s] = "CLOSED"
        BY DEF SurveyInv, AssessedIsClosed
      <3>2. Survey!ResponsesOf(s) \subseteq pending[q].counted \cup late
        BY DEF SurveyInv, CountedIsComplete
      <3> QED BY <2>3, <2>5, <3>1, <3>2
    <2>7. Survey!AssessmentCountsAll'
      <3> SUFFICES ASSUME NEW a \in Assessments, assessment[a] # Survey!NoAssessment, NEW s \in Surveys,
                          s = assessment[a].survey, s \notin reopened
                   PROVE  Survey!ResponsesOf(s)' \subseteq assessment[a].counted \cup late'
        BY <1>a, <2>5 DEF Survey!AssessmentCountsAll, Survey!ResponsesOf, Survey!TypeOK, Survey!Assessment
      <3>1. survey[s] = "CLOSED"
        BY DEF SurveyInv, AssessedIsClosed
      <3>2. Survey!ResponsesOf(s) \subseteq assessment[a].counted \cup late
        BY DEF SurveyInv, Survey!AssessmentCountsAll
      <3> QED BY <2>3, <2>5, <3>1, <3>2
    <2> QED BY <2>4, <2>6, <2>7
  <1>7. ASSUME NEW r \in Requests, Survey!CountResponses(r) PROVE Goal
    BY <1>a, <1>7 DEF Survey!CountResponses, Survey!Serves, SurveyInv, AssessedIsClosed,
       CountedIsComplete, Survey!AssessmentCountsAll, Survey!ResponsesOf, Survey!TypeOK
  <1>8. ASSUME NEW r \in Requests, NEW a \in Assessments, Survey!CreateRun(r, a) PROVE Goal
    <2>1. \A q \in Requests : pending'[q].op \in {"assess", "create"} => pending'[q] = pending[q]
      BY <1>a, <1>8 DEF Survey!CreateRun, Survey!Answer, Survey!Idle, Survey!TypeOK
    <2>2. /\ assessment'[a].survey = pending[r].survey /\ assessment'[a].counted = pending[r].counted
          /\ \A b \in Assessments \ {a} : assessment'[b] = assessment[b]
      BY <1>a, <1>8 DEF Survey!CreateRun, Survey!TypeOK
    <2> QED BY <1>a, <1>8, <2>1, <2>2 DEF Survey!CreateRun, Survey!Serves, SurveyInv, AssessedIsClosed,
       CountedIsComplete, Survey!AssessmentCountsAll, Survey!ResponsesOf
  <1>9. ASSUME NEW r \in Requests, NEW a \in Assessments, NEW x \in Signers,
               Survey!BeginSign(r, a, x)
        PROVE  Goal
    <2>1. [op |-> "sign", assessment |-> a, signer |-> x] \in Survey!Pending
      BY DEF Survey!Pending
    <2> QED BY <1>9, <2>1, SurveyBegins DEF Survey!BeginSign
  <1>10. ASSUME NEW r \in Requests, Survey!WriteSign(r) PROVE Goal
    <2> DEFINE b == pending[r].assessment
    <2>1. b \in Assessments /\ pending[r].signer \in Signers
      BY <1>a, <1>10, PendingTypes DEF Survey!WriteSign, Survey!Serves
    <2>2. \A a \in Assessments :
             /\ (assessment'[a] = Survey!NoAssessment) <=> (assessment[a] = Survey!NoAssessment)
             /\ assessment'[a].survey = assessment[a].survey
             /\ assessment'[a].counted = assessment[a].counted
      <3>1. CASE assessment[b] \in Survey!Assessment
        BY <1>a, <1>10, <2>1, <3>1 DEF Survey!WriteSign, Survey!TypeOK, Survey!Assessment, Survey!NoAssessment
      <3>2. CASE assessment[b] = Survey!NoAssessment
        BY <1>a, <1>10, <2>1, <3>2 DEF Survey!WriteSign, Survey!TypeOK, Survey!NoAssessment
      <3> QED BY <1>a, <2>1, <3>1, <3>2 DEF Survey!TypeOK
    <2> QED BY <1>10, <2>2, SurveyAnswers DEF Survey!WriteSign
  <1>11. ASSUME NEW r \in Requests, Survey!Abandon(r) PROVE Goal
    BY <1>11, SurveyAnswers DEF Survey!Abandon
  <1> QED BY <1>a, <1>0, <1>1, <1>2, <1>3, <1>4, <1>5, <1>6, <1>7, <1>8, <1>9, <1>10, <1>11
          DEF Survey!Next, SurveyInv

\* A request that has an op and a survey in the next state had them, or began with them.
LEMMA PendingBecame ==
  ASSUME Survey!TypeOK, [Survey!Next]_surveyVars, NEW r \in Requests,
         pending'[r].op \in {"launch", "submit"}
  PROVE  \/ pending'[r] = pending[r]
         \/ /\ pending'[r].op = "launch" => survey[pending'[r].survey] = "DRAFT"
            /\ pending'[r].op = "submit" => survey[pending'[r].survey] = "ACTIVE"
  <1> USE DEF Survey!TypeOK
  <1>0. CASE UNCHANGED pending
    BY <1>0
  <1>1. ASSUME NEW q \in Requests, Survey!Answer(q) PROVE pending'[r] = pending[r]
    BY <1>1 DEF Survey!Answer, Survey!Idle
  <1>2. ASSUME NEW q \in Requests, NEW s \in Surveys, Survey!BeginLaunch(q, s) \/ Survey!BeginSubmit(q, s)
        PROVE  \/ pending'[r] = pending[r]
               \/ /\ pending'[r].op = "launch" => survey[pending'[r].survey] = "DRAFT"
                  /\ pending'[r].op = "submit" => survey[pending'[r].survey] = "ACTIVE"
    BY <1>2 DEF Survey!BeginLaunch, Survey!BeginSubmit, Survey!Begin
  <1>3. ASSUME NEW q \in Requests, NEW s \in Surveys, Survey!BeginClose(q, s) \/ Survey!BeginAssess(q, s)
        PROVE  pending'[r] = pending[r]
    BY <1>3 DEF Survey!BeginClose, Survey!BeginAssess, Survey!Begin
  <1>4. ASSUME NEW q \in Requests, Survey!CountResponses(q) PROVE pending'[r] = pending[r]
    BY <1>4 DEF Survey!CountResponses
  <1>5. ASSUME NEW q \in Requests, NEW a \in Assessments, NEW x \in Signers, Survey!BeginSign(q, a, x)
        PROVE  pending'[r] = pending[r]
    BY <1>5 DEF Survey!BeginSign, Survey!Begin
  <1> QED BY <1>0, <1>1, <1>2, <1>3, <1>4, <1>5 DEF Survey!Next, surveyVars, Survey!CreateSurvey,
          Survey!WriteLaunch, Survey!WriteClose, Survey!WriteSubmit, Survey!CreateRun,
          Survey!WriteSign, Survey!Abandon

\* A closed survey that nobody is launching stays closed, and lets no response in.
LEMMA ClosedSurveysStep ==
  ASSUME Survey!TypeOK, [Survey!Next]_surveyVars, NEW s \in Surveys, survey[s] = "CLOSED",
         ~Survey!Launching(s)
  PROVE  /\ survey'[s] = "CLOSED" /\ ~Survey!Launching(s)'
         /\ ~Survey!Answering(s) => /\ Survey!ResponsesOf(s)' = Survey!ResponsesOf(s)
                                    /\ ~Survey!Answering(s)'
  <1>1. ~Survey!Launching(s)'
    BY PendingBecame DEF Survey!Launching, Survey!Serves
  <1>2. ASSUME ~Survey!Answering(s) PROVE ~Survey!Answering(s)'
    BY <1>2, PendingBecame DEF Survey!Answering, Survey!Serves
  <1>3. survey'[s] = "CLOSED"
    <2>1. ASSUME NEW q \in Requests, Survey!WriteLaunch(q) PROVE survey'[s] = survey[s]
      BY <2>1 DEF Survey!WriteLaunch, Survey!Launching, Survey!Serves, Survey!TypeOK
    <2>2. ASSUME NEW q \in Requests, Survey!WriteClose(q) PROVE survey'[s] = "CLOSED"
      BY <2>2 DEF Survey!WriteClose, Survey!TypeOK
    <2>3. ASSUME NEW z \in Surveys, Survey!CreateSurvey(z) PROVE survey'[s] = survey[s]
      BY <2>3 DEF Survey!CreateSurvey, Survey!TypeOK
    <2> QED BY <2>1, <2>2, <2>3 DEF Survey!Next, surveyVars, Survey!BeginLaunch, Survey!BeginClose,
            Survey!BeginSubmit, Survey!BeginAssess, Survey!Begin, Survey!WriteSubmit,
            Survey!CountResponses, Survey!CreateRun, Survey!BeginSign, Survey!WriteSign, Survey!Abandon
  <1>4. ASSUME ~Survey!Answering(s) PROVE Survey!ResponsesOf(s)' = Survey!ResponsesOf(s)
    <2>1. ASSUME NEW q \in Requests, NEW i \in Responses, Survey!WriteSubmit(q, i)
          PROVE  Survey!ResponsesOf(s)' = Survey!ResponsesOf(s)
      <3>1. pending[q].survey # s /\ pending[q].survey \in Surveys
        BY <1>4, <2>1, PendingTypes DEF Survey!WriteSubmit, Survey!Answering, Survey!Serves
      <3>2. s # NoSurvey
        BY Assumptions DEF Survey!MaterialityAssumption
      <3> QED BY <2>1, <3>1, <3>2 DEF Survey!WriteSubmit, Survey!ResponsesOf, Survey!TypeOK
    <2>2. CASE response' = response
      BY <2>2 DEF Survey!ResponsesOf
    <2> QED BY <2>1, <2>2 DEF Survey!Next, surveyVars, Survey!CreateSurvey, Survey!BeginLaunch,
            Survey!BeginClose, Survey!BeginSubmit, Survey!BeginAssess, Survey!Begin, Survey!WriteLaunch,
            Survey!WriteClose, Survey!CountResponses, Survey!CreateRun, Survey!BeginSign,
            Survey!WriteSign, Survey!Abandon
  <1> QED BY <1>1, <1>2, <1>3, <1>4

\* A signed assessment that nobody is about to sign stays as it is.
LEMMA SignaturesStep ==
  ASSUME Survey!TypeOK, [Survey!Next]_surveyVars, NEW a \in Assessments,
         assessment[a] # Survey!NoAssessment, assessment[a].signedBy # NoSigner,
         \A r \in Requests : Survey!Serves(r, "sign") => pending[r].assessment # a
  PROVE  /\ assessment'[a] = assessment[a]
         /\ \A r \in Requests : Survey!Serves(r, "sign")' => pending'[r].assessment # a
  <1> USE DEF Survey!TypeOK, Survey!Serves
  <1> DEFINE Signs == \A r \in Requests : Survey!Serves(r, "sign")' => pending'[r].assessment # a
  <1>0. CASE UNCHANGED <<assessment, pending>>
    BY <1>0
  <1>1. ASSUME NEW r \in Requests, Survey!Answer(r), assessment' = assessment
        PROVE  assessment'[a] = assessment[a] /\ Signs
    BY <1>1 DEF Survey!Answer, Survey!Idle
  <1>2. ASSUME NEW r \in Requests, NEW q, q.op # "sign", Survey!Begin(r, q)
        PROVE  assessment'[a] = assessment[a] /\ Signs
    BY <1>2 DEF Survey!Begin
  <1>3. ASSUME NEW r \in Requests, NEW s \in Surveys,
               \/ Survey!BeginLaunch(r, s) \/ Survey!BeginClose(r, s)
               \/ Survey!BeginSubmit(r, s) \/ Survey!BeginAssess(r, s)
        PROVE  assessment'[a] = assessment[a] /\ Signs
    BY <1>2, <1>3 DEF Survey!BeginLaunch, Survey!BeginClose, Survey!BeginSubmit, Survey!BeginAssess
  <1>4. ASSUME NEW r \in Requests, Survey!CountResponses(r)
        PROVE  assessment'[a] = assessment[a] /\ Signs
    BY <1>4 DEF Survey!CountResponses
  <1>5. ASSUME NEW r \in Requests, NEW b \in Assessments, Survey!CreateRun(r, b)
        PROVE  assessment'[a] = assessment[a] /\ Signs
    BY <1>5 DEF Survey!CreateRun, Survey!Answer, Survey!Idle
  <1>6. ASSUME NEW r \in Requests, NEW b \in Assessments, NEW x \in Signers, Survey!BeginSign(r, b, x)
        PROVE  assessment'[a] = assessment[a] /\ Signs
    BY <1>6 DEF Survey!BeginSign, Survey!Begin
  <1>7. ASSUME NEW r \in Requests, Survey!WriteSign(r)
        PROVE  assessment'[a] = assessment[a] /\ Signs
    BY <1>7 DEF Survey!WriteSign, Survey!Answer, Survey!Idle
  <1> QED BY <1>0, <1>1, <1>3, <1>4, <1>5, <1>6, <1>7 DEF Survey!Next, surveyVars,
          Survey!CreateSurvey, Survey!WriteLaunch, Survey!WriteClose, Survey!WriteSubmit, Survey!Abandon

-------------------------------------------------------------------------------
(* SupplierPortal: invitations, responses and scores.                        *)

\* The Cardinality of the instance is that of FiniteSets.
LEMMA SameCardinality ==
  ASSUME NEW S
  PROVE  Portal!Cardinality(S) = Cardinality(S)
  BY DEF Portal!Cardinality, Cardinality

\* Responses are numbered as they come.
Numbered == \E n \in 0 .. MaxResponses : DOMAIN answers = 1 .. n

\* A submission under way is the only one of its invitation, which is not answered yet.
SubmitsAlone ==
    \A r \in Requests : serving[r].op = "submit" /\ serving[r].invite \notin doubled =>
        /\ ~invite[serving[r].invite].responded
        /\ \A q \in Requests \ {r} : serving[q].op = "submit" => serving[q].invite # serving[r].invite

\* A scoring with no other at the same time has a response not older than the score.
ScoresAlone ==
    /\ score = 0 \/ score \in DOMAIN answers
    /\ \A r \in Requests : serving[r].op = "score" =>
          /\ serving[r].latest \in DOMAIN answers
          /\ serving[r].alone => /\ serving[r].latest >= score
                                 /\ \A q \in Requests \ {r} : serving[q].op # "score"

\* What holds of the supplier and its invitations at every step.
PortalInv == /\ Portal!TypeOK /\ Numbered /\ SubmitsAlone /\ ScoresAlone
             /\ Portal!AnsweredOnce

\* What the types say of a handler by its op.
LEMMA ServingTypes ==
  ASSUME Portal!TypeOK, NEW r \in Requests
  PROVE  /\ serving[r].op \in {"invite", "submit"} => serving[r].invite \in Invites
         /\ serving[r].op = "score" => /\ serving[r].latest \in 1 .. MaxResponses
                                       /\ serving[r].alone \in BOOLEAN
         /\ serving[r] # Portal!Idle => serving[r].op \in {"invite", "submit", "score"}
  BY DEF Portal!TypeOK, Portal!Serving, Portal!Idle

\* Responses are numbered in the order they came.
LEMMA NextNumber ==
  ASSUME Portal!SupplierAssumption, NEW n \in 0 .. MaxResponses, DOMAIN answers = 1 .. n
  PROVE  Portal!Cardinality(DOMAIN answers) = n
  BY FS_Interval, SameCardinality DEF Portal!SupplierAssumption

\* What the transaction of a submission adds.
LEMMA SubmitAdds ==
  ASSUME PortalInv, NEW r \in Requests, Portal!WriteSubmit(r)
  PROVE  \E n \in 0 .. MaxResponses - 1 :
            /\ DOMAIN answers = 1 .. n /\ DOMAIN answers' = 1 .. n + 1
            /\ answers'[n + 1] = serving[r].invite
            /\ \A k \in 1 .. n : answers'[k] = answers[k]
  <1>0. MaxResponses \in Nat
    BY Assumptions DEF Portal!SupplierAssumption
  <1>1. PICK n \in 0 .. MaxResponses : DOMAIN answers = 1 .. n
    BY DEF PortalInv, Numbered
  <1>2. Portal!Cardinality(DOMAIN answers) = n
    BY <1>1, NextNumber, Assumptions
  <1>3. n < MaxResponses
    BY <1>0, <1>2 DEF Portal!WriteSubmit
  <1>4. answers' = [k \in (1 .. n) \cup {n + 1} |-> IF k \in 1 .. n THEN answers[k] ELSE serving[r].invite]
    BY <1>1, <1>2 DEF Portal!WriteSubmit, Portal!Added
  <1>5. (1 .. n) \cup {n + 1} = 1 .. n + 1
    BY <1>1
  <1> QED BY <1>0, <1>1, <1>3, <1>4, <1>5

\* The types of the supplier, its invitations and the handlers stay right.
LEMMA PortalTypes ==
  ASSUME PortalInv, [Portal!Next]_portalVars
  PROVE  Portal!TypeOK'
  <1> USE DEF Portal!TypeOK, PortalInv
  <1>0. CASE UNCHANGED portalVars
    BY <1>0 DEF portalVars
  <1>1. CASE Portal!Create \/ Portal!Archive
    BY <1>1 DEF Portal!Create, Portal!Archive
  <1>2. ASSUME NEW i \in Invites, Portal!OpenPortal(i) PROVE Portal!TypeOK'
    BY <1>2 DEF Portal!OpenPortal, Portal!Invite
  <1>3. ASSUME NEW r \in Requests, NEW i \in Invites, Portal!StoreInvite(r, i) PROVE Portal!TypeOK'
    BY <1>3 DEF Portal!StoreInvite, Portal!Invite, Portal!Serving
  <1>4. ASSUME NEW r \in Requests, NEW i \in Invites, Portal!BeginSubmit(r, i) PROVE Portal!TypeOK'
    <2>1. [op |-> "submit", invite |-> i] \in Portal!Serving
      BY DEF Portal!Serving
    <2> QED BY <1>4, <2>1 DEF Portal!BeginSubmit
  <1>5. ASSUME NEW r \in Requests, Portal!SendInvite(r) PROVE Portal!TypeOK'
    <2>1. serving[r].invite \in Invites
      BY <1>5, ServingTypes DEF Portal!SendInvite
    <2> QED BY <1>5, <2>1 DEF Portal!SendInvite, Portal!Answer, Portal!Invite
  <1>6. ASSUME NEW r \in Requests, Portal!WriteSubmit(r) PROVE Portal!TypeOK'
    <2>0. MaxResponses \in Nat
      BY Assumptions DEF Portal!SupplierAssumption
    <2>1. serving[r].invite \in Invites
      BY <1>6, ServingTypes DEF Portal!WriteSubmit
    <2>2. DOMAIN answers' \subseteq 1 .. MaxResponses /\ \A n \in DOMAIN answers' : answers'[n] \in Invites
      BY <1>6, <2>0, <2>1, SubmitAdds
    <2> QED BY <1>6, <2>1, <2>2 DEF Portal!WriteSubmit, Portal!Answer, Portal!Invite
  <1>7. ASSUME NEW r \in Requests, Portal!BeginScore(r) PROVE Portal!TypeOK'
    <2>1. PICK n \in Portal!LatestResponse :
            serving' = [q \in Requests |->
                        IF q = r THEN [op |-> "score", latest |-> n, alone |-> Portal!Scoring = {}]
                        ELSE IF q \in Portal!Scoring THEN [serving[q] EXCEPT !.alone = FALSE]
                        ELSE serving[q]]
      BY <1>7 DEF Portal!BeginScore
    <2>2. [op |-> "score", latest |-> n, alone |-> Portal!Scoring = {}] \in Portal!Serving
      BY <2>1 DEF Portal!LatestResponse, Portal!Serving
    <2>3. ASSUME NEW q \in Portal!Scoring PROVE [serving[q] EXCEPT !.alone = FALSE] \in Portal!Serving
      <3>1. serving[q] \in [op : {"score"}, latest : 1 .. MaxResponses, alone : BOOLEAN]
        BY <2>3 DEF Portal!Scoring, Portal!Serving, Portal!Idle
      <3> QED BY <3>1 DEF Portal!Serving
    <2> QED BY <1>7, <2>1, <2>2, <2>3 DEF Portal!BeginScore
  <1>8. ASSUME NEW r \in Requests, Portal!WriteScore(r) PROVE Portal!TypeOK'
    <2>1. serving[r].latest \in 0 .. MaxResponses
      BY <1>8, ServingTypes DEF Portal!WriteScore
    <2> QED BY <1>8, <2>1 DEF Portal!WriteScore, Portal!Answer
  <1>9. ASSUME NEW r \in Requests, Portal!Abandon(r) PROVE Portal!TypeOK'
    BY <1>9 DEF Portal!Abandon, Portal!Answer
  <1> QED BY <1>0, <1>1, <1>2, <1>3, <1>4, <1>5, <1>6, <1>7, <1>8, <1>9 DEF Portal!Next

\* A submission under way was so before, or begins with this step.
LEMMA SubmitBegan ==
  ASSUME Portal!TypeOK, [Portal!Next]_portalVars, NEW r \in Requests, serving'[r].op = "submit"
  PROVE  serving'[r] = serving[r] \/ \E i \in Invites : Portal!BeginSubmit(r, i)
  <1> USE DEF Portal!TypeOK
  <1>0. CASE serving' = serving
    BY <1>0
  <1>1. ASSUME NEW q \in Requests, Portal!Answer(q) PROVE serving'[r] = serving[r]
    BY <1>1 DEF Portal!Answer, Portal!Idle
  <1>2. ASSUME NEW q \in Requests, NEW i \in Invites, Portal!StoreInvite(q, i) PROVE serving'[r] = serving[r]
    BY <1>2 DEF Portal!StoreInvite
  <1>3. ASSUME NEW q \in Requests, NEW i \in Invites, Portal!BeginSubmit(q, i)
        PROVE  serving'[r] = serving[r] \/ q = r
    BY <1>3 DEF Portal!BeginSubmit
  <1>4. ASSUME NEW q \in Requests, Portal!BeginScore(q) PROVE serving'[r] = serving[r]
    <2>1. \A p \in Portal!Scoring : [serving[p] EXCEPT !.alone = FALSE].op = "score"
      BY DEF Portal!Scoring, Portal!Serving, Portal!Idle
    <2> QED BY <1>4, <2>1 DEF Portal!BeginScore
  <1> QED BY <1>0, <1>1, <1>2, <1>3, <1>4 DEF Portal!Next, portalVars, Portal!Create, Portal!Archive,
          Portal!OpenPortal, Portal!SendInvite, Portal!WriteSubmit, Portal!WriteScore, Portal!Abandon

\* An invitation is answered with a submission of it only.
LEMMA RespondedBecame ==
  ASSUME Portal!TypeOK, [Portal!Next]_portalVars, NEW i \in Invites
  PROVE  \/ /\ invite'[i].responded = invite[i].responded
            /\ \A r \in Requests : Portal!WriteSubmit(r) => serving[r].invite # i
         \/ \E r \in Requests : /\ Portal!WriteSubmit(r) /\ serving[r].invite = i
                                /\ invite'[i].responded
  <1> USE DEF Portal!TypeOK, Portal!Invite
  <1>1. ASSUME NEW r \in Requests, Portal!WriteSubmit(r)
        PROVE  /\ serving[r].invite \in Invites
               /\ invite'[serving[r].invite].responded
               /\ \A j \in Invites \ {serving[r].invite} : invite'[j].responded = invite[j].responded
    BY <1>1, ServingTypes DEF Portal!WriteSubmit
  <1>2. ASSUME NEW r \in Requests, Portal!WriteSubmit(r), NEW q \in Requests, Portal!WriteSubmit(q), q # r
        PROVE  FALSE
    BY <1>2 DEF Portal!WriteSubmit, Portal!Answer, Portal!Idle
  <1>3. ASSUME NEW j \in Invites, Portal!OpenPortal(j) PROVE invite'[i].responded = invite[i].responded
    BY <1>3 DEF Portal!OpenPortal
  <1>4. ASSUME NEW r \in Requests, NEW j \in Invites, Portal!StoreInvite(r, j)
        PROVE  invite'[i].responded = invite[i].responded
    BY <1>4 DEF Portal!StoreInvite
  <1>5. ASSUME NEW r \in Requests, Portal!SendInvite(r) PROVE invite'[i].responded = invite[i].responded
    <2>1. serving[r].invite \in Invites
      BY <1>5, ServingTypes DEF Portal!SendInvite
    <2> QED BY <1>5, <2>1 DEF Portal!SendInvite
  <1>6. CASE \E r \in Requests : Portal!WriteSubmit(r)
    BY <1>1, <1>2, <1>6
  <1>7. CASE ~\E r \in Requests : Portal!WriteSubmit(r)
    BY <1>3, <1>4, <1>5, <1>7 DEF Portal!Next, portalVars, Portal!Create, Portal!Archive,
       Portal!BeginSubmit, Portal!BeginScore, Portal!WriteScore, Portal!Abandon
  <1> QED BY <1>6, <1>7

\* An invitation with overlapping submissions is remembered.
LEMMA DoubledGrows ==
  ASSUME [Portal!Next]_portalVars
  PROVE  doubled \subseteq doubled'
  BY DEF Portal!Next, portalVars, Portal!Create, Portal!Archive, Portal!OpenPortal, Portal!StoreInvite,
     Portal!BeginSubmit, Portal!SendInvite, Portal!WriteSubmit, Portal!BeginScore, Portal!WriteScore,
     Portal!Abandon

\* Two submissions of an invitation that is not doubled never overlap.
LEMMA SubmitsAloneStep ==
  ASSUME PortalInv, [Portal!Next]_portalVars
  PROVE  SubmitsAlone'
  <1>a. Portal!TypeOK /\ SubmitsAlone
    BY DEF PortalInv
  <1>1. ASSUME NEW r \in Requests, NEW i \in Invites, Portal!BeginSubmit(r, i)
        PROVE  SubmitsAlone'
    <2>1. /\ serving'[r].op = "submit" /\ serving'[r].invite = i /\ serving[r] = Portal!Idle
          /\ \A q \in Requests \ {r} : serving'[q] = serving[q]
          /\ invite' = invite /\ ~invite[i].responded
      BY <1>a, <1>1 DEF Portal!BeginSubmit, Portal!TypeOK
    <2>2. CASE Portal!Submitting(i) = {}
      BY <1>a, <1>1, <2>1, <2>2, DoubledGrows DEF Portal!Submitting, SubmitsAlone
    <2>3. CASE Portal!Submitting(i) # {}
      <3>1. i \in doubled'
        BY <1>1, <2>3 DEF Portal!BeginSubmit
      <3> QED BY <1>a, <2>1, <3>1, DoubledGrows DEF SubmitsAlone
    <2> QED BY <2>2, <2>3
  <1>2. ASSUME \A r \in Requests, i \in Invites : ~Portal!BeginSubmit(r, i) PROVE SubmitsAlone'
    <2>1. \A r \in Requests : serving'[r].op = "submit" => serving'[r] = serving[r]
      BY <1>a, <1>2, SubmitBegan
    <2>2. ASSUME NEW r \in Requests, serving'[r].op = "submit", serving'[r].invite \notin doubled'
          PROVE  ~invite'[serving[r].invite].responded
      <3>1. /\ serving[r].op = "submit" /\ serving[r].invite \in Invites
            /\ ~invite[serving[r].invite].responded
        BY <1>a, <2>1, <2>2, ServingTypes, DoubledGrows DEF SubmitsAlone
      <3>2. ASSUME NEW q \in Requests, Portal!WriteSubmit(q), serving[q].invite = serving[r].invite
            PROVE  FALSE
        <4>1. q = r
          BY <1>a, <2>1, <2>2, <3>1, <3>2, DoubledGrows DEF SubmitsAlone, Portal!WriteSubmit
        <4>2. serving'[q].op # "submit"
          BY <1>a, <3>2 DEF Portal!WriteSubmit, Portal!Answer, Portal!Idle, Portal!TypeOK
        <4> QED BY <2>2, <4>1, <4>2
      <3> QED BY <1>a, <3>1, <3>2, RespondedBecame
    <2> QED BY <1>a, <2>1, <2>2, DoubledGrows DEF SubmitsAlone
  <1> QED BY <1>1, <1>2

\* What changes answers is a submission that is stored.
LEMMA AnswersBecame ==
  ASSUME [Portal!Next]_portalVars, ~\E r \in Requests : Portal!WriteSubmit(r)
  PROVE  answers' = answers
  BY DEF Portal!Next, portalVars, Portal!Create, Portal!Archive, Portal!OpenPortal,
     Portal!StoreInvite, Portal!BeginSubmit, Portal!SendInvite, Portal!BeginScore,
     Portal!WriteScore, Portal!Abandon

\* So the second submission of it finds it answered.
LEMMA AnsweredOnceStep ==
  ASSUME PortalInv, [Portal!Next]_portalVars
  PROVE  Portal!AnsweredOnce' /\ Numbered'
  <1>a. Portal!TypeOK /\ SubmitsAlone /\ Numbered /\ Portal!AnsweredOnce
    BY DEF PortalInv
  <1>1. ASSUME NEW r \in Requests, Portal!WriteSubmit(r), NEW j, j = serving[r].invite
        PROVE  Portal!AnsweredOnce' /\ Numbered'
    <2>0. MaxResponses \in Nat
      BY Assumptions DEF Portal!SupplierAssumption
    <2>1. PICK n \in 0 .. MaxResponses - 1 :
            /\ DOMAIN answers = 1 .. n /\ DOMAIN answers' = 1 .. n + 1
            /\ answers'[n + 1] = j
            /\ \A k \in 1 .. n : answers'[k] = answers[k]
      BY <1>1, SubmitAdds
    <2>2. j \in Invites /\ (j \notin doubled => ~invite[j].responded)
      BY <1>a, <1>1, ServingTypes DEF SubmitsAlone, Portal!WriteSubmit
    <2>3. invite'[j].responded /\ \A i \in Invites \ {j} : invite'[i].responded = invite[i].responded
      BY <1>a, <1>1, <2>2 DEF Portal!WriteSubmit, Portal!TypeOK, Portal!Invite
    <2>4. ASSUME NEW i \in Invites \ {j} PROVE Portal!ThroughInvite(i)' = Portal!ThroughInvite(i)
      BY <2>0, <2>1, <2>4 DEF Portal!ThroughInvite
    <2>5. Portal!ThroughInvite(j)' = Portal!ThroughInvite(j) \cup {n + 1}
      BY <2>0, <2>1 DEF Portal!ThroughInvite
    <2>6. doubled' = doubled
      BY <1>1 DEF Portal!WriteSubmit
    <2>7. ASSUME j \notin doubled PROVE Portal!Cardinality(Portal!ThroughInvite(j)') <= 1
      <3>1. Portal!ThroughInvite(j) = {}
        BY <1>a, <2>2, <2>7 DEF Portal!AnsweredOnce
      <3>2. Cardinality({n + 1}) = 1
        BY FS_Singleton
      <3> QED BY <2>5, <3>1, <3>2, SameCardinality
    <2>8. Numbered'
      BY <2>0, <2>1 DEF Numbered
    <2>9. ASSUME NEW i \in Invites
          PROVE  /\ invite'[i].responded <=> Portal!ThroughInvite(i)' # {}
                 /\ i \in doubled \/ Portal!Cardinality(Portal!ThroughInvite(i)') <= 1
      <3>1. CASE i = j
        BY <2>3, <2>5, <2>7, <3>1
      <3>2. CASE i # j
        BY <1>a, <2>3, <2>4, <3>2 DEF Portal!AnsweredOnce
      <3> QED BY <3>1, <3>2
    <2> QED BY <2>6, <2>8, <2>9 DEF Portal!AnsweredOnce
  <1>2. ASSUME ~\E r \in Requests : Portal!WriteSubmit(r)
        PROVE  Portal!AnsweredOnce' /\ Numbered'
    <2>1. answers' = answers
      BY <1>2, AnswersBecame
    <2>2. \A i \in Invites : invite'[i].responded = invite[i].responded
      BY <1>a, <1>2, RespondedBecame
    <2>3. \A i \in Invites : Portal!ThroughInvite(i)' = Portal!ThroughInvite(i)
      BY <2>1 DEF Portal!ThroughInvite
    <2> QED BY <1>a, <2>1, <2>2, <2>3, DoubledGrows DEF Portal!AnsweredOnce, Numbered
  <1> QED BY <1>1, <1>2

\* A scoring that nothing overlaps knows the latest response but those that came since.
LEMMA ScoresAloneStep ==
  ASSUME PortalInv, [Portal!Next]_portalVars
  PROVE  ScoresAlone'
  <1>a. Portal!TypeOK /\ ScoresAlone /\ Portal!TypeOK'
    BY PortalTypes DEF PortalInv
  <1>b. DOMAIN answers \subseteq DOMAIN answers' /\ DOMAIN answers \subseteq Nat
    <2>1. ASSUME NEW r \in Requests, Portal!WriteSubmit(r) PROVE DOMAIN answers \subseteq DOMAIN answers'
      <3>1. PICK n \in 0 .. MaxResponses - 1 : DOMAIN answers = 1 .. n /\ DOMAIN answers' = 1 .. n + 1
        BY <2>1, SubmitAdds
      <3> QED BY <3>1, Assumptions DEF Portal!SupplierAssumption
    <2> QED BY <1>a, <2>1, AnswersBecame DEF Portal!TypeOK
  <1>1. ASSUME NEW r \in Requests, Portal!BeginScore(r) PROVE ScoresAlone'
    <2>1. PICK n \in Portal!LatestResponse :
            serving' = [q \in Requests |->
                        IF q = r THEN [op |-> "score", latest |-> n, alone |-> Portal!Scoring = {}]
                        ELSE IF q \in Portal!Scoring THEN [serving[q] EXCEPT !.alone = FALSE]
                        ELSE serving[q]]
      BY <1>1 DEF Portal!BeginScore
    <2>2. score' = score /\ answers' = answers /\ n \in DOMAIN answers /\ n \in Nat
          /\ (score \in DOMAIN answers => score <= n)
      BY <1>1, <1>b DEF Portal!BeginScore, Portal!LatestResponse
    <2>3. ASSUME NEW q \in Portal!Scoring, q # r
          PROVE  /\ serving'[q].op = "score" /\ serving'[q].latest = serving[q].latest
                 /\ ~serving'[q].alone
      <3>1. serving[q] \in [op : {"score"}, latest : 1 .. MaxResponses, alone : BOOLEAN]
        BY <1>a, <2>3 DEF Portal!Scoring, Portal!TypeOK, Portal!Serving, Portal!Idle
      <3>2. serving'[q] = [serving[q] EXCEPT !.alone = FALSE]
        BY <2>1, <2>3 DEF Portal!Scoring
      <3> QED BY <3>1, <3>2
    <2>4. ASSUME NEW q \in Requests \ Portal!Scoring, q # r
          PROVE  serving'[q].op # "score"
      BY <2>1, <2>4 DEF Portal!Scoring
    <2>5. serving'[r] = [op |-> "score", latest |-> n, alone |-> Portal!Scoring = {}]
      BY <2>1
    <2>6. score' = 0 \/ score' \in DOMAIN answers'
      BY <1>a, <2>2 DEF ScoresAlone
    <2>7. ASSUME NEW q \in Requests, serving'[q].op = "score"
          PROVE  /\ serving'[q].latest \in DOMAIN answers'
                 /\ serving'[q].alone => /\ serving'[q].latest >= score'
                                         /\ \A p \in Requests \ {q} : serving'[p].op # "score"
      <3>1. CASE q = r
        <4>1. serving'[r].latest = n /\ (serving'[r].alone => Portal!Scoring = {})
          <5> DEFINE b == Portal!Scoring = {}
          <5>1. serving'[r] = [op |-> "score", latest |-> n, alone |-> b]
            BY <2>5
          <5>2. b \in BOOLEAN
            OBVIOUS
          <5> HIDE DEF b
          <5>3. serving'[r].latest = n /\ serving'[r].alone = b
            BY <5>1, <5>2
          <5> QED BY <5>3 DEF b
        <4>2. n >= score'
          BY <1>a, <2>2, <1>b DEF ScoresAlone
        <4>3. Portal!Scoring = {} => \A p \in Requests \ {r} : serving'[p].op # "score"
          BY <2>4
        <4> QED BY <2>2, <3>1, <4>1, <4>2, <4>3
      <3>2. CASE q # r
        BY <1>a, <2>2, <2>3, <2>4, <2>7, <3>2 DEF ScoresAlone, Portal!Scoring
      <3> QED BY <3>1, <3>2
    <2> QED BY <2>6, <2>7 DEF ScoresAlone
  <1>2. ASSUME NEW r \in Requests, Portal!WriteScore(r) PROVE ScoresAlone'
    <2>1. /\ score' = serving[r].latest /\ answers' = answers /\ serving[r].op = "score"
          /\ serving'[r].op = "idle" /\ \A q \in Requests \ {r} : serving'[q] = serving[q]
      BY <1>a, <1>2 DEF Portal!WriteScore, Portal!Answer, Portal!TypeOK, Portal!Idle
    <2>2. score' \in DOMAIN answers'
      BY <1>a, <2>1 DEF ScoresAlone
    <2>3. ASSUME NEW q \in Requests, serving'[q].op = "score"
          PROVE  /\ q # r /\ serving'[q] = serving[q] /\ ~serving[q].alone
                 /\ serving[q].latest \in DOMAIN answers
      BY <1>a, <2>1, <2>3 DEF ScoresAlone
    <2> QED BY <2>1, <2>2, <2>3 DEF ScoresAlone
  <1>3. ASSUME score' = score, \A q \in Requests : serving'[q].op = "score" => serving'[q] = serving[q]
        PROVE  ScoresAlone'
    BY <1>a, <1>b, <1>3 DEF ScoresAlone
  <1>4. ASSUME NEW r \in Requests, Portal!Answer(r) 
        PROVE  \A q \in Requests : serving'[q].op = "score" => serving'[q] = serving[q]
    BY <1>a, <1>4 DEF Portal!Answer, Portal!TypeOK, Portal!Idle
  <1>5. ASSUME NEW r \in Requests, NEW i \in Invites, Portal!StoreInvite(r, i) \/ Portal!BeginSubmit(r, i)
        PROVE  \A q \in Requests : serving'[q].op = "score" => serving'[q] = serving[q]
    BY <1>a, <1>5 DEF Portal!StoreInvite, Portal!BeginSubmit, Portal!TypeOK
  <1> QED BY <1>1, <1>2, <1>3, <1>4, <1>5 DEF Portal!Next, portalVars, Portal!Create, Portal!Archive,
          Portal!OpenPortal, Portal!StoreInvite, Portal!BeginSubmit, Portal!SendInvite,
          Portal!WriteSubmit, Portal!Abandon

\* Every step of the portal keeps what holds.
LEMMA PortalInvStep ==
  ASSUME PortalInv, [Portal!Next]_portalVars
  PROVE  PortalInv'
  BY PortalTypes, SubmitsAloneStep, AnsweredOnceStep, ScoresAloneStep DEF PortalInv

\* An archived supplier that nobody may answer for, or is answering for, stays archived.
LEMMA ArchivedStep ==
  ASSUME Portal!TypeOK, [Portal!Next]_portalVars, supplier = "ARCHIVED",
         Portal!Outstanding = {}, \A i \in Invites : Portal!Submitting(i) = {}
  PROVE  supplier' = "ARCHIVED" /\ \A i \in Invites : Portal!Submitting(i)' = {}
  <1> DEFINE Over == supplier' = "ARCHIVED" /\ \A i \in Invites : Portal!Submitting(i)' = {}
  <1> USE DEF Portal!TypeOK, Portal!Submitting
  <1>1. ASSUME NEW r \in Requests, Portal!WriteSubmit(r) PROVE FALSE
    BY <1>1, ServingTypes DEF Portal!WriteSubmit
  <1>2. ASSUME NEW r \in Requests, NEW i \in Invites, Portal!BeginSubmit(r, i) PROVE FALSE
    BY <1>2 DEF Portal!BeginSubmit, Portal!Outstanding
  <1>3. ASSUME NEW r \in Requests, NEW i \in Invites, Portal!StoreInvite(r, i) PROVE Over
    BY <1>3 DEF Portal!StoreInvite
  <1>4. ASSUME NEW r \in Requests, Portal!Answer(r), supplier' = supplier PROVE Over
    BY <1>4 DEF Portal!Answer, Portal!Idle
  <1>5. ASSUME NEW r \in Requests, Portal!BeginScore(r) PROVE Over
    BY <1>5 DEF Portal!BeginScore, Portal!Scoring
  <1>6. CASE supplier' = "ARCHIVED" /\ serving' = serving
    BY <1>6
  <1> QED BY <1>1, <1>2, <1>3, <1>4, <1>5, <1>6 DEF Portal!Next, portalVars, Portal!Create, Portal!Exists,
          Portal!Archive, Portal!OpenPortal, Portal!SendInvite, Portal!WriteScore, Portal!Abandon

\* A scoring alone does not bring an older response back.
LEMMA ScoreStep ==
  ASSUME PortalInv, [Portal!Next]_portalVars, \A r \in Portal!Scoring : serving[r].alone
  PROVE  score' >= score
  <1>a. score \in 0 .. MaxResponses /\ ScoresAlone /\ MaxResponses \in Nat
    BY Assumptions DEF PortalInv, Portal!TypeOK, Portal!SupplierAssumption
  <1>1. ASSUME NEW r \in Requests, Portal!WriteScore(r) PROVE score' >= score
    BY <1>a, <1>1 DEF Portal!WriteScore, Portal!Scoring, ScoresAlone
  <1>2. CASE score' = score
    BY <1>a, <1>2
  <1> QED BY <1>1, <1>2 DEF Portal!Next, portalVars, Portal!Create, Portal!Archive, Portal!OpenPortal,
          Portal!StoreInvite, Portal!BeginSubmit, Portal!SendInvite, Portal!WriteSubmit, Portal!BeginScore,
          Portal!Abandon

-------------------------------------------------------------------------------
(* AssuranceSnapshot: snapshots of metric events, and exceptions.            *)

\* A request is under way on a row that exists, because rows are never deleted.
TargetsExist == \A r \in Requests : req[r] # Assurance!Idle => event[req[r].event] # Assurance!NoRow

\* A member of a snapshot that nothing was moving then is moved by nothing but a lock.
MembersAreSettled ==
    \A p \in Snapshots : snapshot[p] # Assurance!NoSnapshot =>
        \A e \in DOMAIN snapshot[p].hash :
            \/ e \in snapshot[p].moving
            \/ /\ e \in Events /\ Assurance!Assured(e)
               /\ event[e].value = snapshot[p].hash[e]
               /\ \A r \in Requests : req[r] # Assurance!Idle /\ req[r].event = e => req[r].op = "lock"

\* Who read a closed exception asks for it to be closed.
ResponsesAgree ==
    \A q \in Responders : responding[q] # Assurance!NotResponding =>
        (responding[q].closedAt => responding[q].status = "CLOSED")

\* What holds of metric events, snapshots and exceptions at every step.
AssuranceInv == /\ Assurance!AssuranceTypeOK /\ TargetsExist /\ MembersAreSettled
                /\ Assurance!ClosedAtIsOfClosed /\ ResponsesAgree

\* The steps of the two parts that are about snapshots and exceptions.
AssuranceStep ==
    \/ Assurance!Take \/ Assurance!Raise \/ Assurance!Respond
    \/ Assurance!Next /\ UNCHANGED assuranceVars
    \/ UNCHANGED <<metricVars, assuranceVars>>

\* The types of the metric events.
MetricTypes == Assurance!TypeOK /\ TargetsExist

\* What a request of a metric event that begins has read.
ReadsRow(r, op, e) ==
    /\ req[r] = Assurance!Idle /\ event[e] # Assurance!NoRow
    /\ \E q \in Assurance!Request : /\ q.op = op /\ q.event = e
                                    /\ req' = [req EXCEPT ![r] = q]
    /\ UNCHANGED <<event, submitters>>

\* What a request of a metric event checks of the row it read.
Guards(op, stored) ==
    CASE op = "update" -> stored.status \in {"DRAFT", "SUBMITTED"}
      [] op = "submit" -> stored.status = "DRAFT"
      [] op \in {"approve", "reject"} -> stored.status = "SUBMITTED"
      [] op = "lock" -> stored.status = "APPROVED"

\* A request under way is on a row that exists.
LEMMA MetricTargets ==
  ASSUME MetricTypes, NEW r \in Requests, req[r] # Assurance!Idle
  PROVE  /\ req[r] \in Assurance!Request /\ req[r].event \in Events
         /\ req[r].actor \in Actors /\ req[r].value \in Values
         /\ event[req[r].event] \in Assurance!Row
  BY DEF MetricTypes, TargetsExist, Assurance!TypeOK, Assurance!Request

\* A request that begins checked the row as it is.
LEMMA MetricBegins ==
  ASSUME MetricTypes, NEW r \in Requests, Assurance!Begin(r)
  PROVE  \E e \in Events, op \in {"update", "submit", "approve", "reject", "lock"} :
            ReadsRow(r, op, e) /\ Guards(op, event[e])
  <1>1. ASSUME NEW e \in Events, NEW a \in Actors, NEW v \in Values,
               NEW op \in {"update", "submit", "approve", "reject", "lock"},
               Assurance!FindOne(r, op, e, a, v)
        PROVE  ReadsRow(r, op, e)
    <2>1. [op |-> op, event |-> e, actor |-> a, value |-> v] \in Assurance!Request
      BY DEF Assurance!Request
    <2> QED BY <1>1, <2>1 DEF Assurance!FindOne, ReadsRow
  <1>2. ASSUME NEW e \in Events, event[e] # Assurance!NoRow PROVE event[e].value \in Values
    BY <1>2 DEF MetricTypes, Assurance!TypeOK, Assurance!Row
  <1>3. ASSUME NEW e \in Events, NEW a \in Actors, NEW op, NEW v, Assurance!FindOne(r, op, e, a, v)
        PROVE  event[e] # Assurance!NoRow
    BY <1>3 DEF Assurance!FindOne
  <1>4. PICK e \in Events, a \in Actors :
           \/ \E v \in Values : Assurance!BeginUpdate(r, e, a, v)
           \/ Assurance!BeginSubmit(r, e, a)
           \/ Assurance!BeginApprove(r, e, a)
           \/ Assurance!BeginReject(r, e, a)
           \/ Assurance!BeginLock(r, e, a)
    BY DEF Assurance!Begin
  <1>5. CASE \E v \in Values : Assurance!BeginUpdate(r, e, a, v)
    BY <1>1, <1>5 DEF Assurance!BeginUpdate, Assurance!Editable, Guards
  <1>6. CASE Assurance!BeginSubmit(r, e, a)
    BY <1>1, <1>2, <1>3, <1>6 DEF Assurance!BeginSubmit, Assurance!Submittable, Guards
  <1>7. CASE Assurance!BeginApprove(r, e, a)
    BY <1>1, <1>2, <1>3, <1>7 DEF Assurance!BeginApprove, Assurance!ApprovableBy, Guards
  <1>8. CASE Assurance!BeginReject(r, e, a)
    BY <1>1, <1>2, <1>3, <1>8 DEF Assurance!BeginReject, Assurance!Rejectable, Guards
  <1>9. CASE Assurance!BeginLock(r, e, a)
    BY <1>1, <1>2, <1>3, <1>9 DEF Assurance!BeginLock, Assurance!Lockable, Guards
  <1> QED BY <1>4, <1>5, <1>6, <1>7, <1>8, <1>9

\* What a request that ends does to its row.
LEMMA MetricEnds ==
  ASSUME MetricTypes, NEW r \in Requests, Assurance!End(r)
  PROVE  /\ req[r] # Assurance!Idle /\ req' = [req EXCEPT ![r] = Assurance!Idle]
         /\ submitters' \in [Events -> SUBSET Actors]
         /\ \E stored \in Assurance!Row :
               /\ event' = [event EXCEPT ![req[r].event] = stored]
               /\ req[r].op = "lock" => \/ stored = event[req[r].event]
                                        \/ /\ stored.status = "LOCKED"
                                           /\ stored.value = event[req[r].event].value
  <1> DEFINE e == req[r].event
  <1>a. Assurance!Idle.op \notin {"update", "submit", "approve", "reject", "lock"}
    BY DEF Assurance!Idle
  <1>0. req[r] # Assurance!Idle
    BY <1>a DEF Assurance!End, Assurance!WriteUpdate, Assurance!WriteSubmit, Assurance!WriteApprove,
       Assurance!WriteReject, Assurance!WriteLock, Assurance!UpdateById, Assurance!Abandon
  <1>1. /\ e \in Events /\ req[r].actor \in Actors /\ req[r].value \in Values
        /\ event[e] \in Assurance!Row
        /\ submitters \in [Events -> SUBSET Actors]
    BY <1>0, MetricTargets DEF MetricTypes, Assurance!TypeOK
  <1>2. req' = [req EXCEPT ![r] = Assurance!Idle]
    BY DEF Assurance!End, Assurance!WriteUpdate, Assurance!WriteSubmit, Assurance!WriteApprove,
       Assurance!WriteReject, Assurance!WriteLock, Assurance!UpdateById, Assurance!Abandon
  <1>3. submitters' \in [Events -> SUBSET Actors]
    BY <1>1 DEF Assurance!End, Assurance!WriteUpdate, Assurance!WriteSubmit, Assurance!WriteApprove,
       Assurance!WriteReject, Assurance!WriteLock, Assurance!UpdateById, Assurance!Abandon
  <1>4. CASE Assurance!WriteUpdate(r)
    <2>1. [event[e] EXCEPT !.value = req[r].value] \in Assurance!Row
      BY <1>1 DEF Assurance!Row
    <2> QED BY <1>0, <1>2, <1>3, <1>4, <2>1 DEF Assurance!WriteUpdate, Assurance!UpdateById
  <1>5. CASE Assurance!WriteSubmit(r)
    <2>1. [event[e] EXCEPT !.status = "SUBMITTED", !.submittedBy = req[r].actor] \in Assurance!Row
      BY <1>1 DEF Assurance!Row
    <2> QED BY <1>0, <1>2, <1>3, <1>5, <2>1 DEF Assurance!WriteSubmit, Assurance!UpdateById
  <1>6. CASE Assurance!WriteApprove(r)
    <2>1. [event[e] EXCEPT !.status = "APPROVED", !.approvedBy = req[r].actor] \in Assurance!Row
      BY <1>1 DEF Assurance!Row
    <2> QED BY <1>0, <1>2, <1>3, <1>6, <2>1 DEF Assurance!WriteApprove, Assurance!UpdateById
  <1>7. CASE Assurance!WriteReject(r)
    <2>1. [event[e] EXCEPT !.status = "DRAFT"] \in Assurance!Row
      BY <1>1 DEF Assurance!Row
    <2> QED BY <1>0, <1>2, <1>3, <1>7, <2>1 DEF Assurance!WriteReject, Assurance!UpdateById
  <1>8. CASE Assurance!WriteLock(r)
    <2>1. PICK stored : stored = [event[e] EXCEPT !.status = "LOCKED"]
      OBVIOUS
    <2>2. stored \in Assurance!Row /\ stored.status = "LOCKED" /\ stored.value = event[e].value
      BY <1>1, <2>1 DEF Assurance!Row
    <2>3. event' = [event EXCEPT ![e] = stored]
      BY <1>8, <2>1 DEF Assurance!WriteLock, Assurance!UpdateById
    <2> QED BY <1>0, <1>2, <1>3, <2>2, <2>3
  <1>9. CASE Assurance!Abandon(r)
    <2>1. event' = [event EXCEPT ![e] = event[e]]
      BY <1>1, <1>9 DEF Assurance!Abandon, MetricTypes, Assurance!TypeOK
    <2> QED BY <1>0, <1>1, <1>2, <1>3, <2>1
  <1> QED BY <1>4, <1>5, <1>6, <1>7, <1>8, <1>9 DEF Assurance!End

\* Rows are inserted where there are none.
LEMMA MetricInserts ==
  ASSUME MetricTypes, Assurance!Insert
  PROVE  \E es \in SUBSET Events, stored \in Assurance!Row :
            /\ \A e \in es : event[e] = Assurance!NoRow
            /\ event' = [e \in Events |-> IF e \in es THEN stored ELSE event[e]]
            /\ submitters' \in [Events -> SUBSET Actors] /\ req' = req
  <1>1. PICK a \in Actors, v \in Values :
          \/ \E e \in Events : \/ Assurance!Create(e, a, v) \/ Assurance!Promote(e, a, v)
                               \/ Assurance!EmitCalculated(e, a, v)
          \/ \E es \in (SUBSET Events) \ {{}} : Assurance!BulkImport(es, a, v)
    BY DEF Assurance!Insert
  <1>2. Assurance!DraftRow(a, v) \in Assurance!Row /\ Assurance!CalculatedRow(a, v) \in Assurance!Row
    BY DEF Assurance!DraftRow, Assurance!CalculatedRow, Assurance!Row
  <1>3. \E es \in SUBSET Events, stored \in Assurance!Row : Assurance!InsertRows(es, a, stored)
    BY <1>1, <1>2 DEF Assurance!Create, Assurance!Promote, Assurance!EmitCalculated, Assurance!BulkImport
  <1>4. PICK es \in SUBSET Events, stored \in Assurance!Row : Assurance!InsertRows(es, a, stored)
    BY <1>3
  <1>5. submitters' \in [Events -> SUBSET Actors]
    BY <1>4 DEF Assurance!InsertRows, MetricTypes, Assurance!TypeOK
  <1>6. /\ \A e \in es : event[e] = Assurance!NoRow
        /\ event' = [e \in Events |-> IF e \in es THEN stored ELSE event[e]]
        /\ req' = req
    BY <1>4 DEF Assurance!InsertRows
  <1> QED BY <1>5, <1>6

\* The types of the metric events stay right.
LEMMA MetricTypesStep ==
  ASSUME MetricTypes, [Assurance!Next]_metricVars
  PROVE  MetricTypes'
  <1> USE DEF MetricTypes, Assurance!TypeOK, TargetsExist
  <1>0. CASE UNCHANGED metricVars
    BY <1>0 DEF metricVars
  <1>a. Assurance!NoRow \notin Assurance!Row
    BY DEF Assurance!NoRow, Assurance!Row
  <1>1. CASE Assurance!Insert
    BY <1>1, <1>a, MetricInserts, MetricTargets
  <1>2. ASSUME NEW r \in Requests, Assurance!Begin(r) PROVE MetricTypes'
    BY <1>2, MetricBegins DEF ReadsRow
  <1>3. ASSUME NEW r \in Requests, Assurance!End(r) PROVE MetricTypes'
    BY <1>3, <1>a, MetricEnds, MetricTargets
  <1> QED BY <1>0, <1>1, <1>2, <1>3 DEF Assurance!Next

\* An assured row that only locks are under way for stays so.
SettledRow(e) ==
    /\ Assurance!Assured(e)
    /\ \A r \in Requests : req[r] # Assurance!Idle /\ req[r].event = e => req[r].op = "lock"

\* A settled row stays settled, with the value it has.
LEMMA SettledRowStep ==
  ASSUME MetricTypes, [Assurance!Next]_metricVars, NEW e \in Events, SettledRow(e)
  PROVE  SettledRow(e)' /\ event'[e].value = event[e].value
  <1> USE DEF MetricTypes, Assurance!TypeOK, SettledRow, Assurance!Assured
  <1>0. CASE UNCHANGED metricVars
    BY <1>0 DEF metricVars
  <1>1. CASE Assurance!Insert
    <2>1. event[e] # Assurance!NoRow
      BY DEF Assurance!NoRow
    <2> QED BY <1>1, <2>1, MetricInserts
  <1>2. ASSUME NEW r \in Requests, Assurance!Begin(r)
        PROVE  SettledRow(e)' /\ event'[e].value = event[e].value
    <2>1. PICK d \in Events, op \in {"update", "submit", "approve", "reject", "lock"} :
            ReadsRow(r, op, d) /\ Guards(op, event[d])
      BY <1>2, MetricBegins
    <2>2. d = e => op = "lock"
      BY <2>1 DEF Guards
    <2>3. event' = event
      BY <2>1 DEF ReadsRow
    <2>4. PICK q \in Assurance!Request : q.op = op /\ q.event = d /\ req' = [req EXCEPT ![r] = q]
      BY <2>1 DEF ReadsRow
    <2> QED BY <2>2, <2>3, <2>4
  <1>3. ASSUME NEW r \in Requests, Assurance!End(r)
        PROVE  SettledRow(e)' /\ event'[e].value = event[e].value
    <2>1. PICK stored \in Assurance!Row :
               /\ event' = [event EXCEPT ![req[r].event] = stored]
               /\ req[r].op = "lock" => \/ stored = event[req[r].event]
                                        \/ /\ stored.status = "LOCKED"
                                           /\ stored.value = event[req[r].event].value
      BY <1>3, MetricEnds
    <2>2. req[r] # Assurance!Idle /\ req' = [req EXCEPT ![r] = Assurance!Idle]
      BY <1>3, MetricEnds
    <2>3. req[r].event = e => req[r].op = "lock"
      BY <2>2
    <2>4. event'[e].status \in {"APPROVED", "LOCKED"} /\ event'[e].value = event[e].value
      BY <2>1, <2>3
    <2> QED BY <2>2, <2>4
  <1> QED BY <1>0, <1>1, <1>2, <1>3 DEF Assurance!Next

\* A snapshot can be verified later: nothing moves the value of a settled member.
LEMMA AssuranceInvStep ==
  ASSUME AssuranceInv, AssuranceStep
  PROVE  AssuranceInv'
  <1> USE DEF AssuranceInv, Assurance!AssuranceTypeOK
  <1>a. MetricTypes
    BY DEF MetricTypes
  <1>1. CASE Assurance!Next /\ UNCHANGED assuranceVars
    <2>1. MetricTypes'
      BY <1>a, <1>1, MetricTypesStep
    <2>2. MembersAreSettled'
      <3> SUFFICES ASSUME NEW p \in Snapshots, snapshot[p] # Assurance!NoSnapshot,
                          NEW e \in DOMAIN snapshot[p].hash, e \notin snapshot[p].moving
                   PROVE  /\ e \in Events /\ SettledRow(e)'
                          /\ event'[e].value = snapshot[p].hash[e]
        BY <1>1 DEF MembersAreSettled, SettledRow, assuranceVars
      <3>1. e \in Events /\ SettledRow(e) /\ event[e].value = snapshot[p].hash[e]
        BY DEF MembersAreSettled, SettledRow
      <3> QED BY <1>a, <1>1, <3>1, SettledRowStep
    <2> QED BY <1>1, <2>1, <2>2 DEF MetricTypes, assuranceVars, Assurance!ClosedAtIsOfClosed, ResponsesAgree
  <1>2. CASE Assurance!Take
    <2>1. PICK p \in Snapshots : Assurance!CreateSnapshot(p)
      BY <1>2 DEF Assurance!Take
    <2> DEFINE members == {e \in Events : Assurance!Assured(e)}
               new == [hash |-> [e \in members |-> event[e].value],
                       moving |-> {e \in members : Assurance!InFlight(e) # {}}]
    <2>2. /\ snapshot' = [snapshot EXCEPT ![p] = new]
          /\ UNCHANGED <<event, req, submitters, exception, responding>>
      BY <2>1 DEF Assurance!CreateSnapshot
    <2>3. new \in Assurance!Snapshot
      <3>1. \A e \in members : event[e].value \in Values
        BY DEF Assurance!Assured, Assurance!TypeOK, Assurance!Row, Assurance!NoRow
      <3>2. members \in SUBSET Events /\ [e \in members |-> event[e].value] \in [members -> Values]
        BY <3>1
      <3>3. [e \in members |-> event[e].value] \in UNION {[es -> Values] : es \in SUBSET Events}
        BY <3>2
      <3> QED BY <3>3 DEF Assurance!Snapshot
    <2>4. Assurance!AssuranceTypeOK'
      BY <2>2, <2>3 DEF Assurance!TypeOK
    <2>5. MembersAreSettled'
      <3>1. ASSUME NEW e \in members, e \notin new.moving
            PROVE  /\ e \in Events /\ Assurance!Assured(e) /\ event[e].value = new.hash[e]
                   /\ \A r \in Requests : req[r] # Assurance!Idle /\ req[r].event = e => req[r].op = "lock"
        BY <3>1 DEF Assurance!InFlight
      <3>2. DOMAIN new.hash = members
        OBVIOUS
      <3>3. \A e \in Events : Assurance!Assured(e)' <=> Assurance!Assured(e)
        BY <2>2 DEF Assurance!Assured
      <3>4. snapshot'[p] = new /\ \A o \in Snapshots \ {p} : snapshot'[o] = snapshot[o]
        BY <2>2
      <3> HIDE DEF new, members
      <3>5. ASSUME NEW o \in Snapshots, snapshot'[o] # Assurance!NoSnapshot,
                   NEW e \in DOMAIN snapshot'[o].hash, e \notin snapshot'[o].moving
            PROVE  /\ e \in Events /\ Assurance!Assured(e) /\ event[e].value = snapshot'[o].hash[e]
                   /\ \A r \in Requests : req[r] # Assurance!Idle /\ req[r].event = e => req[r].op = "lock"
        <4>1. CASE o = p
          BY <3>1, <3>2, <3>4, <3>5, <4>1
        <4>2. CASE o # p
          BY <3>4, <3>5, <4>2 DEF MembersAreSettled
        <4> QED BY <4>1, <4>2
      <3>6. event' = event /\ req' = req
        BY <2>2
      <3> QED BY <3>3, <3>5, <3>6 DEF MembersAreSettled
    <2> QED BY <2>2, <2>4, <2>5 DEF TargetsExist, Assurance!ClosedAtIsOfClosed, ResponsesAgree
  <1>3. CASE Assurance!Raise
    <2>1. PICK x \in Exceptions : Assurance!CreateException(x)
      BY <1>3 DEF Assurance!Raise
    <2>2. exception' = [exception EXCEPT ![x].status = "OPEN"] /\ exception[x].status = "none"
          /\ UNCHANGED <<event, req, submitters, snapshot, responding>>
      BY <2>1 DEF Assurance!CreateException
    <2>3. /\ exception' \in [Exceptions -> Assurance!Exception]
          /\ exception'[x].status = "OPEN" /\ exception'[x].closedAt = exception[x].closedAt
          /\ \A y \in Exceptions \ {x} : exception'[y] = exception[y]
      BY <2>2 DEF Assurance!Exception, Assurance!Statuses
    <2>4. Assurance!ClosedAtIsOfClosed'
      BY <2>2, <2>3 DEF Assurance!ClosedAtIsOfClosed
    <2> QED BY <2>2, <2>3, <2>4 DEF MembersAreSettled, Assurance!Assured, TargetsExist, ResponsesAgree,
               Assurance!TypeOK
  <1>4. CASE Assurance!Respond
    <2>0. UNCHANGED <<event, req, submitters, snapshot>>
      BY <1>4 DEF Assurance!Respond, Assurance!BeginRespond, Assurance!WriteResponse, Assurance!AbandonResponse
    <2>a. TargetsExist' /\ MembersAreSettled' /\ Assurance!TypeOK' /\ snapshot' \in [Snapshots -> Assurance!Snapshot \cup {Assurance!NoSnapshot}]
      BY <2>0 DEF MembersAreSettled, Assurance!Assured, TargetsExist, Assurance!TypeOK
    <2>1. ASSUME NEW q \in Responders, NEW x \in Exceptions, NEW status \in Assurance!Statuses,
                 Assurance!BeginRespond(q, x, status)
          PROVE  /\ exception' = exception
                 /\ responding' \in [Responders -> Assurance!Response \cup {Assurance!NotResponding}]
                 /\ ResponsesAgree'
      <3> DEFINE new == [exception |-> x, status |-> status, closedAt |-> exception[x].closedAt]
      <3>1. new \in Assurance!Response
        BY DEF Assurance!Response, Assurance!Exception
      <3>2. responding' = [responding EXCEPT ![q] = new] /\ exception' = exception
        BY <2>1 DEF Assurance!BeginRespond
      <3>3. exception[x].closedAt => status = "CLOSED"
        BY <2>1 DEF Assurance!BeginRespond, Assurance!ClosedAtIsOfClosed
      <3>4. new.closedAt = exception[x].closedAt /\ new.status = status
        OBVIOUS
      <3> HIDE DEF new
      <3> QED BY <3>1, <3>2, <3>3, <3>4 DEF ResponsesAgree
    <2>2. ASSUME NEW q \in Responders, Assurance!WriteResponse(q)
          PROVE  /\ exception' \in [Exceptions -> Assurance!Exception]
                 /\ Assurance!ClosedAtIsOfClosed'
                 /\ responding' \in [Responders -> Assurance!Response \cup {Assurance!NotResponding}]
                 /\ ResponsesAgree'
      <3>1. responding[q] \in Assurance!Response /\ (responding[q].closedAt => responding[q].status = "CLOSED")
        BY <2>2 DEF Assurance!WriteResponse, ResponsesAgree
      <3>2. /\ responding[q].exception \in Exceptions /\ responding[q].status \in Assurance!Statuses
            /\ Assurance!ClosedAt(q) <=> responding[q].status = "CLOSED"
            /\ Assurance!ClosedAt(q) \in BOOLEAN
        BY <3>1 DEF Assurance!Response, Assurance!ClosedAt
      <3> DEFINE new == [status |-> responding[q].status, closedAt |-> Assurance!ClosedAt(q)]
      <3>3. new \in Assurance!Exception /\ (new.closedAt <=> new.status = "CLOSED")
        BY <3>2 DEF Assurance!Exception
      <3>4. /\ exception' = [exception EXCEPT ![responding[q].exception] = new]
            /\ responding' = [responding EXCEPT ![q] = Assurance!NotResponding]
        BY <2>2 DEF Assurance!WriteResponse
      <3> HIDE DEF new
      <3> QED BY <3>2, <3>3, <3>4 DEF Assurance!ClosedAtIsOfClosed, ResponsesAgree
    <2>3. ASSUME NEW q \in Responders, Assurance!AbandonResponse(q)
          PROVE  /\ exception' = exception
                 /\ responding' \in [Responders -> Assurance!Response \cup {Assurance!NotResponding}]
                 /\ ResponsesAgree'
      BY <2>3 DEF Assurance!AbandonResponse, ResponsesAgree
    <2> QED BY <1>4, <2>a, <2>1, <2>2, <2>3 DEF Assurance!Respond, Assurance!ClosedAtIsOfClosed
  <1>5. CASE UNCHANGED <<metricVars, assuranceVars>>
    BY <1>5 DEF metricVars, assuranceVars, MembersAreSettled, Assurance!Assured, TargetsExist, ResponsesAgree,
       Assurance!TypeOK, Assurance!ClosedAtIsOfClosed
  <1> QED BY <1>1, <1>2, <1>3, <1>4, <1>5 DEF AssuranceStep

\* A closed exception that nobody is responding to stays closed.
LEMMA ClosedExceptionStep ==
  ASSUME Assurance!AssuranceTypeOK, AssuranceStep, NEW x \in Exceptions,
         exception[x].status = "CLOSED", Assurance!RespondingTo(x) = {}
  PROVE  /\ exception'[x].status = "CLOSED"
         /\ \A q \in Assurance!RespondingTo(x)' : responding'[q].status = "CLOSED"
  <1> USE DEF Assurance!AssuranceTypeOK, Assurance!RespondingTo
  <1>1. ASSUME UNCHANGED <<exception, responding>>
        PROVE  /\ exception'[x].status = "CLOSED"
               /\ \A q \in Assurance!RespondingTo(x)' : responding'[q].status = "CLOSED"
    BY <1>1
  <1>2. ASSUME NEW y \in Exceptions, Assurance!CreateException(y)
        PROVE  exception'[x].status = "CLOSED" /\ responding' = responding
    BY <1>2 DEF Assurance!CreateException
  <1>3. ASSUME NEW q \in Responders, NEW y \in Exceptions, NEW status \in Assurance!Statuses,
               Assurance!BeginRespond(q, y, status)
        PROVE  /\ exception' = exception
               /\ \A o \in Assurance!RespondingTo(x)' : responding'[o].status = "CLOSED"
    BY <1>3 DEF Assurance!BeginRespond
  <1>4. ASSUME NEW q \in Responders, Assurance!WriteResponse(q)
        PROVE  /\ exception'[x].status = "CLOSED"
               /\ \A o \in Assurance!RespondingTo(x)' : responding'[o].status = "CLOSED"
    BY <1>4 DEF Assurance!WriteResponse
  <1>5. ASSUME NEW q \in Responders, Assurance!AbandonResponse(q)
        PROVE  /\ exception' = exception
               /\ \A o \in Assurance!RespondingTo(x)' : responding'[o].status = "CLOSED"
    BY <1>5 DEF Assurance!AbandonResponse
  <1>6. CASE Assurance!Take
    BY <1>1, <1>6 DEF Assurance!Take, Assurance!CreateSnapshot
  <1>7. CASE Assurance!Raise
    BY <1>2, <1>7 DEF Assurance!Raise
  <1>8. CASE Assurance!Respond
    BY <1>3, <1>4, <1>5, <1>8 DEF Assurance!Respond
  <1> QED BY <1>1, <1>6, <1>7, <1>8 DEF AssuranceStep, assuranceVars

-------------------------------------------------------------------------------
(* QueryCache: what the pages of a tab show of their own changes.            *)

\* Data is not of the future, an answer is not older than what is shown, and unless a
\* change outran it, not older than the tab's own changes.
CacheInv ==
    /\ Cache!TypeOK
    /\ ownChange <= version
    /\ \A r \in Requests : writing[r].made <= version
    /\ entry.data # NoData => entry.data <= version
    /\ fetch.phase = "answered" =>
          /\ fetch.seen <= version
          /\ entry.data # NoData => entry.data <= fetch.seen
          /\ ~fetch.outrun => fetch.seen >= ownChange
    /\ Cache!OwnChangesAreShown

\* A mutation is sent with nothing made yet.
LEMMA MutateSends ==
  ASSUME Cache!TypeOK, \A q \in Requests : writing[q].made <= version, NEW r \in Requests, Cache!Mutate(r)
  PROVE  /\ writing' \in [Requests -> Cache!Writing]
         /\ \A q \in Requests : writing'[q].made <= version
         /\ UNCHANGED <<watched, observed, entry, fetch, version, ownChange>>
  <1>1. PICK hits \in BOOLEAN : writing' = [writing EXCEPT ![r] = [phase |-> "sent", hits |-> hits, made |-> 0]]
    BY DEF Cache!Mutate
  <1>2. [phase |-> "sent", hits |-> hits, made |-> 0] \in Cache!Writing
    BY DEF Cache!Writing
  <1>3. \E w \in Cache!Writing : w.made = 0 /\ writing' = [writing EXCEPT ![r] = w]
    BY <1>1, <1>2
  <1>4. UNCHANGED <<watched, observed, entry, fetch, version, ownChange>>
    BY DEF Cache!Mutate
  <1>5. 0 <= version
    BY DEF Cache!TypeOK
  <1> QED BY <1>3, <1>4, <1>5 DEF Cache!TypeOK

\* An answer on its way is not older than what is shown, and never becomes so; what it
\* replaces is therefore no newer.
LEMMA CacheInvStep ==
  ASSUME CacheInv, [Cache!Next]_cacheVars
  PROVE  /\ CacheInv'
         /\ entry.data # NoData /\ entry'.data # NoData => entry'.data >= entry.data
  <1> DEFINE Goal == /\ CacheInv'
                     /\ entry.data # NoData /\ entry'.data # NoData => entry'.data >= entry.data
  <1> USE DEF CacheInv, Cache!TypeOK
  <1>a. entry.data = NoData \/ entry.data \in Nat
    BY DEF Cache!Entry
  <1>b. NoData \notin Nat
    BY Assumptions DEF Cache!CacheAssumption
  <1>0. CASE UNCHANGED cacheVars
    BY <1>0, <1>a DEF cacheVars, Cache!OwnChangesAreShown
  <1>1. CASE Cache!Mount
    <2>1. fetch' = fetch \/ fetch' = Cache!Asked
      BY <1>1 DEF Cache!Mount
    <2>2. Cache!Asked \in Cache!Fetch /\ Cache!Asked.phase = "asked"
      BY DEF Cache!Asked, Cache!Idle, Cache!Fetch
    <2> QED BY <1>1, <1>a, <2>1, <2>2 DEF Cache!Mount, Cache!OwnChangesAreShown
  <1>2. CASE Cache!Unmount
    <2>1. Cache!TypeOK'
      BY <1>2 DEF Cache!Unmount
    <2> QED BY <1>2, <1>a, <2>1 DEF Cache!Unmount, Cache!OwnChangesAreShown
  <1>3. CASE Cache!Answer
    <2>1. /\ fetch' \in Cache!Fetch /\ fetch'.seen = version /\ fetch'.phase = "answered"
          /\ UNCHANGED <<watched, observed, entry, version, writing, ownChange>>
      BY <1>3 DEF Cache!Answer, Cache!Fetch
    <2> QED BY <1>a, <2>1 DEF Cache!OwnChangesAreShown
  <1>4. CASE Cache!Arrive
    <2>1. /\ entry' \in Cache!Entry /\ entry'.data = fetch.seen /\ entry'.outrun = fetch.outrun
          /\ fetch.seen \in Nat
      BY <1>4 DEF Cache!Arrive, Cache!Entry, Cache!Fetch
    <2>2. Cache!Idle \in Cache!Fetch /\ Cache!Idle.phase = "none"
      BY DEF Cache!Idle, Cache!Fetch
    <2> QED BY <1>4, <1>a, <1>b, <2>1, <2>2 DEF Cache!Arrive, Cache!OwnChangesAreShown
  <1>5. CASE Cache!FetchFails
    <2>1. /\ fetch' \in Cache!Fetch /\ fetch'.phase \in {"asked", "none"}
          /\ UNCHANGED <<watched, observed, entry, version, writing, ownChange>>
      <3>1. Cache!Idle \in Cache!Fetch /\ Cache!Idle.phase = "none"
        BY DEF Cache!Idle, Cache!Fetch
      <3>2. /\ [fetch EXCEPT !.phase = "asked", !.seen = 0] \in Cache!Fetch
            /\ [fetch EXCEPT !.phase = "asked", !.seen = 0].phase = "asked"
        BY DEF Cache!Fetch
      <3> QED BY <1>5, <3>1, <3>2 DEF Cache!FetchFails
    <2> QED BY <1>a, <2>1 DEF Cache!OwnChangesAreShown
  <1>6. CASE Cache!GrowOld
    <2>1. /\ entry' \in Cache!Entry /\ entry'.data = entry.data
          /\ entry'.invalidated = entry.invalidated /\ entry'.outrun = entry.outrun
          /\ UNCHANGED <<watched, observed, fetch, version, writing, ownChange>>
      BY <1>6 DEF Cache!GrowOld, Cache!Entry
    <2> QED BY <1>a, <2>1 DEF Cache!OwnChangesAreShown
  <1>7. CASE Cache!Collect
    BY <1>7, <1>a DEF Cache!Collect, Cache!OwnChangesAreShown, Cache!Entry, Cache!Empty
  <1>8. CASE Cache!OthersChange
    BY <1>8, <1>a DEF Cache!OthersChange, Cache!OwnChangesAreShown, Cache!Fetch, Cache!Writing
  <1>9. ASSUME NEW r \in Requests, Cache!Mutate(r) PROVE Goal
    BY <1>a, <1>9, MutateSends DEF Cache!OwnChangesAreShown
  <1>10. ASSUME NEW r \in Requests, Cache!Apply(r) PROVE Goal
    <2>1. /\ writing' \in [Requests -> Cache!Writing]
          /\ \A q \in Requests : writing'[q].made <= version'
      BY <1>10 DEF Cache!Apply, Cache!Writing
    <2> QED BY <1>10, <1>a, <2>1 DEF Cache!Apply, Cache!OwnChangesAreShown, Cache!Fetch
  <1>11. ASSUME NEW r \in Requests, Cache!MutationFails(r) PROVE Goal
    <2>1. Cache!NotWriting \in Cache!Writing /\ Cache!NotWriting.made = 0
      BY DEF Cache!Writing, Cache!NotWriting
    <2> QED BY <1>11, <1>a, <2>1 DEF Cache!MutationFails, Cache!OwnChangesAreShown
  <1>12. ASSUME NEW r \in Requests, Cache!Succeed(r) PROVE Goal
    <2>1. Cache!NotWriting \in Cache!Writing /\ Cache!NotWriting.made = 0
      BY DEF Cache!Writing, Cache!NotWriting
    <2>2. /\ writing' \in [Requests -> Cache!Writing]
          /\ \A q \in Requests : writing'[q].made <= version
          /\ UNCHANGED <<watched, observed, version>>
      BY <1>12, <2>1 DEF Cache!Succeed
    <2>3. CASE UNCHANGED <<entry, fetch, ownChange>>
      BY <1>a, <2>2, <2>3 DEF Cache!OwnChangesAreShown
    <2>4. CASE /\ ownChange' = IF writing[r].made > ownChange THEN writing[r].made ELSE ownChange
               /\ entry' = [entry EXCEPT !.invalidated = TRUE]
               /\ fetch' = Cache!Refetched
      <3>1. ownChange' \in Nat /\ ownChange' <= version
        BY <2>4 DEF Cache!Writing
      <3>2. entry' \in Cache!Entry /\ entry'.data = entry.data /\ entry'.invalidated
        BY <2>4 DEF Cache!Entry
      <3>3. fetch' \in Cache!Fetch /\ (fetch'.phase = "answered" => fetch'.outrun /\ fetch'.seen = fetch.seen
                                                                    /\ fetch.phase = "answered")
        BY <2>4 DEF Cache!Refetched, Cache!Fetch, Cache!Asked, Cache!Idle
      <3> QED BY <1>a, <2>2, <3>1, <3>2, <3>3 DEF Cache!OwnChangesAreShown
    <2> QED BY <1>12, <2>3, <2>4 DEF Cache!Succeed
  <1> QED BY <1>0, <1>1, <1>2, <1>3, <1>4, <1>5, <1>6, <1>7, <1>8, <1>9, <1>10, <1>11, <1>12 DEF Cache!Next

-------------------------------------------------------------------------------
(* WebSession: the session of a tab, and the requests that wait for it.      *)

\* The tab has the definitions of Sessions under its own name.
LEMMA SameTypes ==
  /\ Tab!Jtis = Jtis /\ Tab!Idle = Idle /\ (Tab!TypeOK <=> TypeOK)
  /\ \A j : Tab!Issued(j) <=> Issued(j)
  BY DEF Tab!Jtis, Jtis, Tab!Idle, Idle, Tab!TypeOK, TypeOK, Tab!Issued, Issued, Tab!Unissued, Unissued,
     Tab!Token, Token, Tab!Call, Call, Tab!Found, Found

\* The types of the tab that the types of the API say nothing of.
TabTypes ==
    /\ cookie \in Tab!Session \cup {Tab!SignedOut}
    /\ visit \in [Requests -> Tab!Visit \cup {Tab!NoVisit}]
    /\ shown \in Tab!Session \cup {Tab!SignedOut}
    /\ getter \in {Tab!NoToken} \cup Jtis
    /\ aged \subseteq Jtis
    /\ page \in [Pages -> Tab!Page \cup {Tab!NotSent}]
    /\ refresher \in {Tab!NoRefresh} \cup [call : Requests]
    /\ excuse \in BOOLEAN
    /\ left \subseteq Requests

\* What a request was sent for: each time once, and once for each retry and refresh before.
Allowed(p) == p.retries + (IF p.tried THEN 1 ELSE 0) + (IF p.step = "sent" THEN 1 ELSE 0)

\* A request was sent no oftener than it was retried and refreshed.
SendsAreFew == \A q \in Pages : page[q] # Tab!NotSent => page[q].sends <= Allowed(page[q])

\* The client forgets the call it waits for only with the answer.
WaitersHaveACall ==
    /\ refresher # Tab!NoRefresh => visit[refresher.call] # Tab!NoVisit
    /\ \A q \in Pages : page[q].step = "waiting" => refresher # Tab!NoRefresh

\* Who is signed out has no call but those of before.
SignedOutIsLeft ==
    cookie = Tab!SignedOut => \A r \in Requests : visit[r] # Tab!NoVisit => r \in left

\* As long as nothing has happened that may end the session, what a call has and makes of
\* it is good: the token of the cookie is known and was not used, a refresh is one that no
\* other run of the callback follows, and what the answer sets is good again.
GoodVisit(v, r) ==
    /\ ~v.cookie.error
    /\ v.step = "asked" => v.set = v.cookie /\ Live(v.cookie.jti)
    /\ v.step = "calling" => /\ v.runs = 1 /\ v.kind # "copilot"
                             /\ call[r] # Idle /\ call[r].found # "inactive"
    /\ v.step = "answered" => ~v.set.error /\ Live(v.set.jti)

\* Then nothing was revoked, the cookie has no error, there is one call at most, and the
\* last token is good: that of the cookie, or else the call has it.
SessionIsGood ==
    ~excuse =>
        /\ \A p \in Replicas : revokedFamilies[p] = {}
        /\ cookie # Tab!SignedOut => ~cookie.error
        /\ cookie # Tab!SignedOut /\ (\A r \in Requests : visit[r] = Tab!NoVisit) => Live(cookie.jti)
        /\ \A r \in Requests : visit[r] # Tab!NoVisit =>
              /\ GoodVisit(visit[r], r)
              /\ \A q \in Requests \ {r} : visit[q] = Tab!NoVisit

\* What holds of the tab at every step, besides what holds of the sessions of the API.
TabInv == /\ TabTypes /\ SendsAreFew /\ WaitersHaveACall /\ SignedOutIsLeft /\ SessionIsGood

\* What the types say of a call of the web server by its step.
LEMMA VisitTypes ==
  ASSUME TabTypes, NEW r \in Requests, visit[r].step \in {"asked", "calling", "answered"}
  PROVE  /\ visit[r] # Tab!NoVisit /\ visit[r] \in Tab!Visit
         /\ visit[r].cookie \in Tab!Session /\ visit[r].cookie.jti \in Jtis
         /\ visit[r].set \in Tab!Session /\ visit[r].runs \in {1, 2} /\ visit[r].kind \in Tab!Kinds
  BY SameTypes DEF TabTypes, Tab!Visit, Tab!NoVisit, Tab!Session

\* A step of the tab is one of Sessions, or leaves the API alone.
LEMMA TabStepsAreSessions ==
  ASSUME TabTypes, Tab!WebNext
  PROVE  [Next]_vars
  <1> USE DEF vars, Tab!vars
  <1>1. ASSUME NEW r \in Requests, NEW j \in Jtis, NEW p \in Replicas, Tab!BeginRefresh(r, j, p)
        PROVE  BeginRefresh(r, j, p)
    BY <1>1 DEF Tab!BeginRefresh, BeginRefresh, Tab!RefreshesOf, RefreshesOf, Tab!Issued, Issued,
       Tab!Unissued, Unissued, Tab!Idle, Idle
  <1>2. ASSUME NEW j \in Jtis, NEW p \in Replicas, Tab!RefreshReused(j, p) PROVE RefreshReused(j, p)
    BY <1>2 DEF Tab!RefreshReused, RefreshReused, Tab!Issued, Issued, Tab!Unissued, Unissued
  <1>3. ASSUME NEW r \in Requests, Tab!ReadUser(r) PROVE ReadUser(r)
    BY <1>3 DEF Tab!ReadUser, ReadUser, Tab!Idle, Idle
  <1>4. ASSUME NEW r \in Requests, NEW j \in Jtis, Tab!Rotate(r, j) PROVE Rotate(r, j)
    BY <1>4 DEF Tab!Rotate, Rotate, Tab!Fresh, Fresh, Tab!Answer, Answer, Tab!Issued, Issued,
       Tab!Unissued, Unissued, Tab!Idle, Idle, Tab!Jtis, Jtis
  <1>5. ASSUME NEW r \in Requests, Tab!RefreshRefused(r) PROVE RefreshRefused(r)
    BY <1>5 DEF Tab!RefreshRefused, RefreshRefused, Tab!Answer, Answer, Tab!Idle, Idle
  <1>6. ASSUME NEW u \in Users, Tab!Deactivate(u) PROVE Deactivate(u)
    BY <1>6 DEF Tab!Deactivate, Deactivate
  <1>7. ASSUME NEW p \in Replicas, Tab!Restart(p) PROVE Restart(p)
    BY <1>7 DEF Tab!Restart, Restart, Tab!NoFailures, NoFailures, Tab!Idle, Idle, Tab!Jtis, Jtis
  <1>8. ASSUME NEW r \in Requests, Tab!SessionCall(r) PROVE [Next]_vars
    <2>1. ASSUME NEW p \in Replicas, Tab!CallRefresh(r, p) PROVE [Next]_vars
      <3>1. visit[r].cookie.jti \in Jtis
        BY <2>1, VisitTypes DEF Tab!CallRefresh
      <3>2. BeginRefresh(r, visit[r].cookie.jti, p)
        BY <1>1, <2>1, <3>1 DEF Tab!CallRefresh
      <3> QED BY <3>1, <3>2 DEF Next
    <2>2. ASSUME NEW p \in Replicas, Tab!RefreshTurnedDown(r, p) PROVE [Next]_vars
      <3>1. visit[r].cookie.jti \in Jtis
        BY <2>2, VisitTypes DEF Tab!RefreshTurnedDown
      <3>2. Tab!RefreshReused(visit[r].cookie.jti, p) \/ UNCHANGED vars
        BY <2>2 DEF Tab!RefreshTurnedDown
      <3> QED BY <1>2, <3>1, <3>2 DEF Next
    <2>3. CASE Tab!ApiReads(r)
      BY <1>3, <2>3 DEF Tab!ApiReads, Next
    <2>4. ASSUME NEW j \in Jtis, Tab!ApiRotates(r, j) \/ Tab!AnswerLost(r, j) PROVE [Next]_vars
      <3>1. Rotate(r, j)
        BY <1>4, <2>4 DEF Tab!ApiRotates, Tab!AnswerLost
      <3> QED BY <3>1 DEF Next
    <2>5. CASE Tab!ApiRefuses(r)
      BY <1>5, <2>5 DEF Tab!ApiRefuses, Next
    <2>6. CASE Tab!Browse(r) \/ Tab!StillValid(r) \/ Tab!Arrive(r)
      BY <2>6 DEF Tab!Browse, Tab!StillValid, Tab!Arrive
    <2> QED BY <1>8, <2>1, <2>2, <2>3, <2>4, <2>5, <2>6, SameTypes DEF Tab!SessionCall
  <1>9. ASSUME NEW q \in Pages, Tab!Request(q) PROVE UNCHANGED vars
    BY <1>9 DEF Tab!Request, Tab!Start, Tab!Send, Tab!Finish, Tab!Unauthorised, Tab!Retry
  <1>10. CASE Tab!Register \/ Tab!SignOut \/ \E j \in Tab!Jtis : Tab!AccessExpires(j)
    BY <1>10 DEF Tab!Register, Tab!SignOut, Tab!AccessExpires
  <1>11. ASSUME NEW u \in Users, Tab!AdminDeactivates(u) PROVE Next
    BY <1>6, <1>11 DEF Tab!AdminDeactivates, Next
  <1>12. ASSUME NEW p \in Replicas, Tab!ApiRestarts(p) PROVE Next
    BY <1>7, <1>12 DEF Tab!ApiRestarts, Next
  <1> QED BY <1>8, <1>9, <1>10, <1>11, <1>12 DEF Tab!WebNext

\* What Ask makes of the calls.
LEMMA AskAdds ==
  ASSUME TabTypes, NEW r \in Requests, NEW kind \in Tab!Kinds, Tab!Ask(r, kind)
  PROVE  /\ cookie \in Tab!Session /\ cookie # Tab!SignedOut
         /\ \E v \in Tab!Visit : /\ v.step = "asked" /\ v.cookie = cookie /\ v.set = cookie
                                 /\ visit' = [visit EXCEPT ![r] = v]
  <1>1. cookie \in Tab!Session /\ cookie # Tab!SignedOut
    BY DEF Tab!Ask, TabTypes
  <1>2. Tab!RunsOf(kind) \in {1, 2}
    BY DEF Tab!RunsOf
  <1>3. [kind |-> kind, runs |-> Tab!RunsOf(kind), step |-> "asked", cookie |-> cookie, set |-> cookie]
           \in Tab!Visit
    BY <1>1, <1>2 DEF Tab!Visit
  <1> QED BY <1>1, <1>3 DEF Tab!Ask

\* What a run of the callback makes of a call.
LEMMA AfterRunIs ==
  ASSUME NEW v \in Tab!Visit, NEW s \in Tab!Session, NEW w, w = Tab!AfterRun(v, s)
  PROVE  /\ w \in Tab!Visit
         /\ w.kind = v.kind /\ w.cookie = v.cookie /\ w.runs = 1
         /\ w.step = IF v.runs = 2 THEN "asked" ELSE "answered"
         /\ w.set = IF v.kind = "copilot" /\ v.runs = 1 THEN v.set ELSE s
  BY DEF Tab!AfterRun, Tab!Visit

\* A refresh that fails leaves the old tokens.
LEMMA ErrorTypes ==
  ASSUME TabTypes, NEW r \in Requests, visit[r].step \in {"asked", "calling", "answered"}
  PROVE  Tab!RefreshError(r) \in Tab!Session
  <1>1. visit[r].cookie \in Tab!Session
    BY VisitTypes
  <1> QED BY <1>1 DEF Tab!RefreshError, Tab!Session

\* A call that goes on, with the cookie it was sent.
Goes(r) == \E v \in Tab!Visit : visit' = [visit EXCEPT ![r] = v]

\* A run of the callback that ends makes the call go on.
LEMMA RunEndsGoes ==
  ASSUME TabTypes, NEW r \in Requests, visit[r].step \in {"asked", "calling", "answered"},
         NEW s \in Tab!Session, Tab!RunEnds(r, s)
  PROVE  \E w \in Tab!Visit : w = Tab!AfterRun(visit[r], s) /\ visit' = [visit EXCEPT ![r] = w]
  <1>1. PICK w : w = Tab!AfterRun(visit[r], s)
    OBVIOUS
  <1>2. visit[r] \in Tab!Visit
    BY VisitTypes
  <1>3. w \in Tab!Visit
    BY <1>1, <1>2, AfterRunIs
  <1>4. visit' = [visit EXCEPT ![r] = w]
    BY <1>1 DEF Tab!RunEnds, TabTypes
  <1> QED BY <1>1, <1>3, <1>4

\* A request of a page is where its step says, and has counted what it was sent for.
PageIsFine(p) == p \in Tab!Page /\ p.sends <= Allowed(p)

\* Each way a request of a page goes on spends what it is allowed.
LEMMA PageMoves ==
  ASSUME NEW p \in Tab!Page, p.sends <= Allowed(p)
  PROVE  /\ p.step = "waiting" => PageIsFine([p EXCEPT !.step = "ready"])
         /\ \A j \in {Tab!NoToken} \cup Jtis :
               p.step = "ready" => PageIsFine([p EXCEPT !.step = "sent", !.token = j, !.sends = @ + 1])
         /\ p.step = "sent" /\ ~p.tried => PageIsFine([p EXCEPT !.step = "waiting", !.tried = TRUE])
         /\ p.step = "sent" /\ p.retries < 2
               => PageIsFine([p EXCEPT !.step = "ready", !.retries = @ + 1])
  <1>1. p.step = "waiting" => PageIsFine([p EXCEPT !.step = "ready"])
    BY SameTypes DEF Tab!Page, PageIsFine, Allowed
  <1>2. ASSUME NEW j \in {Tab!NoToken} \cup Jtis, p.step = "ready", NEW m,
               m = [p EXCEPT !.step = "sent", !.token = j, !.sends = p.sends + 1]
        PROVE  PageIsFine(m)
    <2>1. m \in Tab!Page
      <3>1. \A n \in Nat : [p EXCEPT !.step = "sent", !.token = j, !.sends = n] \in Tab!Page
        BY SameTypes DEF Tab!Page
      <3>2. p.sends + 1 \in Nat
        BY DEF Tab!Page
      <3> QED BY <1>2, <3>1, <3>2
    <2>2. m.step = "sent" /\ m.sends = p.sends + 1 /\ m.retries = p.retries /\ m.tried = p.tried
      BY <1>2 DEF Tab!Page
    <2>3. p.sends \in Nat /\ p.retries \in Nat
      BY DEF Tab!Page
    <2> QED BY <1>2, <2>1, <2>2, <2>3 DEF PageIsFine, Allowed
  <1>3. ASSUME p.step = "sent", ~p.tried, NEW m, m = [p EXCEPT !.step = "waiting", !.tried = TRUE]
        PROVE  PageIsFine(m)
    <2>1. m \in Tab!Page
      BY <1>3 DEF Tab!Page
    <2>2. m.step = "waiting" /\ m.tried /\ m.sends = p.sends /\ m.retries = p.retries
      BY <1>3 DEF Tab!Page
    <2>3. p.sends \in Nat /\ p.retries \in Nat
      BY DEF Tab!Page
    <2> QED BY <1>3, <2>1, <2>2, <2>3 DEF PageIsFine, Allowed
  <1>4. ASSUME p.step = "sent", p.retries < 2, NEW m,
               m = [p EXCEPT !.step = "ready", !.retries = p.retries + 1]
        PROVE  PageIsFine(m)
    <2>1. m \in Tab!Page
      <3>1. \A n \in 0 .. 2 : [p EXCEPT !.step = "ready", !.retries = n] \in Tab!Page
        BY DEF Tab!Page
      <3>2. p.retries + 1 \in 0 .. 2
        BY <1>4 DEF Tab!Page
      <3> QED BY <1>4, <3>1, <3>2
    <2>2. m.step = "ready" /\ m.tried = p.tried /\ m.sends = p.sends /\ m.retries = p.retries + 1
      BY <1>4 DEF Tab!Page
    <2>3. p.sends \in Nat /\ p.retries \in Nat
      BY DEF Tab!Page
    <2> QED BY <1>4, <2>1, <2>2, <2>3 DEF PageIsFine, Allowed
  <1> QED BY <1>1, <1>2, <1>3, <1>4

\* The requests of the pages, whatever happens to the session.
LEMMA PagesStep ==
  ASSUME TabTypes, SendsAreFew, Tab!WebNext
  PROVE  page' \in [Pages -> Tab!Page \cup {Tab!NotSent}] /\ SendsAreFew'
  <1> DEFINE Fine == page' \in [Pages -> Tab!Page \cup {Tab!NotSent}] /\ SendsAreFew'
  <1>0. ASSUME NEW q \in Pages, page[q].step \in {"ready", "sent", "waiting"}
        PROVE  page[q] # Tab!NotSent /\ page[q] \in Tab!Page /\ page[q].sends <= Allowed(page[q])
    BY <1>0 DEF TabTypes, SendsAreFew, Tab!NotSent
  <1>1. ASSUME NEW q \in Pages, NEW p, PageIsFine(p) \/ p = Tab!NotSent, page' = [page EXCEPT ![q] = p]
        PROVE  Fine
    BY <1>1 DEF TabTypes, SendsAreFew, PageIsFine, Allowed
  <1>2. CASE UNCHANGED page
    BY <1>2 DEF TabTypes, SendsAreFew, Allowed
  <1>3. ASSUME NEW r \in Requests, Tab!Arrive(r) PROVE Fine
    <2>1. CASE UNCHANGED page
      BY <1>2, <2>1
    <2>2. CASE page' = [q \in Pages |-> IF page[q].step = "waiting"
                                        THEN [page[q] EXCEPT !.step = "ready"] ELSE page[q]]
      <3>1. \A q \in Pages : page'[q] = page[q] \/ PageIsFine(page'[q])
        BY <1>0, <2>2, PageMoves
      <3> QED BY <2>2, <3>1 DEF TabTypes, SendsAreFew, PageIsFine
    <2> QED BY <1>3, <2>1, <2>2 DEF Tab!Arrive
  <1>4. CASE Tab!SignOut
    BY <1>4 DEF Tab!SignOut, SendsAreFew
  <1>5. ASSUME NEW q \in Pages, Tab!Start(q) PROVE Fine
    <2>1. PageIsFine([step |-> "ready", token |-> Tab!NoToken, tried |-> FALSE, retries |-> 0, sends |-> 0])
      BY SameTypes DEF PageIsFine, Allowed, Tab!Page
    <2> QED BY <1>1, <1>5, <2>1 DEF Tab!Start
  <1>6. ASSUME NEW q \in Pages, Tab!Send(q) PROVE Fine
    <2>1. page' = [page EXCEPT ![q] = [page[q] EXCEPT !.step = "sent", !.token = getter, !.sends = @ + 1]]
      BY <1>6 DEF Tab!Send, TabTypes
    <2>2. PageIsFine([page[q] EXCEPT !.step = "sent", !.token = getter, !.sends = @ + 1])
      BY <1>0, <1>6, PageMoves DEF Tab!Send, TabTypes
    <2> QED BY <1>1, <2>1, <2>2
  <1>7. ASSUME NEW q \in Pages, Tab!Finish(q) PROVE Fine
    BY <1>1, <1>7 DEF Tab!Finish
  <1>8. ASSUME NEW q \in Pages, NEW r \in Requests, Tab!Unauthorised(q, r) PROVE Fine
    <2>1. page' = [page EXCEPT ![q] = [page[q] EXCEPT !.step = "waiting", !.tried = TRUE]]
      BY <1>8 DEF Tab!Unauthorised, TabTypes
    <2>2. PageIsFine([page[q] EXCEPT !.step = "waiting", !.tried = TRUE])
      BY <1>0, <1>8, PageMoves DEF Tab!Unauthorised, Tab!MayRefresh
    <2> QED BY <1>1, <2>1, <2>2
  <1>9. ASSUME NEW q \in Pages, Tab!Retry(q) PROVE Fine
    <2>1. page' = [page EXCEPT ![q] = [page[q] EXCEPT !.step = "ready", !.retries = @ + 1]]
      BY <1>9 DEF Tab!Retry, TabTypes
    <2>2. PageIsFine([page[q] EXCEPT !.step = "ready", !.retries = @ + 1])
      BY <1>0, <1>9, PageMoves DEF Tab!Retry
    <2> QED BY <1>1, <2>1, <2>2
  <1>10. ASSUME NEW r \in Requests, Tab!SessionCall(r) PROVE Fine
    BY <1>2, <1>3, <1>10 DEF Tab!SessionCall, Tab!Browse, Tab!StillValid, Tab!CallRefresh,
       Tab!RefreshTurnedDown, Tab!ApiReads, Tab!ApiRotates, Tab!AnswerLost, Tab!ApiRefuses
  <1>11. ASSUME NEW q \in Pages, Tab!Request(q) PROVE Fine
    BY <1>5, <1>6, <1>7, <1>8, <1>9, <1>11 DEF Tab!Request
  <1> QED BY <1>2, <1>4, <1>10, <1>11 DEF Tab!WebNext, Tab!Register, Tab!AccessExpires,
          Tab!AdminDeactivates, Tab!ApiRestarts, Tab!webVars

\* What a step does to the calls: one is asked for, goes on, or arrives, or a replica of
\* the API restarts and those that called it go on.
VisitsBecome ==
    \/ UNCHANGED visit
    \/ \E r \in Requests, kind \in Tab!Kinds : Tab!Ask(r, kind)
    \/ \E r \in Requests : visit[r] # Tab!NoVisit /\ Goes(r)
    \/ \E r \in Requests : Tab!Arrive(r)
    \/ \E moved \in [Requests -> Tab!Visit \cup {Tab!NoVisit}] :
          /\ visit' = moved
          /\ \A r \in Requests : visit[r] = Tab!NoVisit <=> moved[r] = Tab!NoVisit

\* Calls go on one step at a time.
LEMMA VisitsStep ==
  ASSUME TabTypes, Tab!WebNext
  PROVE  VisitsBecome
  <1>1. ASSUME NEW r \in Requests, Tab!SessionCall(r) PROVE VisitsBecome
    <2>0. ASSUME visit[r].step \in {"asked", "calling", "answered"},
                 NEW s \in Tab!Session, Tab!RunEnds(r, s)
          PROVE  VisitsBecome
      BY <2>0, VisitTypes, RunEndsGoes DEF VisitsBecome, Goes
    <2>1. CASE Tab!Browse(r)
      BY <2>1 DEF Tab!Browse, VisitsBecome
    <2>2. CASE Tab!StillValid(r)
      BY <2>0, <2>2, VisitTypes DEF Tab!StillValid
    <2>3. ASSUME NEW p \in Replicas, Tab!CallRefresh(r, p) PROVE VisitsBecome
      <3>1. PICK v : v = [visit[r] EXCEPT !.step = "calling"]
        OBVIOUS
      <3>2. visit[r] \in Tab!Visit /\ visit[r] # Tab!NoVisit
        BY <2>3, VisitTypes DEF Tab!CallRefresh
      <3>3. v \in Tab!Visit
        BY <3>1, <3>2 DEF Tab!Visit
      <3>4. visit' = [visit EXCEPT ![r] = v]
        BY <2>3, <3>1 DEF Tab!CallRefresh, TabTypes
      <3> QED BY <3>2, <3>3, <3>4 DEF Goes, VisitsBecome
    <2>4. ASSUME NEW p \in Replicas, Tab!RefreshTurnedDown(r, p) PROVE VisitsBecome
      BY <2>0, <2>4, ErrorTypes DEF Tab!RefreshTurnedDown
    <2>5. CASE Tab!ApiReads(r)
      BY <2>5 DEF Tab!ApiReads, VisitsBecome
    <2>6. ASSUME NEW j \in Jtis, Tab!ApiRotates(r, j) PROVE VisitsBecome
      <3>1. [jti |-> j, error |-> FALSE] \in Tab!Session
        BY SameTypes DEF Tab!Session
      <3> QED BY <2>0, <2>6, <3>1 DEF Tab!ApiRotates
    <2>7. ASSUME NEW j \in Jtis, Tab!AnswerLost(r, j) PROVE VisitsBecome
      BY <2>0, <2>7, ErrorTypes DEF Tab!AnswerLost
    <2>8. CASE Tab!ApiRefuses(r)
      BY <2>0, <2>8, ErrorTypes DEF Tab!ApiRefuses
    <2>9. CASE Tab!Arrive(r)
      BY <2>9 DEF VisitsBecome
    <2> QED BY <1>1, <2>1, <2>2, <2>3, <2>4, <2>5, <2>6, <2>7, <2>8, <2>9, SameTypes DEF Tab!SessionCall
  <1>2. ASSUME NEW q \in Pages, Tab!Request(q) PROVE VisitsBecome
    <2>1. ASSUME NEW r \in Requests, Tab!Unauthorised(q, r) PROVE VisitsBecome
      <3>1. "session" \in Tab!Kinds
        BY DEF Tab!Kinds
      <3> QED BY <2>1, <3>1 DEF Tab!Unauthorised, VisitsBecome
    <2>2. CASE Tab!Start(q) \/ Tab!Send(q) \/ Tab!Finish(q) \/ Tab!Retry(q)
      BY <2>2 DEF Tab!Start, Tab!Send, Tab!Finish, Tab!Retry, VisitsBecome
    <2> QED BY <1>2, <2>1, <2>2 DEF Tab!Request
  <1>3. ASSUME NEW p \in Replicas, Tab!ApiRestarts(p) PROVE VisitsBecome
    <2>1. ASSUME NEW r \in Requests, visit[r].step = "calling"
          PROVE  Tab!AfterRun(visit[r], Tab!RefreshError(r)) \in Tab!Visit /\ visit[r] # Tab!NoVisit
      <3>1. visit[r] \in Tab!Visit /\ visit[r] # Tab!NoVisit /\ Tab!RefreshError(r) \in Tab!Session
        BY <2>1, VisitTypes, ErrorTypes
      <3> QED BY <3>1, AfterRunIs
    <2>2. PICK moved : moved = [r \in Requests |->
              IF visit[r].step = "calling" /\ call[r].at = p
              THEN Tab!AfterRun(visit[r], Tab!RefreshError(r)) ELSE visit[r]]
      OBVIOUS
    <2>3. moved \in [Requests -> Tab!Visit \cup {Tab!NoVisit}]
      BY <2>1, <2>2 DEF TabTypes
    <2>4. \A v \in Tab!Visit : v # Tab!NoVisit
      BY DEF Tab!Visit, Tab!NoVisit
    <2>5. \A r \in Requests : visit[r] = Tab!NoVisit <=> moved[r] = Tab!NoVisit
      BY <2>1, <2>2, <2>4
    <2>6. visit' = moved
      BY <1>3, <2>2 DEF Tab!ApiRestarts
    <2> QED BY <2>3, <2>5, <2>6 DEF VisitsBecome
  <1> QED BY <1>1, <1>2, <1>3 DEF Tab!WebNext, Tab!Register, Tab!SignOut, Tab!AccessExpires,
          Tab!AdminDeactivates, Tab!webVars, VisitsBecome

\* Calls keep their types.
LEMMA VisitTypesStep ==
  ASSUME TabTypes, Tab!WebNext
  PROVE  visit' \in [Requests -> Tab!Visit \cup {Tab!NoVisit}]
  <1> DEFINE Good == visit' \in [Requests -> Tab!Visit \cup {Tab!NoVisit}]
  <1>1. VisitsBecome
    BY VisitsStep
  <1>3. ASSUME NEW r \in Requests, NEW kind \in Tab!Kinds, Tab!Ask(r, kind) PROVE Good
    BY <1>3, AskAdds DEF TabTypes
  <1>4. ASSUME NEW r \in Requests, Goes(r) PROVE Good
    BY <1>4 DEF Goes, TabTypes
  <1>5. ASSUME NEW r \in Requests, Tab!Arrive(r) PROVE Good
    BY <1>5 DEF Tab!Arrive, TabTypes
  <1>6. CASE UNCHANGED visit
    BY <1>6 DEF TabTypes
  <1> QED BY <1>1, <1>3, <1>4, <1>5, <1>6 DEF VisitsBecome

\* The types of the tab stay right.
LEMMA TabTypesStep ==
  ASSUME TabTypes, SendsAreFew, Tab!WebNext
  PROVE  TabTypes'
  <1>1. /\ visit' \in [Requests -> Tab!Visit \cup {Tab!NoVisit}]
        /\ page' \in [Pages -> Tab!Page \cup {Tab!NotSent}]
    BY VisitTypesStep, PagesStep
  <1>2. ASSUME NEW r \in Requests, Tab!Arrive(r)
        PROVE  /\ cookie' \in Tab!Session /\ shown' \in Tab!Session \cup {Tab!SignedOut}
               /\ refresher' \in {Tab!NoRefresh} \cup [call : Requests]
               /\ UNCHANGED <<getter, aged, excuse>> /\ left' \subseteq Requests
    <2>1. visit[r].set \in Tab!Session
      BY <1>2, VisitTypes DEF Tab!Arrive
    <2> QED BY <1>2, <2>1 DEF Tab!Arrive, TabTypes
  <1>3. ASSUME NEW q \in Pages, NEW r \in Requests, Tab!Unauthorised(q, r)
        PROVE  /\ refresher' \in {Tab!NoRefresh} \cup [call : Requests] /\ excuse' \in BOOLEAN
               /\ UNCHANGED <<cookie, shown, getter, aged, left>>
    <2>1. excuse' = excuse \/ Tab!Ask(r, "session")
      BY <1>3 DEF Tab!Unauthorised
    <2>2. excuse' \in BOOLEAN
      BY <2>1 DEF Tab!Ask, TabTypes
    <2>3. refresher' = [call |-> r]
      BY <1>3 DEF Tab!Unauthorised
    <2>4. UNCHANGED <<cookie, shown, getter, aged, left>>
      BY <1>3 DEF Tab!Unauthorised
    <2> QED BY <2>2, <2>3, <2>4
  <1>4. CASE Tab!SignOut
    BY <1>1, <1>4, SameTypes DEF Tab!SignOut, TabTypes, Tab!Visiting
  <1>5. CASE Tab!Register
    BY <1>1, <1>5, SameTypes DEF Tab!Register, TabTypes, Tab!Session
  <1>6. ASSUME NEW j \in Jtis, Tab!AccessExpires(j) PROVE TabTypes'
    BY <1>1, <1>6, SameTypes DEF Tab!AccessExpires, TabTypes
  <1>7. ASSUME NEW r \in Requests, Tab!SessionCall(r) PROVE TabTypes'
    <2>1. CASE Tab!Arrive(r)
      BY <1>1, <1>2, <2>1, SameTypes DEF TabTypes
    <2>2. excuse' \in BOOLEAN
      BY <1>7, <2>1, SameTypes DEF Tab!SessionCall, Tab!Browse, Tab!StillValid, Tab!CallRefresh,
         Tab!RefreshTurnedDown, Tab!ApiReads, Tab!ApiRotates, Tab!AnswerLost, Tab!ApiRefuses, Tab!Ask, TabTypes
    <2>3. CASE ~Tab!Arrive(r)
      <3>1. UNCHANGED <<cookie, shown, getter, aged, refresher, left>>
        BY <1>7, <2>3 DEF Tab!SessionCall, Tab!Browse, Tab!StillValid, Tab!CallRefresh,
         Tab!RefreshTurnedDown, Tab!ApiReads, Tab!ApiRotates, Tab!AnswerLost, Tab!ApiRefuses
      <3> QED BY <1>1, <2>2, <3>1, SameTypes DEF TabTypes
    <2> QED BY <2>1, <2>3
  <1>8. ASSUME NEW q \in Pages, Tab!Request(q) PROVE TabTypes'
    <2>1. ASSUME NEW r \in Requests, Tab!Unauthorised(q, r) PROVE TabTypes'
      BY <1>1, <1>3, <2>1, SameTypes DEF TabTypes
    <2>2. CASE Tab!Start(q) \/ Tab!Send(q) \/ Tab!Finish(q) \/ Tab!Retry(q)
      BY <1>1, <2>2, SameTypes DEF Tab!Start, Tab!Send, Tab!Finish, Tab!Retry, TabTypes
    <2> QED BY <1>8, <2>1, <2>2 DEF Tab!Request
  <1>9. ASSUME NEW u \in Users, Tab!AdminDeactivates(u) PROVE TabTypes'
    BY <1>1, <1>9, SameTypes DEF Tab!AdminDeactivates, Tab!webVars, TabTypes
  <1>10. ASSUME NEW p \in Replicas, Tab!ApiRestarts(p) PROVE TabTypes'
    BY <1>1, <1>10, SameTypes DEF Tab!ApiRestarts, TabTypes
  <1> QED BY <1>4, <1>5, <1>6, <1>7, <1>8, <1>9, <1>10, SameTypes DEF Tab!WebNext

\* A call that others wait for is forgotten only with its answer.
LEMMA WaitersStep ==
  ASSUME TabTypes, WaitersHaveACall, Tab!WebNext
  PROVE  WaitersHaveACall'
  <1>1. VisitsBecome
    BY VisitsStep
  <1>2. ASSUME NEW r \in Requests, Tab!Arrive(r) PROVE WaitersHaveACall'
    <2>1. visit' = [visit EXCEPT ![r] = Tab!NoVisit]
      BY <1>2 DEF Tab!Arrive
    <2>2. CASE refresher = [call |-> r]
      <3>1. \A q \in Pages : page'[q].step # "waiting"
        <4>1. ASSUME NEW q \in Pages, page[q].step = "waiting" PROVE [page[q] EXCEPT !.step = "ready"].step = "ready"
          BY <4>1 DEF TabTypes, Tab!Page, Tab!NotSent
        <4>2. page' = [q \in Pages |-> IF page[q].step = "waiting"
                                      THEN [page[q] EXCEPT !.step = "ready"] ELSE page[q]]
          BY <1>2, <2>2 DEF Tab!Arrive
        <4>3. ASSUME NEW q \in Pages, page[q].step = "waiting" PROVE page'[q].step # "waiting"
          <5>1. page'[q] = [page[q] EXCEPT !.step = "ready"]
            BY <4>2, <4>3
          <5> QED BY <4>1, <4>3, <5>1
        <4>4. ASSUME NEW q \in Pages, page[q].step # "waiting" PROVE page'[q].step # "waiting"
          BY <4>2, <4>4
        <4> QED BY <4>3, <4>4
      <3> QED BY <1>2, <2>2, <3>1 DEF Tab!Arrive, WaitersHaveACall
    <2>3. CASE refresher # [call |-> r]
      <3>1. refresher # Tab!NoRefresh => refresher.call # r /\ refresher.call \in Requests
        BY <2>3 DEF TabTypes
      <3> QED BY <1>2, <2>1, <2>3, <3>1 DEF Tab!Arrive, WaitersHaveACall, TabTypes
    <2> QED BY <2>2, <2>3
  <1>3. ASSUME NEW r \in Requests, NEW kind \in Tab!Kinds, Tab!Ask(r, kind)
        PROVE  visit'[r] # Tab!NoVisit /\ \A q \in Requests : visit[q] # Tab!NoVisit => visit'[q] = visit[q]
    BY <1>3, AskAdds DEF TabTypes, Tab!Ask, Tab!Visit, Tab!NoVisit
  <1>4. ASSUME \A r \in Requests : ~Tab!Arrive(r)
        PROVE  \A q \in Requests : visit[q] # Tab!NoVisit => visit'[q] # Tab!NoVisit
    <2>1. ASSUME NEW r \in Requests, Goes(r)
          PROVE  \A q \in Requests : visit[q] # Tab!NoVisit => visit'[q] # Tab!NoVisit
      BY <2>1 DEF Goes, TabTypes, Tab!Visit, Tab!NoVisit
    <2>2. \A v \in Tab!Visit : v # Tab!NoVisit
      BY DEF Tab!Visit, Tab!NoVisit
    <2> QED BY <1>1, <1>3, <1>4, <2>1, <2>2 DEF VisitsBecome
  <1>5. ASSUME NEW q \in Pages, NEW r \in Requests, Tab!Unauthorised(q, r) PROVE WaitersHaveACall'
    <2>1. refresher' = [call |-> r] /\ refresher' # Tab!NoRefresh /\ refresher'.call = r
      BY <1>5 DEF Tab!Unauthorised, Tab!NoRefresh
    <2>2. visit'[r] # Tab!NoVisit
      BY <1>3, <1>5, <2>1 DEF Tab!Unauthorised, WaitersHaveACall, Tab!Kinds
    <2> QED BY <2>1, <2>2 DEF WaitersHaveACall
  <1>6. ASSUME \A r \in Requests : ~Tab!Arrive(r), refresher' = refresher,
               \A q \in Pages : page'[q].step = "waiting" => page[q].step = "waiting"
        PROVE  WaitersHaveACall'
    BY <1>4, <1>6 DEF WaitersHaveACall, TabTypes
  <1>7. CASE Tab!SignOut
    BY <1>7 DEF Tab!SignOut, WaitersHaveACall, Tab!NotSent
  <1>8. ASSUME NEW q \in Pages, Tab!Start(q) \/ Tab!Send(q) \/ Tab!Finish(q) \/ Tab!Retry(q)
        PROVE  /\ refresher' = refresher /\ visit' = visit
               /\ \A p \in Pages : page'[p].step = "waiting" => page[p].step = "waiting"
    <2>1. refresher' = refresher /\ visit' = visit
      BY <1>8 DEF Tab!Start, Tab!Send, Tab!Finish, Tab!Retry
    <2>2. \A p \in Pages \ {q} : page'[p] = page[p]
      BY <1>8 DEF Tab!Start, Tab!Send, Tab!Finish, Tab!Retry, TabTypes
    <2>3. page'[q].step # "waiting"
      <3>0. page[q] = Tab!NotSent \/ page[q] \in Tab!Page
        BY DEF TabTypes
      <3>1. CASE Tab!Start(q) \/ Tab!Finish(q)
        BY <3>1 DEF Tab!Start, Tab!Finish, Tab!NotSent, TabTypes
      <3>2. CASE Tab!Send(q)
        <4>1. page[q] \in Tab!Page
          BY <3>0, <3>2 DEF Tab!Send, Tab!NotSent
        <4>2. page'[q] = [page[q] EXCEPT !.step = "sent", !.token = getter, !.sends = @ + 1]
          BY <3>2 DEF Tab!Send, TabTypes
        <4> QED BY <4>1, <4>2 DEF Tab!Page
      <3>3. CASE Tab!Retry(q)
        <4>1. page[q] \in Tab!Page
          BY <3>0, <3>3 DEF Tab!Retry, Tab!NotSent
        <4>2. page'[q] = [page[q] EXCEPT !.step = "ready", !.retries = @ + 1]
          BY <3>3 DEF Tab!Retry, TabTypes
        <4> QED BY <4>1, <4>2 DEF Tab!Page
      <3> QED BY <1>8, <3>1, <3>2, <3>3
    <2> QED BY <2>1, <2>2, <2>3
  <1>9. ASSUME refresher' = refresher, visit' = visit,
               \A q \in Pages : page'[q].step = "waiting" => page[q].step = "waiting"
        PROVE  WaitersHaveACall'
    BY <1>9 DEF WaitersHaveACall
  <1>10. ASSUME NEW r \in Requests, Tab!SessionCall(r), ~Tab!Arrive(r)
         PROVE  WaitersHaveACall'
    <2>1. refresher' = refresher /\ page' = page
      BY <1>10 DEF Tab!SessionCall, Tab!Browse, Tab!StillValid, Tab!CallRefresh,
         Tab!RefreshTurnedDown, Tab!ApiReads, Tab!ApiRotates, Tab!AnswerLost, Tab!ApiRefuses
    <2> QED BY <1>2, <1>6, <2>1
  <1>11. ASSUME NEW q \in Pages, Tab!Request(q) PROVE WaitersHaveACall'
    BY <1>5, <1>8, <1>9, <1>11 DEF Tab!Request
  <1>12. CASE UNCHANGED <<refresher, page>> /\ \A r \in Requests : ~Tab!Arrive(r)
    BY <1>6, <1>12
  <1> QED BY <1>2, <1>7, <1>10, <1>11, <1>12 DEF Tab!WebNext, Tab!Register, Tab!AccessExpires,
          Tab!AdminDeactivates, Tab!ApiRestarts, Tab!webVars

\* After a sign-out only a call that was under way brings a session back.
LEMMA SignedOutStep ==
  ASSUME TabTypes, SignedOutIsLeft, Tab!WebNext
  PROVE  /\ SignedOutIsLeft'
         /\ cookie = Tab!SignedOut /\ shown = Tab!SignedOut /\ left = {}
               => cookie' = Tab!SignedOut /\ shown' = Tab!SignedOut
  <1>0. \A v \in Tab!Session : v # Tab!SignedOut
    BY DEF Tab!Session, Tab!SignedOut
  <1>1. VisitsBecome
    BY VisitsStep
  <1>2. ASSUME NEW r \in Requests, Tab!Arrive(r)
        PROVE  /\ SignedOutIsLeft'
               /\ cookie = Tab!SignedOut => r \in left
    <2>1. visit[r] # Tab!NoVisit /\ visit[r].set \in Tab!Session
      BY <1>2, VisitTypes DEF Tab!Arrive
    <2>2. cookie' # Tab!SignedOut
      BY <1>0, <1>2, <2>1 DEF Tab!Arrive
    <2> QED BY <2>1, <2>2 DEF SignedOutIsLeft
  <1>3. CASE Tab!SignOut
    BY <1>3 DEF Tab!SignOut, Tab!Visiting, SignedOutIsLeft
  <1>4. ASSUME UNCHANGED <<cookie, shown, left>>, \A r \in Requests : ~Tab!Arrive(r)
        PROVE  SignedOutIsLeft' /\ cookie' = cookie /\ shown' = shown
    <2>1. ASSUME NEW r \in Requests, visit'[r] # Tab!NoVisit, cookie = Tab!SignedOut
          PROVE  visit[r] # Tab!NoVisit
      <3>1. \A q \in Requests, kind \in Tab!Kinds : ~Tab!Ask(q, kind)
        BY <2>1 DEF Tab!Ask
      <3>2. ASSUME NEW q \in Requests, visit[q] # Tab!NoVisit, Goes(q) PROVE visit[r] # Tab!NoVisit
        BY <2>1, <3>2 DEF Goes, TabTypes
      <3> QED BY <1>1, <1>4, <2>1, <3>1, <3>2 DEF VisitsBecome
    <2> QED BY <1>4, <2>1 DEF SignedOutIsLeft
  <1>5. ASSUME NEW r \in Requests, Tab!SessionCall(r), ~Tab!Arrive(r)
        PROVE  UNCHANGED <<cookie, shown, left>>
    BY <1>5 DEF Tab!SessionCall, Tab!Browse, Tab!StillValid, Tab!CallRefresh,
         Tab!RefreshTurnedDown, Tab!ApiReads, Tab!ApiRotates, Tab!AnswerLost, Tab!ApiRefuses
  <1>6. ASSUME NEW q \in Pages, Tab!Request(q) PROVE UNCHANGED <<cookie, shown, left>>
    BY <1>6 DEF Tab!Request, Tab!Start, Tab!Send, Tab!Finish, Tab!Unauthorised, Tab!Retry
  <1>7. Tab!SignOut => shown # Tab!SignedOut
    BY DEF Tab!SignOut
  <1> QED BY <1>2, <1>3, <1>4, <1>5, <1>6, <1>7 DEF Tab!WebNext, Tab!Register, Tab!AccessExpires,
          Tab!AdminDeactivates, Tab!ApiRestarts, Tab!webVars

\* A step that touches neither the calls nor the cookie, and uses up no token.
LEMMA StaysGood ==
  ASSUME SessionIsGood, UNCHANGED <<cookie, visit, call, token, jtis, revokedFamilies>>, excuse => excuse'
  PROVE  SessionIsGood'
  BY DEF SessionIsGood, GoodVisit, Live, Issued

\* What may end the session is an excuse; without one the last token stays good.
LEMMA GoodSessionStep ==
  ASSUME IInv, TabTypes, SessionIsGood, Tab!WebNext
  PROVE  SessionIsGood'
  <1>0. TypeOK /\ TokensAreIssued
    BY DEF IInv
  <1> SUFFICES ASSUME ~excuse' PROVE SessionIsGood'
    BY DEF SessionIsGood
  <1>b. \A v \in Tab!Visit : v # Tab!NoVisit
    BY DEF Tab!Visit, Tab!NoVisit
  <1>1. ASSUME NEW r \in Requests, NEW kind \in Tab!Kinds, Tab!Ask(r, kind), UNCHANGED <<vars, cookie>>
        PROVE  SessionIsGood'
    <2>1. ~excuse /\ \A q \in Requests : visit[q] = Tab!NoVisit
      BY <1>1 DEF Tab!Ask, Tab!Visiting
    <2>2. PICK v \in Tab!Visit : /\ v.step = "asked" /\ v.cookie = cookie /\ v.set = cookie
                                 /\ visit' = [visit EXCEPT ![r] = v]
      BY <1>1, AskAdds
    <2>3. /\ cookie # Tab!SignedOut /\ ~cookie.error /\ Live(cookie.jti)
          /\ \A p \in Replicas : revokedFamilies[p] = {}
      BY <1>1, <2>1 DEF Tab!Ask, SessionIsGood
    <2>4. visit'[r] = v /\ \A q \in Requests \ {r} : visit'[q] = Tab!NoVisit
      BY <2>1, <2>2 DEF TabTypes
    <2>5. Live(cookie.jti)' /\ revokedFamilies' = revokedFamilies /\ cookie' = cookie
      BY <1>1, <2>3 DEF vars, Live, Issued
    <2>6. GoodVisit(v, r)'
      BY <2>2, <2>3, <2>5 DEF GoodVisit
    <2> QED BY <1>b, <2>2, <2>3, <2>4, <2>5, <2>6 DEF SessionIsGood
  <1>2. ASSUME NEW r \in Requests, visit[r] # Tab!NoVisit, ~excuse, UNCHANGED <<cookie, revokedFamilies>>,
               NEW v \in Tab!Visit, visit' = [visit EXCEPT ![r] = v], GoodVisit(v, r)'
        PROVE  SessionIsGood'
    <2>1. /\ \A p \in Replicas : revokedFamilies[p] = {}
          /\ \A q \in Requests \ {r} : visit[q] = Tab!NoVisit
      BY <1>2 DEF SessionIsGood
    <2>2. visit'[r] = v /\ \A q \in Requests \ {r} : visit'[q] = Tab!NoVisit
      BY <1>2, <2>1 DEF TabTypes
    <2>3. cookie # Tab!SignedOut => ~cookie.error
      BY <1>2 DEF SessionIsGood
    <2> QED BY <1>b, <1>2, <2>1, <2>2, <2>3 DEF SessionIsGood
  <1>3. ASSUME NEW r \in Requests, Tab!StillValid(r) PROVE SessionIsGood'
    <2>1. /\ visit[r] # Tab!NoVisit /\ visit[r] \in Tab!Visit /\ visit[r].cookie \in Tab!Session
          /\ visit[r].runs \in {1, 2} /\ visit[r].step = "asked" /\ ~excuse
      BY <1>3, VisitTypes DEF Tab!StillValid
    <2>2. ~visit[r].cookie.error /\ visit[r].set = visit[r].cookie /\ Live(visit[r].cookie.jti)
      BY <2>1 DEF SessionIsGood, GoodVisit
    <2>3. PICK c \in Tab!Session : c = visit[r].cookie
      BY <2>1
    <2>4. Tab!RunEnds(r, c)
      BY <1>3, <2>3 DEF Tab!StillValid
    <2>5. PICK w \in Tab!Visit : w = Tab!AfterRun(visit[r], c) /\ visit' = [visit EXCEPT ![r] = w]
      BY <2>1, <2>4, RunEndsGoes
    <2>6. w.cookie = c /\ w.set = c /\ w.step \in {"asked", "answered"}
      BY <2>1, <2>2, <2>3, <2>5, AfterRunIs
    <2>7. UNCHANGED <<cookie, revokedFamilies, token, jtis>>
      BY <1>3 DEF Tab!StillValid, Tab!vars
    <2>8. Live(c.jti)' /\ ~c.error
      BY <2>2, <2>3, <2>7 DEF Live, Issued
    <2>9. GoodVisit(w, r)'
      BY <2>6, <2>8 DEF GoodVisit
    <2> QED BY <1>2, <2>1, <2>5, <2>7, <2>9
  <1>4. ASSUME NEW r \in Requests, NEW p \in Replicas, Tab!CallRefresh(r, p) PROVE SessionIsGood'
    <2>1. /\ visit[r] # Tab!NoVisit /\ visit[r] \in Tab!Visit /\ visit[r].runs \in {1, 2}
          /\ visit[r].step = "asked"
      BY <1>4, VisitTypes DEF Tab!CallRefresh
    <2>2. ~excuse /\ visit[r].runs # 2 /\ visit[r].kind # "copilot"
      BY <1>4 DEF Tab!CallRefresh
    <2>3. PICK v : v = [visit[r] EXCEPT !.step = "calling"]
      OBVIOUS
    <2>4. /\ v \in Tab!Visit /\ v.step = "calling" /\ v.cookie = visit[r].cookie
          /\ v.runs = visit[r].runs /\ v.kind = visit[r].kind
      BY <2>1, <2>3 DEF Tab!Visit
    <2>5. visit' = [visit EXCEPT ![r] = v]
      BY <1>4, <2>3 DEF Tab!CallRefresh, TabTypes
    <2>6. call'[r] # Idle /\ call'[r].found # "inactive"
      <3>1. call'[r].found = "asked" /\ call'[r].op = "refresh"
        BY <1>0, <1>4 DEF Tab!CallRefresh, Tab!BeginRefresh, TypeOK
      <3> QED BY <3>1 DEF Idle
    <2>7. UNCHANGED <<cookie, revokedFamilies>>
      BY <1>4 DEF Tab!CallRefresh, Tab!BeginRefresh
    <2>8. ~v.cookie.error
      BY <2>1, <2>2, <2>4 DEF SessionIsGood, GoodVisit
    <2>9. GoodVisit(v, r)'
      BY <2>1, <2>2, <2>4, <2>6, <2>8 DEF GoodVisit
    <2> QED BY <1>2, <2>1, <2>2, <2>4, <2>5, <2>7, <2>9
  <1>5. ASSUME NEW r \in Requests, NEW p \in Replicas, Tab!RefreshTurnedDown(r, p) PROVE FALSE
    <2>1. visit[r] # Tab!NoVisit /\ visit[r].step = "asked" /\ visit[r].cookie.jti \in Jtis
      BY <1>5, VisitTypes DEF Tab!RefreshTurnedDown
    <2>2. ~excuse /\ p = token[visit[r].cookie.jti].home
      BY <1>5 DEF Tab!RefreshTurnedDown
    <2>3. Live(visit[r].cookie.jti) /\ revokedFamilies[p] = {}
      BY <2>1, <2>2 DEF SessionIsGood, GoodVisit
    <2>4. jtis[p][visit[r].cookie.jti] = "live"
      BY <2>2, <2>3 DEF Live
    <2> QED BY <1>5, <2>3, <2>4 DEF Tab!RefreshTurnedDown, Tab!RefreshReused
  <1>6. ASSUME NEW r \in Requests, Tab!ApiReads(r) PROVE SessionIsGood'
    <2>1. visit[r] # Tab!NoVisit /\ visit[r].step = "calling" /\ ~excuse /\ call[r].user \in active
      BY <1>6, VisitTypes DEF Tab!ApiReads
    <2>2. call[r] # Idle /\ call[r] \in Call
      BY <1>0, <2>1 DEF SessionIsGood, GoodVisit, TypeOK
    <2>3. call' = [call EXCEPT ![r].found = "active"]
      BY <1>6, <2>1 DEF Tab!ApiReads, Tab!ReadUser
    <2>4. call'[r] # Idle /\ call'[r].found # "inactive"
      BY <1>0, <2>2, <2>3 DEF TypeOK, Call, Idle
    <2>5. UNCHANGED <<cookie, visit, token, jtis, revokedFamilies>>
      BY <1>6 DEF Tab!ApiReads, Tab!ReadUser
    <2> QED BY <2>1, <2>4, <2>5 DEF SessionIsGood, GoodVisit, Live, Issued
  <1>7. ASSUME NEW r \in Requests, NEW j \in Jtis, Tab!ApiRotates(r, j) PROVE SessionIsGood'
    <2>1. /\ visit[r] # Tab!NoVisit /\ visit[r] \in Tab!Visit /\ visit[r].step = "calling" /\ ~excuse
      BY <1>7, VisitTypes DEF Tab!ApiRotates
    <2>2. ~visit[r].cookie.error /\ visit[r].runs = 1 /\ visit[r].kind # "copilot"
      BY <2>1 DEF SessionIsGood, GoodVisit
    <2>3. PICK c \in Tab!Session : c = [jti |-> j, error |-> FALSE]
      BY SameTypes DEF Tab!Session
    <2>4. PICK w \in Tab!Visit : w = Tab!AfterRun(visit[r], c) /\ visit' = [visit EXCEPT ![r] = w]
      <3>1. Tab!RunEnds(r, c)
        BY <1>7, <2>3 DEF Tab!ApiRotates
      <3> QED BY <2>1, <3>1, RunEndsGoes
    <2>5. w.cookie = visit[r].cookie /\ w.set = c /\ w.step = "answered"
      BY <2>1, <2>2, <2>4, AfterRunIs
    <2>6. Rotate(r, j)
      BY <1>7 DEF Tab!ApiRotates, Tab!Rotate, Rotate, Tab!Fresh, Fresh, Tab!Answer, Answer, Tab!Issued, Issued,
       Tab!Unissued, Unissued, Tab!Idle, Idle, Tab!Jtis, Jtis
    <2>7. Live(j)'
      BY <1>0, <2>6, RotateIssues
    <2>8. UNCHANGED <<cookie, revokedFamilies>>
      BY <1>7, <2>6 DEF Tab!ApiRotates, Rotate
    <2>9. GoodVisit(w, r)'
      BY <2>2, <2>3, <2>5, <2>7 DEF GoodVisit
    <2> QED BY <1>2, <2>1, <2>4, <2>8, <2>9
  <1>8. ASSUME NEW r \in Requests, Tab!ApiRefuses(r) PROVE FALSE
    <2>1. visit[r] # Tab!NoVisit /\ visit[r].step = "calling" /\ ~excuse
      BY <1>8, VisitTypes DEF Tab!ApiRefuses
    <2> QED BY <1>8, <2>1 DEF SessionIsGood, GoodVisit, Tab!ApiRefuses, Tab!RefreshRefused
  <1>9. ASSUME NEW r \in Requests, Tab!Arrive(r) PROVE SessionIsGood'
    <2>1. visit[r] # Tab!NoVisit /\ visit[r].step = "answered" /\ ~excuse
      BY <1>9, VisitTypes DEF Tab!Arrive
    <2>2. PICK c : c = visit[r].set
      OBVIOUS
    <2>3. /\ ~c.error /\ Live(c.jti) /\ \A p \in Replicas : revokedFamilies[p] = {}
          /\ \A q \in Requests \ {r} : visit[q] = Tab!NoVisit
      BY <2>1, <2>2 DEF SessionIsGood, GoodVisit
    <2>4. cookie' = c
      BY <1>9, <2>2 DEF Tab!Arrive
    <2>5. \A q \in Requests : visit'[q] = Tab!NoVisit
      BY <1>9, <2>3 DEF Tab!Arrive, TabTypes
    <2>6. Live(c.jti)' /\ revokedFamilies' = revokedFamilies
      BY <1>9, <2>3 DEF Tab!Arrive, Tab!vars, Live, Issued
    <2> QED BY <2>3, <2>4, <2>5, <2>6 DEF SessionIsGood
  <1>10. CASE Tab!SignOut
    BY <1>10 DEF Tab!SignOut, Tab!vars, SessionIsGood, GoodVisit, Live, Issued
  <1>11. CASE \E r \in Requests : Tab!SessionCall(r)
    <2>1. PICK r \in Requests : Tab!SessionCall(r)
      BY <1>11
    <2>2. CASE Tab!Browse(r)
      BY <1>1, <2>2 DEF Tab!Browse, Tab!vars, vars
    <2>3. \A j : ~Tab!AnswerLost(r, j)
      BY DEF Tab!AnswerLost
    <2> QED BY <1>3, <1>4, <1>5, <1>6, <1>7, <1>8, <1>9, <2>1, <2>2, <2>3, SameTypes DEF Tab!SessionCall
  <1>12. ASSUME NEW q \in Pages, Tab!Request(q) PROVE SessionIsGood'
    <2>1. ASSUME NEW r \in Requests, Tab!Unauthorised(q, r) PROVE SessionIsGood'
      <3>1. CASE Tab!Ask(r, "session")
        BY <1>1, <2>1, <3>1 DEF Tab!Unauthorised, Tab!vars, vars, Tab!Kinds
      <3>2. CASE UNCHANGED <<visit, excuse>>
        BY <2>1, <3>2, StaysGood DEF Tab!Unauthorised, Tab!vars
      <3> QED BY <2>1, <3>1, <3>2 DEF Tab!Unauthorised
    <2>2. CASE Tab!Start(q) \/ Tab!Send(q) \/ Tab!Finish(q) \/ Tab!Retry(q)
      BY <2>2, StaysGood DEF Tab!Start, Tab!Send, Tab!Finish, Tab!Retry, Tab!vars
    <2> QED BY <1>12, <2>1, <2>2 DEF Tab!Request
  <1>13. CASE Tab!Register \/ (\E j \in Tab!Jtis : Tab!AccessExpires(j)) \/ \E u \in Users : Tab!AdminDeactivates(u)
    BY <1>13, StaysGood DEF Tab!Register, Tab!AccessExpires, Tab!AdminDeactivates, Tab!Deactivate, Tab!vars, Tab!webVars
  <1>14. \A p \in Replicas : ~Tab!ApiRestarts(p)
    BY DEF Tab!ApiRestarts
  <1> QED BY <1>10, <1>11, <1>12, <1>13, <1>14 DEF Tab!WebNext

\* Every step of the tab keeps what holds of it.
LEMMA TabInvStep ==
  ASSUME IInv, TabInv, Tab!WebNext
  PROVE  TabInv'
  BY TabTypesStep, PagesStep, WaitersStep, SignedOutStep, GoodSessionStep DEF TabInv

\* What holds of the tab implies its properties.
LEMMA TabInvSuffices ==
  ASSUME IInv, TabInv
  PROVE  Tab!WebTypeOK /\ Tab!BrowserSessionIsSound
  <1>1. Tab!WebTypeOK
    BY SameTypes DEF IInv, TabInv, TabTypes, Tab!WebTypeOK
  <1>2. Tab!SessionEndsForAReason
    BY DEF TabInv, SessionIsGood, Tab!SessionEndsForAReason
  <1>3. Tab!AtMostFourSends
    <2> SUFFICES ASSUME NEW q \in Pages, page[q] # Tab!NotSent PROVE page[q].sends <= 4
      BY DEF Tab!AtMostFourSends
    <2>1. page[q] \in Tab!Page /\ page[q].sends <= Allowed(page[q])
      BY DEF TabInv, TabTypes, SendsAreFew
    <2> QED BY <2>1 DEF Tab!Page, Allowed
  <1>4. Tab!WaitersAreServed
    BY DEF TabInv, WaitersHaveACall, Tab!WaitersAreServed
  <1> QED BY <1>1, <1>2, <1>3, <1>4 DEF Tab!BrowserSessionIsSound

\* A tab begins with the first token, just issued.
LEMMA WebInitIsGood ==
  ASSUME Tab!WebAssumption, Tab!WebInit
  PROVE  IInv /\ TabInv
  <1>0. 1 \in Jtis /\ MaxTokens \in Nat
    BY DEF Tab!WebAssumption, Tab!SessionsAssumption, Jtis
  <1>1. PICK u \in Users, p \in Replicas :
           /\ token = [j \in Jtis |-> IF j = 1 THEN [user |-> u, fam |-> 1, home |-> p] ELSE Unissued]
           /\ jtis = [q \in Replicas |-> [j \in Jtis |-> IF q = p /\ j = 1 THEN "live" ELSE "unknown"]]
    BY DEF Tab!WebInit, Tab!Jtis, Jtis, Tab!Unissued, Unissued
  <1>2. \A j \in Jtis : Issued(j) <=> j = 1
    BY <1>1, NewTokenIsIssued DEF Issued
  <1>3. /\ token[1].fam = 1 /\ token[1].home = p /\ Live(1)
        /\ \A q \in Replicas, j \in Jtis : jtis[q][j] # "unknown" => q = p /\ j = 1
    BY <1>0, <1>1, <1>2 DEF Live
  <1>4. TypeOK
    <2>1. [user |-> u, fam |-> 1, home |-> p] \in Token
      BY <1>0 DEF Token
    <2>2. token \in [Jtis -> Token \cup {Unissued}]
      BY <1>1, <2>1
    <2>3. Tab!NoFailures \in [count : 0 .. MaxFailures, locked : BOOLEAN]
      BY DEF Tab!NoFailures, Tab!WebAssumption, Tab!SessionsAssumption
    <2>4. failed \in [Replicas -> [Users -> [count : 0 .. MaxFailures, locked : BOOLEAN]]]
      BY <2>3 DEF Tab!WebInit
    <2>5. jtis \in [Replicas -> [Jtis -> {"unknown", "live", "revoked"}]]
      BY <1>1
    <2> QED BY <2>2, <2>4, <2>5, SameTypes DEF TypeOK, Tab!WebInit
  <1>5. \A r \in Requests : call[r] = Idle
    BY SameTypes DEF Tab!WebInit
  <1>6. IInv
    <2>1. TokensAreIssued
      BY <1>0, <1>2, <1>3, <1>5 DEF Tab!WebInit, TokensAreIssued, Refreshing
    <2>2. OneLiveToken
      BY <1>2 DEF OneLiveToken, Live
    <2> QED
      BY <1>4, <1>5, <2>1, <2>2 DEF Tab!WebInit, IInv, RefreshIsAlone, EndedIsForgottenAtMost,
         FoundWasActive, Refreshing, Forgotten
  <1>7. TabTypes
    BY <1>0, SameTypes DEF Tab!WebInit, TabTypes, Tab!Session
  <1>8. SendsAreFew /\ WaitersHaveACall /\ SignedOutIsLeft
    BY DEF Tab!WebInit, SendsAreFew, WaitersHaveACall, SignedOutIsLeft, Tab!NotSent
  <1>9. SessionIsGood
    BY <1>3 DEF Tab!WebInit, SessionIsGood
  <1> QED BY <1>6, <1>7, <1>8, <1>9 DEF TabInv

-------------------------------------------------------------------------------
(* AuditTrail: the rows, their links and the anchors.                        *)

\* How many of S are up to i.
Rank(S, i) == Cardinality({j \in S : j <= i})

\* The ids up to an id of S say the place it has in S; every place is taken.
LEMMA Ranks ==
  ASSUME NEW n \in Nat, NEW S \in SUBSET (1 .. n)
  PROVE  /\ IsFiniteSet(S) /\ Cardinality(S) \in Nat
         /\ \A k \in 1 .. Cardinality(S) : \E i \in S : Rank(S, i) = k
         /\ \A i, j \in S : i < j <=> Rank(S, i) < Rank(S, j)
         /\ \A i \in S : Rank(S, i) \in 1 .. Cardinality(S)
  <1> DEFINE Below(i) == {j \in S : j <= i}
             f == [i \in S |-> Cardinality(Below(i))]
  <1>1. IsFiniteSet(S) /\ Cardinality(S) \in Nat
    <2>1. IsFiniteSet(1 .. n)
      BY FS_Interval
    <2> QED BY <2>1, FS_Subset, FS_CardinalityType
  <1>2. \A i \in S : Cardinality(Below(i)) \in 1 .. Cardinality(S)
    <2> TAKE i \in S
    <2>1. Below(i) \in SUBSET S /\ i \in Below(i)
      OBVIOUS
    <2>2. IsFiniteSet(Below(i)) /\ Cardinality(Below(i)) <= Cardinality(S) /\ Cardinality(Below(i)) \in Nat
      BY <1>1, <2>1, FS_Subset, FS_CardinalityType
    <2>3. Cardinality(Below(i)) # 0
      BY <2>1, <2>2, FS_EmptySet
    <2> QED BY <1>1, <2>2, <2>3
  <1>3. \A i, j \in S : i < j => Cardinality(Below(i)) < Cardinality(Below(j))
    <2> SUFFICES ASSUME NEW i \in S, NEW j \in S, i < j
                 PROVE  Cardinality(Below(i)) < Cardinality(Below(j))
      OBVIOUS
    <2>1. i \in Int /\ j \in Int /\ \A h \in S : h \in Int
      OBVIOUS
    <2>2. j \in Below(j) /\ j \notin Below(i)
      BY <2>1
    <2>3. Below(i) \in SUBSET Below(j) /\ Below(j) \in SUBSET S
      <3>1. \A h \in S : h <= i => h <= j
        BY <2>1
      <3> QED BY <3>1
    <2> HIDE DEF Below
    <2>4. Below(i) # Below(j)
      BY <2>2
    <2>5. IsFiniteSet(Below(j))
      BY <1>1, <2>3, FS_Subset
    <2>6. Cardinality(Below(i)) <= Cardinality(Below(j)) /\ Cardinality(Below(i)) # Cardinality(Below(j))
      BY <2>3, <2>4, <2>5, FS_Subset
    <2> QED BY <1>1, <1>2, <2>6
  <1> HIDE DEF Below
  <1>4. \A i, j \in S : i < j <=> Cardinality(Below(i)) < Cardinality(Below(j))
    BY <1>1, <1>2, <1>3
  <1>5. \A k \in 1 .. Cardinality(S) : \E i \in S : Cardinality(Below(i)) = k
    <2>1. f \in Injection(S, 1 .. Cardinality(S))
      <3>1. f \in [S -> 1 .. Cardinality(S)]
        BY <1>2
      <3>2. \A i, j \in S : f[i] = f[j] => i = j
        BY <1>1, <1>2, <1>3
      <3> QED BY <3>1, <3>2 DEF Injection, IsInjective
    <2>2. IsFiniteSet(1 .. Cardinality(S)) /\ Cardinality(1 .. Cardinality(S)) = Cardinality(S)
      BY <1>1, FS_Interval
    <2>3. f \in Surjection(S, 1 .. Cardinality(S))
      BY <2>1, <2>2, FS_Injection
    <2> QED BY <2>3 DEF Surjection
  <1>6. \A i \in S : Rank(S, i) = Cardinality(Below(i))
    BY DEF Rank, Below
  <1> QED BY <1>1, <1>2, <1>4, <1>5, <1>6

\* A set of ids that is not empty has a greatest one.
LEMMA GreatestExists ==
  ASSUME NEW n \in Nat, NEW S \in SUBSET (1 .. n), S # {}
  PROVE  \E i \in S : \A j \in S : j <= i
  <1> DEFINE rank(i) == Rank(S, i)
             c == Cardinality(S)
  <1>1. /\ c \in Nat
        /\ \A k \in 1 .. c : \E i \in S : rank(i) = k
        /\ \A i, j \in S : i < j <=> rank(i) < rank(j)
        /\ \A i \in S : rank(i) \in 1 .. c
    BY Ranks
  <1> HIDE DEF rank, c
  <1>2. PICK k \in S : rank(k) \in 1 .. c
    BY <1>1
  <1>3. PICK i \in S : rank(i) = c
    BY <1>1, <1>2
  <1>4. \A j \in S : ~(i < j)
    BY <1>1, <1>3
  <1> QED BY <1>3, <1>4

\* The two names of cardinality.
LEMMA AuditCardinality ==
  ASSUME NEW S
  PROVE  Audit!Cardinality(S) = Cardinality(S)
  BY DEF Audit!Cardinality, Cardinality

\* Days and hours, as the anchors need them.
LEMMA DaysAndHours ==
  ASSUME NEW t \in Nat
  PROVE  /\ Audit!Day(t) \in Nat
         /\ 2 * Audit!Day(t) <= t /\ t < 2 * Audit!Day(t) + 2
         /\ Audit!AfterTwo(t) => t = 2 * Audit!Day(t) + 1
  BY DEF Audit!Day, Audit!AfterTwo


\* An insert is of now or of the tick before, no row has its id yet, and what the trigger
\* linked it to is there.
InsertsAreNew ==
    \A w \in Writers : ins[w] # Audit!Idle =>
        /\ ins[w].id \notin DOMAIN row
        /\ \A v \in Writers \ {w} : ins[v] # Audit!Idle => ins[v].id # ins[w].id
        /\ now <= ins[w].at + 1
        /\ ins[w].state = "chained" => ins[w].prev \in {Audit!Genesis} \cup Audit!RowsOf(ins[w].tenant)

\* What is anchored is over: it was a day before, and the job runs after 2AM.
AnchorsArePast ==
    /\ \A a \in anchors : 2 * a.day + 3 <= now
    /\ anchoring.todo # {} => anchoring.day >= 1 /\ 2 * anchoring.day + 1 <= now

\* p is the latest row of S, or the genesis hash if there is none.
LatestIn(p, S) == IF S = {} THEN p = Audit!Genesis
                  ELSE p \in S /\ \A j \in S \ {p} : Audit!Before(j, p)

\* OrderedInsertsMakeAChain, in words that do not choose; and the insert that the trigger
\* has linked is alone, and linked to the latest row.
ChainsAreOrdered ==
    /\ \A t \in Tenants \ disorder : \A i \in Audit!RowsOf(t) :
          LatestIn(row[i].prev, {j \in Audit!RowsOf(t) : Audit!Before(j, i)})
    /\ \A w \in Writers : ins[w] # Audit!Idle /\ ins[w].state = "chained" /\ ins[w].tenant \notin disorder =>
          /\ LatestIn(ins[w].prev, Audit!RowsOf(ins[w].tenant))
          /\ \A v \in Writers \ {w} :
                ins[v] # Audit!Idle /\ ins[v].state = "chained" => ins[v].tenant # ins[w].tenant

\* An export is in order, and has every row that was there but those after its last.
ExportReads ==
    export # Audit!Idle =>
        /\ export.there \subseteq Audit!RowsOf(export.tenant)
        /\ \A m, n \in DOMAIN export.out : m < n => export.out[m] < export.out[n]
        /\ \A i \in export.there :
              \/ \E n \in DOMAIN export.out : export.out[n] = i
              \/ /\ export.state = "open"
                 /\ export.out # <<>> => i > export.out[Len(export.out)]

\* What holds of the audit log at every step.
AuditInv == /\ Audit!TypeOK /\ InsertsAreNew /\ AnchorsArePast /\ ChainsAreOrdered /\ ExportReads
            /\ Audit!LinksReachGenesis /\ Audit!AnchorsStayTrue

\* What the types say of a row and of an insert.
LEMMA RowTypes ==
  ASSUME Audit!TypeOK
  PROVE  /\ MaxRows \in Nat /\ MaxNow \in Nat /\ now \in Nat
         /\ DOMAIN row \subseteq 1 .. MaxRows
         /\ \A i \in DOMAIN row : /\ i \in Nat /\ i # 0
                                  /\ row[i].tenant \in Tenants
                                  /\ row[i].at \in Nat /\ row[i].at <= MaxNow
         /\ \A w \in Writers : ins[w] # Audit!Idle =>
               /\ ins[w] \in Audit!Insert
               /\ ins[w].id \in Audit!Ids /\ ins[w].id \in Nat /\ ins[w].id # 0
               /\ ins[w].tenant \in Tenants /\ ins[w].at \in Audit!Time /\ ins[w].at \in Nat
               /\ ins[w].prev \in {Audit!Genesis} \cup Audit!Ids
               /\ ins[w].state \in {"sent", "chained"}
  <1>1. MaxRows \in Nat /\ MaxNow \in Nat
    BY Assumptions DEF Audit!AuditAssumption
  <1> QED BY <1>1 DEF Audit!TypeOK, Audit!Row, Audit!Insert, Audit!Ids, Audit!Time

\* Of rows that there are, one is the latest.
LEMMA LatestExists ==
  ASSUME Audit!TypeOK, NEW S \in SUBSET (DOMAIN row), S # {}
  PROVE  \E p \in S : \A j \in S \ {p} : Audit!Before(j, p)
  <1> DEFINE times == {row[i].at + 1 : i \in S}
  <1>1. times \in SUBSET (1 .. MaxNow + 1) /\ times # {} /\ MaxNow + 1 \in Nat
    BY RowTypes
  <1>2. PICK top \in times : \A t \in times : t <= top
    <2> HIDE DEF times
    <2> QED BY <1>1, GreatestExists
  <1> DEFINE last == {i \in S : row[i].at + 1 = top}
  <1>3. last \in SUBSET (1 .. MaxRows) /\ last # {} /\ MaxRows \in Nat
    BY <1>2, RowTypes
  <1>4. PICK p \in last : \A j \in last : j <= p
    <2> HIDE DEF last
    <2> QED BY <1>3, GreatestExists
  <1>5. ASSUME NEW j \in S \ {p} PROVE Audit!Before(j, p)
    <2>1. row[j].at + 1 <= top /\ row[p].at + 1 = top
      BY <1>2
    <2>2. row[j].at + 1 = top => j <= p
      BY <1>4
    <2> QED BY <2>1, <2>2, <1>2, RowTypes DEF Audit!Before
  <1> QED BY <1>4, <1>5

\* And only one.
LEMMA LatestIsUnique ==
  ASSUME Audit!TypeOK, NEW S \in SUBSET (DOMAIN row), NEW p, NEW q, LatestIn(p, S), LatestIn(q, S)
  PROVE  p = q
  BY RowTypes DEF LatestIn, Audit!Before

\* The row whose hash the trigger reads is the latest.
LEMMA LatestIsRead ==
  ASSUME Audit!TypeOK, NEW t \in Tenants
  PROVE  LatestIn(Audit!Latest(t), Audit!RowsOf(t))
  <1>1. Audit!RowsOf(t) \in SUBSET (DOMAIN row)
    BY DEF Audit!RowsOf
  <1>2. CASE Audit!RowsOf(t) = {}
    BY <1>2 DEF LatestIn, Audit!Latest
  <1>3. CASE Audit!RowsOf(t) # {}
    <2>1. \E p \in Audit!RowsOf(t) : \A j \in Audit!RowsOf(t) \ {p} : Audit!Before(j, p)
      BY <1>1, <1>3, LatestExists
    <2> QED BY <1>3, <2>1 DEF LatestIn, Audit!Latest
  <1> QED BY <1>2, <1>3

\* The trigger links an insert to the latest row, and nothing else of it changes.
LEMMA ChainLinks ==
  ASSUME Audit!TypeOK, NEW w \in Writers, Audit!Chain(w)
  PROVE  /\ ins'[w] # Audit!Idle /\ ins'[w] \in Audit!Insert
         /\ ins'[w].state = "chained" /\ ins'[w].prev = Audit!Latest(ins[w].tenant)
         /\ ins'[w].id = ins[w].id /\ ins'[w].tenant = ins[w].tenant /\ ins'[w].at = ins[w].at
         /\ ins' \in [Writers -> Audit!Insert \cup {Audit!Idle}]
         /\ \A v \in Writers \ {w} : ins'[v] = ins[v]
  <1>1. PICK v : v = [ins[w] EXCEPT !.state = "chained", !.prev = Audit!Latest(ins[w].tenant)]
    OBVIOUS
  <1>2. ins' = [ins EXCEPT ![w] = v]
    BY <1>1 DEF Audit!Chain, Audit!TypeOK
  <1>3. ins[w] # Audit!Idle /\ ins[w] \in Audit!Insert /\ ins[w].tenant \in Tenants
    BY RowTypes DEF Audit!Chain
  <1>4. Audit!Latest(ins[w].tenant) \in {Audit!Genesis} \cup Audit!Ids
    BY <1>3, LatestIsRead DEF LatestIn, Audit!RowsOf, Audit!TypeOK
  <1>5. v \in Audit!Insert
    BY <1>1, <1>3, <1>4 DEF Audit!Insert
  <1>6. v # Audit!Idle
    BY <1>5 DEF Audit!Insert, Audit!Idle
  <1>7. /\ v.state = "chained" /\ v.prev = Audit!Latest(ins[w].tenant)
        /\ v.id = ins[w].id /\ v.tenant = ins[w].tenant /\ v.at = ins[w].at
    BY <1>1, <1>3 DEF Audit!Insert
  <1> QED BY <1>2, <1>5, <1>6, <1>7 DEF Audit!TypeOK

\* A commit adds one row, as the trigger left it.
LEMMA CommitAdds ==
  ASSUME Audit!TypeOK, InsertsAreNew, NEW w \in Writers, Audit!Commit(w)
  PROVE  LET i == ins[w].id IN
         /\ ins[w] # Audit!Idle /\ ins[w].state = "chained"
         /\ i \in Audit!Ids /\ i \notin DOMAIN row /\ DOMAIN row' = (DOMAIN row) \cup {i}
         /\ row'[i] \in Audit!Row
         /\ row'[i].tenant = ins[w].tenant /\ row'[i].at = ins[w].at /\ row'[i].prev = ins[w].prev
         /\ \A j \in DOMAIN row : row'[j] = row[j]
         /\ \A t : Audit!RowsOf(t)' = IF t = ins[w].tenant THEN Audit!RowsOf(t) \cup {i} ELSE Audit!RowsOf(t)
         /\ ins'[w] = Audit!Idle /\ \A v \in Writers \ {w} : ins'[v] = ins[v]
         /\ ins' \in [Writers -> Audit!Insert \cup {Audit!Idle}]
         /\ ins[w].tenant \notin disorder' =>
               \A j \in Audit!RowsOf(ins[w].tenant) :
                  ~(ins[w].at < row[j].at) /\ ~(ins[w].at = row[j].at /\ i < j)
  <1> DEFINE i == ins[w].id
             r == [tenant |-> ins[w].tenant, at |-> ins[w].at, prev |-> ins[w].prev]
  <1>1. ins[w] # Audit!Idle /\ ins[w].state = "chained"
    BY DEF Audit!Commit
  <1>2. i \in Audit!Ids /\ i \notin DOMAIN row /\ r \in Audit!Row
    BY <1>1, RowTypes DEF InsertsAreNew, Audit!Row
  <1>3. row' = [j \in (DOMAIN row) \cup {i} |-> IF j = i THEN r ELSE row[j]]
    BY DEF Audit!Commit
  <1>4. ins' = [ins EXCEPT ![w] = Audit!Idle]
    BY DEF Audit!Commit
  <1>5. \A t : Audit!RowsOf(t)' = IF t = ins[w].tenant THEN Audit!RowsOf(t) \cup {i} ELSE Audit!RowsOf(t)
    BY <1>2, <1>3 DEF Audit!RowsOf
  <1>6. ins[w].tenant \notin disorder' =>
               \A j \in Audit!RowsOf(ins[w].tenant) :
                  ~(ins[w].at < row[j].at) /\ ~(ins[w].at = row[j].at /\ i < j)
    BY DEF Audit!Commit
  <1> QED BY <1>1, <1>2, <1>3, <1>4, <1>5, <1>6 DEF Audit!TypeOK


\* A committed row is added to one tenant's rows.
LEMMA CommitGrows ==
  ASSUME Audit!TypeOK, InsertsAreNew, NEW w \in Writers, Audit!Commit(w), NEW t
  PROVE  /\ \/ Audit!RowsOf(t)' = Audit!RowsOf(t)
            \/ Audit!RowsOf(t)' = Audit!RowsOf(t) \cup {ins[w].id}
         /\ Audit!RowsOf(t) \subseteq Audit!RowsOf(t)'
  <1>1. \A u : Audit!RowsOf(u)' = IF u = ins[w].tenant THEN Audit!RowsOf(u) \cup {ins[w].id} ELSE Audit!RowsOf(u)
    BY CommitAdds
  <1>2. CASE t = ins[w].tenant
    BY <1>1, <1>2
  <1>3. CASE t # ins[w].tenant
    BY <1>1, <1>3
  <1> QED BY <1>2, <1>3

\* What each step does to the clock, the rows and the inserts, the log and its anchors.
AuditSteps ==
    \/ UNCHANGED auditVars
    \/ \E w \in Writers, t \in Tenants, i \in Audit!Ids : Audit!Log(w, t, i)
    \/ \E w \in Writers : Audit!Chain(w) \/ Audit!Commit(w) \/ Audit!Skip(w)
    \/ Audit!AnchorBegin
    \/ \E t \in Tenants : Audit!AnchorTenant(t) \/ Audit!AnchorFails(t) \/ Audit!ExportBegin(t)
    \/ Audit!ExportPage
    \/ Audit!Tick

\* The steps of the audit log.
LEMMA AuditStepsAre ==
  ASSUME [Audit!Next]_auditVars
  PROVE  AuditSteps
  BY DEF AuditSteps, Audit!Next

\* An insert that is sent has the time of the clock, and an id of its own.
LEMMA LogSends ==
  ASSUME Audit!TypeOK, NEW w \in Writers, NEW t \in Tenants, NEW i \in Audit!Ids, Audit!Log(w, t, i)
  PROVE  /\ ins[w] = Audit!Idle /\ ins'[w] # Audit!Idle
         /\ ins'[w].id = i /\ ins'[w].at = now /\ ins'[w].state = "sent" /\ ins'[w].tenant = t
         /\ i \notin DOMAIN row
         /\ \A v \in Writers \ {w} : ins'[v] = ins[v] /\ (ins[v] # Audit!Idle => ins[v].id # i)
         /\ ins' \in [Writers -> Audit!Insert \cup {Audit!Idle}]
  <1>1. PICK new : new = [state |-> "sent", id |-> i, tenant |-> t, at |-> now, prev |-> Audit!Genesis]
    OBVIOUS
  <1>2. ins' = [ins EXCEPT ![w] = new]
    BY <1>1 DEF Audit!Log
  <1>3. new \in Audit!Insert /\ new # Audit!Idle
    BY <1>1 DEF Audit!Insert, Audit!Idle, Audit!TypeOK
  <1>4. /\ ins[w] = Audit!Idle /\ i \notin DOMAIN row
        /\ \A v \in Writers : ins[v] # Audit!Idle => ins[v].id # i
    BY DEF Audit!Log, Audit!InFlight
  <1>5. new.id = i /\ new.at = now /\ new.state = "sent" /\ new.tenant = t
    BY <1>1
  <1> QED BY <1>2, <1>3, <1>4, <1>5 DEF Audit!TypeOK

\* The inserts stay new.
LEMMA InsertsAreNewStep ==
  ASSUME Audit!TypeOK, InsertsAreNew, AuditSteps
  PROVE  InsertsAreNew'
  <1>a. now \in Nat /\ \A w \in Writers : ins[w] # Audit!Idle => ins[w].at \in Nat
    BY RowTypes
  <1>1. CASE UNCHANGED <<now, row, ins>>
    BY <1>1 DEF InsertsAreNew, Audit!RowsOf
  <1>2. ASSUME NEW w \in Writers, NEW t \in Tenants, NEW i \in Audit!Ids, Audit!Log(w, t, i)
        PROVE  InsertsAreNew'
    <2>1. UNCHANGED <<now, row>> /\ \A u : Audit!RowsOf(u)' = Audit!RowsOf(u)
      BY <1>2 DEF Audit!Log, Audit!RowsOf
    <2> QED BY <1>a, <1>2, <2>1, LogSends DEF InsertsAreNew
  <1>3. ASSUME NEW w \in Writers, Audit!Chain(w) PROVE InsertsAreNew'
    <2>1. UNCHANGED <<now, row>> /\ ins[w] # Audit!Idle /\ \A u : Audit!RowsOf(u)' = Audit!RowsOf(u)
      BY <1>3 DEF Audit!Chain, Audit!RowsOf
    <2>2. ins[w].tenant \in Tenants
      BY <2>1, RowTypes
    <2>3. Audit!Latest(ins[w].tenant) \in {Audit!Genesis} \cup Audit!RowsOf(ins[w].tenant)
      BY <2>2, LatestIsRead DEF LatestIn
    <2> QED BY <1>3, <2>1, <2>3, ChainLinks DEF InsertsAreNew
  <1>4. ASSUME NEW w \in Writers, Audit!Commit(w) PROVE InsertsAreNew'
    <2>1. now' = now
      BY <1>4 DEF Audit!Commit
    <2>2. \A u : Audit!RowsOf(u) \subseteq Audit!RowsOf(u)'
      BY <1>4, CommitGrows
    <2>3. DOMAIN row' = (DOMAIN row) \cup {ins[w].id} /\ ins[w] # Audit!Idle
          /\ ins'[w] = Audit!Idle /\ \A v \in Writers \ {w} : ins'[v] = ins[v]
      BY <1>4, CommitAdds
    <2> QED BY <2>1, <2>2, <2>3 DEF InsertsAreNew
  <1>5. ASSUME NEW w \in Writers, Audit!Skip(w) PROVE InsertsAreNew'
    <2>1. UNCHANGED <<now, row>> /\ \A u : Audit!RowsOf(u)' = Audit!RowsOf(u)
      BY <1>5 DEF Audit!Skip, Audit!RowsOf
    <2>2. ins'[w] = Audit!Idle /\ \A v \in Writers \ {w} : ins'[v] = ins[v]
      BY <1>5 DEF Audit!Skip, Audit!TypeOK
    <2> QED BY <2>1, <2>2 DEF InsertsAreNew
  <1>6. CASE Audit!Tick
    <2>1. UNCHANGED <<row, ins>> /\ now' = now + 1 /\ \A u : Audit!RowsOf(u)' = Audit!RowsOf(u)
      BY <1>6 DEF Audit!Tick, Audit!RowsOf
    <2>2. \A w \in Writers : ins[w] # Audit!Idle => ins[w].at = now
      BY <1>6 DEF Audit!Tick, Audit!InFlight
    <2> QED BY <1>a, <2>1, <2>2 DEF InsertsAreNew
  <1> QED BY <1>1, <1>2, <1>3, <1>4, <1>5, <1>6 DEF AuditSteps, auditVars, Audit!AnchorBegin,
          Audit!AnchorTenant, Audit!AnchorFails, Audit!ExportBegin, Audit!ExportPage

\* The rows of a day that is past, in terms of the clock.
LEMMA PastWindow ==
  ASSUME Audit!TypeOK, NEW d \in Nat, NEW w \in Writers, InsertsAreNew, Audit!Commit(w), 2 * d + 3 <= now
  PROVE  \A t : Audit!Window(d)' \cap Audit!RowsOf(t)' = Audit!Window(d) \cap Audit!RowsOf(t)
  <1>1. ins[w].at \in Nat /\ now <= ins[w].at + 1 /\ now \in Nat
    BY RowTypes DEF InsertsAreNew, Audit!Commit
  <1>2. Audit!Day(ins[w].at) # d
    <2>1. ins[w].at < 2 * Audit!Day(ins[w].at) + 2
      BY <1>1, DaysAndHours
    <2> QED BY <1>1, <2>1
  <1>3. Audit!Window(d)' = Audit!Window(d) /\ ins[w].id \notin Audit!Window(d)
    <2>1. Audit!Day(row'[ins[w].id].at) # d
      BY <1>2, CommitAdds
    <2>2. DOMAIN row' = (DOMAIN row) \cup {ins[w].id} /\ ins[w].id \notin DOMAIN row
          /\ \A j \in DOMAIN row : row'[j] = row[j]
      BY CommitAdds
    <2> QED BY <2>1, <2>2 DEF Audit!Window
  <1>4. \A t : \/ Audit!RowsOf(t)' = Audit!RowsOf(t)
               \/ Audit!RowsOf(t)' = Audit!RowsOf(t) \cup {ins[w].id}
    BY CommitGrows
  <1> QED BY <1>3, <1>4

\* What was anchored stays past, and what the anchors say stays true.
LEMMA AnchorsStep ==
  ASSUME Audit!TypeOK, InsertsAreNew, AnchorsArePast, Audit!AnchorsStayTrue, AuditSteps
  PROVE  AnchorsArePast' /\ Audit!AnchorsStayTrue'
  <1>a. now \in Nat /\ anchoring.day \in Nat /\ \A a \in anchors : a.day \in Nat
    BY RowTypes DEF Audit!TypeOK
  <1>1. CASE UNCHANGED <<now, row, anchoring, anchors>>
    BY <1>1 DEF AnchorsArePast, Audit!AnchorsStayTrue, Audit!Window, Audit!RowsOf
  <1>2. ASSUME NEW w \in Writers, Audit!Commit(w) PROVE AnchorsArePast' /\ Audit!AnchorsStayTrue'
    <2>1. UNCHANGED <<now, anchoring, anchors>>
      BY <1>2 DEF Audit!Commit
    <2>2. \A a \in anchors : a.rows = Audit!Window(a.day)' \cap Audit!RowsOf(a.tenant)'
      BY <1>a, <1>2, PastWindow DEF AnchorsArePast, Audit!AnchorsStayTrue
    <2>3. Audit!AnchorsStayTrue'
      BY <2>1, <2>2 DEF Audit!AnchorsStayTrue
    <2> QED BY <2>1, <2>3 DEF AnchorsArePast
  <1>3. CASE Audit!AnchorBegin
    <2>1. UNCHANGED <<now, row, anchors>> /\ Audit!AfterTwo(now) /\ now > 1
      BY <1>3 DEF Audit!AnchorBegin
    <2>2. Audit!Day(now) \in Nat /\ Audit!Day(now) >= 1 /\ 2 * Audit!Day(now) + 1 <= now
      <3>1. Audit!Day(now) \in Nat /\ now = 2 * Audit!Day(now) + 1
        BY <1>a, <2>1, DaysAndHours
      <3> QED BY <1>a, <2>1, <3>1
    <2>3. anchoring'.day = Audit!Day(now)
      BY <1>3, <2>2 DEF Audit!AnchorBegin
    <2>4. Audit!AnchorsStayTrue'
      BY <2>1 DEF Audit!AnchorsStayTrue, Audit!Window, Audit!RowsOf
    <2> QED BY <2>1, <2>2, <2>3, <2>4 DEF AnchorsArePast
  <1>4. ASSUME NEW t \in Tenants, Audit!AnchorTenant(t) \/ Audit!AnchorFails(t)
        PROVE  AnchorsArePast' /\ Audit!AnchorsStayTrue'
    <2>1. UNCHANGED <<now, row>> /\ anchoring.todo # {}
      BY <1>4 DEF Audit!AnchorTenant, Audit!AnchorFails
    <2>2. anchoring'.day = anchoring.day
      BY <1>4 DEF Audit!AnchorTenant, Audit!AnchorFails, Audit!TypeOK
    <2>3. \A a \in anchors' : \/ a \in anchors
                              \/ /\ a.day = anchoring.day - 1
                                 /\ a.rows = Audit!Window(a.day) \cap Audit!RowsOf(a.tenant)
      BY <1>4 DEF Audit!AnchorTenant, Audit!AnchorFails
    <2>4. AnchorsArePast'
      BY <1>a, <2>1, <2>2, <2>3 DEF AnchorsArePast
    <2>5. \A a \in anchors' : a.rows = Audit!Window(a.day) \cap Audit!RowsOf(a.tenant)
      BY <2>3 DEF Audit!AnchorsStayTrue
    <2>6. Audit!AnchorsStayTrue'
      BY <2>1, <2>5 DEF Audit!AnchorsStayTrue, Audit!Window, Audit!RowsOf
    <2> QED BY <2>4, <2>6
  <1>5. CASE Audit!Tick
    BY <1>a, <1>5 DEF Audit!Tick, AnchorsArePast, Audit!AnchorsStayTrue, Audit!Window, Audit!RowsOf
  <1> QED BY <1>1, <1>2, <1>3, <1>4, <1>5 DEF AuditSteps, auditVars, Audit!Log, Audit!Chain, Audit!Skip,
          Audit!ExportBegin, Audit!ExportPage

\* A row is linked to one that was there before it: the links end.
LEMMA LinksStep ==
  ASSUME Audit!TypeOK, InsertsAreNew, Audit!LinksReachGenesis, AuditSteps
  PROVE  Audit!LinksReachGenesis'
  <1>1. CASE row' = row
    BY <1>1 DEF Audit!LinksReachGenesis, Audit!RowsOf
  <1>2. ASSUME NEW w \in Writers, Audit!Commit(w) PROVE Audit!LinksReachGenesis'
    <2> DEFINE i == ins[w].id
    <2>1. /\ i \in Audit!Ids /\ i # Audit!Genesis /\ i \notin DOMAIN row /\ DOMAIN row' = (DOMAIN row) \cup {i}
          /\ row'[i].tenant = ins[w].tenant /\ row'[i].prev = ins[w].prev
          /\ \A j \in DOMAIN row : row'[j] = row[j]
          /\ \A t : Audit!RowsOf(t) \subseteq Audit!RowsOf(t)'
      BY <1>2, CommitAdds DEF Audit!Ids, Audit!Genesis
    <2>2. ins[w].prev \in {Audit!Genesis} \cup Audit!RowsOf(ins[w].tenant)
      BY <1>2 DEF InsertsAreNew, Audit!Commit
    <2>0. \A j \in DOMAIN row : row[j].prev \in {Audit!Genesis} \cup Audit!RowsOf(row[j].tenant)
      BY DEF Audit!LinksReachGenesis
    <2>3. \A j \in DOMAIN row' : 
             \/ row'[j].prev = Audit!Genesis
             \/ row'[j].prev \in DOMAIN row' /\ row'[row'[j].prev].tenant = row'[j].tenant
      <3>1. ASSUME NEW j \in DOMAIN row
            PROVE  \/ row[j].prev = Audit!Genesis
                   \/ row[j].prev \in DOMAIN row /\ row[row[j].prev].tenant = row[j].tenant
        BY <2>0 DEF Audit!RowsOf
      <3>2. \/ ins[w].prev = Audit!Genesis
            \/ ins[w].prev \in DOMAIN row /\ row[ins[w].prev].tenant = ins[w].tenant
        BY <2>2 DEF Audit!RowsOf
      <3> QED BY <2>1, <3>1, <3>2
    <2>4. \A j \in DOMAIN row' : row'[j].prev # i
      <3>1. \A t : i \notin Audit!RowsOf(t)
        BY <2>1 DEF Audit!RowsOf
      <3> QED BY <2>0, <2>1, <2>2, <3>1
    <2>5. ASSUME NEW S \in (SUBSET (DOMAIN row')) \ {{}}
          PROVE  \E j \in S : row'[j].prev \notin S
      <3>1. CASE S \ {i} = {}
        BY <2>4, <2>5, <3>1
      <3>2. CASE S \ {i} # {}
        <4>1. S \ {i} \in (SUBSET (DOMAIN row)) \ {{}}
          BY <2>1, <3>2
        <4>2. PICK j \in S \ {i} : row[j].prev \notin S \ {i}
          BY <4>1 DEF Audit!LinksReachGenesis
        <4>3. j \in DOMAIN row /\ row'[j] = row[j]
          BY <2>1, <4>1
        <4> QED BY <2>4, <4>2, <4>3, <2>1
      <3> QED BY <3>1, <3>2
    <2>6. \A S \in (SUBSET (DOMAIN row')) \ {{}} : \E j \in S : row'[j].prev \notin S
      BY <2>5
    <2> QED BY <2>3, <2>6 DEF Audit!LinksReachGenesis, Audit!RowsOf, Audit!Genesis
  <1> QED BY <1>1, <1>2 DEF AuditSteps, auditVars, Audit!Log, Audit!Chain, Audit!Skip, Audit!Tick,
          Audit!AnchorBegin, Audit!AnchorTenant, Audit!AnchorFails, Audit!ExportBegin, Audit!ExportPage


\* The rows of a tenant are rows.
LEMMA RowsOfTenant ==
  ASSUME NEW t
  PROVE  Audit!RowsOf(t) \in SUBSET (DOMAIN row)
  BY DEF Audit!RowsOf

\* Which row is the latest of a set is not changed by what is added outside it.
LEMMA LatestStays ==
  ASSUME NEW p, NEW S \in SUBSET (DOMAIN row), LatestIn(p, S), \A j \in DOMAIN row : row'[j] = row[j]
  PROVE  IF S = {} THEN p = Audit!Genesis
         ELSE p \in S /\ \A j \in S \ {p} : \/ row'[j].at < row'[p].at
                                            \/ row'[j].at = row'[p].at /\ j < p
  BY DEF LatestIn, Audit!Before

\* A commit in order of a tenant whose inserts did not overlap goes to the end of its chain.
LEMMA ChainGrows ==
  ASSUME Audit!TypeOK, InsertsAreNew, ChainsAreOrdered, NEW w \in Writers, Audit!Commit(w),
         NEW t \in Tenants \ disorder', NEW k \in Audit!RowsOf(t)'
  PROVE  LET S == {j \in Audit!RowsOf(t)' : \/ row'[j].at < row'[k].at
                                            \/ row'[j].at = row'[k].at /\ j < k}
             p == row'[k].prev
         IN  IF S = {} THEN p = Audit!Genesis
             ELSE p \in S /\ \A j \in S \ {p} : \/ row'[j].at < row'[p].at
                                                \/ row'[j].at = row'[p].at /\ j < p
  <1> DEFINE i == ins[w].id
             S == {j \in Audit!RowsOf(t)' : \/ row'[j].at < row'[k].at
                                            \/ row'[j].at = row'[k].at /\ j < k}
  <1>0. t \notin disorder
    BY DEF Audit!Commit
  <1>1. /\ \A j \in DOMAIN row : j \in Nat /\ row[j].at \in Nat
        /\ i \in Nat /\ ins[w].at \in Nat
    BY RowTypes DEF Audit!Commit
  <1>2. /\ i \notin DOMAIN row /\ DOMAIN row' = (DOMAIN row) \cup {i}
        /\ row'[i].at = ins[w].at /\ row'[i].prev = ins[w].prev
        /\ \A j \in DOMAIN row : row'[j] = row[j]
        /\ Audit!RowsOf(t)' = IF t = ins[w].tenant THEN Audit!RowsOf(t) \cup {i} ELSE Audit!RowsOf(t)
        /\ Audit!RowsOf(t) \in SUBSET (DOMAIN row)
    BY CommitAdds, RowsOfTenant
  <1>3. t = ins[w].tenant =>
          \A j \in Audit!RowsOf(t) : \/ row[j].at < ins[w].at
                                     \/ row[j].at = ins[w].at /\ j < i
    <2> SUFFICES ASSUME t = ins[w].tenant, NEW j \in Audit!RowsOf(t)
                 PROVE  \/ row[j].at < ins[w].at
                        \/ row[j].at = ins[w].at /\ j < i
      OBVIOUS
    <2>1. ~(ins[w].at < row[j].at) /\ ~(ins[w].at = row[j].at /\ i < j)
      BY CommitAdds
    <2>2. j \in DOMAIN row /\ j # i
      BY <1>2
    <2> QED BY <1>1, <2>1, <2>2
  <1>4. CASE k \in DOMAIN row
    <2>1. k \in Audit!RowsOf(t)
      BY <1>2, <1>4
    <2> DEFINE T == {j \in Audit!RowsOf(t) : Audit!Before(j, k)}
    <2>2. LatestIn(row[k].prev, T)
      BY <1>0, <2>1 DEF ChainsAreOrdered
    <2>3. T \in SUBSET (DOMAIN row)
      BY <1>2
    <2>4. S = T
      <3>1. \A j \in Audit!RowsOf(t) : j \in S <=> j \in T
        BY <1>2, <1>4 DEF Audit!Before
      <3>2. t = ins[w].tenant => i \notin S
        BY <1>1, <1>2, <1>3, <1>4, <2>1
      <3> QED BY <1>2, <3>1, <3>2
    <2>5. row'[k].prev = row[k].prev
      BY <1>2, <1>4
    <2> HIDE DEF S, T
    <2> QED BY <1>2, <2>2, <2>3, <2>4, <2>5, LatestStays DEF S
  <1>5. CASE k = i
    <2>1. t = ins[w].tenant
      BY <1>2, <1>5
    <2>2. LatestIn(ins[w].prev, Audit!RowsOf(t))
      BY <1>0, <2>1 DEF ChainsAreOrdered, Audit!Commit
    <2>3. S = Audit!RowsOf(t)
      <3>1. \A j \in Audit!RowsOf(t) : j \in S
        BY <1>2, <1>3, <1>5, <2>1
      <3>2. i \notin S
        BY <1>1, <1>2, <1>5
      <3> QED BY <1>2, <2>1, <3>1, <3>2
    <2>4. row'[k].prev = ins[w].prev
      BY <1>2, <1>5
    <2> HIDE DEF S
    <2> QED BY <1>2, <2>2, <2>3, <2>4, LatestStays DEF S
  <1> QED BY <1>2, <1>4, <1>5

\* The chains of tenants whose inserts did not overlap stay ordered.
LEMMA ChainsStep ==
  ASSUME Audit!TypeOK, InsertsAreNew, ChainsAreOrdered, AuditSteps
  PROVE  ChainsAreOrdered'
  <1>1. ASSUME UNCHANGED <<row, disorder>>,
               \A w \in Writers : \/ ins'[w] = ins[w] \/ ins'[w] = Audit!Idle
                                  \/ ins'[w].state # "chained"
        PROVE  ChainsAreOrdered'
    BY <1>1 DEF ChainsAreOrdered, LatestIn, Audit!RowsOf, Audit!Before
  <1>2. ASSUME NEW w \in Writers, NEW t \in Tenants, NEW i \in Audit!Ids, Audit!Log(w, t, i)
        PROVE  ChainsAreOrdered'
    <2>1. UNCHANGED <<row, disorder>>
      BY <1>2 DEF Audit!Log
    <2>2. \A v \in Writers : ins'[v] = ins[v] \/ ins'[v].state # "chained"
      BY <1>2, LogSends
    <2> QED BY <1>1, <2>1, <2>2
  <1>3. ASSUME NEW w \in Writers, Audit!Skip(w) PROVE ChainsAreOrdered'
    <2>1. UNCHANGED <<row, disorder>>
      BY <1>3 DEF Audit!Skip
    <2>2. \A v \in Writers : ins'[v] = ins[v] \/ ins'[v] = Audit!Idle
      BY <1>3 DEF Audit!Skip, Audit!TypeOK
    <2> QED BY <1>1, <2>1, <2>2
  <1>4. ASSUME NEW w \in Writers, Audit!Chain(w) PROVE ChainsAreOrdered'
    <2>1. /\ row' = row /\ disorder \subseteq disorder' /\ ins[w] # Audit!Idle
          /\ ins[w].tenant \notin disorder' =>
                \A v \in Writers : ins[v] # Audit!Idle /\ ins[v].state = "chained" => ins[v].tenant # ins[w].tenant
      BY <1>4 DEF Audit!Chain, Audit!InFlight
    <2>2. /\ ins'[w].tenant = ins[w].tenant /\ ins'[w].prev = Audit!Latest(ins[w].tenant)
          /\ \A v \in Writers \ {w} : ins'[v] = ins[v]
      BY <1>4, ChainLinks
    <2>3. LatestIn(ins'[w].prev, Audit!RowsOf(ins[w].tenant))
      <3>1. ins[w].tenant \in Tenants
        BY <2>1, RowTypes
      <3> QED BY <2>2, <3>1, LatestIsRead
    <2>4. \A v \in Writers : ins'[v] # Audit!Idle /\ ins'[v].state = "chained" /\ ins'[v].tenant \notin disorder' =>
             /\ LatestIn(ins'[v].prev, Audit!RowsOf(ins[v].tenant)) /\ ins'[v].tenant = ins[v].tenant
             /\ \A u \in Writers \ {v} :
                   ins'[u] # Audit!Idle /\ ins'[u].state = "chained" => ins'[u].tenant # ins'[v].tenant
      BY <2>1, <2>2, <2>3 DEF ChainsAreOrdered
    <2>5. \A t \in Tenants \ disorder' : \A i \in Audit!RowsOf(t) :
             LatestIn(row[i].prev, {j \in Audit!RowsOf(t) : Audit!Before(j, i)})
      BY <2>1 DEF ChainsAreOrdered
    <2> QED BY <2>1, <2>4, <2>5 DEF ChainsAreOrdered, LatestIn, Audit!RowsOf, Audit!Before
  <1>5. ASSUME NEW w \in Writers, Audit!Commit(w) PROVE ChainsAreOrdered'
    <2>1. \A t \in Tenants \ disorder' : \A i \in Audit!RowsOf(t)' :
             LatestIn(row[i].prev, {j \in Audit!RowsOf(t) : Audit!Before(j, i)})'
      BY <1>5, ChainGrows DEF LatestIn, Audit!Before
    <2>2. disorder \subseteq disorder'
      BY <1>5 DEF Audit!Commit
    <2>3. /\ ins'[w] = Audit!Idle /\ \A v \in Writers \ {w} : ins'[v] = ins[v]
          /\ ins[w] # Audit!Idle /\ ins[w].state = "chained"
          /\ \A j \in DOMAIN row : row'[j] = row[j]
          /\ \A t : t # ins[w].tenant => Audit!RowsOf(t)' = Audit!RowsOf(t)
      BY <1>5, CommitAdds
    <2>4. ASSUME NEW v \in Writers, ins'[v] # Audit!Idle, ins'[v].state = "chained",
                 ins'[v].tenant \notin disorder'
          PROVE  /\ LatestIn(ins[v].prev, Audit!RowsOf(ins[v].tenant))'
                 /\ \A u \in Writers \ {v} :
                       ins'[u] # Audit!Idle /\ ins'[u].state = "chained" => ins'[u].tenant # ins'[v].tenant
      <3>1. v # w /\ ins'[v] = ins[v]
        BY <2>3, <2>4
      <3>2. /\ LatestIn(ins[v].prev, Audit!RowsOf(ins[v].tenant))
            /\ \A u \in Writers \ {v} :
                  ins[u] # Audit!Idle /\ ins[u].state = "chained" => ins[u].tenant # ins[v].tenant
        BY <2>2, <2>4, <3>1 DEF ChainsAreOrdered
      <3> DEFINE t == ins[v].tenant
      <3>3. t # ins[w].tenant
        BY <2>3, <3>1, <3>2
      <3>4. Audit!RowsOf(t)' = Audit!RowsOf(t) /\ Audit!RowsOf(t) \in SUBSET (DOMAIN row)
        BY <2>3, <3>3, RowsOfTenant
      <3>5. \A u \in Writers \ {v} :
               ins'[u] # Audit!Idle /\ ins'[u].state = "chained" => ins'[u].tenant # ins'[v].tenant
        BY <2>3, <3>1, <3>2
      <3>6. LatestIn(ins[v].prev, Audit!RowsOf(ins[v].tenant))'
        BY <2>3, <3>1, <3>2, <3>4, LatestStays DEF LatestIn, Audit!Before, Audit!RowsOf
      <3> QED BY <3>5, <3>6
    <2> QED BY <2>1, <2>4 DEF ChainsAreOrdered
  <1>6. CASE UNCHANGED <<row, ins, disorder>>
    BY <1>1, <1>6
  <1> QED BY <1>2, <1>3, <1>4, <1>5, <1>6 DEF AuditSteps, auditVars, Audit!Tick, Audit!AnchorBegin,
          Audit!AnchorTenant, Audit!AnchorFails, Audit!ExportBegin, Audit!ExportPage


\* Ids in order: one after the other, each of S, and none of S left out.
LEMMA AscendingIs ==
  ASSUME NEW n \in Nat, NEW S \in SUBSET (1 .. n)
  PROVE  \E c \in Nat :
            /\ Audit!Ascending(S) \in [1 .. c -> S]
            /\ \A k, m \in 1 .. c : k < m => Audit!Ascending(S)[k] < Audit!Ascending(S)[m]
            /\ \A i \in S : \E k \in 1 .. c : Audit!Ascending(S)[k] = i
  <1> DEFINE c == Audit!Cardinality(S)
             rank(i) == Audit!Cardinality({j \in S : j <= i})
             place(i) == Rank(S, i)
  <1>1. Audit!Ascending(S) = [k \in 1 .. c |-> CHOOSE i \in S : rank(i) = k]
    BY DEF Audit!Ascending
  <1>a. c = Cardinality(S) /\ \A i \in S : rank(i) = place(i)
    BY AuditCardinality DEF Rank
  <1>b. /\ Cardinality(S) \in Nat
        /\ \A k \in 1 .. Cardinality(S) : \E i \in S : place(i) = k
        /\ \A i, j \in S : i < j <=> place(i) < place(j)
        /\ \A i \in S : place(i) \in 1 .. Cardinality(S)
    BY Ranks
  <1> HIDE DEF c, rank, place
  <1>2. /\ c \in Nat
        /\ \A k \in 1 .. c : \E i \in S : rank(i) = k
        /\ \A i, j \in S : i < j <=> rank(i) < rank(j)
        /\ \A i \in S : rank(i) \in 1 .. c
    BY <1>a, <1>b
  <1>3. \A i, j \in S : i \in Int /\ j \in Int
    OBVIOUS
  <1>4. \A k \in 1 .. c : Audit!Ascending(S)[k] \in S /\ rank(Audit!Ascending(S)[k]) = k
    BY <1>1, <1>2
  <1>5. Audit!Ascending(S) \in [1 .. c -> S]
    BY <1>1, <1>2
  <1>6. \A k, m \in 1 .. c : k < m => Audit!Ascending(S)[k] < Audit!Ascending(S)[m]
    BY <1>2, <1>4
  <1>7. \A i \in S : \E k \in 1 .. c : Audit!Ascending(S)[k] = i
    <2> SUFFICES ASSUME NEW i \in S PROVE Audit!Ascending(S)[rank(i)] = i
      BY <1>2
    <2> DEFINE j == Audit!Ascending(S)[rank(i)]
    <2>1. j \in S /\ rank(j) = rank(i) /\ rank(i) \in 1 .. c
      BY <1>2, <1>4
    <2> HIDE DEF j
    <2>2. ~(rank(i) < rank(j)) /\ ~(rank(j) < rank(i))
      BY <1>2, <2>1
    <2>3. ~(i < j) /\ ~(j < i)
      BY <1>2, <2>1, <2>2
    <2>4. i = j
      BY <1>3, <2>1, <2>3
    <2> QED BY <2>4 DEF j
  <1> QED BY <1>2, <1>5, <1>6, <1>7

\* The rows after the last that was read.
Remaining(t, out) == {i \in Audit!RowsOf(t) : out # <<>> => i > out[Len(out)]}

\* A page is the first of the remaining rows, and all of them if it is not full.
LEMMA PageIs ==
  ASSUME Audit!TypeOK, NEW t \in Tenants, NEW out \in Seq(Audit!Ids)
  PROVE  \E n \in 0 .. BatchSize :
            /\ Audit!Page(t, out) \in Seq(Audit!Ids) /\ Len(Audit!Page(t, out)) = n
            /\ \A k \in 1 .. n : Audit!Page(t, out)[k] \in Remaining(t, out)
            /\ \A k, m \in 1 .. n : k < m => Audit!Page(t, out)[k] < Audit!Page(t, out)[m]
            /\ \A i \in Remaining(t, out) :
                  \/ \E k \in 1 .. n : Audit!Page(t, out)[k] = i
                  \/ n = BatchSize /\ i > Audit!Page(t, out)[n]
  <1> DEFINE S == Remaining(t, out)
             a == Audit!Ascending(S)
             p == Audit!Page(t, out)
  <1>0. BatchSize \in Nat \ {0} /\ MaxRows \in Nat
    BY Assumptions DEF Audit!AuditAssumption
  <1>1. S \in SUBSET (1 .. MaxRows) /\ S \subseteq Audit!Ids
    BY RowTypes DEF Remaining, Audit!RowsOf, Audit!Ids
  <1>2. PICK c \in Nat :
            /\ a \in [1 .. c -> S]
            /\ \A k, m \in 1 .. c : k < m => a[k] < a[m]
            /\ \A i \in S : \E k \in 1 .. c : a[k] = i
    <2> HIDE DEF S
    <2> QED BY <1>0, <1>1, AscendingIs
  <1>3. a \in Seq(Audit!Ids) /\ Len(a) = c
    BY <1>1, <1>2
  <1>4. p = SubSeq(a, 1, IF BatchSize < Len(a) THEN BatchSize ELSE Len(a))
    BY DEF Audit!Page, Remaining
  <1> DEFINE n == IF BatchSize < c THEN BatchSize ELSE c
  <1>5. n \in 0 .. BatchSize /\ n <= c
    BY <1>0, <1>2
  <1>6. p \in Seq(Audit!Ids) /\ Len(p) = n /\ \A k \in 1 .. n : p[k] = a[k]
    <2> HIDE DEF a, p
    <2> QED BY <1>0, <1>2, <1>3, <1>4, <1>5
  <1>7. \A i \in S : \/ \E k \in 1 .. n : p[k] = i
                     \/ n = BatchSize /\ i > p[n]
    <2> SUFFICES ASSUME NEW i \in S
                 PROVE  \/ \E k \in 1 .. n : p[k] = i
                        \/ n = BatchSize /\ i > p[n]
      OBVIOUS
    <2>1. PICK k \in 1 .. c : a[k] = i
      BY <1>2
    <2>2. CASE k <= n
      BY <1>2, <1>5, <1>6, <2>1, <2>2
    <2>3. CASE n < k
      <3>1. n = BatchSize /\ n \in 1 .. c
        BY <1>0, <1>2, <2>1, <2>3
      <3>2. a[n] < a[k] /\ p[n] = a[n] /\ a[n] \in Int /\ a[k] \in Int
        BY <1>1, <1>2, <1>5, <1>6, <2>1, <2>3, <3>1
      <3> QED BY <2>1, <3>1, <3>2
    <2> QED BY <1>2, <1>5, <2>1, <2>2, <2>3
  <1> HIDE DEF a, p, S
  <1>8. /\ \A k \in 1 .. n : p[k] \in S
        /\ \A k, m \in 1 .. n : k < m => p[k] < p[m]
    BY <1>2, <1>5, <1>6
  <1> QED BY <1>5, <1>6, <1>7, <1>8 DEF p, S

\* What a page adds to the export.
LEMMA PageAdds ==
  ASSUME Audit!TypeOK, Audit!ExportPage
  PROVE  LET added == Audit!Page(export.tenant, export.out) IN
         /\ export # Audit!Idle /\ export.state = "open" /\ export \in Audit!Export
         /\ export' \in Audit!Export
         /\ export'.tenant = export.tenant /\ export'.there = export.there
         /\ export'.out = export.out \o added
         /\ export'.state = IF Len(added) < BatchSize THEN "done" ELSE "open"
  <1> DEFINE added == Audit!Page(export.tenant, export.out)
  <1>1. export # Audit!Idle /\ export.state = "open" /\ export \in Audit!Export
    BY DEF Audit!ExportPage, Audit!TypeOK
  <1>2. export.tenant \in Tenants /\ export.out \in Seq(Audit!Ids)
    BY <1>1 DEF Audit!Export
  <1>3. added \in Seq(Audit!Ids)
    BY <1>2, PageIs
  <1>4. PICK state : state = IF Len(added) < BatchSize THEN "done" ELSE "open"
    OBVIOUS
  <1>5. PICK out : out = export.out \o added
    OBVIOUS
  <1>6. out \in Seq(Audit!Ids) /\ state \in {"open", "done"}
    <2> HIDE DEF added
    <2> QED BY <1>2, <1>3, <1>4, <1>5
  <1>7. export' = [export EXCEPT !.out = out, !.state = state]
    BY <1>4, <1>5 DEF Audit!ExportPage
  <1>8. export' \in Audit!Export /\ export'.tenant = export.tenant /\ export'.there = export.there
        /\ export'.out = out /\ export'.state = state
    BY <1>1, <1>6, <1>7 DEF Audit!Export
  <1> QED BY <1>1, <1>4, <1>5, <1>8

\* The types of the audit log stay right.
LEMMA AuditTypesStep ==
  ASSUME Audit!TypeOK, InsertsAreNew, AnchorsArePast, AuditSteps
  PROVE  Audit!TypeOK'
  <1> USE DEF Audit!TypeOK
  <1>1. CASE UNCHANGED auditVars
    BY <1>1 DEF auditVars
  <1>2. ASSUME NEW w \in Writers, NEW t \in Tenants, NEW i \in Audit!Ids, Audit!Log(w, t, i)
        PROVE  Audit!TypeOK'
    BY <1>2, LogSends DEF Audit!Log
  <1>3. ASSUME NEW w \in Writers, Audit!Chain(w) PROVE Audit!TypeOK'
    <2>1. ins[w].tenant \in Tenants
      BY <1>3, RowTypes DEF Audit!Chain
    <2>2. disorder' \subseteq Tenants
      BY <1>3, <2>1 DEF Audit!Chain
    <2> QED BY <1>3, <2>2, ChainLinks DEF Audit!Chain
  <1>4. ASSUME NEW w \in Writers, Audit!Commit(w) PROVE Audit!TypeOK'
    <2>1. ins[w].tenant \in Tenants
      BY <1>4, RowTypes DEF Audit!Commit
    <2>2. disorder' \subseteq Tenants
      BY <1>4, <2>1 DEF Audit!Commit
    <2>3. /\ ins[w].id \in Audit!Ids /\ DOMAIN row' = (DOMAIN row) \cup {ins[w].id}
          /\ row'[ins[w].id] \in Audit!Row /\ \A j \in DOMAIN row : row'[j] = row[j]
          /\ ins' \in [Writers -> Audit!Insert \cup {Audit!Idle}]
      BY <1>4, CommitAdds
    <2>4. DOMAIN row' \subseteq Audit!Ids /\ \A j \in DOMAIN row' : row'[j] \in Audit!Row
      BY <2>3
    <2> QED BY <1>4, <2>2, <2>3, <2>4 DEF Audit!Commit
  <1>5. ASSUME NEW w \in Writers, Audit!Skip(w) PROVE Audit!TypeOK'
    BY <1>5 DEF Audit!Skip
  <1>6. CASE Audit!AnchorBegin
    <2>1. Audit!Day(now) \in Nat /\ 1 <= Audit!Day(now)
      <3>1. now > 1 /\ now \in Nat
        BY <1>6, RowTypes DEF Audit!AnchorBegin
      <3>2. Audit!Day(now) \in Nat /\ now < 2 * Audit!Day(now) + 2
        BY <3>1, DaysAndHours
      <3> QED BY <3>1, <3>2
    <2>2. {row[i].tenant : i \in Audit!Window(Audit!Day(now) - 1)} \subseteq Tenants
      BY RowTypes DEF Audit!Window
    <2>3. anchoring' \in [day : Nat, todo : SUBSET Tenants]
      BY <1>6, <2>1, <2>2 DEF Audit!AnchorBegin
    <2> QED BY <1>6, <2>3 DEF Audit!AnchorBegin
  <1>7. ASSUME NEW t \in Tenants, Audit!AnchorTenant(t) \/ Audit!AnchorFails(t) PROVE Audit!TypeOK'
    <2>1. anchoring' \in [day : Nat, todo : SUBSET Tenants]
      BY <1>7 DEF Audit!AnchorTenant, Audit!AnchorFails
    <2>2. anchors' \subseteq [tenant : Tenants, day : Nat, rows : SUBSET Audit!Ids]
      <3>1. anchoring.day \in Nat /\ anchoring.day >= 1
        BY <1>7 DEF AnchorsArePast, Audit!AnchorTenant, Audit!AnchorFails
      <3> DEFINE rows == Audit!Window(anchoring.day - 1) \cap Audit!RowsOf(t)
      <3>2. rows \in SUBSET Audit!Ids
        BY RowsOfTenant
      <3>3. [tenant |-> t, day |-> anchoring.day - 1, rows |-> rows] \in
               [tenant : Tenants, day : Nat, rows : SUBSET Audit!Ids]
        <4> HIDE DEF rows
        <4> QED BY <3>1, <3>2
      <3> QED BY <1>7, <3>3 DEF Audit!AnchorTenant, Audit!AnchorFails
    <2> QED BY <1>7, <2>1, <2>2 DEF Audit!AnchorTenant, Audit!AnchorFails
  <1>8. ASSUME NEW t \in Tenants, Audit!ExportBegin(t) PROVE Audit!TypeOK'
    <2>1. export' \in Audit!Export
      BY <1>8, RowsOfTenant DEF Audit!ExportBegin, Audit!Export
    <2> QED BY <1>8, <2>1 DEF Audit!ExportBegin
  <1>9. CASE Audit!ExportPage
    BY <1>9, PageAdds DEF Audit!ExportPage
  <1>10. CASE Audit!Tick
    BY <1>10, RowTypes DEF Audit!Tick, Audit!Time
  <1> QED BY <1>1, <1>2, <1>3, <1>4, <1>5, <1>6, <1>7, <1>8, <1>9, <1>10 DEF AuditSteps


\* Rows are not deleted.
LEMMA RowsStay ==
  ASSUME Audit!TypeOK, InsertsAreNew, AuditSteps, NEW t
  PROVE  Audit!RowsOf(t) \subseteq Audit!RowsOf(t)'
  <1>1. CASE row' = row
    BY <1>1 DEF Audit!RowsOf
  <1>2. ASSUME NEW w \in Writers, Audit!Commit(w) PROVE Audit!RowsOf(t) \subseteq Audit!RowsOf(t)'
    BY <1>2, CommitGrows
  <1> QED BY <1>1, <1>2 DEF AuditSteps, auditVars, Audit!Log, Audit!Chain, Audit!Skip, Audit!Tick,
          Audit!AnchorBegin, Audit!AnchorTenant, Audit!AnchorFails, Audit!ExportBegin, Audit!ExportPage

\* An export goes on in order, and leaves out none of the rows that were there.
LEMMA ExportStep ==
  ASSUME Audit!TypeOK, InsertsAreNew, ExportReads, AuditSteps
  PROVE  ExportReads'
  <1>1. CASE export' = export
    <2>2. CASE export = Audit!Idle
      BY <1>1, <2>2 DEF ExportReads
    <2>3. CASE export # Audit!Idle
      <3>1. PICK t : t = export.tenant
        OBVIOUS
      <3>2. export.there \subseteq Audit!RowsOf(t)'
        BY <2>3, <3>1, RowsStay DEF ExportReads
      <3> QED BY <1>1, <2>3, <3>1, <3>2 DEF ExportReads, Audit!RowsOf
    <2> QED BY <2>2, <2>3
  <1>2. ASSUME NEW t \in Tenants, Audit!ExportBegin(t) PROVE ExportReads'
    <2>1. /\ export'.state = "open" /\ export'.tenant = t /\ export'.out = <<>>
          /\ export'.there = Audit!RowsOf(t) /\ row' = row
      BY <1>2 DEF Audit!ExportBegin
    <2>2. Audit!RowsOf(t)' = Audit!RowsOf(t)
      BY <2>1 DEF Audit!RowsOf
    <2> QED BY <2>1, <2>2 DEF ExportReads, Audit!RowsOf
  <1>3. CASE Audit!ExportPage
    <2> DEFINE t == export.tenant
               out == export.out
               p == Audit!Page(t, out)
    <2>1. /\ export # Audit!Idle /\ export.state = "open" /\ t \in Tenants /\ out \in Seq(Audit!Ids)
          /\ export'.tenant = t /\ export'.there = export.there
          /\ export'.out = out \o p
          /\ export'.state = IF Len(p) < BatchSize THEN "done" ELSE "open"
      BY <1>3, PageAdds DEF Audit!Export
    <2>2. PICK n \in 0 .. BatchSize :
            /\ p \in Seq(Audit!Ids) /\ Len(p) = n
            /\ \A k \in 1 .. n : p[k] \in Remaining(t, out)
            /\ \A k, m \in 1 .. n : k < m => p[k] < p[m]
            /\ \A i \in Remaining(t, out) :
                  \/ \E k \in 1 .. n : p[k] = i
                  \/ n = BatchSize /\ i > p[n]
      BY <2>1, PageIs
    <2>3. /\ BatchSize \in Nat \ {0} /\ row' = row
          /\ \A i \in Audit!Ids : i \in Nat
      BY <1>3, Assumptions DEF Audit!AuditAssumption, Audit!ExportPage, Audit!Ids
    <2> HIDE DEF p
    <2>4. /\ Len(out \o p) = Len(out) + n /\ DOMAIN (out \o p) = 1 .. Len(out) + n
          /\ \A k \in 1 .. Len(out) : (out \o p)[k] = out[k]
          /\ \A k \in 1 .. n : (out \o p)[Len(out) + k] = p[k]
          /\ Len(out) \in Nat /\ DOMAIN out = 1 .. Len(out)
      <3>1. out \in Seq(Audit!Ids) /\ p \in Seq(Audit!Ids) /\ Len(p) = n
        BY <2>1, <2>2
      <3> HIDE DEF out
      <3>2. /\ Len(out) \in Nat /\ DOMAIN out = 1 .. Len(out) /\ Len(p) \in Nat
            /\ Len(out \o p) = Len(out) + Len(p) /\ DOMAIN (out \o p) = 1 .. Len(out) + Len(p)
            /\ \A k \in 1 .. Len(out) + Len(p) :
                  (out \o p)[k] = IF k <= Len(out) THEN out[k] ELSE p[k - Len(out)]
        BY <3>1
      <3>3. \A k \in 1 .. Len(p) : (out \o p)[Len(out) + k] = p[k]
        <4> TAKE k \in 1 .. Len(p)
        <4>1. Len(out) + k \in 1 .. Len(out) + Len(p) /\ ~ (Len(out) + k <= Len(out)) /\ Len(out) + k - Len(out) = k
          BY <3>2
        <4> QED BY <3>2, <4>1
      <3> QED BY <3>1, <3>2, <3>3
    <2>5. /\ export.there \subseteq Audit!RowsOf(t)
          /\ \A k, m \in 1 .. Len(out) : k < m => out[k] < out[m]
          /\ \A i \in export.there : \/ \E k \in 1 .. Len(out) : out[k] = i
                                     \/ out # <<>> => i > out[Len(out)]
      BY <2>1, <2>4 DEF ExportReads
    <2>6. \A k \in 1 .. n : out # <<>> => p[k] > out[Len(out)]
      BY <2>2 DEF Remaining
    <2>7. /\ \A k \in 1 .. Len(out) : out[k] \in Nat
          /\ \A k \in 1 .. n : p[k] \in Nat
      BY <2>1, <2>2, <2>3, <2>4
    <2>8. ASSUME NEW k \in 1 .. Len(out) + n, NEW m \in 1 .. Len(out) + n, k < m
          PROVE  (out \o p)[k] < (out \o p)[m]
      <3>1. CASE m <= Len(out)
        BY <2>4, <2>5, <2>8, <3>1
      <3>2. CASE k <= Len(out) /\ m > Len(out)
        <4>1. m - Len(out) \in 1 .. n /\ m = Len(out) + (m - Len(out)) /\ out # <<>>
          BY <2>1, <2>2, <2>4, <3>2
        <4>2. (out \o p)[m] > out[Len(out)] /\ (out \o p)[m] \in Nat
          BY <2>4, <2>6, <2>7, <4>1
        <4>3. out[k] <= out[Len(out)] /\ out[k] \in Nat /\ out[Len(out)] \in Nat
          <5>1. k \in 1 .. Len(out) /\ Len(out) \in 1 .. Len(out)
            BY <2>4, <3>2
          <5>2. out[k] \in Nat /\ out[Len(out)] \in Nat
            BY <2>7, <5>1
          <5>3. CASE k < Len(out)
            BY <2>5, <5>1, <5>2, <5>3
          <5>4. CASE k = Len(out)
            BY <5>2, <5>4
          <5> QED BY <2>4, <5>1, <5>2, <5>3, <5>4
        <4> QED BY <2>4, <3>2, <4>2, <4>3
      <3>3. CASE k > Len(out)
        <4>1. /\ m - Len(out) \in 1 .. n /\ m = Len(out) + (m - Len(out))
              /\ k - Len(out) \in 1 .. n /\ k = Len(out) + (k - Len(out))
          BY <2>2, <2>4, <2>8, <3>3
        <4>2. (out \o p)[k] = p[k - Len(out)] /\ (out \o p)[m] = p[m - Len(out)]
          BY <2>4, <4>1
        <4> QED BY <2>2, <2>4, <2>8, <4>1, <4>2
      <3> QED BY <2>4, <3>1, <3>2, <3>3
    <2>9. ASSUME NEW i \in export.there, \A k \in 1 .. Len(out) + n : (out \o p)[k] # i
          PROVE  export'.state = "open" /\ (out \o p # <<>> => i > (out \o p)[Len(out \o p)])
      <3>1. out # <<>> => i > out[Len(out)]
        <4>1. \A k \in 1 .. Len(out) : out[k] # i
          BY <2>2, <2>4, <2>9
        <4> QED BY <2>5, <4>1
      <3>2. i \in Remaining(t, out)
        BY <2>5, <3>1 DEF Remaining
      <3>3. \A k \in 1 .. n : p[k] # i
        <4> TAKE k \in 1 .. n
        <4>1. Len(out) + k \in 1 .. Len(out) + n
          BY <2>2, <2>4
        <4> QED BY <2>4, <2>9, <4>1
      <3>4. n = BatchSize /\ i > p[n]
        BY <2>2, <3>2, <3>3
      <3>5. (out \o p)[Len(out \o p)] = p[n]
        BY <2>3, <2>4, <3>4
      <3> QED BY <2>1, <2>2, <2>3, <3>4, <3>5
    <2>11. export'.there \subseteq Audit!RowsOf(export.tenant)'
      BY <2>1, <2>5, <2>3 DEF Audit!RowsOf
    <2>12. \A m, k \in DOMAIN export'.out : m < k => export'.out[m] < export'.out[k]
      BY <2>1, <2>4, <2>8
    <2>13. \A i \in export'.there :
              \/ \E k \in DOMAIN export'.out : export'.out[k] = i
              \/ /\ export'.state = "open"
                 /\ export'.out # <<>> => i > export'.out[Len(export'.out)]
      BY <2>1, <2>4, <2>9
    <2> QED BY <2>1, <2>3, <2>11, <2>12, <2>13 DEF ExportReads, Audit!RowsOf
  <1> QED BY <1>1, <1>2, <1>3 DEF AuditSteps, auditVars, Audit!Log, Audit!Chain, Audit!Commit, Audit!Skip,
          Audit!Tick, Audit!AnchorBegin, Audit!AnchorTenant, Audit!AnchorFails


\* Every step of the audit log keeps what holds.
LEMMA AuditInvStep ==
  ASSUME AuditInv, [Audit!Next]_auditVars
  PROVE  AuditInv'
  BY AuditStepsAre, AuditTypesStep, InsertsAreNewStep, AnchorsStep, LinksStep, ChainsStep, ExportStep
  DEF AuditInv

\* The log begins empty, before the first day is over.
LEMMA AuditBegins ==
  ASSUME Audit!Init
  PROVE  AuditInv
  <1>1. /\ DOMAIN row = {} /\ anchors = {} /\ export = Audit!Idle /\ disorder = {} /\ now = 0
        /\ anchoring = [day |-> 0, todo |-> {}]
        /\ ins = [w \in Writers |-> Audit!Idle]
    BY DEF Audit!Init
  <1>2. MaxNow \in Nat
    BY Assumptions DEF Audit!AuditAssumption
  <1>3. Audit!TypeOK
    BY <1>1, <1>2 DEF Audit!TypeOK, Audit!Time
  <1>4. \A t : Audit!RowsOf(t) = {}
    BY <1>1 DEF Audit!RowsOf
  <1>5. InsertsAreNew /\ AnchorsArePast /\ ExportReads
    BY <1>1 DEF InsertsAreNew, AnchorsArePast, ExportReads
  <1>6. ChainsAreOrdered
    BY <1>1, <1>4 DEF ChainsAreOrdered
  <1>7. Audit!LinksReachGenesis
    BY <1>1 DEF Audit!LinksReachGenesis
  <1>8. Audit!AnchorsStayTrue
    BY <1>1 DEF Audit!AnchorsStayTrue
  <1> QED BY <1>3, <1>5, <1>6, <1>7, <1>8 DEF AuditInv

\* What holds of the log implies its properties.
LEMMA AuditInvSuffices ==
  ASSUME AuditInv
  PROVE  Audit!TypeOK /\ Audit!AuditIsSound
  <1>0. Audit!TypeOK /\ Audit!LinksReachGenesis /\ Audit!AnchorsStayTrue
    BY DEF AuditInv
  <1>1. Audit!OrderedInsertsMakeAChain
    <2> SUFFICES ASSUME NEW t \in Tenants \ disorder, NEW i \in Audit!RowsOf(t)
                 PROVE  LET earlier == {j \in Audit!RowsOf(t) : Audit!Before(j, i)}
                        IN row[i].prev = IF earlier = {} THEN Audit!Genesis
                                         ELSE CHOOSE j \in earlier : \A k \in earlier \ {j} : Audit!Before(k, j)
      BY DEF Audit!OrderedInsertsMakeAChain
    <2> DEFINE earlier == {j \in Audit!RowsOf(t) : Audit!Before(j, i)}
    <2>1. LatestIn(row[i].prev, earlier)
      BY DEF AuditInv, ChainsAreOrdered
    <2>2. earlier \in SUBSET (DOMAIN row)
      BY RowsOfTenant
    <2>3. CASE earlier = {}
      BY <2>1, <2>3 DEF LatestIn
    <2>4. CASE earlier # {}
      <3> DEFINE last == CHOOSE j \in earlier : \A k \in earlier \ {j} : Audit!Before(k, j)
      <3> HIDE DEF earlier
      <3>1. last \in earlier /\ \A k \in earlier \ {last} : Audit!Before(k, last)
        BY <1>0, <2>2, <2>4, LatestExists
      <3>2. LatestIn(last, earlier)
        BY <2>4, <3>1 DEF LatestIn
      <3>3. row[i].prev = last
        BY <1>0, <2>1, <2>2, <3>2, LatestIsUnique
      <3> QED BY <2>4, <3>3 DEF earlier
    <2> QED BY <2>3, <2>4
  <1>2. Audit!ExportIsComplete
    <2> SUFFICES ASSUME export # Audit!Idle
                 PROVE  /\ \A m, n \in DOMAIN export.out : m < n => export.out[m] < export.out[n]
                        /\ export.state = "done" => export.there \subseteq {export.out[k] : k \in DOMAIN export.out}
      BY DEF Audit!ExportIsComplete
    <2> QED BY DEF AuditInv, ExportReads
  <1> QED BY <1>0, <1>1, <1>2 DEF Audit!AuditIsSound

-------------------------------------------------------------------------------
(* The hierarchy: nodes, imports and subtrees.                               *)

\* Tables of nodes, and those that are trees.
Tables == UNION {[D -> Hierarchy!Node] : D \in SUBSET Codes}

IsTree(t) == t \in Tables /\ Hierarchy!PathsFollow(t) /\ Hierarchy!GroupsAreRoots(t)

\* What holds of the hierarchy at every step.
HierarchyInv ==
    /\ IsTree(node)
    /\ uploaded.before \in Tables
    /\ uploaded.rows \in Seq(Hierarchy!Row)

\* What a table is.
LEMMA TableIs ==
  ASSUME NEW t \in Tables
  PROVE  /\ DOMAIN t \subseteq Codes
         /\ t = [c \in DOMAIN t |-> t[c]]
         /\ \A c \in DOMAIN t : /\ t[c] \in Hierarchy!Node
                                /\ t[c].parent \in Codes \cup {NoCode}
                                /\ t[c].path \in Seq(Labels)
                                /\ t[c].type \in Hierarchy!EntityTypes
  <1>1. PICK D \in SUBSET Codes : t \in [D -> Hierarchy!Node]
    BY DEF Tables
  <1>2. DOMAIN t = D /\ t = [c \in DOMAIN t |-> t[c]] /\ \A c \in D : t[c] \in Hierarchy!Node
    BY <1>1
  <1> QED BY <1>2 DEF Hierarchy!Node

\* A code is some labels, and no other code is the same ones.
LEMMA LabelsAre ==
  ASSUME NEW c \in Codes
  PROVE  /\ LabelsOf[c] \in Seq(Labels) /\ Len(LabelsOf[c]) \in Nat \ {0}
         /\ \A d \in Codes : LabelsOf[c] = LabelsOf[d] => c = d
  <1>1. LabelsOf \in [Codes -> Seq(Labels) \ {<<>>}]
        /\ \A d \in Codes : LabelsOf[c] = LabelsOf[d] => c = d
    BY Assumptions DEF Assumptions, Hierarchy!HierarchyAssumption
  <1>2. LabelsOf[c] \in Seq(Labels) /\ LabelsOf[c] # <<>>
    BY <1>1
  <1> QED BY <1>1, <1>2

\* A table with one node more.
LEMMA WithIs ==
  ASSUME NEW t \in Tables, NEW c \in Codes, NEW n \in Hierarchy!Node
  PROVE  /\ Hierarchy!With(t, c, n) \in Tables
         /\ DOMAIN Hierarchy!With(t, c, n) = (DOMAIN t) \cup {c}
         /\ Hierarchy!With(t, c, n)[c] = n
         /\ \A d \in DOMAIN t : d # c => Hierarchy!With(t, c, n)[d] = t[d]
  <1> DEFINE w == Hierarchy!With(t, c, n)
  <1>1. /\ DOMAIN w = (DOMAIN t) \cup {c}
        /\ w = [d \in DOMAIN w |-> w[d]]
        /\ w[c] = n
        /\ \A d \in DOMAIN t : d # c => w[d] = t[d]
    BY DEF Hierarchy!With
  <1> HIDE DEF w
  <1>2. w \in [DOMAIN w -> Hierarchy!Node] /\ DOMAIN w \in SUBSET Codes
    BY <1>1, TableIs
  <1>3. w \in Tables
    BY <1>2 DEF Tables
  <1> QED BY <1>1, <1>3 DEF w

\* A row may be attached to the nodes there are.
Fits(r, t) ==
    \/ r.parentCode = NoCode
    \/ /\ r.parentCode \in DOMAIN t
       /\ Hierarchy!MayBeChild(r.type, t[r.parentCode])

NodeOf(r, t) == Hierarchy!NewNode(t, r.code, r.parentCode, r.type)

\* What a row is.
LEMMA RowIs ==
  ASSUME NEW r \in Hierarchy!Row
  PROVE  /\ r.code \in Codes
         /\ r.parentCode \in Codes \cup {NoCode}
         /\ r.type \in Hierarchy!NodeTypes
  BY DEF Hierarchy!Row

\* The node of a row is one.
LEMMA NewNodeIs ==
  ASSUME NEW t \in Tables, NEW c \in Codes, NEW p \in Codes \cup {NoCode}, NEW ty \in Hierarchy!NodeTypes,
         p = NoCode \/ p \in DOMAIN t
  PROVE  Hierarchy!NewNode(t, c, p, ty) \in Hierarchy!Node
  <1> DEFINE n == Hierarchy!NewNode(t, c, p, ty)
             path == Hierarchy!NewPath(t, c, p)
  <1>1. path \in Seq(Labels)
    <2>1. CASE p = NoCode
      BY <2>1, LabelsAre DEF Hierarchy!NewPath
    <2>2. CASE p # NoCode
      <3>1. t[p].path \in Seq(Labels) /\ LabelsOf[c] \in Seq(Labels)
        BY <2>2, TableIs, LabelsAre
      <3>2. path = t[p].path \o LabelsOf[c]
        BY <2>2 DEF Hierarchy!NewPath
      <3> QED BY <3>1, <3>2
    <2> QED BY <2>1, <2>2
  <1>2. Hierarchy!mapNodeTypeToEntityType(ty) \in Hierarchy!EntityTypes
    BY DEF Hierarchy!mapNodeTypeToEntityType, Hierarchy!NodeTypes, Hierarchy!EntityTypes
  <1> HIDE DEF path
  <1>3. n = [parent |-> p, path |-> path, type |-> Hierarchy!mapNodeTypeToEntityType(ty)]
    BY DEF path, Hierarchy!NewNode
  <1> HIDE DEF n
  <1>4. n \in Hierarchy!Node
    BY <1>1, <1>2, <1>3 DEF Hierarchy!Node
  <1> QED BY <1>4 DEF n

\* A tree with a node more, that may be where it is, is a tree.
LEMMA TreeGrows ==
  ASSUME Hierarchy!HierarchyAssumption, NEW t, IsTree(t),
         NEW c \in Codes \ DOMAIN t, NEW p \in Codes \cup {NoCode}, NEW ty \in Hierarchy!NodeTypes,
         p # NoCode => p \in DOMAIN t /\ Hierarchy!MayBeChild(ty, t[p])
  PROVE  IsTree(Hierarchy!With(t, c, Hierarchy!NewNode(t, c, p, ty)))
  <1> DEFINE n == Hierarchy!NewNode(t, c, p, ty)
             w == Hierarchy!With(t, c, n)
  <1>0. t \in Tables
    BY DEF IsTree
  <1>1. n \in Hierarchy!Node
    BY <1>0, NewNodeIs
  <1>2. /\ n.parent = p
        /\ n.path = IF p = NoCode THEN LabelsOf[c] ELSE t[p].path \o LabelsOf[c]
        /\ n.type = Hierarchy!mapNodeTypeToEntityType(ty)
    BY DEF Hierarchy!NewNode, Hierarchy!NewPath
  <1> HIDE DEF n
  <1>3. /\ w \in Tables /\ DOMAIN w = (DOMAIN t) \cup {c} /\ w[c] = n
        /\ \A d \in DOMAIN t : w[d] = t[d]
    <2>1. c \in Codes /\ \A d \in DOMAIN t : d # c
      OBVIOUS
    <2>2. /\ w \in Tables /\ DOMAIN w = (DOMAIN t) \cup {c} /\ w[c] = n
          /\ \A d \in DOMAIN t : d # c => w[d] = t[d]
      BY <1>0, <1>1, <2>1, WithIs
    <2> QED BY <2>1, <2>2
  <1> HIDE DEF w
  <1>4. Hierarchy!PathsFollow(w)
    <2> SUFFICES ASSUME NEW d \in DOMAIN w
                 PROVE  IF w[d].parent = NoCode THEN w[d].path = LabelsOf[d]
                        ELSE w[d].parent \in DOMAIN w /\ w[d].path = w[w[d].parent].path \o LabelsOf[d]
      BY DEF Hierarchy!PathsFollow
    <2>1. CASE d = c
      <3>1. CASE p = NoCode
        BY <1>2, <1>3, <2>1, <3>1
      <3>2. CASE p # NoCode
        BY <1>2, <1>3, <2>1, <3>2
      <3> QED BY <3>1, <3>2
    <2>2. CASE d # c
      <3>1. d \in DOMAIN t /\ w[d] = t[d]
        BY <1>3, <2>2
      <3>2. IF t[d].parent = NoCode THEN t[d].path = LabelsOf[d]
            ELSE t[d].parent \in DOMAIN t /\ t[d].path = t[t[d].parent].path \o LabelsOf[d]
        BY <3>1 DEF IsTree, Hierarchy!PathsFollow
      <3> QED BY <1>3, <3>1, <3>2
    <2> QED BY <2>1, <2>2
  <1>5. Hierarchy!GroupsAreRoots(w)
    <2>1. n.type = "GROUP" => ty = "GROUP"
      BY <1>2 DEF Hierarchy!mapNodeTypeToEntityType, Hierarchy!NodeTypes
    <2>2. ty = "GROUP" => p = NoCode
      BY DEF Hierarchy!MayBeChild, Hierarchy!ALLOWED_PARENTS
    <2> QED BY <1>2, <1>3, <2>1, <2>2 DEF IsTree, Hierarchy!GroupsAreRoots
  <1>6. IsTree(w)
    BY <1>3, <1>4, <1>5 DEF IsTree
  <1> QED BY <1>6 DEF w, n

\* What holds of all numbers up to n.
LEMMA UpTo ==
  ASSUME NEW n \in Nat, NEW P, 0 \in P, \A i \in 1 .. n : i - 1 \in P => i \in P
  PROVE  0 .. n \subseteq P
  <1> DEFINE T == {i \in 0 .. n : i \notin P}
  <1> SUFFICES ASSUME T # {} PROVE FALSE
    OBVIOUS
  <1>1. T \in SUBSET Nat
    OBVIOUS
  <1>2. PICK i \in T : \A j \in T : i <= j
    <2> HIDE DEF T
    <2> QED BY <1>1, LeastNumber
  <1>3. i \in 1 .. n /\ i - 1 \in 0 .. n /\ i - 1 \notin T
    BY <1>2
  <1> QED BY <1>3

-------------------------------------------------------------------------------
\* What an import has got to, and a function of the rows done to that.
States == [nodes : Tables, aborted : BOOLEAN]

IsImport(g, t, rows) ==
    /\ g \in [0 .. Len(rows) -> States]
    /\ g[0] = [nodes |-> t, aborted |-> FALSE]
    /\ \A i \in 1 .. Len(rows) : g[i] = Hierarchy!ImportRow(g[i - 1], rows[i])

\* What a row does.
LEMMA ImportRowIs ==
  ASSUME NEW s \in States, NEW r \in Hierarchy!Row
  PROVE  /\ Hierarchy!ImportRow(s, r) \in States
         /\ s.aborted => Hierarchy!ImportRow(s, r) = s
         /\ ~s.aborted /\ ~Fits(r, s.nodes) => Hierarchy!ImportRow(s, r) = s
         /\ ~s.aborted /\ Fits(r, s.nodes) /\ r.code \in DOMAIN s.nodes => Hierarchy!ImportRow(s, r).aborted
         /\ ~s.aborted /\ Fits(r, s.nodes) /\ r.code \notin DOMAIN s.nodes =>
               /\ ~Hierarchy!ImportRow(s, r).aborted
               /\ Hierarchy!ImportRow(s, r).nodes = Hierarchy!With(s.nodes, r.code, NodeOf(r, s.nodes))
  <1> DEFINE t == Hierarchy!ImportRow(s, r)
             w == Hierarchy!With(s.nodes, r.code, NodeOf(r, s.nodes))
             skip == \/ s.aborted
                     \/ /\ r.parentCode # NoCode
                        /\ \/ r.parentCode \notin DOMAIN s.nodes
                           \/ ~Hierarchy!MayBeChild(r.type, s.nodes[r.parentCode])
  <1>1. skip <=> s.aborted \/ ~Fits(r, s.nodes)
    BY DEF Fits
  <1>2. t = IF skip THEN s
            ELSE IF r.code \in DOMAIN s.nodes THEN [s EXCEPT !.aborted = TRUE]
            ELSE [s EXCEPT !.nodes = w]
    BY DEF Hierarchy!ImportRow, NodeOf
  <1>3. s.nodes \in Tables /\ s.aborted \in BOOLEAN /\ s = [nodes |-> s.nodes, aborted |-> s.aborted]
    BY DEF States
  <1> HIDE DEF t, skip
  <1>4. CASE s.aborted \/ ~Fits(r, s.nodes)
    BY <1>1, <1>2, <1>4 DEF t
  <1>5. CASE ~s.aborted /\ Fits(r, s.nodes) /\ r.code \in DOMAIN s.nodes
    <2>1. t = [s EXCEPT !.aborted = TRUE]
      BY <1>1, <1>2, <1>5
    <2>2. t.aborted /\ t \in States
      BY <1>3, <2>1 DEF States
    <2> QED BY <1>5, <2>2 DEF t
  <1>6. CASE ~s.aborted /\ Fits(r, s.nodes) /\ r.code \notin DOMAIN s.nodes
    <2>1. NodeOf(r, s.nodes) \in Hierarchy!Node
      BY <1>3, <1>6, RowIs, NewNodeIs DEF NodeOf, Fits
    <2>2. w \in Tables
      BY <1>3, <2>1, RowIs, WithIs
    <2> HIDE DEF w
    <2>3. t = [s EXCEPT !.nodes = w]
      BY <1>1, <1>2, <1>6
    <2>4. t.nodes = w /\ t.aborted = s.aborted /\ t \in States
      BY <1>3, <2>2, <2>3 DEF States
    <2> QED BY <1>6, <2>4 DEF t, w
  <1> QED BY <1>4, <1>5, <1>6

\* There is such a function, and the import ends with its last value.
LEMMA ImportRowsIs ==
  ASSUME NEW t \in Tables, NEW rows \in Seq(Hierarchy!Row)
  PROVE  \E g : IsImport(g, t, rows) /\ Hierarchy!ImportRows(t, rows) = g[Len(rows)]
  <1> DEFINE n == Len(rows)
             D == 0 .. n
             R == {p \in D \X D : p[1] < p[2]}
             first == [nodes |-> t, aborted |-> FALSE]
             Step(g, i) == IF i = 0 THEN first ELSE Hierarchy!ImportRow(g[i - 1], rows[i])
             H == [p \in [D -> States] \X D |-> Step(p[1], p[2])]
  <1>0. n \in Nat /\ \A i \in D : i # 0 => i - 1 \in D /\ <<i - 1, i>> \in R /\ rows[i] \in Hierarchy!Row
    OBVIOUS
  <1>1. first \in States
    BY DEF States
  <1>2. \A g \in [D -> States], i \in D : Step(g, i) \in States
    <2> SUFFICES ASSUME NEW g \in [D -> States], NEW i \in D PROVE Step(g, i) \in States
      OBVIOUS
    <2> HIDE DEF D, R, first
    <2>1. CASE i = 0
      BY <1>1, <2>1
    <2>2. CASE i # 0
      BY <1>0, <2>2, ImportRowIs
    <2> QED BY <2>1, <2>2
  <1>3. WellOrdered(D, R)
    <2>1. ASSUME NEW P \in SUBSET D, P # {} PROVE \E x \in P : \A y \in P : <<y, x>> \notin R
      <3>1. P \in SUBSET Nat
        OBVIOUS
      <3>2. PICK x \in P : \A y \in P : x <= y
        <4> HIDE DEF R, D
        <4> QED BY <2>1, <3>1, LeastNumber
      <3> QED BY <3>2
    <2>2. \A x \in D : <<x, x>> \notin R
      OBVIOUS
    <2>3. \A x, y, z \in D : <<x, y>> \in R /\ <<y, z>> \in R => <<x, z>> \in R
      OBVIOUS
    <2> QED BY <2>1, <2>2, <2>3 DEF WellOrdered
  <1> HIDE DEF D, R, first
  <1>4. \A g \in [D -> States], i \in D : H[g, i] = Step(g, i)
    OBVIOUS
  <1>5. Depends(H, D, States, R)
    <2>1. H \in [[D -> States] \X D -> States]
      BY <1>2
    <2>2. ASSUME NEW i \in D, NEW g \in [D -> States], NEW h \in [D -> States],
                 \A j \in D : <<j, i>> \in R => g[j] = h[j]
          PROVE  H[g, i] = H[h, i]
      <3>1. i # 0 => g[i - 1] = h[i - 1]
        BY <1>0, <2>2
      <3>2. Step(g, i) = Step(h, i)
        BY <3>1
      <3> QED BY <1>4, <3>2
    <2> HIDE DEF H
    <2> QED BY <2>1, <2>2 DEF Depends
  <1> HIDE DEF H
  <1>6. PICK g : IsSolution(g, H, D, States)
    BY <1>1, <1>3, <1>5, Recursion
  <1>7. g \in [D -> States] /\ \A i \in D : g[i] = Step(g, i)
    BY <1>4, <1>6 DEF IsSolution
  <1> DEFINE IsIt(f) == f = [i \in 0 .. n |-> IF i = 0 THEN [nodes |-> t, aborted |-> FALSE]
                                              ELSE Hierarchy!ImportRow(f[i - 1], rows[i])]
             after == CHOOSE f : IsIt(f)
  <1>8. IsIt(g)
    BY <1>7 DEF D, first
  <1>9. IsIt(after)
    <2> HIDE DEF IsIt
    <2> QED BY <1>8
  <1>10. Hierarchy!ImportRows(t, rows) = after[n]
    BY DEF Hierarchy!ImportRows
  <1>11. \A i \in D : after[i] = Step(after, i)
    BY <1>9 DEF D, first
  <1>12. DOMAIN after = D /\ after = [i \in D |-> after[i]]
    BY <1>9 DEF D
  <1> HIDE DEF after
  <1>13. after[0] = first
    BY <1>0, <1>11 DEF D
  <1>14. \A i \in 1 .. n : after[i] = Hierarchy!ImportRow(after[i - 1], rows[i])
    <2> SUFFICES ASSUME NEW i \in 1 .. n PROVE after[i] = Hierarchy!ImportRow(after[i - 1], rows[i])
      OBVIOUS
    <2>1. i \in D /\ i # 0
      BY DEF D
    <2> QED BY <1>11, <2>1
  <1>15. D \subseteq {i \in D : after[i] \in States}
    <2> DEFINE P == {i \in D : after[i] \in States}
    <2>1. 0 \in P
      BY <1>0, <1>1, <1>13 DEF D
    <2>2. ASSUME NEW i \in 1 .. n, i - 1 \in P PROVE i \in P
      <3>1. i \in D /\ rows[i] \in Hierarchy!Row
        BY DEF D
      <3> QED BY <1>14, <2>2, <3>1, ImportRowIs
    <2> HIDE DEF P
    <2>3. 0 .. n \subseteq P
      BY <1>0, <2>1, <2>2, UpTo
    <2> QED BY <2>3 DEF P, D
  <1>16. after \in [D -> States]
    BY <1>12, <1>15
  <1>17. IsImport(after, t, rows)
    BY <1>13, <1>14, <1>16 DEF IsImport, D, first
  <1> QED BY <1>10, <1>17

\* The formulas that stand for the rows.
Formulas(rows) == [i \in DOMAIN rows |-> Hierarchy!AsFormula(rows[i])]

UniqueCodes(rows) == \A i, j \in DOMAIN rows : rows[i].code = rows[j].code => i = j

\* order has the same rows, each after that of its parent, if there is one.
IsOrder(order, rows) ==
    /\ order \in Seq(Hierarchy!Row)
    /\ {order[i] : i \in DOMAIN order} = {rows[i] : i \in DOMAIN rows}
    /\ UniqueCodes(order)
    /\ \A i, j \in DOMAIN order : order[i].parentCode = order[j].code => j < i

\* The search of the hierarchy is that of FormulaOrder.
LEMMA SameSearch ==
  ASSUME NEW fs
  PROVE  /\ Hierarchy!TopoSort(fs) = TopoSort(fs)
         /\ Hierarchy!Cyclic(fs) = Cyclic(fs)
         /\ Hierarchy!Range(fs) = Range(fs)
  <1>1. Hierarchy!TopoSort(fs) = TopoSort(fs)
    BY DEF Hierarchy!TopoSort, Hierarchy!VisitAll, TopoSort, VisitAll, Hierarchy!Undefined, Undefined,
       Hierarchy!Calls, Calls, Hierarchy!Search, Search, Hierarchy!Range, Range, Hierarchy!OutputKeys, OutputKeys,
       Hierarchy!Dependencies, Dependencies, Hierarchy!ByKey, ByKey, Hierarchy!HasFormula, HasFormula,
       Hierarchy!Visited, Visited
  <1>2. Hierarchy!Cyclic(fs) = Cyclic(fs)
    BY DEF Hierarchy!Cyclic, Cyclic, Hierarchy!Edges, Edges, Hierarchy!OutputKeys, OutputKeys, Hierarchy!Range, Range
  <1>3. Hierarchy!Range(fs) = Range(fs)
    BY DEF Hierarchy!Range, Range
  <1> QED BY <1>1, <1>2, <1>3

\* The formula of a row.
LEMMA FormulaOfRow ==
  ASSUME NEW r \in Hierarchy!Row
  PROVE  /\ Hierarchy!AsFormula(r) # Undefined
         /\ Hierarchy!AsFormula(r).id = r
         /\ Hierarchy!AsFormula(r).out = r.code
         /\ Hierarchy!AsFormula(r).in \in Seq(Range(Hierarchy!AsFormula(r).in))
         /\ r.parentCode # NoCode => Range(Hierarchy!AsFormula(r).in) = {r.parentCode}
  <1> DEFINE f == Hierarchy!AsFormula(r)
             in == IF r.parentCode = NoCode THEN <<>> ELSE <<r.parentCode>>
  <1>1. f = [id |-> r, out |-> r.code, in |-> in]
    BY DEF Hierarchy!AsFormula
  <1>2. in \in Seq(Range(in)) /\ (r.parentCode # NoCode => Range(in) = {r.parentCode})
    <2>1. CASE r.parentCode = NoCode
      BY <2>1
    <2>2. CASE r.parentCode # NoCode
      <3>1. in = <<r.parentCode>> /\ Range(in) = {r.parentCode}
        BY <2>2 DEF Range
      <3>2. \A p : <<p>> \in Seq({p})
        OBVIOUS
      <3> HIDE DEF in
      <3> QED BY <3>1, <3>2
    <2> QED BY <2>1, <2>2
  <1> HIDE DEF in, f
  <1>3. f.id = r /\ f.out = r.code /\ f.in = in /\ DOMAIN f = {"id", "out", "in"}
    BY <1>1
  <1>4. f # Undefined
    <2>1. DOMAIN Undefined = {"id"}
      BY DEF Undefined
    <2> QED BY <1>3, <2>1
  <1> QED BY <1>2, <1>3, <1>4 DEF f

\* The rows of a file can be sorted.
LEMMA FormulasAre ==
  ASSUME NEW rows \in Seq(Hierarchy!Row)
  PROVE  /\ DOMAIN Formulas(rows) = DOMAIN rows
         /\ \A i \in DOMAIN rows : /\ Formulas(rows)[i] = Hierarchy!AsFormula(rows[i])
                                   /\ rows[i] \in Hierarchy!Row
         /\ Formulas(rows) \in Seq(Range(Formulas(rows)))
         /\ Sortable(Formulas(rows))
         /\ Range(Formulas(rows)) = {Hierarchy!AsFormula(r) : r \in {rows[i] : i \in DOMAIN rows}}
         /\ OutputKeys(Formulas(rows)) = {r.code : r \in {rows[i] : i \in DOMAIN rows}}
  <1> DEFINE fs == Formulas(rows)
  <1>1. /\ DOMAIN rows = 1 .. Len(rows) /\ Len(rows) \in Nat
        /\ \A i \in DOMAIN rows : rows[i] \in Hierarchy!Row
    OBVIOUS
  <1>2. DOMAIN fs = 1 .. Len(rows) /\ \A i \in DOMAIN rows : fs[i] = Hierarchy!AsFormula(rows[i])
    BY <1>1 DEF Formulas
  <1>3. fs = [i \in 1 .. Len(rows) |-> fs[i]]
    BY <1>1 DEF Formulas
  <1> HIDE DEF fs
  <1>4. fs \in Seq(Range(fs))
    <2>1. \A i \in 1 .. Len(rows) : fs[i] \in Range(fs)
      BY <1>2 DEF Range
    <2>2. fs \in [1 .. Len(rows) -> Range(fs)]
      BY <1>3, <2>1
    <2> QED BY <1>1, <2>2
  <1>5. Range(fs) = {Hierarchy!AsFormula(r) : r \in {rows[i] : i \in DOMAIN rows}}
    BY <1>1, <1>2 DEF Range
  <1>6. OutputKeys(fs) = {r.code : r \in {rows[i] : i \in DOMAIN rows}}
    BY <1>1, <1>2, FormulaOfRow DEF OutputKeys
  <1>7. \A f \in Range(fs) : f # Undefined /\ f.in \in Seq(Range(f.in))
    BY <1>1, <1>5, FormulaOfRow
  <1>8. Sortable(fs)
    BY <1>4, <1>7 DEF Sortable
  <1> QED BY <1>1, <1>2, <1>4, <1>5, <1>6, <1>8 DEF fs

\* What topoSort makes of a file.
LEMMA SortedIs ==
  ASSUME NEW rows \in Seq(Hierarchy!Row)
  PROVE  /\ Hierarchy!Sorted(rows).cycle = TopoSort(Formulas(rows)).cycle
         /\ Hierarchy!Sorted(rows).rows \in Seq(Hierarchy!Row)
         /\ DOMAIN Hierarchy!Sorted(rows).rows = DOMAIN TopoSort(Formulas(rows)).done
         /\ \A i \in DOMAIN TopoSort(Formulas(rows)).done :
               /\ Hierarchy!Sorted(rows).rows[i] \in {rows[j] : j \in DOMAIN rows}
               /\ TopoSort(Formulas(rows)).done[i] = Hierarchy!AsFormula(Hierarchy!Sorted(rows).rows[i])
  <1> DEFINE fs == Formulas(rows)
             s == TopoSort(fs)
             order == [i \in DOMAIN s.done |-> s.done[i].id]
  <1>1. s.done \in Seq(Range(fs))
    BY FormulasAre, SortSorts
  <1>2. Hierarchy!TopoSort(fs) = s
    BY SameSearch
  <1>3. Hierarchy!Sorted(rows) = [rows |-> order, cycle |-> s.cycle]
    <2> HIDE DEF s
    <2> QED BY <1>2 DEF Hierarchy!Sorted, Formulas
  <1>4. ASSUME NEW i \in DOMAIN s.done
        PROVE  /\ s.done[i].id \in {rows[j] : j \in DOMAIN rows}
               /\ s.done[i].id \in Hierarchy!Row
               /\ s.done[i] = Hierarchy!AsFormula(s.done[i].id)
    <2> HIDE DEF s
    <2>1. s.done[i] \in {Hierarchy!AsFormula(r) : r \in {rows[j] : j \in DOMAIN rows}}
      <3>1. s.done[i] \in Range(fs)
        <4> HIDE DEF fs
        <4> QED BY <1>1
      <3> QED BY <3>1, FormulasAre
    <2>2. PICK j \in DOMAIN rows : s.done[i] = Hierarchy!AsFormula(rows[j])
      BY <2>1
    <2>3. rows[j] \in Hierarchy!Row
      OBVIOUS
    <2> QED BY <2>2, <2>3, FormulaOfRow
  <1> HIDE DEF s, fs
  <1>5. order \in Seq(Hierarchy!Row)
    <2>1. DOMAIN s.done = 1 .. Len(s.done) /\ Len(s.done) \in Nat
      BY <1>1
    <2>2. order \in [1 .. Len(s.done) -> Hierarchy!Row]
      BY <1>4, <2>1
    <2> QED BY <2>1, <2>2
  <1> QED BY <1>3, <1>4, <1>5 DEF s, fs

\* A file without a code twice has a cycle, or is put in order.
LEMMA SortedIsOrder ==
  ASSUME Hierarchy!HierarchyAssumption, NEW rows \in Seq(Hierarchy!Row), UniqueCodes(rows)
  PROVE  /\ Hierarchy!Sorted(rows).cycle = Cyclic(Formulas(rows))
         /\ ~Hierarchy!Sorted(rows).cycle => IsOrder(Hierarchy!Sorted(rows).rows, rows)
  <1> DEFINE fs == Formulas(rows)
             s == TopoSort(fs)
             order == Hierarchy!Sorted(rows).rows
             all == {rows[i] : i \in DOMAIN rows}
  <1>1. /\ DOMAIN fs = DOMAIN rows
        /\ \A i \in DOMAIN rows : fs[i] = Hierarchy!AsFormula(rows[i]) /\ rows[i] \in Hierarchy!Row
        /\ OutputKeys(fs) = {r.code : r \in all}
        /\ Sortable(fs)
    BY FormulasAre
  <1>2. /\ Hierarchy!Sorted(rows).cycle = s.cycle
        /\ order \in Seq(Hierarchy!Row)
        /\ DOMAIN order = DOMAIN s.done
        /\ \A i \in DOMAIN order : order[i] \in all /\ order[i] \in Hierarchy!Row
                                    /\ s.done[i] = Hierarchy!AsFormula(order[i])
    <2>1. all \subseteq Hierarchy!Row
      OBVIOUS
    <2> HIDE DEF s, fs, order, all
    <2> QED BY <2>1, SortedIs DEF s, fs, order, all
  <1>3. SortIsSound(fs)
    BY <1>1, SortSorts
  <1> HIDE DEF fs, order
  <1>4. UniqueOutputs(fs)
    BY <1>1, FormulaOfRow DEF UniqueOutputs, UniqueCodes
  <1>5. s.cycle = Cyclic(fs) /\ (~s.cycle => Topological(fs, s.done))
    BY <1>3, <1>4 DEF SortIsSound
  <1> HIDE DEF s
  <1>6. ASSUME ~s.cycle PROVE IsOrder(order, rows)
    <2>0. Topological(fs, s.done)
      BY <1>5, <1>6
    <2>1. UniqueCodes(order)
      <3> SUFFICES ASSUME NEW i \in DOMAIN order, NEW j \in DOMAIN order, order[i].code = order[j].code
                   PROVE  i = j
        BY DEF UniqueCodes
      <3>1. s.done[i].out = s.done[j].out /\ i \in DOMAIN s.done /\ j \in DOMAIN s.done
        BY <1>2, FormulaOfRow
      <3> QED BY <2>0, <3>1 DEF Topological, UniqueOutputs
    <2>2. {order[i] : i \in DOMAIN order} = all
      <3> SUFFICES ASSUME NEW r \in all PROVE \E i \in DOMAIN order : order[i] = r
        BY <1>2
      <3>1. r.code \in OutputKeys(s.done)
        BY <1>1, <2>0 DEF Topological
      <3>2. PICK i \in DOMAIN s.done : s.done[i].out = r.code
        BY <3>1 DEF OutputKeys
      <3>3. order[i].code = r.code /\ order[i] \in all
        BY <1>2, <3>2, FormulaOfRow
      <3>4. order[i] = r
        BY <3>3 DEF UniqueCodes
      <3> QED BY <1>2, <3>4
    <2>3. ASSUME NEW i \in DOMAIN order, NEW j \in DOMAIN order, order[i].parentCode = order[j].code
          PROVE  j < i
      <3>1. order[i].parentCode \in Codes /\ order[i].parentCode # NoCode
        BY <1>2, <2>3, RowIs DEF Hierarchy!HierarchyAssumption
      <3>2. order[j].code \in OutputKeys(fs)
        BY <1>1, <1>2
      <3>3. Range(s.done[i].in) = {order[i].parentCode}
        BY <1>2, <3>1, FormulaOfRow
      <3>4. order[j].code \in OutputKeys(SubSeq(s.done, 1, i - 1))
        BY <1>2, <2>0, <2>3, <3>2, <3>3 DEF Topological
      <3>5. PICK k \in DOMAIN SubSeq(s.done, 1, i - 1) : SubSeq(s.done, 1, i - 1)[k].out = order[j].code
        BY <3>4 DEF OutputKeys
      <3>6. k \in DOMAIN s.done /\ k < i /\ s.done[k].out = order[j].code
        <4>1. s.done \in Seq(Range(fs)) /\ i \in DOMAIN s.done
          BY <1>2, <2>0 DEF Topological
        <4> QED BY <3>5, <4>1
      <3>7. order[k].code = order[j].code
        BY <1>2, <3>6, FormulaOfRow
      <3>8. k = j
        BY <1>2, <2>1, <3>6, <3>7 DEF UniqueCodes
      <3> QED BY <3>6, <3>8
    <2> QED BY <1>2, <2>1, <2>2, <2>3 DEF IsOrder
  <1> QED BY <1>2, <1>5, <1>6 DEF fs, order

\* Whether a file has a cycle does not depend on the order of its rows.
LEMMA CycleIsOfRows ==
  ASSUME NEW rows \in Seq(Hierarchy!Row), NEW s \in Seq(Hierarchy!Row),
         {rows[i] : i \in DOMAIN rows} = {s[i] : i \in DOMAIN s}
  PROVE  Cyclic(Formulas(rows)) = Cyclic(Formulas(s))
  <1> DEFINE f == Formulas(rows)
             g == Formulas(s)
             Pairs(fs) == {e \in OutputKeys(fs) \X OutputKeys(fs) :
                              \E h \in Range(fs) : h.out = e[2] /\ e[1] \in Range(h.in)}
  <1>1. Range(f) = Range(g) /\ OutputKeys(f) = OutputKeys(g)
    BY FormulasAre
  <1> HIDE DEF f, g
  <1>2. Edges(f) = Pairs(f) /\ Edges(g) = Pairs(g)
    BY DEF Edges, Range
  <1>3. Pairs(f) = Pairs(g)
    BY <1>1
  <1>4. Cyclic(f) = Cyclic(g)
    <2> HIDE DEF Pairs
    <2> QED BY <1>1, <1>2, <1>3 DEF Cyclic
  <1> QED BY <1>4 DEF f, g

\* nodes is what an import of rows into before leads to: it adds the rows that fit into
\* nodes itself, of which before has none.
IsResult(nodes, before, rows) ==
    /\ nodes \in Tables
    /\ DOMAIN nodes = (DOMAIN before) \cup {r.code : r \in {q \in rows : Fits(q, nodes)}}
    /\ \A c \in DOMAIN before : nodes[c] = before[c]
    /\ \A r \in rows : Fits(r, nodes) => /\ r.code \notin DOMAIN before
                                         /\ nodes[r.code] = NodeOf(r, nodes)

FirstRows(order, i) == {order[j] : j \in 1 .. i}

\* Whether a row fits, and its node, are of its parent's node.
LEMMA OfParent ==
  ASSUME NEW r, NEW s, NEW t,
         r.parentCode # NoCode => /\ r.parentCode \in DOMAIN s <=> r.parentCode \in DOMAIN t
                                  /\ r.parentCode \in DOMAIN s => s[r.parentCode] = t[r.parentCode]
  PROVE  /\ Fits(r, s) <=> Fits(r, t)
         /\ Fits(r, s) => NodeOf(r, s) = NodeOf(r, t)
  BY DEF Fits, NodeOf, Hierarchy!NewNode, Hierarchy!NewPath

\* A row, if no row before it has its code for a parent, adds to the result.
LEMMA ResultGrows ==
  ASSUME NEW nodes, NEW before \in Tables, NEW rows \in SUBSET Hierarchy!Row, IsResult(nodes, before, rows),
         NEW r \in Hierarchy!Row, \A q \in rows \cup {r} : q.parentCode # r.code,
         \A q \in rows : q.code # r.code,
         Fits(r, nodes), r.code \notin DOMAIN nodes
  PROVE  IsResult(Hierarchy!With(nodes, r.code, NodeOf(r, nodes)), before, rows \cup {r})
  <1> DEFINE n == NodeOf(r, nodes)
             w == Hierarchy!With(nodes, r.code, n)
  <1>1. nodes \in Tables
    BY DEF IsResult
  <1>2. n \in Hierarchy!Node
    BY <1>1, RowIs, NewNodeIs DEF NodeOf, Fits
  <1> HIDE DEF n
  <1>3. /\ w \in Tables
        /\ DOMAIN w = (DOMAIN nodes) \cup {r.code}
        /\ w[r.code] = n
        /\ \A c \in DOMAIN nodes : c # r.code => w[c] = nodes[c]
    BY <1>1, <1>2, RowIs, WithIs
  <1> HIDE DEF w
  <1>4. \A q \in rows \cup {r} : /\ Fits(q, w) <=> Fits(q, nodes)
                                 /\ Fits(q, w) => NodeOf(q, w) = NodeOf(q, nodes)
    <2> SUFFICES ASSUME NEW q \in rows \cup {r}
                 PROVE  /\ Fits(q, w) <=> Fits(q, nodes)
                        /\ Fits(q, w) => NodeOf(q, w) = NodeOf(q, nodes)
      OBVIOUS
    <2>1. /\ q.parentCode \in DOMAIN w <=> q.parentCode \in DOMAIN nodes
          /\ q.parentCode \in DOMAIN w => w[q.parentCode] = nodes[q.parentCode]
      BY <1>3
    <2> QED BY <2>1, OfParent
  <1>5. DOMAIN w = (DOMAIN before) \cup {q.code : q \in {p \in rows \cup {r} : Fits(p, w)}}
    <2>1. {p \in rows \cup {r} : Fits(p, w)} = {p \in rows : Fits(p, nodes)} \cup {r}
      BY <1>4
    <2>2. DOMAIN nodes = (DOMAIN before) \cup {q.code : q \in {p \in rows : Fits(p, nodes)}}
      BY DEF IsResult
    <2> QED BY <1>3, <2>1, <2>2
  <1>6. \A c \in DOMAIN before : w[c] = before[c]
    BY <1>3 DEF IsResult
  <1>7. ASSUME NEW q \in rows \cup {r}, Fits(q, w)
        PROVE  q.code \notin DOMAIN before /\ w[q.code] = NodeOf(q, w)
    <2>1. CASE q = r
      BY <1>3, <1>4, <1>7, <2>1 DEF IsResult, n
    <2>2. CASE q # r
      <3>1. q \in rows /\ Fits(q, nodes) /\ NodeOf(q, w) = NodeOf(q, nodes)
        BY <1>4, <1>7, <2>2
      <3>2. q.code \notin DOMAIN before /\ nodes[q.code] = NodeOf(q, nodes) /\ q.code \in DOMAIN nodes
        BY <3>1 DEF IsResult
      <3>3. w[q.code] = nodes[q.code]
        BY <1>3, <3>1, <3>2
      <3> QED BY <3>1, <3>2, <3>3
    <2> QED BY <2>1, <2>2
  <1>8. IsResult(w, before, rows \cup {r})
    BY <1>3, <1>5, <1>6, <1>7 DEF IsResult
  <1> QED BY <1>8 DEF w, n

\* An import of rows in order that is not aborted leads to their result.
LEMMA ImportGivesResult ==
  ASSUME Hierarchy!HierarchyAssumption, NEW before \in Tables, NEW rows, NEW order, IsOrder(order, rows),
         NEW g, IsImport(g, before, order), ~g[Len(order)].aborted,
         NEW all, all = {order[i] : i \in DOMAIN order}
  PROVE  IsResult(g[Len(order)].nodes, before, all)
  <1> DEFINE n == Len(order)
             P == {i \in 0 .. n : ~g[i].aborted => IsResult(g[i].nodes, before, FirstRows(order, i))}
  <1>0. /\ n \in Nat /\ DOMAIN order = 1 .. n
        /\ \A i \in 1 .. n : order[i] \in Hierarchy!Row /\ i \in 0 .. n /\ i - 1 \in 0 .. n
        /\ n \in 0 .. n
    BY DEF IsOrder
  <1>1. /\ \A i \in 0 .. n : g[i] \in States
        /\ g[0] = [nodes |-> before, aborted |-> FALSE]
        /\ \A i \in 1 .. n : g[i] = Hierarchy!ImportRow(g[i - 1], order[i])
    BY DEF IsImport
  <1>2. IsResult(g[0].nodes, before, FirstRows(order, 0))
    <2>1. FirstRows(order, 0) = {}
      BY DEF FirstRows
    <2>2. g[0].nodes = before
      BY <1>1
    <2>3. {r.code : r \in {q \in {} : Fits(q, before)}} = {}
      OBVIOUS
    <2>4. IsResult(before, before, {})
      BY <2>3 DEF IsResult
    <2> QED BY <2>1, <2>2, <2>4
  <1>3. ASSUME NEW i \in 1 .. n, ~g[i - 1].aborted => IsResult(g[i - 1].nodes, before, FirstRows(order, i - 1)),
               ~g[i].aborted
        PROVE  IsResult(g[i].nodes, before, FirstRows(order, i))
    <2> DEFINE s == g[i - 1]
               r == order[i]
               rows0 == FirstRows(order, i - 1)
    <2>1. s \in States /\ r \in Hierarchy!Row /\ g[i] = Hierarchy!ImportRow(s, r)
      BY <1>0, <1>1
    <2>2. FirstRows(order, i) = rows0 \cup {r}
      BY <1>0 DEF FirstRows
    <2>3. rows0 \in SUBSET Hierarchy!Row
      BY <1>0 DEF FirstRows
    <2>4. \A q \in rows0 \cup {r} : q.parentCode # r.code
      <3>1. \A j \in 1 .. i : order[j].parentCode # r.code
        BY <1>0 DEF IsOrder
      <3> QED BY <1>0, <3>1 DEF FirstRows
    <2>5. \A q \in rows0 : q.code # r.code
      BY <1>0 DEF FirstRows, IsOrder, UniqueCodes
    <2> HIDE DEF s, r, rows0
    <2>6. ~s.aborted /\ IsResult(s.nodes, before, rows0)
      BY <1>3, <2>1, ImportRowIs DEF s, rows0
    <2>7. CASE ~Fits(r, s.nodes)
      <3>1. g[i].nodes = s.nodes
        BY <2>1, <2>6, <2>7, ImportRowIs
      <3>2. {q \in rows0 \cup {r} : Fits(q, s.nodes)} = {q \in rows0 : Fits(q, s.nodes)}
        BY <2>7
      <3> QED BY <2>2, <2>6, <2>7, <3>1, <3>2 DEF IsResult
    <2>8. CASE Fits(r, s.nodes)
      <3>1. r.code \notin DOMAIN s.nodes /\ g[i].nodes = Hierarchy!With(s.nodes, r.code, NodeOf(r, s.nodes))
        BY <1>3, <2>1, <2>6, <2>8, ImportRowIs
      <3>2. IsResult(Hierarchy!With(s.nodes, r.code, NodeOf(r, s.nodes)), before, rows0 \cup {r})
        BY <2>1, <2>3, <2>4, <2>5, <2>6, <2>8, <3>1, ResultGrows
      <3> QED BY <2>2, <3>1, <3>2
    <2> QED BY <2>7, <2>8
  <1>4. 0 .. n \subseteq P
    <2>1. 0 \in P
      BY <1>0, <1>2
    <2>2. \A i \in 1 .. n : i - 1 \in P => i \in P
      BY <1>0, <1>3
    <2> HIDE DEF P
    <2> QED BY <1>0, <2>1, <2>2, UpTo
  <1>5. FirstRows(order, n) = all
    BY <1>0 DEF FirstRows
  <1> QED BY <1>0, <1>4, <1>5

\* An import of rows in order leads to the result they have.
LEMMA ResultIsImported ==
  ASSUME Hierarchy!HierarchyAssumption, NEW before \in Tables, NEW rows, NEW order, IsOrder(order, rows),
         NEW g, IsImport(g, before, order),
         NEW all, all = {order[i] : i \in DOMAIN order},
         NEW nodes, IsResult(nodes, before, all)
  PROVE  g[Len(order)] = [nodes |-> nodes, aborted |-> FALSE]
  <1> DEFINE n == Len(order)
             In(i) == (DOMAIN before) \cup {r.code : r \in {q \in FirstRows(order, i) : Fits(q, nodes)}}
             IsPart(t, i) == /\ ~t.aborted
                             /\ DOMAIN t.nodes = In(i)
                             /\ \A c \in In(i) : t.nodes[c] = nodes[c]
             P == {i \in 0 .. n : IsPart(g[i], i)}
  <1>0. /\ n \in Nat /\ DOMAIN order = 1 .. n
        /\ \A i \in 1 .. n : order[i] \in Hierarchy!Row /\ i \in 0 .. n /\ i - 1 \in 0 .. n
        /\ n \in 0 .. n
    BY DEF IsOrder
  <1>1. /\ \A i \in 0 .. n : g[i] \in States
        /\ g[0] = [nodes |-> before, aborted |-> FALSE]
        /\ \A i \in 1 .. n : g[i] = Hierarchy!ImportRow(g[i - 1], order[i])
    BY DEF IsImport
  <1>2. /\ nodes \in Tables
        /\ DOMAIN nodes = (DOMAIN before) \cup {r.code : r \in {q \in all : Fits(q, nodes)}}
        /\ \A c \in DOMAIN before : nodes[c] = before[c]
        /\ \A r \in all : Fits(r, nodes) => /\ r.code \notin DOMAIN before
                                            /\ nodes[r.code] = NodeOf(r, nodes)
    BY DEF IsResult
  <1>3. FirstRows(order, 0) = {} /\ FirstRows(order, n) = all
    BY <1>0 DEF FirstRows
  <1>4. IsPart(g[0], 0)
    <2>1. {r.code : r \in {q \in FirstRows(order, 0) : Fits(q, nodes)}} = {}
      BY <1>3
    <2>2. In(0) = DOMAIN before
      BY <2>1
    <2>3. g[0].nodes = before /\ ~g[0].aborted
      BY <1>1
    <2> HIDE DEF In
    <2> QED BY <1>2, <2>2, <2>3
  <1>5. ASSUME NEW i \in 1 .. n, IsPart(g[i - 1], i - 1)
        PROVE  IsPart(g[i], i)
    <2> DEFINE s == g[i - 1]
               r == order[i]
               rows0 == FirstRows(order, i - 1)
    <2>1. s \in States /\ r \in Hierarchy!Row /\ r \in all /\ g[i] = Hierarchy!ImportRow(s, r)
      BY <1>0, <1>1
    <2>2. FirstRows(order, i) = rows0 \cup {r}
      BY <1>0 DEF FirstRows
    <2>3. ~s.aborted /\ DOMAIN s.nodes = In(i - 1) /\ \A c \in In(i - 1) : s.nodes[c] = nodes[c]
      BY <1>5
    <2>4. In(i - 1) \subseteq DOMAIN nodes
      <3>1. rows0 \subseteq all
        BY <1>0 DEF FirstRows
      <3> QED BY <1>2, <3>1
    <2>5. r.parentCode \in DOMAIN nodes => r.parentCode \in In(i - 1)
      <3> SUFFICES ASSUME r.parentCode \in DOMAIN nodes, r.parentCode \notin DOMAIN before
                   PROVE  r.parentCode \in In(i - 1)
        OBVIOUS
      <3>1. PICK q \in all : Fits(q, nodes) /\ q.code = r.parentCode
        BY <1>2
      <3>2. PICK j \in DOMAIN order : order[j] = q
        BY <3>1
      <3>3. j < i
        BY <1>0, <3>1, <3>2 DEF IsOrder
      <3>4. q \in rows0
        BY <1>0, <3>2, <3>3 DEF FirstRows
      <3> QED BY <3>1, <3>4
    <2>6. /\ Fits(r, s.nodes) <=> Fits(r, nodes)
          /\ Fits(r, s.nodes) => NodeOf(r, s.nodes) = NodeOf(r, nodes)
      <3>1. /\ r.parentCode \in DOMAIN s.nodes <=> r.parentCode \in DOMAIN nodes
            /\ r.parentCode \in DOMAIN s.nodes => s.nodes[r.parentCode] = nodes[r.parentCode]
        BY <2>3, <2>4, <2>5
      <3> HIDE DEF s, r
      <3> QED BY <3>1, OfParent
    <2>7. ASSUME Fits(r, nodes) PROVE r.code \notin In(i - 1) /\ nodes[r.code] = NodeOf(r, nodes)
      <3>1. r.code \notin DOMAIN before /\ nodes[r.code] = NodeOf(r, nodes)
        BY <1>2, <2>1, <2>7
      <3>2. \A q \in rows0 : q.code # r.code
        BY <1>0 DEF FirstRows, IsOrder, UniqueCodes
      <3> QED BY <3>1, <3>2
    <2>8. In(i) = In(i - 1) \cup (IF Fits(r, nodes) THEN {r.code} ELSE {})
      BY <2>2
    <2> HIDE DEF s, r, rows0, In
    <2>9. CASE ~Fits(r, nodes)
      <3>1. g[i] = s
        BY <2>1, <2>3, <2>6, <2>9, ImportRowIs
      <3> QED BY <2>3, <2>8, <2>9, <3>1
    <2>10. CASE Fits(r, nodes)
      <3>1. r.code \notin DOMAIN s.nodes
        BY <2>3, <2>7, <2>10
      <3>2. /\ ~g[i].aborted
            /\ g[i].nodes = Hierarchy!With(s.nodes, r.code, NodeOf(r, nodes))
        BY <2>1, <2>3, <2>6, <2>10, <3>1, ImportRowIs
      <3>3. s.nodes \in Tables /\ NodeOf(r, nodes) \in Hierarchy!Node /\ r.code \in Codes
        BY <1>2, <2>1, <2>10, RowIs, NewNodeIs DEF States, NodeOf, Fits
      <3>4. /\ DOMAIN g[i].nodes = (DOMAIN s.nodes) \cup {r.code}
            /\ g[i].nodes[r.code] = NodeOf(r, nodes)
            /\ \A c \in DOMAIN s.nodes : c # r.code => g[i].nodes[c] = s.nodes[c]
        <4> DEFINE t == s.nodes
                   c == r.code
                   m == NodeOf(r, nodes)
                   w == Hierarchy!With(t, c, m)
        <4> HIDE DEF t, c, m
        <4>0. t \in Tables /\ c \in Codes /\ m \in Hierarchy!Node
          BY <3>3 DEF t, c, m
        <4>1. /\ DOMAIN w = (DOMAIN t) \cup {c} /\ w[c] = m
              /\ \A d \in DOMAIN t : d # c => w[d] = t[d]
          BY <4>0, WithIs
        <4>2. g[i].nodes = w
          BY <3>2 DEF t, c, m
        <4> HIDE DEF w
        <4> QED BY <4>1, <4>2 DEF t, c, m
      <3> QED BY <2>3, <2>7, <2>8, <2>10, <3>2, <3>4
    <2> QED BY <2>9, <2>10
  <1> HIDE DEF IsPart
  <1>6. 0 .. n \subseteq P
    <2>1. 0 \in P
      BY <1>0, <1>4
    <2>2. \A i \in 1 .. n : i - 1 \in P => i \in P
      BY <1>0, <1>5
    <2> HIDE DEF P
    <2> QED BY <1>0, <2>1, <2>2, UpTo
  <1>7. IsPart(g[n], n)
    BY <1>0, <1>6
  <1>8. /\ ~g[n].aborted
        /\ DOMAIN g[n].nodes = DOMAIN nodes
        /\ \A c \in DOMAIN nodes : g[n].nodes[c] = nodes[c]
    BY <1>2, <1>3, <1>7 DEF IsPart
  <1>9. g[n].nodes \in Tables /\ g[n] = [nodes |-> g[n].nodes, aborted |-> g[n].aborted] /\ g[n].aborted \in BOOLEAN
    BY <1>0, <1>1 DEF States
  <1>10. g[n].nodes = nodes
    <2>1. /\ g[n].nodes = [c \in DOMAIN g[n].nodes |-> g[n].nodes[c]]
          /\ nodes = [c \in DOMAIN nodes |-> nodes[c]]
      BY <1>2, <1>9, TableIs
    <2> QED BY <1>8, <2>1
  <1> QED BY <1>8, <1>9, <1>10

\* An import of a file leaves a tree.
LEMMA ImportedIsTree ==
  ASSUME Hierarchy!HierarchyAssumption, NEW t, IsTree(t), NEW rows \in Seq(Hierarchy!Row)
  PROVE  IsTree(Hierarchy!Imported(t, rows))
  <1> DEFINE sorted == Hierarchy!Sorted(rows)
             order == sorted.rows
             last == Hierarchy!ImportRows(t, order)
  <1>1. order \in Seq(Hierarchy!Row) /\ t \in Tables
    BY SortedIs DEF IsTree
  <1>2. Hierarchy!Imported(t, rows) = IF sorted.cycle \/ last.aborted THEN t ELSE last.nodes
    BY DEF Hierarchy!Imported
  <1> HIDE DEF last, order
  <1>3. PICK g : IsImport(g, t, order) /\ last = g[Len(order)]
    BY <1>1, ImportRowsIs DEF last
  <1> DEFINE n == Len(order)
             P == {i \in 0 .. n : IsTree(g[i].nodes)}
  <1>4. /\ n \in Nat /\ \A i \in 1 .. n : order[i] \in Hierarchy!Row /\ i \in 0 .. n /\ i - 1 \in 0 .. n
        /\ n \in 0 .. n /\ 0 \in 0 .. n
    BY <1>1
  <1>5. /\ \A i \in 0 .. n : g[i] \in States
        /\ g[0] = [nodes |-> t, aborted |-> FALSE]
        /\ \A i \in 1 .. n : g[i] = Hierarchy!ImportRow(g[i - 1], order[i])
    BY <1>3 DEF IsImport
  <1>6. IsTree(g[0].nodes)
    <2>1. g[0].nodes = t
      BY <1>5
    <2> QED BY <2>1
  <1>7. ASSUME NEW i \in 1 .. n, IsTree(g[i - 1].nodes) PROVE IsTree(g[i].nodes)
    <2> DEFINE s == g[i - 1]
               r == order[i]
    <2>1. s \in States /\ r \in Hierarchy!Row /\ g[i] = Hierarchy!ImportRow(s, r) /\ IsTree(s.nodes)
      BY <1>4, <1>5, <1>7
    <2> HIDE DEF s, r
    <2>2. CASE s.aborted \/ ~Fits(r, s.nodes)
      BY <2>1, <2>2, ImportRowIs
    <2>3. CASE ~s.aborted /\ Fits(r, s.nodes) /\ r.code \in DOMAIN s.nodes
      <3>1. g[i] = [s EXCEPT !.aborted = TRUE]
        BY <2>1, <2>3 DEF Hierarchy!ImportRow, Fits
      <3>2. g[i].nodes = s.nodes
        BY <2>1, <3>1 DEF States
      <3> QED BY <2>1, <3>2
    <2>4. CASE ~s.aborted /\ Fits(r, s.nodes) /\ r.code \notin DOMAIN s.nodes
      <3>1. g[i].nodes = Hierarchy!With(s.nodes, r.code, NodeOf(r, s.nodes))
        BY <2>1, <2>4, ImportRowIs
      <3>2. /\ r.code \in Codes \ DOMAIN s.nodes
            /\ r.parentCode \in Codes \cup {NoCode}
            /\ r.type \in Hierarchy!NodeTypes
            /\ r.parentCode # NoCode => r.parentCode \in DOMAIN s.nodes
                                        /\ Hierarchy!MayBeChild(r.type, s.nodes[r.parentCode])
        BY <2>1, <2>4, RowIs DEF Fits
      <3>3. IsTree(Hierarchy!With(s.nodes, r.code, NodeOf(r, s.nodes)))
        BY <2>1, <3>2, TreeGrows DEF NodeOf
      <3> QED BY <3>1, <3>3
    <2> QED BY <2>2, <2>3, <2>4
  <1>8. 0 .. n \subseteq P
    <2>1. 0 \in P
      BY <1>4, <1>6
    <2>2. \A i \in 1 .. n : i - 1 \in P => i \in P
      BY <1>4, <1>7
    <2> HIDE DEF P
    <2> QED BY <1>4, <2>1, <2>2, UpTo
  <1>9. IsTree(last.nodes)
    BY <1>3, <1>4, <1>8
  <1> QED BY <1>2, <1>9 DEF last, order

\* An import of a file without a code twice does the same in any order of its rows: as
\* stated, if it goes through in one order.
LEMMA ImportsAgree ==
  ASSUME Hierarchy!HierarchyAssumption, NEW t \in Tables,
         NEW rows \in Seq(Hierarchy!Row), NEW s \in Seq(Hierarchy!Row), UniqueCodes(rows), UniqueCodes(s),
         {rows[i] : i \in DOMAIN rows} = {s[i] : i \in DOMAIN s}
  PROVE  Hierarchy!Imported(t, s) = Hierarchy!Imported(t, rows)
  <1> DEFINE a == Hierarchy!Sorted(rows)
             b == Hierarchy!Sorted(s)
             f == Hierarchy!ImportRows(t, a.rows)
             g == Hierarchy!ImportRows(t, b.rows)
             all == {rows[i] : i \in DOMAIN rows}
  <1>1. a.rows \in Seq(Hierarchy!Row) /\ b.rows \in Seq(Hierarchy!Row)
    BY SortedIs
  <1>2. a.cycle = b.cycle
    BY SortedIsOrder, CycleIsOfRows
  <1>3. /\ Hierarchy!Imported(t, rows) = IF a.cycle \/ f.aborted THEN t ELSE f.nodes
        /\ Hierarchy!Imported(t, s) = IF b.cycle \/ g.aborted THEN t ELSE g.nodes
    BY DEF Hierarchy!Imported
  <1>4. PICK j : IsImport(j, t, a.rows) /\ f = j[Len(a.rows)]
    <2> HIDE DEF a
    <2> QED BY <1>1, ImportRowsIs
  <1>5. PICK k : IsImport(k, t, b.rows) /\ g = k[Len(b.rows)]
    <2> HIDE DEF b
    <2> QED BY <1>1, ImportRowsIs
  <1>6. ASSUME ~a.cycle PROVE IsOrder(a.rows, rows) /\ IsOrder(b.rows, s)
    BY <1>2, <1>6, SortedIsOrder
  <1> HIDE DEF a, b, f, g
  <1>7. ASSUME ~a.cycle, ~f.aborted PROVE g = [nodes |-> f.nodes, aborted |-> FALSE]
    <2>1. {a.rows[i] : i \in DOMAIN a.rows} = all /\ {b.rows[i] : i \in DOMAIN b.rows} = all
      BY <1>6, <1>7 DEF IsOrder
    <2> HIDE DEF all
    <2>2. IsResult(f.nodes, t, all)
      BY <1>4, <1>6, <1>7, <2>1, ImportGivesResult
    <2> QED BY <1>5, <1>6, <1>7, <2>1, <2>2, ResultIsImported
  <1>8. ASSUME ~a.cycle, ~g.aborted PROVE f = [nodes |-> g.nodes, aborted |-> FALSE]
    <2>1. {a.rows[i] : i \in DOMAIN a.rows} = all /\ {b.rows[i] : i \in DOMAIN b.rows} = all
      BY <1>6, <1>8 DEF IsOrder
    <2> HIDE DEF all
    <2>2. IsResult(g.nodes, t, all)
      <3>1. IsOrder(b.rows, s) /\ IsImport(k, t, b.rows) /\ ~k[Len(b.rows)].aborted
        BY <1>5, <1>6, <1>8
      <3>2. IsResult(k[Len(b.rows)].nodes, t, all)
        BY <2>1, <3>1, ImportGivesResult
      <3> QED BY <1>5, <3>2
    <2> QED BY <1>4, <1>6, <1>8, <2>1, <2>2, ResultIsImported
  <1>9. CASE a.cycle
    BY <1>2, <1>3, <1>9
  <1>10. CASE ~a.cycle /\ f.aborted /\ g.aborted
    BY <1>3, <1>10
  <1>11. CASE ~a.cycle /\ ~f.aborted
    <2>1. g.nodes = f.nodes /\ ~g.aborted
      BY <1>7, <1>11
    <2> QED BY <1>2, <1>3, <1>11, <2>1
  <1>12. CASE ~a.cycle /\ ~g.aborted
    <2>1. g.nodes = f.nodes /\ ~f.aborted
      BY <1>8, <1>12
    <2> QED BY <1>2, <1>3, <1>12, <2>1
  <1> QED BY <1>9, <1>10, <1>11, <1>12

\* ImportIsOrderFree.
LEMMA ImportsAreOrderFree ==
  ASSUME Hierarchy!HierarchyAssumption, HierarchyInv
  PROVE  Hierarchy!ImportIsOrderFree
  <1> DEFINE rows == uploaded.rows
             D == DOMAIN rows
             all == {rows[i] : i \in D}
  <1>0. rows \in Seq(Hierarchy!Row) /\ uploaded.before \in Tables
    BY DEF HierarchyInv
  <1> SUFFICES ASSUME \A i, j \in D : rows[i].code = rows[j].code => i = j,
                      NEW s \in [D -> Hierarchy!Range(rows)], Hierarchy!Range(s) = Hierarchy!Range(rows)
               PROVE  Hierarchy!Imported(uploaded.before, s) = Hierarchy!Imported(uploaded.before, rows)
    BY DEF Hierarchy!ImportIsOrderFree
  <1> HIDE DEF rows
  <1>1. Hierarchy!Range(rows) = all /\ Hierarchy!Range(s) = {s[i] : i \in D}
    BY DEF Hierarchy!Range
  <1>2. UniqueCodes(rows)
    BY DEF UniqueCodes
  <1>3. D = 1 .. Len(rows) /\ Len(rows) \in Nat /\ \A i \in D : rows[i] \in Hierarchy!Row
    BY <1>0
  <1>4. IsFiniteSet(D) /\ s \in Surjection(D, all) /\ rows \in Surjection(D, all)
    <2>1. IsFiniteSet(D)
      BY <1>3, FS_Interval
    <2>2. s \in [D -> all] /\ \A r \in all : \E i \in D : s[i] = r
      BY <1>1, ZenonT(30)
    <2>3. rows \in [D -> all] /\ \A r \in all : \E i \in D : rows[i] = r
      BY <1>0
    <2> HIDE DEF D, all
    <2> QED BY <2>1, <2>2, <2>3 DEF Surjection
  <1>5. s \in Injection(D, all)
    <2>1. rows \in Injection(D, all)
      BY <1>0, <1>2 DEF UniqueCodes, Injection, IsInjective
    <2> HIDE DEF D, all
    <2>2. IsFiniteSet(all) /\ Cardinality(all) = Cardinality(D)
      BY <1>4, <2>1, FS_Surjection
    <2> QED BY <1>4, <2>2, FS_Surjection
  <1>6. /\ s \in Seq(Hierarchy!Row) /\ DOMAIN s = D
        /\ all = {s[i] : i \in DOMAIN s}
    <2>1. s \in [D -> all] /\ all \subseteq Hierarchy!Row
      BY <1>1, <1>3
    <2>2. s \in [1 .. Len(rows) -> Hierarchy!Row]
      BY <1>3, <2>1
    <2> HIDE DEF all
    <2> QED BY <1>1, <1>3, <2>1, <2>2
  <1>7. UniqueCodes(s)
    <2> SUFFICES ASSUME NEW i \in D, NEW j \in D, s[i].code = s[j].code PROVE i = j
      BY <1>6 DEF UniqueCodes
    <2>1. s[i] \in all /\ s[j] \in all
      <3> HIDE DEF all, D
      <3> QED BY <1>6
    <2>2. s[i] = s[j]
      BY <1>2, <2>1 DEF UniqueCodes
    <2> QED BY <1>5, <2>2 DEF Injection, IsInjective
  <1> QED BY <1>0, <1>2, <1>6, <1>7, ImportsAgree

\* A prefix, by its elements.
LEMMA PrefixIs ==
  ASSUME NEW S, NEW p \in Seq(S), NEW q \in Seq(S), Len(p) <= Len(q)
  PROVE  SubSeq(q, 1, Len(p)) = p <=> \A i \in 1 .. Len(p) : p[i] = q[i]
  <1> DEFINE b == SubSeq(q, 1, Len(p))
  <1>1. b \in Seq(S) /\ Len(b) = Len(p) /\ \A i \in 1 .. Len(p) : b[i] = q[i]
    OBVIOUS
  <1> HIDE DEF b
  <1>2. ASSUME \A i \in 1 .. Len(p) : p[i] = q[i] PROVE b = p
    <2>1. Len(b) = Len(p) /\ \A i \in 1 .. Len(p) : b[i] = p[i]
      BY <1>1, <1>2
    <2> QED BY <1>1, <2>1
  <1>3. ASSUME b = p PROVE \A i \in 1 .. Len(p) : p[i] = q[i]
    BY <1>1, <1>3
  <1> QED BY <1>2, <1>3 DEF b

\* A path goes through that of the parent of its node, and on with the code.
LEMMA PathIs ==
  ASSUME HierarchyInv, NEW c \in DOMAIN node
  PROVE  /\ node[c].path \in Seq(Labels)
         /\ Len(node[c].path) \in Nat \ {0}
         /\ node[c].parent = NoCode => node[c].path = LabelsOf[c]
         /\ node[c].parent # NoCode =>
               /\ node[c].parent \in DOMAIN node
               /\ Len(node[node[c].parent].path) \in Nat
               /\ Len(node[c].path) = Len(node[node[c].parent].path) + Len(LabelsOf[c])
               /\ \A i \in 1 .. Len(node[node[c].parent].path) :
                     node[c].path[i] = node[node[c].parent].path[i]
         /\ node[c].path[Len(node[c].path)] = LabelsOf[c][Len(LabelsOf[c])]
  <1>1. node[c].path \in Seq(Labels) /\ c \in Codes
    BY TableIs DEF HierarchyInv, IsTree
  <1>2. IF node[c].parent = NoCode THEN node[c].path = LabelsOf[c]
        ELSE node[c].parent \in DOMAIN node /\ node[c].path = node[node[c].parent].path \o LabelsOf[c]
    BY DEF HierarchyInv, IsTree, Hierarchy!PathsFollow
  <1>3. LabelsOf[c] \in Seq(Labels) /\ Len(LabelsOf[c]) \in Nat \ {0}
    BY <1>1, LabelsAre
  <1>4. CASE node[c].parent = NoCode
    BY <1>1, <1>2, <1>3, <1>4
  <1>5. CASE node[c].parent # NoCode
    <2> DEFINE P == node[node[c].parent].path
               L == LabelsOf[c]
    <2>1. P \in Seq(Labels)
      BY <1>2, <1>5, TableIs DEF HierarchyInv, IsTree
    <2>2. node[c].path = P \o L
      BY <1>2, <1>5
    <2> HIDE DEF P, L
    <2>3. L \in Seq(Labels) /\ Len(L) \in Nat \ {0}
      BY <1>3 DEF L
    <2>4. /\ Len(P \o L) = Len(P) + Len(L) /\ Len(P) \in Nat
          /\ \A i \in 1 .. Len(P) : (P \o L)[i] = P[i]
          /\ (P \o L)[Len(P) + Len(L)] = L[Len(L)]
      BY <2>1, <2>3
    <2>5. /\ Len(node[c].path) = Len(P) + Len(L) /\ Len(node[c].path) \in Nat \ {0}
          /\ \A i \in 1 .. Len(P) : node[c].path[i] = P[i]
          /\ node[c].path[Len(node[c].path)] = L[Len(L)]
      BY <2>2, <2>3, <2>4
    <2> QED BY <1>1, <1>2, <1>5, <2>4, <2>5 DEF P, L
  <1> QED BY <1>4, <1>5

\* A node is in a rollup if the labels of its path begin with those of the root's.
LEMMA InRollup ==
  ASSUME HierarchyInv, NEW c \in DOMAIN node, NEW d \in DOMAIN node, d # c
  PROVE  d \in Hierarchy!Rollup(c) <=>
            /\ Len(node[d].path) > Len(node[c].path)
            /\ \A i \in 1 .. Len(node[c].path) : node[c].path[i] = node[d].path[i]
  <1> DEFINE C == node[c].path
             D == node[d].path
  <1>1. d \in Hierarchy!Rollup(c) <=> Len(D) > Len(C) /\ SubSeq(D, 1, Len(C)) = C
    BY DEF Hierarchy!Rollup
  <1>2. C \in Seq(Labels) /\ D \in Seq(Labels)
    BY PathIs
  <1> HIDE DEF C, D
  <1>3. Len(C) <= Len(D) => (SubSeq(D, 1, Len(C)) = C <=> \A i \in 1 .. Len(C) : C[i] = D[i])
    BY <1>2, PrefixIs
  <1>4. Len(C) \in Nat /\ Len(D) \in Nat
    BY <1>2
  <1> QED BY <1>1, <1>3, <1>4 DEF C, D

\* rollup sums those whose parents lead to the node.
LEMMA RollupMissesNobody ==
  ASSUME Hierarchy!HierarchyAssumption, HierarchyInv, NEW c \in DOMAIN node, NEW d \in (DOMAIN node) \ {c},
         node[d].parent \in Hierarchy!Rollup(c)
  PROVE  d \in Hierarchy!Rollup(c)
  <1> DEFINE p == node[d].parent
             C == node[c].path
             P == node[p].path
             Q == node[d].path
  <1>1. p \in DOMAIN node
    BY DEF Hierarchy!Rollup
  <1>2. p # NoCode
    BY <1>1, TableIs DEF HierarchyInv, IsTree, Hierarchy!HierarchyAssumption
  <1>3. /\ Len(Q) = Len(P) + Len(LabelsOf[d]) /\ Len(LabelsOf[d]) \in Nat \ {0} /\ Len(P) \in Nat
        /\ \A i \in 1 .. Len(P) : Q[i] = P[i]
    <2>1. d \in Codes
      BY TableIs DEF HierarchyInv, IsTree
    <2> QED BY <1>2, <2>1, PathIs, LabelsAre
  <1>4. Len(C) \in Nat \ {0}
    BY PathIs
  <1>5. p # c => Len(P) > Len(C) /\ \A i \in 1 .. Len(C) : C[i] = P[i]
    BY <1>1, InRollup
  <1>6. p = c => P = C
    OBVIOUS
  <1> HIDE DEF p, C, P, Q
  <1>7. Len(Q) > Len(C) /\ \A i \in 1 .. Len(C) : C[i] = Q[i]
    BY <1>3, <1>4, <1>5, <1>6
  <1> QED BY <1>7, InRollup DEF C, Q

\* It sums nobody else where no code has a dot in it.
LEMMA RollupSumsNobodyElse ==
  ASSUME Hierarchy!HierarchyAssumption, HierarchyInv, NEW c \in DOMAIN node, NEW d \in (DOMAIN node) \ {c},
         d \in Hierarchy!Rollup(c), \A e \in DOMAIN node : ~Hierarchy!Dotted(e)
  PROVE  node[d].parent \in Hierarchy!Rollup(c)
  <1> DEFINE p == node[d].parent
             C == node[c].path
             P == node[p].path
             Q == node[d].path
  <1>1. \A e \in DOMAIN node :
           /\ e \in Codes /\ LabelsOf[e] \in Seq(Labels) /\ Len(LabelsOf[e]) = 1
           /\ \A a \in DOMAIN node : LabelsOf[e] = LabelsOf[a] => e = a
    <2> SUFFICES ASSUME NEW e \in DOMAIN node
                 PROVE  /\ e \in Codes /\ LabelsOf[e] \in Seq(Labels) /\ Len(LabelsOf[e]) = 1
                        /\ \A a \in DOMAIN node : LabelsOf[e] = LabelsOf[a] => e = a
      OBVIOUS
    <2>1. DOMAIN node \subseteq Codes
      BY TableIs DEF HierarchyInv, IsTree
    <2>2. ~ (Len(LabelsOf[e]) > 1)
      BY DEF Hierarchy!Dotted
    <2>3. e \in Codes /\ LabelsOf[e] \in Seq(Labels) /\ Len(LabelsOf[e]) \in Nat \ {0}
          /\ \A a \in Codes : LabelsOf[e] = LabelsOf[a] => e = a
      <3>1. e \in Codes
        BY <2>1
      <3> QED BY <3>1, LabelsAre, Zenon
    <2>4. Len(LabelsOf[e]) = 1
      <3> DEFINE n == Len(LabelsOf[e])
      <3>1. n \in Nat \ {0} /\ ~ (n > 1)
        BY <2>2, <2>3
      <3> HIDE DEF n
      <3>2. n = 1
        BY <3>1
      <3> QED BY <3>2 DEF n
    <2> QED BY <2>1, <2>3, <2>4
  <1>2. Len(C) \in Nat \ {0} /\ Len(Q) > Len(C) /\ \A i \in 1 .. Len(C) : C[i] = Q[i]
    BY PathIs, InRollup
  <1>3. p # NoCode
    <2>1. CASE p = NoCode
      <3>1. Q = LabelsOf[d]
        BY <2>1, PathIs
      <3>2. Len(Q) = 1
        BY <1>1, <3>1
      <3> HIDE DEF C, Q
      <3> QED BY <1>2, <3>2
    <2> QED BY <2>1
  <1>4. /\ p \in DOMAIN node /\ Len(P) \in Nat /\ Len(Q) = Len(P) + 1
        /\ \A i \in 1 .. Len(P) : Q[i] = P[i]
    <2>1. Len(LabelsOf[d]) = 1
      BY <1>1
    <2>2. /\ p \in DOMAIN node /\ Len(P) \in Nat /\ Len(Q) = Len(P) + Len(LabelsOf[d])
          /\ \A i \in 1 .. Len(P) : Q[i] = P[i]
      BY <1>3, PathIs
    <2> QED BY <2>1, <2>2
  <1>5. p # c => ~ (Len(C) = Len(P))
    <2> SUFFICES ASSUME Len(C) = Len(P) PROVE p = c
      OBVIOUS
    <2>1. C[Len(C)] = P[Len(P)]
      <3>1. Len(C) \in 1 .. Len(C) /\ Len(C) \in 1 .. Len(P)
        BY <1>2, <1>4
      <3>2. C[Len(C)] = Q[Len(C)] /\ Q[Len(C)] = P[Len(C)]
        BY <1>2, <1>4, <3>1
      <3> QED BY <3>2
    <2>2. C[Len(C)] = LabelsOf[c][1] /\ P[Len(P)] = LabelsOf[p][1]
      <3>1. C[Len(C)] = LabelsOf[c][Len(LabelsOf[c])]
        BY PathIs
      <3>2. P[Len(P)] = LabelsOf[p][Len(LabelsOf[p])]
        BY <1>4, PathIs
      <3>3. Len(LabelsOf[c]) = 1 /\ Len(LabelsOf[p]) = 1
        BY <1>1, <1>4
      <3> QED BY <3>1, <3>2, <3>3
    <2>3. LabelsOf[c] = LabelsOf[p]
      <3> DEFINE l == LabelsOf[c]
                 m == LabelsOf[p]
      <3>1. Len(l) = 1 /\ Len(m) = 1 /\ l \in Seq(Labels) /\ m \in Seq(Labels)
        BY <1>1, <1>4
      <3>2. l[1] = m[1]
        BY <2>1, <2>2
      <3> HIDE DEF l, m
      <3>3. l = m
        BY <3>1, <3>2
      <3> QED BY <3>3 DEF l, m
    <2> QED BY <1>1, <1>4, <2>3
  <1> HIDE DEF p, C, P, Q
  <1>6. p # c => Len(P) > Len(C) /\ \A i \in 1 .. Len(C) : C[i] = P[i]
    BY <1>2, <1>4, <1>5
  <1>7. p # c => p \in Hierarchy!Rollup(c)
    BY <1>4, <1>6, InRollup DEF P, C
  <1>8. c \in Hierarchy!Rollup(c)
    BY DEF Hierarchy!Rollup
  <1> QED BY <1>7, <1>8 DEF p

\* RollupIsSubtree.
LEMMA RollupsAreSubtrees ==
  ASSUME Hierarchy!HierarchyAssumption, HierarchyInv
  PROVE  Hierarchy!RollupIsSubtree
  BY RollupMissesNobody, RollupSumsNobodyElse DEF Hierarchy!RollupIsSubtree

\* A move that is let through moves nothing.
LEMMA MovesAreNone ==
  ASSUME HierarchyInv
  PROVE  Hierarchy!MovesChangeNothing
  <1> SUFFICES ASSUME NEW c \in DOMAIN node, NEW parent \in (DOMAIN node) \cup {NoCode},
                      Hierarchy!MoveAccepted(node[c], parent)
               PROVE  node[c].parent = parent
    BY DEF Hierarchy!MovesChangeNothing
  <1>1. node[c].type \in Hierarchy!EntityTypes /\ (node[c].type = "GROUP" => node[c].parent = NoCode)
    BY TableIs DEF HierarchyInv, IsTree, Hierarchy!GroupsAreRoots
  <1>2. Hierarchy!ALLOWED_PARENTS(node[c].type) = {}
    BY <1>1 DEF Hierarchy!EntityTypes, Hierarchy!ALLOWED_PARENTS
  <1>3. parent = NoCode /\ Hierarchy!MayBeRoot(node[c].type)
    BY <1>2 DEF Hierarchy!MoveAccepted, Hierarchy!MayBeChild
  <1>4. node[c].type = "GROUP"
    BY <1>1, <1>3 DEF Hierarchy!MayBeRoot, Hierarchy!EntityTypes
  <1> QED BY <1>1, <1>3, <1>4

\* Before there was an import.
LEMMA NoImportIs ==
  Hierarchy!NoImport.before \in Tables /\ Hierarchy!NoImport.rows \in Seq(Hierarchy!Row)
  <1>1. Hierarchy!NoImport.before = <<>> /\ Hierarchy!NoImport.rows = <<>>
    BY DEF Hierarchy!NoImport
  <1>2. <<>> \in [{} -> Hierarchy!Node]
    OBVIOUS
  <1>3. <<>> \in Tables
    <2>1. {} \in SUBSET Codes
      OBVIOUS
    <2> QED BY <1>2, <2>1 DEF Tables
  <1> QED BY <1>1, <1>3

\* Every step of the hierarchy keeps what holds.
LEMMA HierarchyInvStep ==
  ASSUME Hierarchy!HierarchyAssumption, HierarchyInv, [Hierarchy!Next]_hierarchyVars
  PROVE  HierarchyInv'
  <1>1. CASE UNCHANGED hierarchyVars
    BY <1>1 DEF hierarchyVars, HierarchyInv, IsTree, Hierarchy!PathsFollow, Hierarchy!GroupsAreRoots
  <1>2. ASSUME NEW code \in Codes, NEW type \in Hierarchy!NodeTypes, NEW parent \in Codes \cup {NoCode},
               Hierarchy!Create(code, parent, type)
        PROVE  HierarchyInv'
    <2>1. /\ code \in Codes \ DOMAIN node
          /\ parent # NoCode => parent \in DOMAIN node /\ Hierarchy!MayBeChild(type, node[parent])
          /\ node' = Hierarchy!With(node, code, Hierarchy!NewNode(node, code, parent, type))
          /\ uploaded' = Hierarchy!NoImport
      BY <1>2 DEF Hierarchy!Create
    <2>2. IsTree(Hierarchy!With(node, code, Hierarchy!NewNode(node, code, parent, type)))
      BY <2>1, TreeGrows DEF HierarchyInv
    <2> QED BY <2>1, <2>2, NoImportIs DEF HierarchyInv
  <1>3. ASSUME NEW rows \in Imports, Hierarchy!BulkImport(rows)
        PROVE  HierarchyInv'
    <2>1. node' = Hierarchy!Imported(node, rows) /\ uploaded'.before = node /\ uploaded'.rows = rows
      BY <1>3 DEF Hierarchy!BulkImport
    <2>2. rows \in Seq(Hierarchy!Row)
      BY DEF Hierarchy!HierarchyAssumption
    <2>3. IsTree(Hierarchy!Imported(node, rows))
      BY <2>2, ImportedIsTree DEF HierarchyInv
    <2> QED BY <2>1, <2>2, <2>3 DEF HierarchyInv, IsTree
  <1> QED BY <1>1, <1>2, <1>3 DEF Hierarchy!Next

\* The hierarchy begins with a tree.
LEMMA HierarchyBegins ==
  ASSUME Hierarchy!HierarchyAssumption, Hierarchy!Init
  PROVE  HierarchyInv
  <1>1. Seeded \in Tables
    BY DEF Hierarchy!HierarchyAssumption, Tables
  <1> QED BY <1>1, NoImportIs DEF Hierarchy!HierarchyAssumption, Hierarchy!Init, HierarchyInv, IsTree

\* What holds of the hierarchy implies its properties.
LEMMA HierarchyInvSuffices ==
  ASSUME Hierarchy!HierarchyAssumption, HierarchyInv
  PROVE  Hierarchy!TypeOK /\ Hierarchy!HierarchyIsSound
  <1>1. Hierarchy!TypeOK
    BY TableIs DEF HierarchyInv, IsTree, Hierarchy!TypeOK
  <1>2. Hierarchy!PathsFollowParents
    BY DEF HierarchyInv, IsTree, Hierarchy!PathsFollowParents
  <1> QED BY <1>1, <1>2, RollupsAreSubtrees, MovesAreNone, ImportsAreOrderFree DEF Hierarchy!HierarchyIsSound

-------------------------------------------------------------------------------
(* What is read out of the metric events (RollupsAgree), for any ledger.      *)

\* Two elements of a set are a sequence of them.
LEMMA PairIsSequence ==
  ASSUME NEW K, NEW a \in K, NEW b \in K
  PROVE  <<a, b>> \in Seq(K)
  OBVIOUS

\* The sums of EmissionRollups are those of the lemmas.
LEMMA SameSum ==
  ASSUME NEW f, NEW S
  PROVE  Rollup!SumFunctionOnSet(f, S) = SumFunctionOnSet(f, S)
  BY DEF Rollup!SumFunctionOnSet, Rollup!FoldFunctionOnSet, Rollup!MapThenFoldSet,
         SumFunctionOnSet, FoldFunctionOnSet, MapThenFoldSet

\* Any finite number of rows can be added up, in tonnes as well.
LEMMA LedgerTypes ==
  ASSUME NEW events, Rollup!IsLedger(events)
  PROVE  /\ IsFiniteSet(DOMAIN events)
         /\ \A S \in SUBSET DOMAIN events : IsFiniteSet(S)
         /\ \A i \in DOMAIN events :
               /\ events[i].key \in Rollup!Keys /\ events[i].value \in Int
               /\ events[i].from \in Int /\ events[i].to \in Int
               /\ events[i].from <= events[i].to
               /\ Rollup!ValueOf(events)[i] = events[i].value
               /\ Rollup!asTco2e(events)[i] \in Int
               /\ Rollup!toTco2e(events)[i] \in Int
  <1>1. events \in Seq(Rollup!Range(events)) /\ DOMAIN events = 1 .. Len(events) /\ Len(events) \in Nat
    BY DEF Rollup!IsLedger
  <1>2. IsFiniteSet(DOMAIN events)
    BY <1>1, FS_Interval
  <1>3. \A S \in SUBSET DOMAIN events : IsFiniteSet(S)
    BY <1>2, FS_Subset
  <1>4. ASSUME NEW i \in DOMAIN events
        PROVE  /\ events[i].key \in Rollup!Keys /\ events[i].value \in Int
               /\ events[i].from \in Int /\ events[i].to \in Int
               /\ events[i].from <= events[i].to
    BY DEF Rollup!IsLedger, Rollup!Range
  <1>5. ASSUME NEW i \in DOMAIN events
        PROVE  /\ Rollup!ValueOf(events)[i] = events[i].value
               /\ Rollup!asTco2e(events)[i] \in Int
               /\ Rollup!toTco2e(events)[i] \in Int
    BY <1>4 DEF Rollup!ValueOf, Rollup!asTco2e, Rollup!toTco2e, Rollup!CEA_TCO2E_PER_KWH
  <1> QED BY <1>2, <1>3, <1>4, <1>5

\* What is found is a set of rows, and so is the part of it with some keys.
LEMMA FoundIsRows ==
  ASSUME NEW events, NEW nodes, NEW period, NEW keys
  PROVE  /\ Rollup!Fetch(events, nodes, period) \subseteq DOMAIN events
         /\ Rollup!OfKeys(events, Rollup!Fetch(events, nodes, period), keys) \subseteq DOMAIN events
  BY DEF Rollup!Fetch, Rollup!OfKeys

\* Amounts of rows, selected by key: sets of keys without a common one add up.
LEMMA SumOfKeys ==
  ASSUME NEW events, Rollup!IsLedger(events), NEW found \in SUBSET DOMAIN events,
         NEW f, \A i \in DOMAIN events : f[i] \in Int,
         NEW K, NEW L, K \cap L = {}
  PROVE  /\ SumFunctionOnSet(f, Rollup!OfKeys(events, found, K \cup L)) =
              SumFunctionOnSet(f, Rollup!OfKeys(events, found, K))
                + SumFunctionOnSet(f, Rollup!OfKeys(events, found, L))
         /\ SumFunctionOnSet(f, Rollup!OfKeys(events, found, K)) \in Int
  <1> DEFINE S == Rollup!OfKeys(events, found, K)
             T == Rollup!OfKeys(events, found, L)
  <1>1. S \subseteq DOMAIN events /\ T \subseteq DOMAIN events /\ S \cap T = {}
        /\ Rollup!OfKeys(events, found, K \cup L) = S \cup T
    BY DEF Rollup!OfKeys
  <1>2. IsFiniteSet(S) /\ IsFiniteSet(T)
    BY <1>1, LedgerTypes
  <1>3. \A i \in S \cup T : f[i] \in Int
    BY <1>1
  <1> HIDE DEF S, T
  <1>4. SumFunctionOnSet(f, S \cup T) = SumFunctionOnSet(f, S) + SumFunctionOnSet(f, T)
    BY <1>1, <1>2, <1>3, SumOfUnion
  <1>5. SumFunctionOnSet(f, S) \in Int
    BY <1>2, <1>3, SumType
  <1> QED BY <1>1, <1>4, <1>5 DEF S, T

-------------------------------------------------------------------------------
(* Fiscal years.                                                             *)

\* A fiscal year begins in April, and every month is in one.
LEMMA YearOfInstant ==
  ASSUME NEW t \in Int
  PROVE  /\ Rollup!MonthOf(t) \in Int
         /\ 4 * Rollup!MonthOf(t) <= t /\ t <= 4 * Rollup!MonthOf(t) + 3
         /\ Rollup!FiscalYearOf(t) \in Int
         /\ Rollup!FiscalYearOf(t) <= Rollup!MonthOf(t)
         /\ Rollup!MonthOf(t) <= Rollup!FiscalYearOf(t) + 11
  <1>1. /\ Rollup!MonthOf(t) \in Int
        /\ 4 * Rollup!MonthOf(t) <= t /\ t <= 4 * Rollup!MonthOf(t) + 3
    BY DEF Rollup!MonthOf
  <1> DEFINE m == Rollup!MonthOf(t)
  <1>2. m \div 12 \in Int /\ (m % 12) \in 0 .. 11 /\ m = 12 * (m \div 12) + (m % 12)
    <2> HIDE DEF m
    <2> QED BY <1>1 DEF m
  <1>3. CASE m % 12 >= 3
    <2>1. Rollup!FiscalYearOf(t) = 12 * (m \div 12) + 3
      BY <1>3 DEF Rollup!FiscalYearOf
    <2> HIDE DEF m
    <2> QED BY <1>1, <1>2, <1>3, <2>1 DEF m
  <1>4. CASE ~ (m % 12 >= 3)
    <2>1. Rollup!FiscalYearOf(t) = 12 * (m \div 12 - 1) + 3
      BY <1>4 DEF Rollup!FiscalYearOf
    <2> DEFINE q == m \div 12
               r == m % 12
    <2>2. q \in Int /\ r \in 0 .. 11 /\ m = 12 * q + r /\ ~ (r >= 3) /\ m \in Int
      BY <1>1, <1>2, <1>4
    <2>3. Rollup!FiscalYearOf(t) = 12 * (q - 1) + 3
      BY <2>1
    <2> HIDE DEF m, q, r
    <2>4. 12 * (q - 1) + 3 <= m /\ m <= (12 * (q - 1) + 3) + 11 /\ 12 * (q - 1) + 3 \in Int
      BY <2>2
    <2> QED BY <1>1, <2>3, <2>4 DEF m
  <1> QED BY <1>3, <1>4

\* The period that is shown is a fiscal year: the one in which the last settled row ends,
\* if there is one.
LEMMA DefaultIsYear ==
  ASSUME NEW events, Rollup!IsLedger(events), NEW today \in Int
  PROVE  \E t \in Int :
            /\ Rollup!DefaultPeriod(events, today) = Rollup!WholeYear(Rollup!FiscalYearOf(t))
            /\ \A i \in DOMAIN events :
                  Rollup!Settled(events[i]) =>
                     /\ events[i].to <= t
                     /\ \E j \in DOMAIN events : Rollup!Settled(events[j]) /\ events[j].to = t
  <1> DEFINE settled == {j \in DOMAIN events : Rollup!Settled(events[j])}
             ends == {events[i].to : i \in settled}
             last == CHOOSE t \in ends : \A u \in ends : u <= t
  <1>1. CASE ends = {}
    <2>1. Rollup!DefaultPeriod(events, today) = Rollup!WholeYear(Rollup!FiscalYearOf(today))
      BY <1>1 DEF Rollup!DefaultPeriod
    <2>2. \A i \in DOMAIN events : ~ Rollup!Settled(events[i])
      BY <1>1
    <2> QED BY <2>1, <2>2
  <1>2. CASE ends # {}
    <2>1. Rollup!DefaultPeriod(events, today) = Rollup!WholeYear(Rollup!FiscalYearOf(last))
      BY <1>2 DEF Rollup!DefaultPeriod
    <2>2. ends \subseteq Int
      BY LedgerTypes
    <2>3. IsFiniteSet(ends)
      <3> DEFINE c == [i \in settled |-> events[i].to]
      <3>1. IsFiniteSet(settled)
        BY LedgerTypes
      <3>2. c \in Surjection(settled, ends)
        BY DEF Surjection
      <3> HIDE DEF c, settled, ends
      <3> QED BY <3>1, <3>2, FS_Surjection
    <2>4. \E t \in ends : \A u \in ends : u <= t
      <3> DEFINE R == {p \in Int \X Int : p[1] > p[2]}
      <3>0. \A x, y \in Int : <<x, y>> \in R <=> x > y
        OBVIOUS
      <3> HIDE DEF R, ends
      <3>1. ASSUME NEW x \in ends, NEW y \in ends
            PROVE  x = y \/ <<x, y>> \in R \/ <<y, x>> \in R
        <4>1. x \in Int /\ y \in Int
          BY <2>2
        <4> QED BY <3>0, <4>1
      <3>2. \A x, y, z \in ends : <<x, y>> \in R /\ <<y, z>> \in R => <<x, z>> \in R
        BY <2>2, <3>0
      <3>3. PICK t \in ends : \A u \in ends \ {t} : <<t, u>> \in R
        BY <1>2, <2>3, <3>1, <3>2, FirstExists, SMTT(30)
      <3>4. ASSUME NEW u \in ends PROVE u <= t
        <4>1. u \in Int /\ t \in Int
          BY <2>2
        <4>2. CASE u = t
          BY <4>1, <4>2
        <4>3. CASE u # t
          <5>1. <<t, u>> \in R
            BY <3>3, <4>3
          <5> QED BY <3>0, <4>1, <5>1
        <4> QED BY <4>2, <4>3
      <3> QED BY <3>4
    <2>5. last \in ends /\ \A u \in ends : u <= last
      <3> HIDE DEF ends
      <3> QED BY <2>4
    <2> HIDE DEF last
    <2>6. \E j \in DOMAIN events : Rollup!Settled(events[j]) /\ events[j].to = last
      BY <2>5
    <2>7. \A i \in DOMAIN events : Rollup!Settled(events[i]) => events[i].to <= last
      BY <2>5
    <2>8. last \in Int
      <3> HIDE DEF ends
      <3> QED BY <2>2, <2>5
    <2> QED BY <2>1, <2>6, <2>7, <2>8
  <1> QED BY <1>1, <1>2

\* The bounds of a year, and where the months of the rows in it are.
LEMMA YearBounds ==
  ASSUME NEW k \in Int
  PROVE  /\ Rollup!WholeYear(k).from = 4 * k /\ Rollup!WholeYear(k).to = 4 * k + 46
         /\ Rollup!priorYear(Rollup!WholeYear(k)).from = 4 * k - 48
         /\ Rollup!priorYear(Rollup!WholeYear(k)).to = 4 * k - 2
         /\ Rollup!MonthOf(Rollup!WholeYear(k).from) = k
  <1>1. /\ Rollup!WholeYear(k).from = 4 * k /\ Rollup!WholeYear(k).to = 4 * k + 46
    BY DEF Rollup!WholeYear
  <1>2. /\ Rollup!priorYear(Rollup!WholeYear(k)).from = 4 * k - 48
        /\ Rollup!priorYear(Rollup!WholeYear(k)).to = 4 * k - 2
    BY <1>1 DEF Rollup!priorYear
  <1>3. (4 * k) \div 4 = k
    OBVIOUS
  <1> QED BY <1>1, <1>2, <1>3 DEF Rollup!MonthOf

\* The rows that are found are settled, and of the period.
LEMMA FoundIs ==
  ASSUME NEW events, NEW nodes, NEW period, NEW i
  PROVE  i \in Rollup!Fetch(events, nodes, period) <=>
            /\ i \in DOMAIN events
            /\ Rollup!Settled(events[i])
            /\ nodes = {} \/ events[i].node \in nodes
            /\ events[i].from >= period.from
            /\ events[i].to <= period.to
  BY DEF Rollup!Fetch

\* YearHoldsItsEvent, of any ledger on any day.
THEOREM YearsHoldTheirEvents ==
  ASSUME NEW events, Rollup!IsLedger(events), NEW today \in Int
  PROVE  Rollup!YearHoldsItsEvent(events, today)
  <1> DEFINE period == Rollup!DefaultPeriod(events, today)
             before == Rollup!priorYear(period)
             settled == {i \in DOMAIN events : Rollup!Settled(events[i])}
             inYear(p) == Rollup!Fetch(events, {}, p)
  <1>1. PICK t \in Int :
            /\ period = Rollup!WholeYear(Rollup!FiscalYearOf(t))
            /\ \A i \in settled : events[i].to <= t /\ \E j \in settled : events[j].to = t
    BY DefaultIsYear
  <1>2. PICK k \in Int : k = Rollup!FiscalYearOf(t) /\ 4 * k <= t /\ t <= 4 * k + 47
    <2> DEFINE k == Rollup!FiscalYearOf(t)
               m == Rollup!MonthOf(t)
    <2>1. k \in Int /\ m \in Int /\ 4 * m <= t /\ t <= 4 * m + 3 /\ k <= m /\ m <= k + 11
      BY YearOfInstant
    <2> HIDE DEF k, m
    <2>2. 4 * k <= t /\ t <= 4 * k + 47
      BY <2>1
    <2> QED BY <2>1, <2>2 DEF k
  <1>3. /\ period.from = 4 * k /\ period.to = 4 * k + 46
        /\ before.from = 4 * k - 48 /\ before.to = 4 * k - 2
    BY <1>1, <1>2, YearBounds
  <1>4. \A i \in settled : events[i].from \in Int /\ events[i].to \in Int /\ events[i].from <= events[i].to
    BY LedgerTypes
  <1>5. \A i : /\ i \in inYear(period) <=> i \in settled /\ events[i].from >= 4 * k /\ events[i].to <= 4 * k + 46
               /\ i \in inYear(before) <=> i \in settled /\ events[i].from >= 4 * k - 48 /\ events[i].to <= 4 * k - 2
    BY <1>3, FoundIs
  <1> HIDE DEF period, settled, inYear, before
  <1>6. ASSUME NEW i \in settled, \A j \in settled : events[j].to <= events[i].to
        PROVE  i \in inYear(period) \/ events[i].from < period.from \/ events[i].to = period.to + 1
    <2>1. events[i].to = t
      <3>1. PICK j \in settled : events[j].to = t
        BY <1>1
      <3> QED BY <1>1, <1>4, <1>6, <3>1
    <2> QED BY <1>2, <1>3, <1>4, <1>5, <2>1
  <1>7. inYear(period) \cap inYear(before) = {}
    BY <1>4, <1>5
  <1>8. ASSUME NEW i \in settled, events[i].from >= period.from - 48, events[i].to <= period.to
        PROVE  \/ i \in inYear(period) \cup inYear(before)
               \/ events[i].from < period.from /\ events[i].to >= period.from - 1
    BY <1>3, <1>4, <1>5, <1>8
  <1>9. /\ \A i \in settled : (\A j \in settled : events[j].to <= events[i].to) =>
              i \in inYear(period) \/ events[i].from < period.from \/ events[i].to = period.to + 1
        /\ inYear(period) \cap inYear(before) = {}
        /\ \A i \in settled : events[i].from >= period.from - 48 /\ events[i].to <= period.to =>
              \/ i \in inYear(period) \cup inYear(before)
              \/ events[i].from < period.from /\ events[i].to >= period.from - 1
    BY <1>6, <1>7, <1>8
  <1> QED BY <1>9 DEF Rollup!YearHoldsItsEvent, period, settled, inYear, before

-------------------------------------------------------------------------------
(* The pages.                                                                *)

\* The key of a row is one of seven.
LEMMA KeysAre ==
  Rollup!Keys = {"ghg_scope1_total", "ghg_scope2_location", "ghg_scope2_market",
                 "purchased_electricity_kwh", "ghg_total", "ghg_scope3_cat1", "ghg_scope3_cat2"}
  BY DEF Rollup!Keys, Rollup!Scope3Keys

\* The pages of one period add up.
LEMMA ScopesOfOnePeriod ==
  ASSUME NEW events, Rollup!IsLedger(events), NEW nodes, NEW asked, NEW today,
         Rollup!resolvePeriod(asked, today) = Rollup!resolveOverviewPeriod(events, asked, today)
  PROVE  Rollup!ScopesAddUp(events, nodes, asked, today)
  <1> DEFINE period == Rollup!resolvePeriod(asked, today)
             found == Rollup!Fetch(events, nodes, period)
             amount == Rollup!ValueOf(events)
             tonnes == Rollup!asTco2e(events)
             rows(K) == Rollup!OfKeys(events, found, K)
             of(K) == SumFunctionOnSet(tonnes, rows(K))
             scope(n) == Rollup!emissions(events, n, nodes, asked, today)
             overview == Rollup!emissionsOverview(events, nodes, asked, today)
  <1>1. found \in SUBSET DOMAIN events
    BY FoundIsRows
  <1>2. \A K : rows(K) \in SUBSET DOMAIN events /\ IsFiniteSet(rows(K))
    BY <1>1, LedgerTypes DEF Rollup!OfKeys
  <1>3. /\ overview.scope1 = of({"ghg_scope1_total"})
        /\ overview.scope2Location = of({"ghg_scope2_location", "purchased_electricity_kwh"})
        /\ overview.scope2Market = of({"ghg_scope2_market"})
        /\ overview.scope3 = of(Rollup!Scope3Keys)
    BY SameSum DEF Rollup!emissionsOverview
  <1>4. ASSUME NEW n \in 1 .. 3
        PROVE  scope(n) = [key \in Rollup!scopeKeys[n] |-> SumFunctionOnSet(amount, rows({key}))]
    BY SameSum DEF Rollup!emissions
  <1>5. ASSUME NEW key \in {"ghg_scope1_total", "ghg_scope2_location", "ghg_scope2_market"} \cup Rollup!Scope3Keys
        PROVE  SumFunctionOnSet(amount, rows({key})) = of({key}) /\ of({key}) \in Int
    <2>1. ASSUME NEW i \in rows({key})
          PROVE  amount[i] = tonnes[i] /\ tonnes[i] \in Int
      <3>1. i \in DOMAIN events /\ events[i].key = key
        BY <1>1 DEF Rollup!OfKeys
      <3> QED BY <3>1, LedgerTypes DEF Rollup!asTco2e, Rollup!ValueOf, Rollup!Scope3Keys
    <2> HIDE DEF rows, amount, tonnes
    <2> QED BY <1>2, <2>1, SumOfSame, SumType
  <1>6. of({"ghg_scope2_location"} \cup {"purchased_electricity_kwh"}) =
           of({"ghg_scope2_location"}) + of({"purchased_electricity_kwh"})
    <2>1. \A i \in DOMAIN events : tonnes[i] \in Int
      BY LedgerTypes
    <2>2. {"ghg_scope2_location"} \cap {"purchased_electricity_kwh"} = {}
      OBVIOUS
    <2> HIDE DEF tonnes, found
    <2> QED BY <1>1, <2>1, <2>2, SumOfKeys
  <1>7. SumFunctionOnSet(scope(3), Rollup!Scope3Keys) = of(Rollup!Scope3Keys)
    <2> DEFINE S == rows(Rollup!Scope3Keys)
               c == [i \in DOMAIN events |-> events[i].key]
               J == Rollup!Scope3Keys
               share == [j \in J |-> {i \in S : c[i] = j}]
               h == scope(3)
    <2>1. \A i \in S : tonnes[i] \in Int
      BY <1>2, LedgerTypes
    <2>2. IsFiniteSet(J)
      <3>1. IsFiniteSet({"ghg_scope3_cat1"}) /\ IsFiniteSet({"ghg_scope3_cat2"})
        BY FS_Singleton
      <3>2. J = {"ghg_scope3_cat1"} \cup {"ghg_scope3_cat2"}
        BY DEF Rollup!Scope3Keys
      <3> HIDE DEF J
      <3> QED BY <3>1, <3>2, FS_Union
    <2>3. \A i \in S : c[i] \in J
      BY <1>2 DEF Rollup!OfKeys
    <2>4. ASSUME NEW j \in J
          PROVE  h[j] = SumFunctionOnSet(tonnes, share[j])
      <3>1. share[j] = rows({j})
        BY <1>1 DEF Rollup!OfKeys
      <3>2. Rollup!scopeKeys[3] = J
        BY DEF Rollup!scopeKeys
      <3>3. h[j] = SumFunctionOnSet(amount, rows({j}))
        <4>1. h = [key \in Rollup!scopeKeys[3] |-> SumFunctionOnSet(amount, rows({key}))]
          BY <1>4
        <4> HIDE DEF h, J
        <4> QED BY <3>2, <4>1
      <3>4. SumFunctionOnSet(amount, rows({j})) = SumFunctionOnSet(tonnes, rows({j}))
        BY <1>5
      <3> HIDE DEF h, rows, amount, tonnes, S, c, J, share
      <3> QED BY <3>1, <3>3, <3>4
    <2>5. IsFiniteSet(S)
      BY <1>2
    <2>6. \A j \in J : share[j] = {i \in S : c[i] = j}
      OBVIOUS
    <2> HIDE DEF S, c, J, h, tonnes, share
    <2>7. SumFunctionOnSet(h, J) = SumFunctionOnSet(tonnes, S)
      BY <2>1, <2>2, <2>3, <2>4, <2>5, <2>6, SumOfParts
    <2> QED BY <2>7 DEF S, J, h
  <1>8. scope(1)["ghg_scope1_total"] = of({"ghg_scope1_total"})
    <2>1. "ghg_scope1_total" \in Rollup!scopeKeys[1]
      BY DEF Rollup!scopeKeys
    <2>2. scope(1)["ghg_scope1_total"] = SumFunctionOnSet(amount, rows({"ghg_scope1_total"}))
      BY <1>4, <2>1
    <2> HIDE DEF scope, amount, rows
    <2> QED BY <1>5, <2>2
  <1>9. /\ scope(2)["ghg_scope2_location"] = of({"ghg_scope2_location"})
        /\ scope(2)["ghg_scope2_market"] = of({"ghg_scope2_market"})
    <2>1. Rollup!scopeKeys[2] = {"ghg_scope2_location", "ghg_scope2_market"}
      BY DEF Rollup!scopeKeys
    <2>2. \A key \in {"ghg_scope2_location", "ghg_scope2_market"} :
             scope(2)[key] = SumFunctionOnSet(amount, rows({key}))
      <3>1. scope(2) = [key \in Rollup!scopeKeys[2] |-> SumFunctionOnSet(amount, rows({key}))]
        BY <1>4
      <3> HIDE DEF scope, amount, rows
      <3> QED BY <2>1, <3>1
    <2> HIDE DEF scope, amount, rows
    <2> QED BY <1>5, <2>2
  <1>10. of({"ghg_scope2_location", "purchased_electricity_kwh"}) =
            of({"ghg_scope2_location"}) + of({"purchased_electricity_kwh"})
    <2>1. {"ghg_scope2_location", "purchased_electricity_kwh"} =
             {"ghg_scope2_location"} \cup {"purchased_electricity_kwh"}
      OBVIOUS
    <2> HIDE DEF of
    <2> QED BY <1>6, <2>1
  <1>11. /\ overview.scope1 = scope(1)["ghg_scope1_total"]
         /\ overview.scope2Location = scope(2)["ghg_scope2_location"]
                                        + SumFunctionOnSet(tonnes, rows({"purchased_electricity_kwh"}))
         /\ overview.scope2Market = scope(2)["ghg_scope2_market"]
         /\ overview.scope3 = SumFunctionOnSet(scope(3), Rollup!Scope3Keys)
    <2> HIDE DEF overview, scope
    <2> QED BY <1>3, <1>7, <1>8, <1>9, <1>10
  <1> QED BY <1>11, SameSum DEF Rollup!ScopesAddUp

\* ScopesAgree, of any ledger, for any selection of nodes, on any day, with a period or
\* without.
THEOREM ScopesMayDiffer ==
  ASSUME NEW events, Rollup!IsLedger(events), NEW nodes, NEW asked, NEW today \in Int
  PROVE  Rollup!ScopesAgree(events, nodes, asked, today)
  <1> DEFINE thisYear == Rollup!WholeYear(Rollup!FiscalYearOf(today))
             past == \A i \in DOMAIN events :
                        Rollup!Settled(events[i]) => events[i].to < thisYear.from
             none == \A i \in DOMAIN events : ~Rollup!Settled(events[i])
  <1>1. ASSUME none PROVE Rollup!DefaultPeriod(events, today) = thisYear
    BY <1>1 DEF Rollup!DefaultPeriod
  <1>2. ASSUME asked # Rollup!Unasked \/ none \/ Rollup!DefaultPeriod(events, today) = thisYear
        PROVE  Rollup!ScopesAddUp(events, nodes, asked, today)
    <2>1. Rollup!resolvePeriod(asked, today) = Rollup!resolveOverviewPeriod(events, asked, today)
      BY <1>1, <1>2 DEF Rollup!resolvePeriod, Rollup!resolveOverviewPeriod
    <2> QED BY <2>1, ScopesOfOnePeriod
  <1>3. ASSUME asked = Rollup!Unasked, past, NEW n \in 1 .. 3, NEW key \in Rollup!scopeKeys[n]
        PROVE  Rollup!emissions(events, n, nodes, asked, today)[key] = 0
    <2> DEFINE found == Rollup!Fetch(events, nodes, thisYear)
    <2>1. found = {}
      <3>1. SUFFICES ASSUME NEW i \in found PROVE FALSE
        OBVIOUS
      <3>2. /\ i \in DOMAIN events /\ Rollup!Settled(events[i])
            /\ events[i].from >= thisYear.from
        BY DEF Rollup!Fetch
      <3>3. events[i].from \in Int /\ events[i].to \in Int /\ events[i].from <= events[i].to
        BY <3>2, LedgerTypes
      <3>4. thisYear.from \in Int
        BY YearBounds, YearOfInstant
      <3>5. events[i].to < thisYear.from
        BY <1>3, <3>2
      <3> HIDE DEF thisYear
      <3> QED BY <3>2, <3>3, <3>4, <3>5
    <2>2. Rollup!resolvePeriod(asked, today) = thisYear
      BY <1>3 DEF Rollup!resolvePeriod
    <2>3. Rollup!OfKeys(events, found, {key}) = {}
      BY <2>1 DEF Rollup!OfKeys
    <2>4. Rollup!emissions(events, n, nodes, asked, today)[key] =
             SumFunctionOnSet(Rollup!ValueOf(events), Rollup!OfKeys(events, found, {key}))
      BY <2>2, SameSum DEF Rollup!emissions
    <2>5. SumFunctionOnSet(Rollup!ValueOf(events), {}) = 0
      BY SumOfNone
    <2> QED BY <2>3, <2>4, <2>5
  <1> QED BY <1>2, <1>3 DEF Rollup!ScopesAgree

\* A row of a year ends in one of its twelve months.
LEMMA MonthsOfYear ==
  ASSUME NEW events, Rollup!IsLedger(events), NEW k \in Int,
         NEW i \in Rollup!Fetch(events, {}, Rollup!WholeYear(k))
  PROVE  Rollup!MonthOf(events[i].to) \in k .. k + 11
  <1>a. /\ i \in DOMAIN events
        /\ events[i].from >= Rollup!WholeYear(k).from /\ events[i].to <= Rollup!WholeYear(k).to
    BY FoundIs
  <1>b. /\ events[i].from \in Int /\ events[i].to \in Int /\ events[i].from <= events[i].to
    BY <1>a, LedgerTypes
  <1>1. /\ events[i].from \in Int /\ events[i].to \in Int /\ events[i].from <= events[i].to
        /\ events[i].from >= 4 * k /\ events[i].to <= 4 * k + 46
    BY <1>a, <1>b, YearBounds
  <1> DEFINE t == events[i].to
             m == Rollup!MonthOf(t)
  <1>2. m \in Int /\ 4 * m <= t /\ t <= 4 * m + 3
    BY <1>1, YearOfInstant
  <1> HIDE DEF m
  <1>3. m \in k .. k + 11
    BY <1>1, <1>2
  <1> QED BY <1>3 DEF m

\* What counts as an emission or as energy has the same tonnes on both pages.
LEMMA SameTonnes ==
  ASSUME NEW events, Rollup!IsLedger(events), NEW i \in DOMAIN events,
         events[i].key \in Rollup!isEnergyOrGhg
  PROVE  Rollup!toTco2e(events)[i] = Rollup!asTco2e(events)[i]
  BY DEF Rollup!toTco2e, Rollup!asTco2e, Rollup!isEnergyOrGhg, Rollup!Scope3Keys

\* PagesAgree, of any ledger on any day.
THEOREM PagesShowTheSame ==
  ASSUME NEW events, Rollup!IsLedger(events), NEW today \in Int
  PROVE  Rollup!PagesAgree(events, today)
  <1> DEFINE period == Rollup!DefaultPeriod(events, today)
             found == Rollup!Fetch(events, {}, period)
             emitting == Rollup!OfKeys(events, found, Rollup!isEnergyOrGhg)
             tonnes == Rollup!asTco2e(events)
             board == Rollup!kpis(events, today)
             overview == Rollup!emissionsOverview(events, {}, Rollup!Unasked, today)
             of(K) == SumFunctionOnSet(tonnes, Rollup!OfKeys(events, found, K))
             month(n) == Rollup!InMonth(events, emitting, n)
  <1>1. PICK k \in Int : /\ period = Rollup!WholeYear(k)
                         /\ Rollup!MonthOf(period.from) = k
    <2>1. PICK t \in Int : period = Rollup!WholeYear(Rollup!FiscalYearOf(t))
      BY DefaultIsYear
    <2>2. Rollup!FiscalYearOf(t) \in Int
      BY YearOfInstant
    <2> QED BY <2>1, <2>2, YearBounds
  <1>2. found \in SUBSET DOMAIN events
    BY FoundIsRows
  <1>3. /\ emitting \in SUBSET DOMAIN events /\ IsFiniteSet(emitting)
        /\ \A i \in emitting : /\ i \in found
                               /\ tonnes[i] \in Int
                               /\ Rollup!toTco2e(events)[i] = tonnes[i]
    BY <1>2, LedgerTypes, SameTonnes DEF Rollup!OfKeys
  <1>4. ASSUME NEW U \in SUBSET emitting
        PROVE  /\ SumFunctionOnSet(Rollup!toTco2e(events), U) = SumFunctionOnSet(tonnes, U)
               /\ SumFunctionOnSet(tonnes, U) \in Int
    <2>1. IsFiniteSet(U)
      BY <1>3, FS_Subset
    <2>2. \A i \in U : tonnes[i] \in Int /\ Rollup!toTco2e(events)[i] = tonnes[i]
      BY <1>3
    <2> HIDE DEF tonnes, emitting
    <2> QED BY <2>1, <2>2, SumOfSame, SumType
  <1>5. /\ board.total = SumFunctionOnSet(tonnes, emitting)
        /\ board.sparkline = [j \in 1 .. 12 |-> SumFunctionOnSet(Rollup!toTco2e(events), month(k + j - 1))]
    <2>1. board.total = SumFunctionOnSet(Rollup!toTco2e(events), emitting)
      BY SameSum DEF Rollup!kpis
    <2>2. board.sparkline = [j \in 1 .. 12 |-> SumFunctionOnSet(Rollup!toTco2e(events), month(Rollup!MonthOf(period.from) + j - 1))]
      BY SameSum DEF Rollup!kpis, Rollup!fySparkline
    <2> HIDE DEF board, tonnes, emitting, month, period
    <2>3. emitting \in SUBSET emitting
      OBVIOUS
    <2> QED BY <1>1, <1>4, <2>1, <2>2, <2>3
  <1>6. \A n : month(n) \in SUBSET emitting
    BY DEF Rollup!InMonth
  <1>7. ASSUME NEW j \in 1 .. 12
        PROVE  board.sparkline[j] = SumFunctionOnSet(tonnes, month(k + j - 1))
    <2> HIDE DEF board, tonnes, emitting, month
    <2> QED BY <1>4, <1>5, <1>6
  <1>8. /\ overview.total = (of({"ghg_scope1_total"})
                               + of({"ghg_scope2_location", "purchased_electricity_kwh"}))
                               + of(Rollup!Scope3Keys)
        /\ overview.scope2Market = of({"ghg_scope2_market"})
    BY SameSum DEF Rollup!emissionsOverview, Rollup!resolveOverviewPeriod
  <1>9. board.total = overview.total + overview.scope2Market
    <2> DEFINE A == {"ghg_scope1_total"}
               B == {"ghg_scope2_location", "purchased_electricity_kwh"}
               C == {"ghg_scope2_market"}
               D == Rollup!Scope3Keys
    <2>1. A \cap (B \cup (C \cup D)) = {} /\ B \cap (C \cup D) = {} /\ C \cap D = {}
      BY DEF Rollup!Scope3Keys
    <2>2. Rollup!isEnergyOrGhg = A \cup (B \cup (C \cup D))
      BY DEF Rollup!isEnergyOrGhg
    <2>3. \A i \in DOMAIN events : tonnes[i] \in Int
      BY LedgerTypes
    <2> HIDE DEF A, B, C, D, tonnes, found, board, overview
    <2>4. of(A \cup (B \cup (C \cup D))) = of(A) + of(B \cup (C \cup D)) /\ of(A) \in Int
      BY <1>2, <2>1, <2>3, SumOfKeys
    <2>5. of(B \cup (C \cup D)) = of(B) + of(C \cup D) /\ of(B) \in Int
      BY <1>2, <2>1, <2>3, SumOfKeys
    <2>6. of(C \cup D) = of(C) + of(D) /\ of(C) \in Int /\ of(D) \in Int
      <3>1. of(C \cup D) = of(C) + of(D) /\ of(C) \in Int
        BY <1>2, <2>1, <2>3, SumOfKeys
      <3>2. D \cap {} = {}
        OBVIOUS
      <3>3. of(D) \in Int
        BY <1>2, <2>3, <3>2, SumOfKeys
      <3> QED BY <3>1, <3>3
    <2>7. board.total = of(A \cup (B \cup (C \cup D)))
      BY <1>5, <2>2
    <2>8. /\ overview.total = (of(A) + of(B)) + of(D)
          /\ overview.scope2Market = of(C)
      BY <1>8 DEF A, B, C, D
    <2> HIDE DEF of
    <2> QED BY <2>4, <2>5, <2>6, <2>7, <2>8
  <1>10. overview.monthlyTrend =
            [n \in {Rollup!MonthOf(events[i].to) : i \in emitting} |-> SumFunctionOnSet(tonnes, month(n))]
    <2>1. Rollup!Keys \ {"ghg_total"} = Rollup!isEnergyOrGhg
      BY KeysAre DEF Rollup!isEnergyOrGhg, Rollup!Scope3Keys
    <2>2. overview.monthlyTrend = Rollup!ByMonth(events, emitting)
      BY <2>1 DEF Rollup!emissionsOverview, Rollup!resolveOverviewPeriod
    <2> QED BY <2>2, SameSum DEF Rollup!ByMonth
  <1>11. ASSUME NEW i \in emitting
         PROVE  Rollup!MonthOf(events[i].to) \in k .. k + 11
    BY <1>1, <1>3, MonthsOfYear
  <1>12. DOMAIN overview.monthlyTrend \subseteq k .. k + 11
    BY <1>10, <1>11
  <1>13. ASSUME NEW j \in 1 .. 12
         PROVE  board.sparkline[j] = IF k + j - 1 \in DOMAIN overview.monthlyTrend
                                    THEN overview.monthlyTrend[k + j - 1] ELSE 0
    <2>1. CASE k + j - 1 \in DOMAIN overview.monthlyTrend
      <3> HIDE DEF board, overview, month, tonnes, emitting
      <3> QED BY <1>7, <1>10, <2>1
    <2>2. CASE k + j - 1 \notin DOMAIN overview.monthlyTrend
      <3>1. month(k + j - 1) = {}
        <4> HIDE DEF overview, emitting, tonnes
        <4> QED BY <1>10, <2>2 DEF Rollup!InMonth
      <3>2. SumFunctionOnSet(tonnes, {}) = 0
        BY SumOfNone
      <3> HIDE DEF board, overview, month, tonnes
      <3> QED BY <1>7, <2>2, <3>1, <3>2
    <2> QED BY <2>1, <2>2
  <1>14. SumFunctionOnSet(board.sparkline, 1 .. 12) = board.total
    <2> DEFINE c == [i \in DOMAIN events |-> Rollup!MonthOf(events[i].to) - k + 1]
               J == 1 .. 12
               share == [j \in J |-> {i \in emitting : c[i] = j}]
               h == board.sparkline
    <2>1. IsFiniteSet(J) /\ IsFiniteSet(emitting)
      <3>1. 1 \in Int /\ 12 \in Int
        OBVIOUS
      <3> QED BY <1>3, <3>1, FS_Interval
    <2>2. ASSUME NEW i \in emitting
          PROVE  c[i] \in J
      <3>1. i \in DOMAIN events
        BY <1>3
      <3>2. c[i] = Rollup!MonthOf(events[i].to) - k + 1
        BY <3>1
      <3> QED BY <1>11, <3>2
    <2>3. ASSUME NEW j \in J
          PROVE  h[j] = SumFunctionOnSet(tonnes, share[j])
      <3>1. ASSUME NEW i \in emitting
            PROVE  c[i] = j <=> Rollup!MonthOf(events[i].to) = k + j - 1
        <4> DEFINE m == Rollup!MonthOf(events[i].to)
        <4>1. i \in DOMAIN events /\ m \in Int
          BY <1>3, <1>11
        <4>2. c[i] = m - k + 1
          BY <4>1
        <4> HIDE DEF c, m
        <4>3. c[i] = j <=> m = k + j - 1
          BY <4>1, <4>2
        <4> QED BY <4>3 DEF m
      <3>2. share[j] = month(k + j - 1)
        <4> HIDE DEF c, emitting
        <4> QED BY <3>1 DEF Rollup!InMonth
      <3> HIDE DEF c, h, month, tonnes, emitting, share
      <3> QED BY <1>7, <3>2 DEF h
    <2>4. \A i \in emitting : tonnes[i] \in Int
      BY <1>3
    <2>5. \A j \in J : share[j] = {i \in emitting : c[i] = j}
      OBVIOUS
    <2> HIDE DEF c, J, h, tonnes, emitting, share
    <2>6. SumFunctionOnSet(h, J) = SumFunctionOnSet(tonnes, emitting)
      BY <2>1, <2>2, <2>3, <2>4, <2>5, SumOfParts
    <2> HIDE DEF board
    <2> QED BY <1>5, <2>6 DEF h, J
  <1> HIDE DEF board, overview
  <1>15. /\ board.total = overview.total + overview.scope2Market
         /\ \A j \in 1 .. 12 : board.sparkline[j] =
               LET n == Rollup!MonthOf(period.from) + j - 1
               IN IF n \in DOMAIN overview.monthlyTrend THEN overview.monthlyTrend[n] ELSE 0
         /\ SumFunctionOnSet(board.sparkline, 1 .. 12) = board.total
         /\ DOMAIN overview.monthlyTrend \subseteq
               Rollup!MonthOf(period.from) .. Rollup!MonthOf(period.from) + 11
    <2> HIDE DEF period
    <2> QED BY <1>1, <1>9, <1>12, <1>13, <1>14
  <1> QED BY <1>15, SameSum DEF Rollup!PagesAgree, board, overview

-------------------------------------------------------------------------------
(* The answers of a report.                                                  *)

\* v is an answer out of the candidates C.
AmountOf(events, C) == [c \in C |-> events[c[2]].value]
IsAnswer(events, C, aggregation, v) ==
    CASE aggregation = "SUM" -> v = SumFunctionOnSet(AmountOf(events, C), C)
      [] aggregation = "MIN" -> \E c \in C : /\ v = events[c[2]].value
                                             /\ \A d \in C : v <= events[d[2]].value
      [] aggregation = "MAX" -> \E c \in C : /\ v = events[c[2]].value
                                             /\ \A d \in C : v >= events[d[2]].value
      [] aggregation = "LATEST" ->
            \E c \in C : v = events[c[2]].value /\ \A d \in C \ {c} : Rollup!SortsBefore(events, c, d)
      [] aggregation = "FIRST" ->
            \E c \in C : v = events[c[2]].value /\ \A d \in C \ {c} : Rollup!SortsBefore(events, d, c)

Aggregations == {"SUM", "MIN", "MAX", "LATEST", "FIRST"}

\* C are candidates of a ledger.
AreCandidates(events, C) ==
    /\ IsFiniteSet(C)
    /\ C \subseteq Int \X DOMAIN events

\* Which rows are candidates, and for which keys.
LEMMA CandidateIs ==
  ASSUME NEW events, NEW keys, NEW nodes, NEW period, NEW c
  PROVE  c \in Rollup!Candidates(events, keys, nodes, period) <=>
            /\ c \in (DOMAIN keys) \X DOMAIN events
            /\ c[2] \in Rollup!Fetch(events, {}, period)
            /\ events[c[2]].node \in nodes
            /\ events[c[2]].key = keys[c[1]]
  <1>1. Rollup!Fetch(events, {}, period) \subseteq DOMAIN events
    BY FoundIsRows
  <1>2. c \in (DOMAIN keys) \X {i \in Rollup!Fetch(events, {}, period) : events[i].node \in nodes} <=>
            /\ c \in (DOMAIN keys) \X DOMAIN events
            /\ c[2] \in Rollup!Fetch(events, {}, period)
            /\ events[c[2]].node \in nodes
    BY <1>1
  <1> QED BY <1>2 DEF Rollup!Candidates

\* There are finitely many.
LEMMA CandidatesAre ==
  ASSUME NEW events, Rollup!IsLedger(events), NEW K, NEW keys \in Seq(K), NEW nodes, NEW period
  PROVE  AreCandidates(events, Rollup!Candidates(events, keys, nodes, period))
  <1> DEFINE C == Rollup!Candidates(events, keys, nodes, period)
  <1>1. IsFiniteSet(DOMAIN events) /\ DOMAIN keys = 1 .. Len(keys) /\ Len(keys) \in Nat
    BY LedgerTypes
  <1>2. IsFiniteSet(DOMAIN keys)
    BY <1>1, FS_Interval
  <1>3. IsFiniteSet((DOMAIN keys) \X DOMAIN events)
    BY <1>1, <1>2, FS_Product
  <1>4. C \subseteq (DOMAIN keys) \X DOMAIN events
    BY CandidateIs
  <1>5. DOMAIN keys \subseteq Int
    BY <1>1
  <1> HIDE DEF C
  <1>6. C \subseteq Int \X DOMAIN events
    BY <1>4, <1>5
  <1>7. IsFiniteSet(C)
    BY <1>3, <1>4, FS_Subset
  <1>8. AreCandidates(events, C)
    BY <1>6, <1>7 DEF AreCandidates
  <1> QED BY <1>8 DEF C

\* The order of the candidates is total.
LEMMA SortIsTotal ==
  ASSUME NEW events, Rollup!IsLedger(events), NEW C, AreCandidates(events, C)
  PROVE  /\ \A c, d \in C : c = d \/ Rollup!SortsBefore(events, c, d) \/ Rollup!SortsBefore(events, d, c)
         /\ \A c, d \in C : ~ (Rollup!SortsBefore(events, c, d) /\ Rollup!SortsBefore(events, d, c))
         /\ \A c, d, e \in C : Rollup!SortsBefore(events, c, d) /\ Rollup!SortsBefore(events, d, e)
                                 => Rollup!SortsBefore(events, c, e)
  <1>1. ASSUME NEW c \in C
        PROVE  /\ c = <<c[1], c[2]>> /\ c[1] \in Int /\ c[2] \in Int /\ events[c[2]].to \in Int
    <2>1. DOMAIN events \subseteq Int
      BY DEF Rollup!IsLedger
    <2>2. c = <<c[1], c[2]>> /\ c[1] \in Int /\ c[2] \in DOMAIN events
      BY DEF AreCandidates
    <2> QED BY <2>1, <2>2, LedgerTypes
  <1>2. ASSUME NEW c \in C, NEW d \in C
        PROVE  /\ c = d \/ Rollup!SortsBefore(events, c, d) \/ Rollup!SortsBefore(events, d, c)
               /\ ~ (Rollup!SortsBefore(events, c, d) /\ Rollup!SortsBefore(events, d, c))
    <2>1. c[1] = d[1] /\ c[2] = d[2] => c = d
      BY <1>1
    <2>2. /\ c[1] \in Int /\ c[2] \in Int /\ events[c[2]].to \in Int
          /\ d[1] \in Int /\ d[2] \in Int /\ events[d[2]].to \in Int
      BY <1>1
    <2> QED BY <2>1, <2>2 DEF Rollup!SortsBefore
  <1>3. ASSUME NEW c \in C, NEW d \in C, NEW e \in C,
               Rollup!SortsBefore(events, c, d), Rollup!SortsBefore(events, d, e)
        PROVE  Rollup!SortsBefore(events, c, e)
    <2>1. /\ c[1] \in Int /\ c[2] \in Int /\ events[c[2]].to \in Int
          /\ d[1] \in Int /\ d[2] \in Int /\ events[d[2]].to \in Int
          /\ e[1] \in Int /\ e[2] \in Int /\ events[e[2]].to \in Int
      BY <1>1
    <2> QED BY <1>3, <2>1 DEF Rollup!SortsBefore
  <1> QED BY <1>2, <1>3

\* The sum of candidates is a number.
LEMMA AmountTypes ==
  ASSUME NEW events, Rollup!IsLedger(events), NEW C, AreCandidates(events, C)
  PROVE  /\ \A c \in C : events[c[2]].value \in Int /\ AmountOf(events, C)[c] = events[c[2]].value
         /\ SumFunctionOnSet(AmountOf(events, C), C) \in Int
  <1>1. ASSUME NEW c \in C
        PROVE  events[c[2]].value \in Int /\ AmountOf(events, C)[c] = events[c[2]].value
    <2>1. c[2] \in DOMAIN events
      BY DEF AreCandidates
    <2> QED BY <2>1, LedgerTypes DEF AmountOf
  <1>2. SumFunctionOnSet(AmountOf(events, C), C) \in Int
    BY <1>1, SumType DEF AreCandidates
  <1> QED BY <1>1, <1>2

\* There is no more than one answer.
LEMMA OneAnswer ==
  ASSUME NEW events, Rollup!IsLedger(events), NEW C, AreCandidates(events, C),
         NEW aggregation \in Aggregations,
         NEW v, NEW w, IsAnswer(events, C, aggregation, v), IsAnswer(events, C, aggregation, w)
  PROVE  v = w
  <1>1. CASE aggregation = "SUM"
    BY <1>1 DEF IsAnswer
  <1>2. CASE aggregation = "MIN"
    <2>1. PICK c \in C : v = events[c[2]].value /\ \A d \in C : v <= events[d[2]].value
      BY <1>2 DEF IsAnswer
    <2>2. PICK d \in C : w = events[d[2]].value /\ \A e \in C : w <= events[e[2]].value
      BY <1>2 DEF IsAnswer
    <2>3. v <= w /\ w <= v /\ v \in Int /\ w \in Int
      BY <2>1, <2>2, AmountTypes
    <2> QED BY <2>3
  <1>3. CASE aggregation = "MAX"
    <2>1. PICK c \in C : v = events[c[2]].value /\ \A d \in C : v >= events[d[2]].value
      BY <1>3 DEF IsAnswer
    <2>2. PICK d \in C : w = events[d[2]].value /\ \A e \in C : w >= events[e[2]].value
      BY <1>3 DEF IsAnswer
    <2>3. v >= w /\ w >= v /\ v \in Int /\ w \in Int
      BY <2>1, <2>2, AmountTypes
    <2> QED BY <2>3
  <1>4. CASE aggregation = "LATEST"
    <2>1. PICK c \in C : v = events[c[2]].value /\ \A d \in C \ {c} : Rollup!SortsBefore(events, c, d)
      BY <1>4 DEF IsAnswer
    <2>2. PICK d \in C : w = events[d[2]].value /\ \A e \in C \ {d} : Rollup!SortsBefore(events, d, e)
      BY <1>4 DEF IsAnswer
    <2>3. c = d
      BY <2>1, <2>2, SortIsTotal
    <2> QED BY <2>1, <2>2, <2>3
  <1>5. CASE aggregation = "FIRST"
    <2>1. PICK c \in C : v = events[c[2]].value /\ \A d \in C \ {c} : Rollup!SortsBefore(events, d, c)
      BY <1>5 DEF IsAnswer
    <2>2. PICK d \in C : w = events[d[2]].value /\ \A e \in C \ {d} : Rollup!SortsBefore(events, e, d)
      BY <1>5 DEF IsAnswer
    <2>3. c = d
      BY <2>1, <2>2, SortIsTotal
    <2> QED BY <2>1, <2>2, <2>3
  <1> QED BY <1>1, <1>2, <1>3, <1>4, <1>5 DEF Aggregations

\* Candidates have a first and a last one, and an amount that is the least and one that is
\* the greatest: what the report looks for exists.
LEMMA ExtremesExist ==
  ASSUME NEW events, Rollup!IsLedger(events), NEW C, AreCandidates(events, C), C # {}
  PROVE  /\ \E c \in C : \A d \in C \ {c} : Rollup!SortsBefore(events, c, d)
         /\ \E c \in C : \A d \in C \ {c} : Rollup!SortsBefore(events, d, c)
         /\ \E c \in C : \A d \in C : events[c[2]].value <= events[d[2]].value
         /\ \E c \in C : \A d \in C : events[c[2]].value >= events[d[2]].value
  <1>0. IsFiniteSet(C)
    BY DEF AreCandidates
  <1>1. ASSUME NEW R,
               \A c, d \in C : c = d \/ <<c, d>> \in R \/ <<d, c>> \in R,
               \A c, d, e \in C : <<c, d>> \in R /\ <<d, e>> \in R => <<c, e>> \in R
        PROVE  \E c \in C : \A d \in C \ {c} : <<c, d>> \in R
    BY <1>0, <1>1, FirstExists
  <1>2. \E c \in C : \A d \in C \ {c} : Rollup!SortsBefore(events, c, d)
    <2> DEFINE R == {p \in C \X C : Rollup!SortsBefore(events, p[1], p[2])}
    <2>1. \A c, d \in C : <<c, d>> \in R <=> Rollup!SortsBefore(events, c, d)
      OBVIOUS
    <2> HIDE DEF R
    <2>2. \E c \in C : \A d \in C \ {c} : <<c, d>> \in R
      BY <1>1, <2>1, SortIsTotal
    <2> QED BY <2>1, <2>2
  <1>3. \E c \in C : \A d \in C \ {c} : Rollup!SortsBefore(events, d, c)
    <2> DEFINE R == {p \in C \X C : Rollup!SortsBefore(events, p[2], p[1])}
    <2>1. \A c, d \in C : <<c, d>> \in R <=> Rollup!SortsBefore(events, d, c)
      OBVIOUS
    <2> HIDE DEF R
    <2>2. \E c \in C : \A d \in C \ {c} : <<c, d>> \in R
      BY <1>1, <2>1, SortIsTotal
    <2> QED BY <2>1, <2>2
  <1>4. \A c \in C : events[c[2]].value \in Int
    BY AmountTypes
  <1>5. \E c \in C : \A d \in C : events[c[2]].value <= events[d[2]].value
    <2> DEFINE R == {p \in C \X C : events[p[1][2]].value <= events[p[2][2]].value}
    <2>1. \A c, d \in C : <<c, d>> \in R <=> events[c[2]].value <= events[d[2]].value
      OBVIOUS
    <2> HIDE DEF R
    <2>2. /\ \A c, d \in C : c = d \/ <<c, d>> \in R \/ <<d, c>> \in R
          /\ \A c, d, e \in C : <<c, d>> \in R /\ <<d, e>> \in R => <<c, e>> \in R
      BY <1>4, <2>1
    <2>3. PICK c \in C : \A d \in C \ {c} : <<c, d>> \in R
      BY <1>1, <2>2
    <2>4. ASSUME NEW d \in C PROVE events[c[2]].value <= events[d[2]].value
      <3>1. CASE d = c
        BY <1>4, <3>1
      <3>2. CASE d # c
        BY <2>1, <2>3, <3>2
      <3> QED BY <3>1, <3>2
    <2> QED BY <2>4
  <1>6. \E c \in C : \A d \in C : events[c[2]].value >= events[d[2]].value
    <2> DEFINE R == {p \in C \X C : events[p[1][2]].value >= events[p[2][2]].value}
    <2>1. \A c, d \in C : <<c, d>> \in R <=> events[c[2]].value >= events[d[2]].value
      OBVIOUS
    <2> HIDE DEF R
    <2>2. /\ \A c, d \in C : c = d \/ <<c, d>> \in R \/ <<d, c>> \in R
          /\ \A c, d, e \in C : <<c, d>> \in R /\ <<d, e>> \in R => <<c, e>> \in R
      BY <1>4, <2>1
    <2>3. PICK c \in C : \A d \in C \ {c} : <<c, d>> \in R
      BY <1>1, <2>2
    <2>4. ASSUME NEW d \in C PROVE events[c[2]].value >= events[d[2]].value
      <3>1. CASE d = c
        BY <1>4, <3>1
      <3>2. CASE d # c
        BY <2>1, <2>3, <3>2
      <3> QED BY <3>1, <3>2
    <2> QED BY <2>4
  <1> QED BY <1>2, <1>3, <1>5, <1>6

\* A report says nothing where there are no candidates, and else the one answer.
LEMMA ResolveIs ==
  ASSUME NEW events, Rollup!IsLedger(events), NEW K, NEW keys \in Seq(K), NEW nodes, NEW period,
         NEW aggregation \in Aggregations
  PROVE  LET C == Rollup!Candidates(events, keys, nodes, period)
             answer == Rollup!resolve(events, keys, aggregation, nodes, period)
         IN IF C = {} THEN answer = {}
            ELSE \E v : answer = {v} /\ IsAnswer(events, C, aggregation, v)
  <1> DEFINE C == Rollup!Candidates(events, keys, nodes, period)
             answer == Rollup!resolve(events, keys, aggregation, nodes, period)
             value == AmountOf(events, C)
  <1>1. CASE C = {}
    BY <1>1 DEF Rollup!resolve
  <1>2. ASSUME C # {}
        PROVE  \E v : answer = {v} /\ IsAnswer(events, C, aggregation, v)
    <2>0. AreCandidates(events, C)
      BY CandidatesAre
    <2>a. value = [c \in C |-> events[c[2]].value] /\ Rollup!Range(value) = {events[c[2]].value : c \in C}
      BY DEF AmountOf, Rollup!Range
    <2>b. answer =
            {CASE aggregation = "MIN" -> CHOOSE v \in Rollup!Range(value) : \A w \in Rollup!Range(value) : v <= w
               [] aggregation = "MAX" -> CHOOSE v \in Rollup!Range(value) : \A w \in Rollup!Range(value) : v >= w
               [] aggregation = "LATEST" ->
                    value[CHOOSE c \in C : \A d \in C \ {c} : Rollup!SortsBefore(events, c, d)]
               [] aggregation = "FIRST" ->
                    value[CHOOSE c \in C : \A d \in C \ {c} : Rollup!SortsBefore(events, d, c)]
               [] OTHER -> SumFunctionOnSet(value, C)}
      BY <1>2, SameSum DEF Rollup!resolve, AmountOf
    <2> HIDE DEF C, value, answer
    <2>1. CASE aggregation = "SUM"
      <3>1. answer = {SumFunctionOnSet(value, C)}
        BY <2>1, <2>b
      <3> QED BY <1>2, <2>1, <3>1 DEF IsAnswer, value
    <2>2. CASE aggregation = "MIN"
      <3> DEFINE v == CHOOSE v \in Rollup!Range(value) : \A w \in Rollup!Range(value) : v <= w
      <3>1. answer = {v}
        BY <2>2, <2>b
      <3>2. \E u \in Rollup!Range(value) : \A w \in Rollup!Range(value) : u <= w
        <4>1. PICK c \in C : \A d \in C : events[c[2]].value <= events[d[2]].value
          BY <1>2, <2>0, ExtremesExist
        <4>2. events[c[2]].value \in Rollup!Range(value)
          BY <2>a
        <4>3. \A w \in Rollup!Range(value) : events[c[2]].value <= w
          BY <2>a, <4>1
        <4> QED BY <4>2, <4>3
      <3>3. v \in Rollup!Range(value) /\ \A w \in Rollup!Range(value) : v <= w
        BY <3>2
      <3> HIDE DEF v
      <3>4. \E c \in C : v = events[c[2]].value /\ \A d \in C : v <= events[d[2]].value
        BY <2>a, <3>3
      <3> QED BY <1>2, <2>2, <3>1, <3>4 DEF IsAnswer
    <2>3. CASE aggregation = "MAX"
      <3> DEFINE v == CHOOSE v \in Rollup!Range(value) : \A w \in Rollup!Range(value) : v >= w
      <3>1. answer = {v}
        BY <2>3, <2>b
      <3>2. \E u \in Rollup!Range(value) : \A w \in Rollup!Range(value) : u >= w
        <4>1. PICK c \in C : \A d \in C : events[c[2]].value >= events[d[2]].value
          BY <1>2, <2>0, ExtremesExist
        <4>2. events[c[2]].value \in Rollup!Range(value)
          BY <2>a
        <4>3. \A w \in Rollup!Range(value) : events[c[2]].value >= w
          BY <2>a, <4>1
        <4> QED BY <4>2, <4>3
      <3>3. v \in Rollup!Range(value) /\ \A w \in Rollup!Range(value) : v >= w
        BY <3>2
      <3> HIDE DEF v
      <3>4. \E c \in C : v = events[c[2]].value /\ \A d \in C : v >= events[d[2]].value
        BY <2>a, <3>3
      <3> QED BY <1>2, <2>3, <3>1, <3>4 DEF IsAnswer
    <2>4. CASE aggregation = "LATEST"
      <3> DEFINE c == CHOOSE c \in C : \A d \in C \ {c} : Rollup!SortsBefore(events, c, d)
      <3>1. answer = {value[c]}
        BY <2>4, <2>b
      <3>2. c \in C /\ \A d \in C \ {c} : Rollup!SortsBefore(events, c, d)
        BY <1>2, <2>0, ExtremesExist
      <3> HIDE DEF c
      <3>3. value[c] = events[c[2]].value
        BY <2>a, <3>2
      <3>4. IsAnswer(events, C, aggregation, value[c])
        BY <2>4, <3>2, <3>3 DEF IsAnswer
      <3> QED BY <1>2, <3>1, <3>4
    <2>5. CASE aggregation = "FIRST"
      <3> DEFINE c == CHOOSE c \in C : \A d \in C \ {c} : Rollup!SortsBefore(events, d, c)
      <3>1. answer = {value[c]}
        BY <2>5, <2>b
      <3>2. c \in C /\ \A d \in C \ {c} : Rollup!SortsBefore(events, d, c)
        BY <1>2, <2>0, ExtremesExist
      <3> HIDE DEF c
      <3>3. value[c] = events[c[2]].value
        BY <2>a, <3>2
      <3>4. IsAnswer(events, C, aggregation, value[c])
        BY <2>5, <3>2, <3>3 DEF IsAnswer
      <3> QED BY <1>2, <3>1, <3>4
    <2> QED BY <2>1, <2>2, <2>3, <2>4, <2>5 DEF Aggregations
  <1> QED BY <1>1, <1>2

\* Candidates of the whole are those of its parts, node by node.
LEMMA CandidatesOfParts ==
  ASSUME NEW events, NEW keys, NEW nodes, NEW period
  PROVE  LET cand(ns) == Rollup!Candidates(events, keys, ns, period)
         IN /\ \A c \in cand(nodes) : events[c[2]].node \in nodes
            /\ \A n \in nodes : cand({n}) = {c \in cand(nodes) : events[c[2]].node = n}
  BY CandidateIs

\* What holds of the answer out of some candidates holds of that out of a part of them that
\* it comes from.
LEMMA AnswerOfPart ==
  ASSUME NEW events, NEW C, NEW aggregation \in Aggregations \ {"SUM"}, NEW v,
         IsAnswer(events, C, aggregation, v)
  PROVE  \E c \in C : \A D \in SUBSET C : c \in D => IsAnswer(events, D, aggregation, v)
  <1>1. CASE aggregation = "MIN"
    BY <1>1 DEF IsAnswer
  <1>2. CASE aggregation = "MAX"
    BY <1>2 DEF IsAnswer
  <1>3. CASE aggregation = "LATEST"
    BY <1>3 DEF IsAnswer
  <1>4. CASE aggregation = "FIRST"
    BY <1>4 DEF IsAnswer
  <1> QED BY <1>1, <1>2, <1>3, <1>4 DEF Aggregations

\* What a report says of the whole is what it says of the parts.
LEMMA AnswersOfParts ==
  ASSUME NEW events, Rollup!IsLedger(events), NEW K, NEW keys \in Seq(K),
         NEW nodes, IsFiniteSet(nodes), NEW period, NEW aggregation \in Aggregations
  PROVE  LET answer(ns) == Rollup!resolve(events, keys, aggregation, ns, period)
             amount(ns) == IF answer(ns) = {} THEN 0 ELSE CHOOSE v \in answer(ns) : TRUE
             parts == UNION {answer({n}) : n \in nodes}
         IN /\ answer(nodes) = {} <=> parts = {}
            /\ IF aggregation = "SUM"
               THEN amount(nodes) = SumFunctionOnSet([n \in nodes |-> amount({n})], nodes)
               ELSE answer(nodes) \subseteq parts
  <1> DEFINE answer(ns) == Rollup!resolve(events, keys, aggregation, ns, period)
             amount(ns) == IF answer(ns) = {} THEN 0 ELSE CHOOSE v \in answer(ns) : TRUE
             parts == UNION {answer({n}) : n \in nodes}
             cand(ns) == Rollup!Candidates(events, keys, ns, period)
             C == cand(nodes)
  <1>1. \A ns : IF cand(ns) = {} THEN answer(ns) = {}
                ELSE \E v : answer(ns) = {v} /\ IsAnswer(events, cand(ns), aggregation, v)
    BY ResolveIs
  <1>2. \A ns : AreCandidates(events, cand(ns))
    BY CandidatesAre
  <1>3. /\ \A c \in C : events[c[2]].node \in nodes
        /\ \A n \in nodes : cand({n}) = {c \in C : events[c[2]].node = n}
    BY CandidatesOfParts
  <1> HIDE DEF answer, cand
  <1>4. answer(nodes) = {} <=> parts = {}
    <2>1. \A ns : answer(ns) = {} <=> cand(ns) = {}
      BY <1>1
    <2>2. C = {} <=> \A n \in nodes : cand({n}) = {}
      BY <1>3
    <2>3. parts = {} <=> \A n \in nodes : answer({n}) = {}
      OBVIOUS
    <2> QED BY <2>1, <2>2, <2>3
  <1>5. CASE aggregation = "SUM"
    <2>1. ASSUME NEW ns
          PROVE  amount(ns) = SumFunctionOnSet(AmountOf(events, cand(ns)), cand(ns))
      <3>1. CASE cand(ns) = {}
        <4>1. answer(ns) = {}
          BY <1>1, <3>1
        <4>2. SumFunctionOnSet(AmountOf(events, cand(ns)), {}) = 0
          BY SumOfNone
        <4> QED BY <3>1, <4>1, <4>2
      <3>2. CASE cand(ns) # {}
        <4>1. PICK v : answer(ns) = {v} /\ IsAnswer(events, cand(ns), aggregation, v)
          BY <1>1, <3>2
        <4>2. amount(ns) = v
          BY <4>1
        <4> QED BY <1>5, <4>1, <4>2 DEF IsAnswer
      <3> QED BY <3>1, <3>2
    <2> DEFINE f == AmountOf(events, C)
               c == [x \in C |-> events[x[2]].node]
               share == [n \in nodes |-> {x \in C : c[x] = n}]
               h == [n \in nodes |-> amount({n})]
    <2>2. \A x \in C : f[x] \in Int /\ f[x] = events[x[2]].value
      BY <1>2, AmountTypes
    <2>3. \A x \in C : c[x] \in nodes
      BY <1>3
    <2>4. ASSUME NEW n \in nodes
          PROVE  h[n] = SumFunctionOnSet(f, share[n])
      <3>1. cand({n}) = share[n] /\ share[n] \subseteq C
        BY <1>3
      <3>2. IsFiniteSet(cand({n})) /\ cand({n}) \subseteq C
        BY <1>2, <3>1 DEF AreCandidates
      <3>3. \A x \in cand({n}) : AmountOf(events, cand({n}))[x] = f[x] /\ f[x] \in Int
        BY <2>2, <3>2 DEF AmountOf
      <3> DEFINE D == cand({n})
                 g == AmountOf(events, D)
      <3> HIDE DEF f, D, g, share
      <3>4. SumFunctionOnSet(g, D) = SumFunctionOnSet(f, D)
        BY <3>2, <3>3, SumOfSame DEF D, g
      <3>5. h[n] = SumFunctionOnSet(g, D)
        BY <2>1 DEF D, g
      <3> QED BY <3>1, <3>4, <3>5 DEF D
    <2>5. IsFiniteSet(C)
      BY <1>2 DEF AreCandidates
    <2>6. \A x \in C : f[x] \in Int
      BY <2>2
    <2>7. \A n \in nodes : share[n] = {x \in C : c[x] = n}
      OBVIOUS
    <2>8. amount(nodes) = SumFunctionOnSet(f, C)
      BY <2>1
    <2> HIDE DEF f, c, h, C, share
    <2>9. SumFunctionOnSet(h, nodes) = SumFunctionOnSet(f, C)
      BY <2>3, <2>4, <2>5, <2>6, <2>7, SumOfParts
    <2>10. amount(nodes) = SumFunctionOnSet(h, nodes)
      BY <2>8, <2>9
    <2> QED BY <1>4, <1>5, <2>10 DEF h, answer
  <1>6. CASE aggregation # "SUM"
    <2>1. ASSUME NEW v \in answer(nodes)
          PROVE  v \in parts
      <3>1. C # {} /\ IsAnswer(events, C, aggregation, v)
        BY <1>1
      <3>2. PICK c \in C : \A D \in SUBSET C : c \in D => IsAnswer(events, D, aggregation, v)
        BY <1>6, <3>1, AnswerOfPart
      <3> DEFINE n == events[c[2]].node
      <3>3. n \in nodes /\ cand({n}) \in SUBSET C /\ c \in cand({n})
        BY <1>3
      <3> HIDE DEF n, C
      <3>4. IsAnswer(events, cand({n}), aggregation, v)
        BY <3>2, <3>3
      <3>5. PICK w : answer({n}) = {w} /\ IsAnswer(events, cand({n}), aggregation, w)
        BY <1>1, <3>3
      <3>6. v = w
        BY <1>2, <3>4, <3>5, OneAnswer
      <3> QED BY <3>3, <3>5, <3>6
    <2>2. answer(nodes) \subseteq parts
      BY <2>1
    <2> QED BY <1>4, <1>6, <2>2 DEF answer
  <1> QED BY <1>5, <1>6

\* A row of an order of the ledger is one of the ledger, and every one is there once.
LEMMA OrderIs ==
  ASSUME NEW events, Rollup!IsLedger(events), NEW p \in Rollup!Orders(events)
  PROVE  /\ Rollup!IsLedger(p)
         /\ DOMAIN p = DOMAIN events
         /\ \E s \in [DOMAIN events -> DOMAIN events] :
               /\ \A i \in DOMAIN events : p[i] = events[s[i]]
               /\ \A i, j \in DOMAIN events : s[i] = s[j] => i = j
               /\ \A j \in DOMAIN events : \E i \in DOMAIN events : s[i] = j
  <1> DEFINE D == DOMAIN events
  <1>1. PICK s \in Rollup!Bijection(D, D) : p = [i \in D |-> events[s[i]]]
    BY DEF Rollup!Orders
  <1>2. /\ s \in [D -> D]
        /\ \A i, j \in D : s[i] = s[j] => i = j
        /\ \A j \in D : \E i \in D : s[i] = j
    BY DEF Rollup!Bijection, Rollup!Injection, Rollup!Surjection, Rollup!IsInjective
  <1>3. DOMAIN p = D /\ \A i \in D : p[i] = events[s[i]]
    BY <1>1
  <1>4. Rollup!Range(p) \subseteq Rollup!Range(events)
    BY <1>2, <1>3 DEF Rollup!Range
  <1>5. D = 1 .. Len(events) /\ Len(events) \in Nat
    BY DEF Rollup!IsLedger
  <1>6. p \in Seq(Rollup!Range(p))
    <2>1. p \in [1 .. Len(events) -> Rollup!Range(p)]
      <3>1. p = [i \in 1 .. Len(events) |-> p[i]]
        BY <1>1, <1>5
      <3>2. \A i \in 1 .. Len(events) : p[i] \in Rollup!Range(p)
        BY <1>3, <1>5 DEF Rollup!Range
      <3> QED BY <3>1, <3>2
    <2> QED BY <1>5, <2>1
  <1>7. Rollup!IsLedger(p)
    BY <1>4, <1>6 DEF Rollup!IsLedger
  <1> QED BY <1>2, <1>3, <1>7

\* What a report may say however the rows are ordered: of the latest and the first rows,
\* those that end last and first.
IsAnswerOfRows(events, C, aggregation, v) ==
    CASE aggregation = "LATEST" ->
            \E c \in C : v = events[c[2]].value /\ \A d \in C : events[d[2]].to <= events[c[2]].to
      [] aggregation = "FIRST" ->
            \E c \in C : v = events[c[2]].value /\ \A d \in C : events[d[2]].to >= events[c[2]].to
      [] OTHER -> IsAnswer(events, C, aggregation, v)

\* An answer out of the rows in some order is one of the rows.
LEMMA AnswerOfOrder ==
  ASSUME NEW events, Rollup!IsLedger(events), NEW p \in Rollup!Orders(events),
         NEW K, NEW keys \in Seq(K), NEW nodes, NEW period, NEW aggregation \in Aggregations
  PROVE  LET C == Rollup!Candidates(events, keys, nodes, period)
             answer == Rollup!resolve(p, keys, aggregation, nodes, period)
         IN IF C = {} THEN answer = {}
            ELSE \E v : answer = {v} /\ IsAnswerOfRows(events, C, aggregation, v)
  <1> DEFINE C == Rollup!Candidates(events, keys, nodes, period)
             B == Rollup!Candidates(p, keys, nodes, period)
             answer == Rollup!resolve(p, keys, aggregation, nodes, period)
  <1>1. Rollup!IsLedger(p) /\ DOMAIN p = DOMAIN events
    BY OrderIs
  <1>2. PICK s \in [DOMAIN events -> DOMAIN events] :
           /\ \A i \in DOMAIN events : p[i] = events[s[i]]
           /\ \A i, j \in DOMAIN events : s[i] = s[j] => i = j
           /\ \A j \in DOMAIN events : \E i \in DOMAIN events : s[i] = j
    BY OrderIs
  <1>3. IF B = {} THEN answer = {} ELSE \E v : answer = {v} /\ IsAnswer(p, B, aggregation, v)
    BY <1>1, ResolveIs
  <1>4. AreCandidates(p, B) /\ AreCandidates(events, C)
    BY <1>1, CandidatesAre
  <1> DEFINE b == [c \in B |-> <<c[1], s[c[2]]>>]
  <1>5. ASSUME NEW c \in B
        PROVE  /\ b[c] \in C /\ b[c][2] = s[c[2]] /\ c[2] \in DOMAIN events
               /\ p[c[2]] = events[b[c][2]]
    <2>1. /\ c \in (DOMAIN keys) \X DOMAIN events
          /\ c[2] \in Rollup!Fetch(p, {}, period)
          /\ p[c[2]].node \in nodes /\ p[c[2]].key = keys[c[1]]
      BY <1>1, CandidateIs
    <2>2. c[1] \in DOMAIN keys /\ c[2] \in DOMAIN events /\ s[c[2]] \in DOMAIN events
          /\ p[c[2]] = events[s[c[2]]]
      BY <1>2, <2>1
    <2>3. s[c[2]] \in Rollup!Fetch(events, {}, period)
      BY <2>1, <2>2, FoundIs
    <2>4. <<c[1], s[c[2]]>> \in C
      BY <2>1, <2>2, <2>3, CandidateIs
    <2>5. b[c] = <<c[1], s[c[2]]>>
      OBVIOUS
    <2> HIDE DEF b, C
    <2> QED BY <2>2, <2>4, <2>5
  <1>6. ASSUME NEW d \in C
        PROVE  \E c \in B : b[c] = d
    <2>1. /\ d \in (DOMAIN keys) \X DOMAIN events
          /\ d[2] \in Rollup!Fetch(events, {}, period)
          /\ events[d[2]].node \in nodes /\ events[d[2]].key = keys[d[1]]
      BY CandidateIs
    <2>2. PICK i \in DOMAIN events : s[i] = d[2]
      BY <1>2, <2>1
    <2> DEFINE c == <<d[1], i>>
    <2>3. c \in (DOMAIN keys) \X DOMAIN p /\ c[2] = i /\ c[1] = d[1] /\ p[i] = events[d[2]]
      BY <1>1, <1>2, <2>1, <2>2
    <2>4. i \in Rollup!Fetch(p, {}, period)
      BY <1>1, <2>1, <2>3, FoundIs
    <2>5. c \in B
      <3> HIDE DEF c
      <3> QED BY <2>1, <2>3, <2>4, CandidateIs
    <2>6. b[c] = <<d[1], d[2]>>
      <3>1. b[c] = <<c[1], s[c[2]]>>
        BY <2>5
      <3> HIDE DEF c, b, B
      <3> QED BY <2>2, <2>3, <3>1
    <2>7. d = <<d[1], d[2]>>
      BY <2>1
    <2> HIDE DEF c, b, B
    <2> QED BY <2>5, <2>6, <2>7
  <1>7. ASSUME NEW c \in B, NEW d \in B, b[c] = b[d]
        PROVE  c = d
    <2>1. /\ c = <<c[1], c[2]>> /\ c[2] \in DOMAIN events
          /\ d = <<d[1], d[2]>> /\ d[2] \in DOMAIN events
      BY <1>1, <1>4 DEF AreCandidates
    <2>2. b[c] = <<c[1], s[c[2]]>> /\ b[d] = <<d[1], s[d[2]]>>
      OBVIOUS
    <2>3. c[1] = d[1] /\ s[c[2]] = s[d[2]]
      <3>1. <<c[1], s[c[2]]>> = <<d[1], s[d[2]]>>
        <4> HIDE DEF b, B
        <4> QED BY <1>7, <2>2
      <3> QED BY <3>1
    <2> QED BY <1>2, <2>1, <2>3
  <1>8. b \in [B -> C]
    BY <1>5
  <1> HIDE DEF b, B, C, answer
  <1>9. ASSUME NEW v, IsAnswer(p, B, aggregation, v)
        PROVE  IsAnswerOfRows(events, C, aggregation, v)
    <2>1. CASE aggregation = "SUM"
      <3> DEFINE f == AmountOf(p, B)
                 g == AmountOf(events, C)
      <3>1. \A c \in B : f[c] \in Int /\ f[c] = p[c[2]].value
        BY <1>1, <1>4, AmountTypes
      <3>2. \A c \in B : g[b[c]] = f[c]
        BY <1>4, <1>5, <3>1, AmountTypes
      <3>3. IsFiniteSet(B)
        BY <1>4 DEF AreCandidates
      <3> HIDE DEF f, g
      <3>4. SumFunctionOnSet(g, C) = SumFunctionOnSet(f, B)
        BY <1>6, <1>7, <1>8, <3>1, <3>2, <3>3, SumRenamed
      <3> QED BY <1>9, <2>1, <3>4 DEF IsAnswer, IsAnswerOfRows, f, g
    <2>2. CASE aggregation = "MIN"
      <3>1. PICK c \in B : v = p[c[2]].value /\ \A d \in B : v <= p[d[2]].value
        BY <1>9, <2>2 DEF IsAnswer
      <3>2. b[c] \in C /\ v = events[b[c][2]].value
        BY <1>5, <3>1
      <3>3. \A d \in C : v <= events[d[2]].value
        BY <1>5, <1>6, <3>1
      <3> QED BY <2>2, <3>2, <3>3 DEF IsAnswer, IsAnswerOfRows
    <2>3. CASE aggregation = "MAX"
      <3>1. PICK c \in B : v = p[c[2]].value /\ \A d \in B : v >= p[d[2]].value
        BY <1>9, <2>3 DEF IsAnswer
      <3>2. b[c] \in C /\ v = events[b[c][2]].value
        BY <1>5, <3>1
      <3>3. \A d \in C : v >= events[d[2]].value
        BY <1>5, <1>6, <3>1
      <3> QED BY <2>3, <3>2, <3>3 DEF IsAnswer, IsAnswerOfRows
    <2>a. \A c \in B : p[c[2]].to \in Int
      BY <1>1, <1>5, LedgerTypes
    <2>4. CASE aggregation = "LATEST"
      <3>1. PICK c \in B : v = p[c[2]].value /\ \A d \in B \ {c} : Rollup!SortsBefore(p, c, d)
        BY <1>9, <2>4 DEF IsAnswer
      <3>2. b[c] \in C /\ v = events[b[c][2]].value
        BY <1>5, <3>1
      <3>3. ASSUME NEW d \in C PROVE events[d[2]].to <= events[b[c][2]].to
        <4>1. PICK e \in B : b[e] = d
          BY <1>6
        <4>2. events[d[2]].to = p[e[2]].to /\ events[b[c][2]].to = p[c[2]].to
          BY <1>5, <4>1
        <4>3. p[e[2]].to <= p[c[2]].to
          BY <2>a, <3>1 DEF Rollup!SortsBefore
        <4> QED BY <4>2, <4>3
      <3> QED BY <2>4, <3>2, <3>3 DEF IsAnswerOfRows
    <2>5. CASE aggregation = "FIRST"
      <3>1. PICK c \in B : v = p[c[2]].value /\ \A d \in B \ {c} : Rollup!SortsBefore(p, d, c)
        BY <1>9, <2>5 DEF IsAnswer
      <3>2. b[c] \in C /\ v = events[b[c][2]].value
        BY <1>5, <3>1
      <3>3. ASSUME NEW d \in C PROVE events[d[2]].to >= events[b[c][2]].to
        <4>1. PICK e \in B : b[e] = d
          BY <1>6
        <4>2. events[d[2]].to = p[e[2]].to /\ events[b[c][2]].to = p[c[2]].to
          BY <1>5, <4>1
        <4>3. p[e[2]].to >= p[c[2]].to
          BY <2>a, <3>1 DEF Rollup!SortsBefore
        <4> QED BY <4>2, <4>3
      <3> QED BY <2>5, <3>2, <3>3 DEF IsAnswerOfRows
    <2> QED BY <2>1, <2>2, <2>3, <2>4, <2>5 DEF Aggregations
  <1>10. B = {} <=> C = {}
    BY <1>6, <1>8
  <1>11. IF C = {} THEN answer = {}
         ELSE \E v : answer = {v} /\ IsAnswerOfRows(events, C, aggregation, v)
    BY <1>3, <1>9, <1>10
  <1> QED BY <1>11 DEF C, answer

\* Among rows that do not end together, there is one answer.
LEMMA OneAnswerOfRows ==
  ASSUME NEW events, Rollup!IsLedger(events), NEW C, AreCandidates(events, C),
         NEW aggregation \in Aggregations,
         \/ aggregation \notin {"LATEST", "FIRST"}
         \/ \A i, j \in DOMAIN events : events[i].to = events[j].to => i = j,
         NEW v, NEW w, IsAnswerOfRows(events, C, aggregation, v), IsAnswerOfRows(events, C, aggregation, w)
  PROVE  v = w
  <1>1. CASE aggregation \notin {"LATEST", "FIRST"}
    BY <1>1, OneAnswer DEF IsAnswerOfRows
  <1>2. \A c \in C : c[2] \in DOMAIN events /\ events[c[2]].to \in Int
    BY LedgerTypes DEF AreCandidates
  <1>3. CASE aggregation = "LATEST"
    <2>1. PICK c \in C : v = events[c[2]].value /\ \A d \in C : events[d[2]].to <= events[c[2]].to
      BY <1>3 DEF IsAnswerOfRows
    <2>2. PICK d \in C : w = events[d[2]].value /\ \A e \in C : events[e[2]].to <= events[d[2]].to
      BY <1>3 DEF IsAnswerOfRows
    <2>3. events[c[2]].to = events[d[2]].to
      BY <1>2, <2>1, <2>2
    <2>4. c[2] = d[2]
      BY <1>2, <1>3, <2>3
    <2> QED BY <2>1, <2>2, <2>4
  <1>4. CASE aggregation = "FIRST"
    <2>1. PICK c \in C : v = events[c[2]].value /\ \A d \in C : events[d[2]].to >= events[c[2]].to
      BY <1>4 DEF IsAnswerOfRows
    <2>2. PICK d \in C : w = events[d[2]].value /\ \A e \in C : events[e[2]].to >= events[d[2]].to
      BY <1>4 DEF IsAnswerOfRows
    <2>3. events[c[2]].to = events[d[2]].to
      BY <1>2, <2>1, <2>2
    <2>4. c[2] = d[2]
      BY <1>2, <1>4, <2>3
    <2> QED BY <2>1, <2>2, <2>4
  <1> QED BY <1>1, <1>3, <1>4

\* AnswersAreStable, of any ledger, for any keys, finite set of nodes and period.
THEOREM AnswersDoNotDepend ==
  ASSUME NEW events, Rollup!IsLedger(events), NEW K, NEW keys \in Seq(K),
         NEW nodes, IsFiniteSet(nodes), NEW period, NEW aggregation \in Aggregations
  PROVE  Rollup!AnswersAreStable(events, keys, aggregation, nodes, period)
  <1> DEFINE answer(p, ns) == Rollup!resolve(p, keys, aggregation, ns, period)
             amount(p, ns) == IF answer(p, ns) = {} THEN 0 ELSE CHOOSE v \in answer(p, ns) : TRUE
             parts(p) == UNION {answer(p, {n}) : n \in nodes}
             tie == \E i, j \in DOMAIN events : i # j /\ events[i].to = events[j].to
             C == Rollup!Candidates(events, keys, nodes, period)
  <1>1. ASSUME ~ (tie /\ aggregation \in {"LATEST", "FIRST"}),
               NEW p \in Rollup!Orders(events), NEW q \in Rollup!Orders(events)
        PROVE  answer(p, nodes) = answer(q, nodes)
    <2>1. \A r \in Rollup!Orders(events) :
             IF C = {} THEN answer(r, nodes) = {}
             ELSE \E v : answer(r, nodes) = {v} /\ IsAnswerOfRows(events, C, aggregation, v)
      BY AnswerOfOrder
    <2>2. AreCandidates(events, C)
      BY CandidatesAre
    <2>3. \/ aggregation \notin {"LATEST", "FIRST"}
          \/ \A i, j \in DOMAIN events : events[i].to = events[j].to => i = j
      BY <1>1
    <2> HIDE DEF C, answer
    <2>4. CASE C = {}
      BY <2>1, <2>4
    <2>5. CASE C # {}
      <3>1. PICK v : answer(p, nodes) = {v} /\ IsAnswerOfRows(events, C, aggregation, v)
        BY <2>1, <2>5
      <3>2. PICK w : answer(q, nodes) = {w} /\ IsAnswerOfRows(events, C, aggregation, w)
        BY <2>1, <2>5
      <3>3. v = w
        BY <2>2, <2>3, <3>1, <3>2, OneAnswerOfRows
      <3> QED BY <3>1, <3>2, <3>3
    <2>6. answer(p, nodes) = answer(q, nodes)
      BY <2>4, <2>5
    <2> QED BY <2>6 DEF answer
  <1>2. ASSUME NEW p \in Rollup!Orders(events)
        PROVE  /\ answer(p, nodes) = {} <=> parts(p) = {}
               /\ IF aggregation = "SUM"
                  THEN amount(p, nodes) = SumFunctionOnSet([n \in nodes |-> amount(p, {n})], nodes)
                  ELSE answer(p, nodes) \subseteq parts(p)
    <2>1. Rollup!IsLedger(p)
      BY OrderIs
    <2> QED BY <2>1, AnswersOfParts
  <1>3. /\ \/ tie /\ aggregation \in {"LATEST", "FIRST"}
           \/ \A p, q \in Rollup!Orders(events) : answer(p, nodes) = answer(q, nodes)
        /\ \A p \in Rollup!Orders(events) :
              /\ answer(p, nodes) = {} <=> parts(p) = {}
              /\ IF aggregation = "SUM"
                 THEN amount(p, nodes) = SumFunctionOnSet([n \in nodes |-> amount(p, {n})], nodes)
                 ELSE answer(p, nodes) \subseteq parts(p)
    <2> HIDE DEF answer, amount, parts, tie
    <2> QED BY <1>1, <1>2
  <1> QED BY <1>3, SameSum DEF Rollup!AnswersAreStable

-------------------------------------------------------------------------------
(* The pathway to net zero.                                                  *)

\* PathwayMeetsTarget, of any ledger and target.
THEOREM PathwaysMeetTargets ==
  ASSUME NEW events, Rollup!IsLedger(events), NEW target,
         target.baselineYear \in Int, target.targetYear \in Int, target.reductionPercent \in Int
  PROVE  Rollup!PathwayMeetsTarget(events, target)
  <1> DEFINE z == Rollup!netZero(events, target)
             b == Rollup!Baseline(events, target.baselineYear)
             y == target.targetYear - target.baselineYear
             r == target.reductionPercent
  <1> SUFFICES ASSUME target.targetYear > target.baselineYear
               PROVE  /\ Head(z.pathway) = z.baseline
                      /\ z.pathway[Len(z.pathway)] = z.target
                      /\ z.baseline >= 0 /\ r >= 0 =>
                            \A i \in 2 .. Len(z.pathway) : z.pathway[i] <= z.pathway[i - 1]
    BY DEF Rollup!PathwayMeetsTarget
  <1>1. b \in Int
    <2> DEFINE S == {i \in Rollup!OfKeys(events, DOMAIN events, {"ghg_total"}) :
                        Rollup!MonthOf(events[i].to) \div 12 = target.baselineYear}
    <2>1. S \subseteq DOMAIN events
      BY DEF Rollup!OfKeys
    <2>2. IsFiniteSet(S) /\ \A i \in S : Rollup!ValueOf(events)[i] \in Int
      BY <2>1, LedgerTypes
    <2>3. b = SumFunctionOnSet(Rollup!ValueOf(events), S)
      BY SameSum DEF Rollup!Baseline
    <2> HIDE DEF S, b
    <2> QED BY <2>2, <2>3, SumType
  <1>2. y \in Int /\ y > 0 /\ r \in Int
    OBVIOUS
  <1>3. /\ z.baseline = y * 100 * b
        /\ z.target = y * b * (100 - r)
        /\ z.pathway = [i \in 1 .. y + 1 |-> y * 100 * b - (i - 1) * (b * r)]
    BY <1>2 DEF Rollup!netZero
  <1> HIDE DEF z, b, y, r
  <1>4. z.pathway \in Seq(Int) /\ Len(z.pathway) = y + 1
    <2>1. y + 1 \in Nat /\ \A i \in 1 .. y + 1 : y * 100 * b - (i - 1) * (b * r) \in Int
      BY <1>1, <1>2
    <2> DEFINE n == y + 1
               p == z.pathway
    <2>2. p \in [1 .. n -> Int] /\ n \in Nat
      BY <1>3, <2>1
    <2> HIDE DEF n, p
    <2>3. p \in Seq(Int) /\ Len(p) = n
      BY <2>2
    <2> QED BY <2>3 DEF n, p
  <1>5. z.pathway[1] = z.baseline
    BY <1>1, <1>2, <1>3
  <1>6. z.pathway[y + 1] = z.target
    <2>1. z.pathway[y + 1] = y * 100 * b - y * (b * r)
      BY <1>2, <1>3
    <2>2. y * 100 * b - y * (b * r) = y * b * (100 - r)
      BY <1>1, <1>2
    <2> QED BY <1>3, <2>1, <2>2
  <1>7. ASSUME z.baseline >= 0, r >= 0, NEW i \in 2 .. y + 1
        PROVE  z.pathway[i] <= z.pathway[i - 1]
    <2>1. b >= 0
      <3> DEFINE q == y * 100 * b
      <3>1. q >= 0
        BY <1>3, <1>7
      <3>2. b < 0 => q < 0
        BY <1>1, <1>2
      <3>3. q \in Int
        BY <1>1, <1>2
      <3> HIDE DEF q
      <3> QED BY <1>1, <3>1, <3>2, <3>3
    <2>2. b * r >= 0 /\ b * r \in Int
      <3>1. \A m, n \in Int : m >= 0 /\ n >= 0 => m * n >= 0 /\ m * n \in Int
        OBVIOUS
      <3> QED BY <1>1, <1>2, <1>7, <2>1, <3>1
    <2>3. /\ z.pathway[i] = y * 100 * b - (i - 1) * (b * r)
          /\ z.pathway[i - 1] = y * 100 * b - (i - 2) * (b * r)
      BY <1>2, <1>3
    <2>4. (i - 1) * (b * r) = (i - 2) * (b * r) + b * r
      BY <1>2, <2>2
    <2>5. (i - 2) * (b * r) \in Int /\ y * 100 * b \in Int
      BY <1>1, <1>2, <2>2
    <2> QED BY <2>2, <2>3, <2>4, <2>5
  <1> QED BY <1>2, <1>4, <1>5, <1>6, <1>7

-------------------------------------------------------------------------------
(* All parts.                                                                *)

\* What holds of the services at every step.  Those that a behaviour is not about stay as
\* they began, so that each part has its invariant whatever the part is; but there is no
\* tab unless a behaviour is about one.
ServicesInv ==
    /\ IInv /\ AuditInv /\ HierarchyInv /\ SurveyInv /\ PortalInv /\ AssuranceInv /\ CacheInv
    /\ part = "tab" => TabInv

allVars == <<part, sample, auditVars, vars, tabVars, hierarchyVars, surveyVars,
             portalVars, metricVars, assuranceVars, cacheVars>>

\* The services begin empty.
LEMMA PartsBegin ==
  ASSUME MCInit
  PROVE  AuditInv /\ HierarchyInv /\ SurveyInv /\ PortalInv /\ AssuranceInv /\ CacheInv
  <1>0. AuditInv /\ HierarchyInv
    BY Assumptions, AuditBegins, HierarchyBegins DEF MCInit
  <1>1. SurveyInv
    <2>1. Survey!TypeOK
      BY DEF MCInit, Survey!Init, Survey!TypeOK
    <2>2. \A r \in Requests : pending[r] = Survey!Idle
      BY DEF MCInit, Survey!Init
    <2>3. \A a \in Assessments : assessment[a] = Survey!NoAssessment
      BY DEF MCInit, Survey!Init
    <2> QED BY <2>1, <2>2, <2>3 DEF SurveyInv, AssessedIsClosed, CountedIsComplete,
            Survey!AssessmentCountsAll, Survey!Idle
  <1>2. PortalInv
    <2>0. MaxResponses \in Nat
      BY Assumptions DEF Portal!SupplierAssumption
    <2>1. /\ answers = [n \in {} |-> 0] /\ score = 0 /\ doubled = {}
          /\ \A r \in Requests : serving[r] = Portal!Idle
          /\ \A i \in Invites : ~invite[i].responded
      BY DEF MCInit, Portal!Init
    <2>2. DOMAIN answers = 1 .. 0
      BY <2>1
    <2>3. Portal!TypeOK
      <3>1. invite \in [Invites -> Portal!Invite]
        BY DEF MCInit, Portal!Init, Portal!Invite
      <3>2. serving \in [Requests -> Portal!Serving \cup {Portal!Idle}]
        BY DEF MCInit, Portal!Init
      <3>3. supplier = "none"
        BY DEF MCInit, Portal!Init
      <3> QED BY <2>0, <2>1, <2>2, <3>1, <3>2, <3>3 DEF Portal!TypeOK
    <2>4. \A i \in Invites : Portal!ThroughInvite(i) = {}
      BY <2>1 DEF Portal!ThroughInvite
    <2>5. Portal!Cardinality({}) <= 1
      BY SameCardinality, FS_EmptySet
    <2>6. Portal!AnsweredOnce
      BY <2>1, <2>4, <2>5 DEF Portal!AnsweredOnce
    <2> QED BY <2>0, <2>1, <2>2, <2>3, <2>6 DEF PortalInv, Numbered, SubmitsAlone, ScoresAlone, Portal!Idle
  <1>3. AssuranceInv
    <2>1. Assurance!AssuranceTypeOK
      <3>1. Assurance!TypeOK
        BY DEF MCInit, Assurance!AssuranceInit, Assurance!Init, Assurance!TypeOK
      <3>2. snapshot \in [Snapshots -> Assurance!Snapshot \cup {Assurance!NoSnapshot}]
        BY DEF MCInit, Assurance!AssuranceInit
      <3>3. exception \in [Exceptions -> Assurance!Exception]
        BY DEF MCInit, Assurance!AssuranceInit, Assurance!Exception
      <3>4. responding \in [Responders -> Assurance!Response \cup {Assurance!NotResponding}]
        BY DEF MCInit, Assurance!AssuranceInit
      <3> QED BY <3>1, <3>2, <3>3, <3>4 DEF Assurance!AssuranceTypeOK
    <2>2. /\ \A r \in Requests : req[r] = Assurance!Idle
          /\ \A p \in Snapshots : snapshot[p] = Assurance!NoSnapshot
          /\ \A x \in Exceptions : exception[x] = [status |-> "none", closedAt |-> FALSE]
          /\ \A q \in Responders : responding[q] = Assurance!NotResponding
      BY DEF MCInit, Assurance!AssuranceInit, Assurance!Init
    <2> QED BY <2>1, <2>2 DEF AssuranceInv, TargetsExist, MembersAreSettled, ResponsesAgree,
            Assurance!ClosedAtIsOfClosed
  <1>4. CacheInv
    <2>1. /\ entry = Cache!Empty /\ fetch = Cache!Idle /\ version = 0 /\ ownChange = 0
          /\ writing = [r \in Requests |-> Cache!NotWriting] /\ watched \in Watched /\ observed = FALSE
      BY DEF MCInit, Cache!Init
    <2>2. Cache!TypeOK
      BY <2>1, Assumptions DEF Cache!TypeOK, Cache!CacheAssumption, Cache!Empty, Cache!Idle, Cache!NotWriting,
         Cache!Entry, Cache!Fetch, Cache!Writing
    <2> QED BY <2>1, <2>2 DEF CacheInv, Cache!OwnChangesAreShown, Cache!Empty, Cache!Idle, Cache!NotWriting
  <1> QED BY <1>0, <1>1, <1>2, <1>3, <1>4

\* A step is one of the part's own, and none of the others.
LEMMA PartsStep ==
  ASSUME [MCNext]_allVars
  PROVE  /\ part' = part
         /\ [Audit!Next]_auditVars /\ [Hierarchy!Next]_hierarchyVars
         /\ [Survey!Next]_surveyVars /\ [Portal!Next]_portalVars /\ AssuranceStep
         /\ [Cache!Next]_cacheVars
         /\ part = "tab" => Tab!WebNext \/ UNCHANGED <<vars, tabVars>>
         /\ part # "tab" => [Next]_vars /\ UNCHANGED tabVars
  <1>1. CASE UNCHANGED allVars
    BY <1>1 DEF allVars, AssuranceStep
  <1>2. CASE MCNext
    BY <1>2 DEF MCNext, Only, AssuranceStep, Assurance!Take, Assurance!Raise, Assurance!Respond
  <1> QED BY <1>1, <1>2

\* A step that leaves the sessions and the tab alone leaves what holds of the tab.
LEMMA TabStutters ==
  ASSUME TabInv, UNCHANGED <<vars, tabVars>>
  PROVE  TabInv'
  BY DEF vars, tabVars, TabInv, TabTypes, SendsAreFew, WaitersHaveACall, SignedOutIsLeft,
     SessionIsGood, GoodVisit, Live, Issued

\* The invariants of the parts together.
LEMMA ServicesInvariance == MCSpec => []ServicesInv
  <1>0. SessionsAssumption /\ Tab!WebAssumption
    BY Assumptions
  <1>1. MCInit => ServicesInv
    <2>1. SUFFICES ASSUME MCInit PROVE IInv /\ (part = "tab" => TabInv)
      BY PartsBegin DEF ServicesInv
    <2>2. CASE part = "tab" /\ Tab!WebInit
      BY <1>0, <2>2, WebInitIsGood
    <2>3. CASE part # "tab" /\ Init
      BY <1>0, <2>3, InitIInv
    <2> QED BY <2>1, <2>2, <2>3 DEF MCInit
  <1>2. ServicesInv /\ [MCNext]_allVars => ServicesInv'
    <2> SUFFICES ASSUME ServicesInv, [MCNext]_allVars PROVE ServicesInv'
      OBVIOUS
    <2>0. Hierarchy!HierarchyAssumption
      BY Assumptions
    <2>1. AuditInv' /\ HierarchyInv' /\ SurveyInv' /\ PortalInv' /\ AssuranceInv' /\ CacheInv'
      BY <2>0, PartsStep, AuditInvStep, HierarchyInvStep, SurveyInvStep, PortalInvStep, AssuranceInvStep, CacheInvStep DEF ServicesInv
    <2>2. CASE part = "tab" /\ Tab!WebNext
      <3>1. TabInv /\ IInv
        BY <2>2 DEF ServicesInv
      <3>2. [Next]_vars
        BY <2>2, <3>1, TabStepsAreSessions DEF TabInv
      <3> QED BY <1>0, <2>1, <2>2, <3>1, <3>2, IInvStep, TabInvStep DEF ServicesInv
    <2>3. CASE part = "tab" /\ UNCHANGED <<vars, tabVars>>
      <3>1. [Next]_vars
        BY <2>3
      <3> QED BY <1>0, <2>1, <2>3, <3>1, IInvStep, TabStutters DEF ServicesInv
    <2>4. CASE part # "tab" /\ [Next]_vars
      BY <1>0, <2>1, <2>4, PartsStep, IInvStep DEF ServicesInv
    <2> QED BY <2>2, <2>3, <2>4, PartsStep
  <1> QED BY <1>1, <1>2, PTL DEF MCSpec, allVars

\* Of the tokens of a session, one is usable at most and none once it is over, also with
\* the tab that uses them.
THEOREM ServiceSessionsAreSound == MCSpec => []SessionsAreSound
  <1>1. ServicesInv => SessionsAreSound
    BY IInvSuffices DEF ServicesInv
  <1> QED BY ServicesInvariance, <1>1, PTL

\* Rows lead back to the genesis hash, a tenant whose inserts neither overlapped nor came
\* out of order has one chain, an anchor stays true and an export misses no row.
THEOREM AuditHolds == MCSpec => []AuditIsSound
  <1>1. ServicesInv => AuditIsSound
    BY AuditInvSuffices DEF ServicesInv, AuditIsSound
  <1> QED BY ServicesInvariance, <1>1, PTL

\* Paths follow parents, a rollup by paths sums the subtree, a move that is let through
\* moves nothing and an import does not depend on the order of its rows: for any tree to
\* begin with and any files.
THEOREM HierarchyHolds == MCSpec => []HierarchyIsSound
  <1>1. ServicesInv => HierarchyIsSound
    BY Assumptions, HierarchyInvSuffices DEF ServicesInv, HierarchyIsSound
  <1> QED BY ServicesInvariance, <1>1, PTL

\* An assessment counts every response but the late ones, an invitation is answered once
\* unless two answers overlapped, a snapshot can be verified unless a request was under
\* way that had read an event before, and closedAt is set on closed exceptions only.
THEOREM EngagementsHold == MCSpec => []EngagementsAreSound
  <1>1. ServicesInv => EngagementsAreSound
    <2>1. AssuranceInv => Assurance!SnapshotCanBeVerified
      BY DEF AssuranceInv, MembersAreSettled, Assurance!SnapshotCanBeVerified
    <2> QED BY <2>1 DEF ServicesInv, EngagementsAreSound, SurveyInv, PortalInv, AssuranceInv
  <1> QED BY ServicesInvariance, <1>1, PTL

\* The session of a tab ends in an error for a reason only, a request of a page is sent
\* four times at most and never waits in vain; and the pages show the tab's own changes,
\* or data that is to be asked for again.
THEOREM BrowserHolds == MCSpec => []BrowserSessionIsSound
  <1>1. ServicesInv => BrowserSessionIsSound
    BY TabInvSuffices DEF ServicesInv, BrowserSessionIsSound, CacheInv
  <1> QED BY ServicesInvariance, <1>1, PTL

\* The pages that add up metric events agree, whatever the table they read.
THEOREM RollupsHold == MCSpec => []RollupsAgree
  <1> DEFINE I == part = "rollup" => sample \in Ledgers
  <1>1. MCInit => I
    BY DEF MCInit
  <1>2. I /\ [MCNext]_allVars => I'
    BY DEF MCNext, allVars
  <1>3. I => RollupsAgree
    <2> SUFFICES ASSUME part = "rollup", sample \in Ledgers PROVE RollupsAgree
      BY DEF RollupsAgree
    <2>1. Rollup!IsLedger(sample)
      BY Assumptions
    <2> DEFINE today == FirstOfMonth(4)
               year == Rollup!WholeYear(12 * 2023 + 3)
               keys == <<"ghg_scope2_market", "ghg_scope1_total">>
               to(years) == [baselineYear |-> 2024, targetYear |-> 2024 + years, reductionPercent |-> 42]
    <2>2. today \in Int
      BY DEF FirstOfMonth
    <2>3. Rollup!PagesAgree(sample, today) /\ Rollup!YearHoldsItsEvent(sample, today)
      BY <2>1, <2>2, PagesShowTheSame, YearsHoldTheirEvents
    <2>4. \A nodes \in {{}, {"n1"}}, asked \in {year, Rollup!Unasked} :
             Rollup!ScopesAgree(sample, nodes, asked, today)
      BY <2>1, <2>2, ScopesMayDiffer
    <2>5. ASSUME NEW aggregation \in {"SUM", "MIN", "MAX", "LATEST", "FIRST"}
          PROVE  Rollup!AnswersAreStable(sample, keys, aggregation, {"n1", "n2"}, year)
      <3>1. keys \in Seq({"ghg_scope2_market", "ghg_scope1_total"})
        BY PairIsSequence
      <3>2. IsFiniteSet({"n1", "n2"})
        <4>1. IsFiniteSet({"n1"}) /\ {"n1", "n2"} = {"n1"} \cup {"n2"}
          BY FS_Singleton
        <4> QED BY <4>1, FS_AddElement
      <3>3. aggregation \in Aggregations
        BY DEF Aggregations
      <3> HIDE DEF keys, year
      <3> QED BY <2>1, <3>1, <3>2, <3>3, AnswersDoNotDepend
    <2>6. ASSUME NEW years \in {0, 1, 3}
          PROVE  Rollup!PathwayMeetsTarget(sample, to(years))
      <3>1. /\ to(years).baselineYear \in Int /\ to(years).targetYear \in Int
            /\ to(years).reductionPercent \in Int
        <4>1. years \in Int
          OBVIOUS
        <4>2. 2024 + years \in Int
          BY <4>1
        <4> QED BY <4>2
      <3> HIDE DEF to
      <3> QED BY <2>1, <3>1, PathwaysMeetTargets
    <2> HIDE DEF today, year, keys, to
    <2> QED BY <2>3, <2>4, <2>5, <2>6 DEF RollupsAgree, today, year, keys, to
  <1> QED BY <1>1, <1>2, <1>3, PTL DEF MCSpec, allVars

\* What is over stays over: the step of each service that could bring it back is not there.
THEOREM WhatIsOverHolds == MCSpec => WhatIsOverStaysOver
  <1>0. SessionsAssumption
    BY Assumptions
  <1>n. ServicesInv /\ [MCNext]_allVars => [Next]_vars
    BY PartsStep, TabStepsAreSessions DEF ServicesInv, TabInv
  <1>1. MCSpec => DeactivatedGetsNothing
    <2> DEFINE A == \A r \in Requests, j \in DOMAIN token :
                       ~Issued(j) /\ Issued(j)' /\ token'[j].user \notin active /\ call'[r] # call[r]
                          => call[r].was
    <2>1. ServicesInv /\ [MCNext]_allVars => [A]_vars
      BY <1>n, DeactivatedStep DEF ServicesInv
    <2> QED BY ServicesInvariance, <2>1, PTL DEF MCSpec, allVars, DeactivatedGetsNothing
  <1>2. MCSpec => LockHolds
    <2> DEFINE A == \A u \in Users, p \in Replicas : failed[p][u].locked /\ ~LoggingIn(u, p) =>
                     \/ failed'[p][u].locked /\ ~LoggingIn(u, p)'
                     \/ LockExpires(u, p)
                     \/ Restart(p)
    <2>1. ServicesInv /\ [MCNext]_allVars => [A]_vars
      BY <1>n, LockStep DEF ServicesInv
    <2> QED BY ServicesInvariance, <2>1, PTL DEF MCSpec, allVars, LockHolds
  <1>3. MCSpec => Survey!ClosedSurveysStay
    <2> DEFINE A == \A s \in Surveys : survey[s] = "CLOSED" /\ ~Survey!Launching(s) =>
                        /\ survey'[s] = "CLOSED" /\ ~Survey!Launching(s)'
                        /\ ~Survey!Answering(s) => Survey!ResponsesOf(s)' = Survey!ResponsesOf(s) /\ ~Survey!Answering(s)'
    <2>1. ServicesInv /\ [MCNext]_allVars => [A]_(Survey!vars)
      BY PartsStep, ClosedSurveysStep DEF ServicesInv, SurveyInv
    <2> QED BY ServicesInvariance, <2>1, PTL DEF MCSpec, allVars, Survey!ClosedSurveysStay
  <1>4. MCSpec => Survey!SignaturesStay
    <2> DEFINE A == \A a \in Assessments :
                       (/\ assessment[a] # Survey!NoAssessment
                        /\ assessment[a].signedBy # NoSigner
                        /\ \A r \in Requests : Survey!Serves(r, "sign") => pending[r].assessment # a)
                       => /\ assessment'[a] = assessment[a]
                          /\ \A r \in Requests : Survey!Serves(r, "sign")' => pending'[r].assessment # a
    <2>1. ServicesInv /\ [MCNext]_allVars => [A]_(Survey!vars)
      BY PartsStep, SignaturesStep DEF ServicesInv, SurveyInv
    <2> QED BY ServicesInvariance, <2>1, PTL DEF MCSpec, allVars, Survey!SignaturesStay
  <1>5. MCSpec => Portal!ArchivedStays
    <2> DEFINE A == (/\ supplier = "ARCHIVED" /\ Portal!Outstanding = {}
                     /\ \A i \in Invites : Portal!Submitting(i) = {})
                    => supplier' = "ARCHIVED" /\ \A i \in Invites : Portal!Submitting(i)' = {}
    <2>1. ServicesInv /\ [MCNext]_allVars => [A]_(Portal!vars)
      BY PartsStep, ArchivedStep DEF ServicesInv, PortalInv
    <2> QED BY ServicesInvariance, <2>1, PTL DEF MCSpec, allVars, Portal!ArchivedStays
  <1>6. MCSpec => Portal!ScoreMovesOn
    <2> DEFINE A == (\A r \in Portal!Scoring : serving[r].alone) => score' >= score
    <2>1. ServicesInv /\ [MCNext]_allVars => [A]_(Portal!vars)
      BY PartsStep, ScoreStep DEF ServicesInv
    <2> QED BY ServicesInvariance, <2>1, PTL DEF MCSpec, allVars, Portal!ScoreMovesOn
  <1>7. MCSpec => Assurance!ClosedExceptionsStay
    <2> DEFINE A == \A x \in Exceptions : exception[x].status = "CLOSED" /\ Assurance!RespondingTo(x) = {} =>
                       /\ exception'[x].status = "CLOSED"
                       /\ \A q \in Assurance!RespondingTo(x)' : responding'[q].status = "CLOSED"
    <2>1. ServicesInv /\ [MCNext]_allVars => [A]_<<Assurance!vars, Assurance!assuranceVars>>
      BY PartsStep, ClosedExceptionStep DEF ServicesInv, AssuranceInv
    <2> QED BY ServicesInvariance, <2>1, PTL DEF MCSpec, allVars, Assurance!ClosedExceptionsStay
  <1>8. MCSpec => Tab!SignOutHolds
    <2> DEFINE A == cookie = Tab!SignedOut /\ shown = Tab!SignedOut /\ left = {}
                        => cookie' = Tab!SignedOut /\ shown' = Tab!SignedOut
    <2>1. ServicesInv /\ [MCNext]_allVars => [A]_<<Tab!vars, Tab!webVars>>
      BY PartsStep, SignedOutStep DEF ServicesInv, TabInv, tabVars
    <2> QED BY ServicesInvariance, <2>1, PTL DEF MCSpec, allVars, Tab!SignOutHolds
  <1>9. MCSpec => Cache!ShownNeverGoesBack
    <2> DEFINE A == entry.data # NoData /\ entry'.data # NoData => entry'.data >= entry.data
    <2>1. ServicesInv /\ [MCNext]_allVars => [A]_(Cache!cacheVars)
      BY PartsStep, CacheInvStep DEF ServicesInv
    <2> QED BY ServicesInvariance, <2>1, PTL DEF MCSpec, allVars, Cache!ShownNeverGoesBack
  <1> QED BY <1>1, <1>2, <1>3, <1>4, <1>5, <1>6, <1>7, <1>8, <1>9 DEF WhatIsOverStaysOver
===============================================================================
