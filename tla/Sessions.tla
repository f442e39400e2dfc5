------------------------------- MODULE Sessions -------------------------------
(***************************************************************************)
(* Sign-in with credentials, refresh tokens and their rotation, account     *)
(* lockout and the deactivation of users: IamService.                       *)
(*                                                                         *)
(* A refresh token is a signed value the client keeps, and any replica of   *)
(* the API may get it.  What has become of it is known only to the maps in  *)
(* the memory of the replica that issued it, which a restart empties, and   *)
(* no replica knows of the maps of another.  A login and a refresh await    *)
(* the user row between their first look at the maps and their last change  *)
(* of them, and any number of them overlap.  Access tokens, which nothing   *)
(* keeps track of, and the expiry of tokens are not modelled.               *)
(***************************************************************************)
EXTENDS Naturals, FiniteSets

CONSTANTS
    Users,
    Replicas,       \* the API processes
    Requests,       \* logins and refreshes served at the same time
    MaxTokens,      \* how many refresh tokens are issued (a bound)
    MaxFailures     \* failed logins that lock an account (10 in the code)

\* What the constants are assumed to be.
SessionsAssumption == /\ MaxTokens \in Nat
                      /\ MaxFailures \in Nat \ {0}

VARIABLES
    active,         \* the users whose row has isActive
    token,          \* token[j]: the claims of the token with jti j, or Unissued
    jtis,           \* refreshTokenJtis of each replica: what it knows of token j
    revokedFamilies, \* of each replica
    failed,         \* failedLoginAttempts of each replica, by user
    call,           \* call[r]: the handler that serves r, or Idle
    ended,          \* families burnt, or logged out where they were issued (history)
    overlapped      \* families with refreshes of one token at once (history)

vars == <<active, token, jtis, revokedFamilies, failed, call, ended, overlapped>>

Jtis == 1 .. MaxTokens

Unissued == [user |-> "none"]

\* The family of a token is the jti of its first.  No claim says which replica issued it:
\* home is history.
Token == [user : Users, fam : Jtis, home : Replicas]

Idle == [op |-> "idle"]

\* found: whether user.findFirst or findUnique has answered, and with an active user.
\* was: whether the user was active at any time since the call began (history).
Found == {"asked", "active", "inactive"}

Call == [op : {"login"}, at : Replicas, user : Users, found : Found, was : BOOLEAN]
          \cup [op : {"refresh"}, at : Replicas, user : Users, found : Found, was : BOOLEAN, jti : Jtis]

NoFailures == [count |-> 0, locked |-> FALSE]

TypeOK ==
    /\ active \subseteq Users
    /\ token \in [Jtis -> Token \cup {Unissued}]
    /\ jtis \in [Replicas -> [Jtis -> {"unknown", "live", "revoked"}]]
    /\ revokedFamilies \in [Replicas -> SUBSET Jtis]
    /\ failed \in [Replicas -> [Users -> [count : 0 .. MaxFailures, locked : BOOLEAN]]]
    /\ call \in [Requests -> Call \cup {Idle}]
    /\ ended \subseteq Jtis
    /\ overlapped \subseteq Jtis

Init ==
    /\ active = Users
    /\ token = [j \in Jtis |-> Unissued]
    /\ jtis = [p \in Replicas |-> [j \in Jtis |-> "unknown"]]
    /\ revokedFamilies = [p \in Replicas |-> {}]
    /\ failed = [p \in Replicas |-> [u \in Users |-> NoFailures]]
    /\ call = [r \in Requests |-> Idle]
    /\ ended = {}
    /\ overlapped = {}

Issued(j) == token[j] # Unissued

\* A new random jti.
Fresh(j) == ~Issued(j) /\ \A i \in Jtis : i < j => Issued(i)

Answer(r) == call' = [call EXCEPT ![r] = Idle]

\* The user row is read.
ReadUser(r) ==
    /\ call[r] # Idle
    /\ call[r].found = "asked"
    /\ call' = [call EXCEPT ![r].found = IF call[r].user \in active THEN "active" ELSE "inactive"]
    /\ UNCHANGED <<active, token, jtis, revokedFamilies, failed, ended, overlapped>>

-------------------------------------------------------------------------------
(* loginWithCredentials                                                      *)

BeginLogin(r, u, p) ==
    /\ call[r] = Idle
    /\ ~failed[p][u].locked
    /\ call' = [call EXCEPT ![r] = [op |-> "login", at |-> p, user |-> u, found |-> "asked",
                                    was |-> u \in active]]
    /\ UNCHANGED <<active, token, jtis, revokedFamilies, failed, ended, overlapped>>

\* recordFailure; counts above MaxFailures make no difference.
Failure(f) == LET next == IF f.count < MaxFailures THEN f.count + 1 ELSE f.count
              IN [count |-> next, locked |-> next >= MaxFailures]

\* The user is not there, or the password is wrong.
LoginFails(r) ==
    /\ call[r] # Idle
    /\ call[r].op = "login"
    /\ call[r].found # "asked"
    /\ failed' = [failed EXCEPT ![call[r].at][call[r].user] = Failure(@)]
    /\ Answer(r)
    /\ UNCHANGED <<active, token, jtis, revokedFamilies, ended, overlapped>>

\* The password is right: the first token of a new family.
LoginSucceeds(r, j) ==
    /\ call[r] # Idle
    /\ call[r].op = "login"
    /\ call[r].found = "active"
    /\ Fresh(j)
    /\ failed' = [failed EXCEPT ![call[r].at][call[r].user] = NoFailures]
    /\ token' = [token EXCEPT ![j] = [user |-> call[r].user, fam |-> j, home |-> call[r].at]]
    /\ jtis' = [jtis EXCEPT ![call[r].at][j] = "live"]
    /\ Answer(r)
    /\ UNCHANGED <<active, revokedFamilies, ended, overlapped>>

\* lockedUntil has passed; the count stays.
LockExpires(u, p) ==
    /\ failed[p][u].locked
    /\ failed' = [failed EXCEPT ![p][u].locked = FALSE]
    /\ UNCHANGED <<active, token, jtis, revokedFamilies, call, ended, overlapped>>

-------------------------------------------------------------------------------
(* refreshToken and logout                                                   *)

RefreshesOf(j) == {r \in Requests : call[r] # Idle /\ call[r].op = "refresh" /\ call[r].jti = j}

\* Up to user.findUnique: to the replica p the family is not revoked, and the token known
\* and live.
BeginRefresh(r, j, p) ==
    /\ call[r] = Idle
    /\ Issued(j)
    /\ token[j].fam \notin revokedFamilies[p]
    /\ jtis[p][j] = "live"
    /\ call' = [call EXCEPT ![r] = [op |-> "refresh", at |-> p, user |-> token[j].user, found |-> "asked",
                                    was |-> token[j].user \in active, jti |-> j]]
    /\ overlapped' = overlapped \cup (IF RefreshesOf(j) = {} THEN {} ELSE {token[j].fam})
    /\ UNCHANGED <<active, token, jtis, revokedFamilies, failed, ended>>

\* A token that was rotated comes again: its family is burnt.
RefreshReused(j, p) ==
    /\ Issued(j)
    /\ token[j].fam \notin revokedFamilies[p]
    /\ jtis[p][j] = "revoked"
    /\ revokedFamilies' = [revokedFamilies EXCEPT ![p] = @ \cup {token[j].fam}]
    /\ ended' = ended \cup {token[j].fam}
    /\ UNCHANGED <<active, token, jtis, failed, call, overlapped>>

RefreshRefused(r) ==
    /\ call[r] # Idle
    /\ call[r].op = "refresh"
    /\ call[r].found = "inactive"
    /\ Answer(r)
    /\ UNCHANGED <<active, token, jtis, revokedFamilies, failed, ended, overlapped>>

\* The old token is marked, and a new one of the family issued.
Rotate(r, j) ==
    /\ call[r] # Idle
    /\ call[r].op = "refresh"
    /\ call[r].found = "active"
    /\ Fresh(j)
    /\ token' = [token EXCEPT ![j] = token[call[r].jti]]
    /\ jtis' = [jtis EXCEPT ![call[r].at] = [@ EXCEPT ![call[r].jti] = "revoked", ![j] = "live"]]
    /\ Answer(r)
    /\ UNCHANGED <<active, revokedFamilies, failed, ended, overlapped>>

\* logout looks at the signature only.  It ends the session if the replica p is the one
\* that issued the token; another keeps in mind a family that it would not recognise
\* anyway.
Logout(j, p) ==
    /\ Issued(j)
    /\ revokedFamilies' = [revokedFamilies EXCEPT ![p] = @ \cup {token[j].fam}]
    /\ ended' = ended \cup (IF p = token[j].home THEN {token[j].fam} ELSE {})
    /\ UNCHANGED <<active, token, jtis, failed, call, overlapped>>

-------------------------------------------------------------------------------
(* Users and the processes.                                                  *)

\* deactivateUser, or updateUser with active: false.
Deactivate(u) ==
    /\ active' = active \ {u}
    /\ UNCHANGED <<token, jtis, revokedFamilies, failed, call, ended, overlapped>>

\* updateUser with active: true.
Reactivate(u) ==
    /\ active' = active \cup {u}
    /\ call' = [r \in Requests |-> IF call[r] # Idle /\ call[r].user = u
                                   THEN [call[r] EXCEPT !.was = TRUE] ELSE call[r]]
    /\ UNCHANGED <<token, jtis, revokedFamilies, failed, ended, overlapped>>

\* As if the tokens were kept in the database, and the rest in memory.
RestartKeepsJtis(p) ==
    /\ revokedFamilies' = [revokedFamilies EXCEPT ![p] = {}]
    /\ failed' = [failed EXCEPT ![p] = [u \in Users |-> NoFailures]]
    /\ call' = [r \in Requests |-> IF call[r] # Idle /\ call[r].at = p THEN Idle ELSE call[r]]
    /\ UNCHANGED <<active, token, jtis, ended, overlapped>>

\* A replica stops, and another takes its place.
Restart(p) ==
    /\ jtis' = [jtis EXCEPT ![p] = [j \in Jtis |-> "unknown"]]
    /\ revokedFamilies' = [revokedFamilies EXCEPT ![p] = {}]
    /\ failed' = [failed EXCEPT ![p] = [u \in Users |-> NoFailures]]
    /\ call' = [r \in Requests |-> IF call[r] # Idle /\ call[r].at = p THEN Idle ELSE call[r]]
    /\ UNCHANGED <<active, token, ended, overlapped>>

Next == \/ \E r \in Requests : \/ ReadUser(r)
                               \/ \E u \in Users, p \in Replicas : BeginLogin(r, u, p)
                               \/ LoginFails(r)
                               \/ \E j \in Jtis : LoginSucceeds(r, j) \/ Rotate(r, j)
                               \/ \E j \in Jtis, p \in Replicas : BeginRefresh(r, j, p)
                               \/ RefreshRefused(r)
        \/ \E j \in Jtis, p \in Replicas : RefreshReused(j, p) \/ Logout(j, p)
        \/ \E u \in Users, p \in Replicas : LockExpires(u, p)
        \/ \E u \in Users : Deactivate(u) \/ Reactivate(u)
        \/ \E p \in Replicas : Restart(p)

Spec == Init /\ [][Next]_vars

-------------------------------------------------------------------------------
(* Properties.                                                               *)

\* A refresh of token j would pass the checks of the maps of replica p.
Usable(j, p) == Issued(j) /\ jtis[p][j] = "live" /\ token[j].fam \notin revokedFamilies[p]

\* A session has one usable token, at one replica: of all the tokens a family had, only the
\* last is accepted -- unless refreshes of one token overlapped, both of which passed the
\* check before either marked it.
OneUsableToken ==
    \A i, j \in Jtis, p, q \in Replicas :
        Usable(i, p) /\ Usable(j, q) /\ <<i, p>> # <<j, q>> /\ token[i].fam = token[j].fam =>
            i # j /\ p = q /\ token[i].fam \in overlapped

\* A family that was burnt because a token came twice, or logged out at the replica that
\* issued it, is over: no replica accepts a token of it, whatever refreshes of it were
\* under way, and also when the replica has restarted and forgotten that the family was
\* revoked.
EndedStaysEnded ==
    \A j \in Jtis, p \in Replicas : Issued(j) /\ token[j].fam \in ended => ~Usable(j, p)

\* A user who is deactivated gets a token only of a login or refresh that began before,
\* and read the row before: what begins later, and before a reactivation, gets none.
DeactivatedGetsNothing ==
    [][\A r \in Requests, j \in DOMAIN token :
          ~Issued(j) /\ Issued(j)' /\ token'[j].user \notin active /\ call'[r] # call[r]
             => call[r].was]_vars

LoggingIn(u, p) ==
    \E r \in Requests : call[r] # Idle /\ call[r].op = "login" /\ call[r].user = u /\ call[r].at = p

\* An account locked at a replica stays so, and that replica lets no login in, until the
\* lock expires or the replica restarts -- unless a login was under way there, which may
\* still clear it.  Other replicas know nothing of the lock.
LockHolds ==
    [][\A u \in Users, p \in Replicas : failed[p][u].locked /\ ~LoggingIn(u, p) =>
          \/ failed'[p][u].locked /\ ~LoggingIn(u, p)'
          \/ LockExpires(u, p)
          \/ Restart(p)]_vars

\* Of the tokens of a session, one is usable at most, and none once it is over.
SessionsAreSound == TypeOK /\ OneUsableToken /\ EndedStaysEnded
===============================================================================
