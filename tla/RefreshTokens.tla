--------------------------- MODULE RefreshTokens ---------------------------
(***************************************************************************)
(* The sessions of ONE user as AuthService keeps them: the session version *)
(* on the user, and the rotating refresh tokens, grouped in families (one  *)
(* family per sign-in).  refresh() is a sequence of separate database      *)
(* statements with no transaction around them, so every statement is one   *)
(* action and calls of several tabs or devices interleave between them.    *)
(*                                                                         *)
(* A refresh token is a signed JWT of the user, the session version and    *)
(* the second it was made in; it has no id of its own.  So two tokens made *)
(* for one user in one second are the same string, and have the same hash, *)
(* which is unique in the table: a token IS its version and its second.    *)
(* One tick of the clock is one second.                                    *)
(***************************************************************************)
EXTENDS Integers, FiniteSets

CONSTANTS Calls,        \* calls of AuthService and SettingsService
          Grace,        \* REFRESH_ROTATION_REPLAY_GRACE_MS, in ticks
          Lifetime,     \* JWT_REFRESH_EXPIRES, in ticks
          MaxVersion,   \* bound on the session versions
          MaxClock      \* bound on the clock

ASSUME BoundAssumption ==
  /\ Grace \in Nat /\ Lifetime \in Nat \ {0}
  /\ MaxVersion \in Nat /\ MaxClock \in Nat

Versions == 0 .. MaxVersion
Times == 0 .. MaxClock
Tokens == [sv: Versions, iat: Times]
NoToken == [sv |-> -1, iat |-> -1]

VARIABLES
  clock,
  sessionVersion, isActive,      \* columns of User
  issued,                        \* the rows of RefreshToken
  live,                          \* those with revokedAt = null
  familyId, revokedAt, replacedByTokenHash,
  rotated,                       \* history: revoked by the claim of a refresh
  pc, arg, now, seen, next, reply  \* the calls: the token each presents, when
                                   \* it began, what it read, how it ended

user == <<sessionVersion, isActive>>
rows == <<issued, familyId, replacedByTokenHash>>
table == <<rows, live, revokedAt, rotated>>
locals == <<arg, now, seen, next>>
vars == <<clock, user, table, pc, locals, reply>>

Stages == {"idle", "find", "successor", "user", "claim", "raced", "racedSuccessor",
           "create", "link", "reuse", "refuse", "expire", "rotatedUser",
           "openUser", "open", "revokeAll", "end"}
Replies == {"none", "ok", "invalid", "rotated", "reuse", "failed"}

expiresAt(t) == t.iat + Lifetime

\* Rows of a set of tokens get revokedAt = time where it was null.
Revoke(S, time) ==
  /\ live' = live \ S
  /\ revokedAt' = [t \in Tokens |-> IF t \in S \cap live THEN time ELSE revokedAt[t]]

Family(t) == {u \in issued : familyId[u] = familyId[t]}

isSessionVersionCurrent(t) == t.sv >= sessionVersion

----------------------------------------------------------------------------
Init ==
  /\ clock = 0
  /\ sessionVersion = 0 /\ isActive = TRUE
  /\ issued = {} /\ live = {} /\ rotated = {}
  /\ familyId = [t \in Tokens |-> t]
  /\ revokedAt = [t \in Tokens |-> 0]
  /\ replacedByTokenHash = [t \in Tokens |-> NoToken]
  /\ pc = [c \in Calls |-> "idle"]
  /\ arg = [c \in Calls |-> NoToken]
  /\ now = [c \in Calls |-> 0]
  /\ seen = [c \in Calls |-> 0]
  /\ next = [c \in Calls |-> NoToken]
  /\ reply = [c \in Calls |-> "none"]

Goto(c, stage) == pc' = [pc EXCEPT ![c] = stage] /\ UNCHANGED reply
End(c, r) == pc' = [pc EXCEPT ![c] = "end"] /\ reply' = [reply EXCEPT ![c] = r]

(* Starting a call of refresh: any token handed out so far is presented.   *)
Refresh(c, t) ==
  /\ pc[c] = "idle" /\ t \in issued
  /\ arg' = [arg EXCEPT ![c] = t]
  /\ now' = [now EXCEPT ![c] = clock]
  /\ Goto(c, "find")
  /\ UNCHANGED <<clock, user, table, seen, next>>

FindToken(c) ==
  /\ pc[c] = "find"
  /\ next' = [next EXCEPT ![c] = replacedByTokenHash[arg[c]]]
  /\ Goto(c, IF arg[c] \notin live
             THEN IF replacedByTokenHash[arg[c]] # NoToken THEN "successor" ELSE "reuse"
             ELSE IF expiresAt(arg[c]) <= now[c] THEN "expire" ELSE "user")
  /\ UNCHANGED <<clock, user, table, arg, now, seen>>

InWindow(c) ==
  LET age == now[c] - revokedAt[arg[c]] IN age >= 0 /\ age <= Grace

\* The token presented was rotated a moment ago and what it was rotated to,
\* the token next[c], is the live one of its family.
isBenignRefreshRotationReplay(c) ==
  /\ InWindow(c)
  /\ next[c] \in live
  /\ expiresAt(next[c]) > now[c]
  /\ familyId[next[c]] = familyId[arg[c]]

isRefreshRotationInProgress(c) ==
  /\ arg[c] \notin live
  /\ replacedByTokenHash[arg[c]] = NoToken
  /\ InWindow(c)

ReadSuccessor(c) ==
  /\ pc[c] = "successor"
  /\ Goto(c, IF isBenignRefreshRotationReplay(c) THEN "rotatedUser" ELSE "reuse")
  /\ UNCHANGED <<clock, user, table, locals>>

ReadRotatedUser(c) ==
  /\ pc[c] = "rotatedUser"
  /\ End(c, IF isActive THEN "rotated" ELSE "invalid")
  /\ UNCHANGED <<clock, user, table, locals>>

\* updateMany over the family, for a replay that is not benign ("reuse") and
\* for a user who is inactive or whose sessions were all ended ("refuse").
RevokeFamily(c) ==
  /\ pc[c] \in {"reuse", "refuse"}
  /\ Revoke(Family(arg[c]), now[c])
  /\ End(c, IF pc[c] = "reuse" THEN "reuse" ELSE "invalid")
  /\ UNCHANGED <<clock, user, rows, rotated, locals>>

ExpireToken(c) ==
  /\ pc[c] = "expire"
  /\ Revoke({arg[c]}, now[c])
  /\ End(c, "invalid")
  /\ UNCHANGED <<clock, user, rows, rotated, locals>>

\* The JWT is verified against the time it is by now, then the user is read.
ReadUser(c) ==
  /\ pc[c] = "user"
  /\ \/ expiresAt(arg[c]) <= clock /\ End(c, "invalid") /\ UNCHANGED seen
     \/ /\ expiresAt(arg[c]) > clock
        /\ ~ (isActive /\ isSessionVersionCurrent(arg[c]))
        /\ Goto(c, "refuse") /\ UNCHANGED seen
     \/ /\ expiresAt(arg[c]) > clock
        /\ isActive /\ isSessionVersionCurrent(arg[c])
        /\ seen' = [seen EXCEPT ![c] = sessionVersion]
        /\ Goto(c, "claim")
  /\ UNCHANGED <<clock, user, table, arg, now, next>>

\* Faulty variant: the count of the update is ignored.
Claim_CountIgnored(c) ==
  /\ pc[c] = "claim"
  /\ Revoke({arg[c]}, now[c])
  /\ rotated' = rotated \cup ({arg[c]} \cap live)
  /\ Goto(c, "create")
  /\ UNCHANGED <<clock, user, rows, locals>>

\* updateMany where revokedAt is null: only one refresh of a token gets it.
Claim(c) ==
  /\ pc[c] = "claim"
  /\ IF arg[c] \in live
     THEN /\ Revoke({arg[c]}, now[c])
          /\ rotated' = rotated \cup {arg[c]}
          /\ Goto(c, "create")
     ELSE Goto(c, "raced") /\ UNCHANGED <<live, revokedAt, rotated>>
  /\ UNCHANGED <<clock, user, rows, locals>>

ReadRaced(c) ==
  /\ pc[c] = "raced"
  /\ next' = [next EXCEPT ![c] = replacedByTokenHash[arg[c]]]
  /\ \/ isRefreshRotationInProgress(c) /\ End(c, "rotated")
     \/ /\ ~ isRefreshRotationInProgress(c)
        /\ Goto(c, IF replacedByTokenHash[arg[c]] # NoToken THEN "racedSuccessor" ELSE "reuse")
  /\ UNCHANGED <<clock, user, table, arg, now, seen>>

ReadRacedSuccessor(c) ==
  /\ pc[c] = "racedSuccessor"
  /\ \/ isBenignRefreshRotationReplay(c) /\ End(c, "rotated")
     \/ ~ isBenignRefreshRotationReplay(c) /\ Goto(c, "reuse")
  /\ UNCHANGED <<clock, user, table, locals>>

\* Faulty variants: the token gets the version the user has by now; a version
\* of its own; its row no unique hash.
Made_CurrentVersion(c) == [sv |-> sessionVersion, iat |-> clock]

Made_NextVersion(c) == [sv |-> seen[c] + 1, iat |-> clock]

\* persistRefreshToken: the token made now for the version the call read, and
\* its row in family f.
Made(c) == [sv |-> seen[c], iat |-> clock]

Persist_NotUnique(c, f) ==
  /\ issued' = issued \cup {Made(c)}
  /\ live' = live \cup {Made(c)}
  /\ familyId' = [familyId EXCEPT ![Made(c)] = f]
  /\ next' = [next EXCEPT ![c] = Made(c)]
  /\ UNCHANGED <<clock, user, replacedByTokenHash, revokedAt, rotated, arg, now, seen>>

Persist(c, f) ==
  /\ Made(c) \notin issued
  /\ issued' = issued \cup {Made(c)}
  /\ live' = live \cup {Made(c)}
  /\ familyId' = [familyId EXCEPT ![Made(c)] = f]
  /\ next' = [next EXCEPT ![c] = Made(c)]
  /\ UNCHANGED <<clock, user, replacedByTokenHash, revokedAt, rotated, arg, now, seen>>

CreateSuccessor(c) ==
  /\ pc[c] = "create"
  /\ Persist(c, familyId[arg[c]])
  /\ Goto(c, "link")

\* The hash is unique: the insert of a token that exists already fails.
FailPersist(c) ==
  /\ pc[c] \in {"create", "open"}
  /\ Made(c) \in issued
  /\ End(c, "failed")
  /\ UNCHANGED <<clock, user, table, locals>>

LinkSuccessor(c) ==
  /\ pc[c] = "link"
  /\ replacedByTokenHash' = [replacedByTokenHash EXCEPT ![arg[c]] = next[c]]
  /\ End(c, "ok")
  /\ UNCHANGED <<clock, user, issued, live, familyId, revokedAt, rotated, locals>>

----------------------------------------------------------------------------
(* Signing in and ending sessions.                                         *)

Bump == sessionVersion < MaxVersion /\ sessionVersion' = sessionVersion + 1

Login(c) ==
  /\ pc[c] = "idle"
  /\ Goto(c, "openUser")
  /\ UNCHANGED <<clock, user, table, locals>>

\* commitCredentialChange: version and tokens in one transaction, then a new
\* session for the caller.
ChangePassword(c) ==
  /\ pc[c] = "idle"
  /\ Bump
  /\ Revoke(issued, clock)
  /\ Goto(c, "openUser")
  /\ UNCHANGED <<clock, isActive, rows, rotated, locals>>

OpenUser(c) ==
  /\ pc[c] = "openUser"
  /\ \/ isActive /\ seen' = [seen EXCEPT ![c] = sessionVersion] /\ Goto(c, "open")
     \/ ~ isActive /\ End(c, "invalid") /\ UNCHANGED seen
  /\ UNCHANGED <<clock, user, table, arg, now, next>>

OpenSession(c) ==
  /\ pc[c] = "open"
  /\ Persist(c, Made(c))
  /\ End(c, "ok")

Logout(t) ==
  /\ t \in live
  /\ Revoke({t}, clock)
  /\ UNCHANGED <<clock, user, rows, rotated, pc, locals, reply>>

LogoutAll(c) ==
  /\ pc[c] = "idle"
  /\ Bump
  /\ now' = [now EXCEPT ![c] = clock]
  /\ Goto(c, "revokeAll")
  /\ UNCHANGED <<clock, isActive, table, arg, seen, next>>

RevokeAll(c) ==
  /\ pc[c] = "revokeAll"
  /\ Revoke({t \in issued : expiresAt(t) > now[c]}, now[c])
  /\ End(c, "ok")
  /\ UNCHANGED <<clock, user, rows, rotated, locals>>

ResetPassword ==
  /\ Bump
  /\ Revoke(issued, clock)
  /\ UNCHANGED <<clock, isActive, rows, rotated, pc, locals, reply>>

Deactivate ==
  /\ isActive /\ isActive' = FALSE /\ Bump
  /\ UNCHANGED <<clock, table, pc, locals, reply>>

Reactivate ==
  /\ ~ isActive /\ isActive' = TRUE
  /\ UNCHANGED <<clock, sessionVersion, table, pc, locals, reply>>

\* A change of role, home tenant or sign-in email bumps the version alone.
ChangeRole ==
  /\ Bump
  /\ UNCHANGED <<clock, isActive, table, pc, locals, reply>>

----------------------------------------------------------------------------
\* The process dies, or a statement fails, between two statements of a call.
Crash(c) ==
  /\ pc[c] \notin {"idle", "end"}
  /\ End(c, "failed")
  /\ UNCHANGED <<clock, user, table, locals>>

Tick ==
  /\ clock < MaxClock /\ clock' = clock + 1
  /\ UNCHANGED <<user, table, pc, locals, reply>>

Step(c) ==
  \/ FindToken(c) \/ ReadSuccessor(c) \/ ReadRotatedUser(c) \/ RevokeFamily(c)
  \/ ExpireToken(c) \/ ReadUser(c) \/ Claim(c) \/ ReadRaced(c)
  \/ ReadRacedSuccessor(c) \/ CreateSuccessor(c) \/ LinkSuccessor(c)
  \/ FailPersist(c) \/ OpenUser(c) \/ OpenSession(c) \/ RevokeAll(c)

Next ==
  \/ \E c \in Calls :
       \/ \E t \in issued : Refresh(c, t)
       \/ Login(c) \/ ChangePassword(c) \/ LogoutAll(c)
       \/ Step(c) \/ Crash(c)
  \/ \E t \in issued : Logout(t)
  \/ ResetPassword \/ Deactivate \/ Reactivate \/ ChangeRole \/ Tick

Spec == Init /\ [][Next]_vars

----------------------------------------------------------------------------
(* Properties.                                                             *)

\* Every variable has its type; a live or rotated token is one that was stored.
TypeOK ==
  /\ clock \in Times /\ sessionVersion \in Versions /\ isActive \in BOOLEAN
  /\ issued \subseteq Tokens /\ live \subseteq issued /\ rotated \subseteq issued
  /\ familyId \in [Tokens -> Tokens]
  /\ revokedAt \in [Tokens -> Times]
  /\ replacedByTokenHash \in [Tokens -> Tokens \cup {NoToken}]
  /\ pc \in [Calls -> Stages] /\ reply \in [Calls -> Replies]
  /\ arg \in [Calls -> Tokens \cup {NoToken}]
  /\ now \in [Calls -> Times]
  /\ seen \in [Calls -> Versions]
  /\ next \in [Calls -> Tokens \cup {NoToken}]

\* However the refreshes of a session interleave, a family never has two
\* live tokens: the claim revokes the token before its successor is made, and
\* no two calls hold the claim of one family (auth.service.ts refresh).
OneLiveTokenPerFamily ==
  \A t, u \in live : familyId[t] = familyId[u] => t = u

\* A rotation carries the session version along: all tokens of a family have
\* the version of the sign-in that opened it.  So once logoutAll, a password
\* change, a role change or a deactivation bumps the version, no token of an
\* older session is honoured again, not even one whose rotation was under way
\* and made its row after the others were revoked.
FamilyKeepsVersion ==
  \A t \in issued : t.sv = familyId[t].sv

\* A session whose live token was revoked by anything but a rotation (logout,
\* logoutAll, a password change, expiry, a reuse alarm) is over: no refresh
\* that was under way brings a live token of that family back.
EndedSessionStaysEnded ==
  \A t \in issued \ (live \cup rotated) :
    \A u \in live : familyId[u] # familyId[t]

\* The links between the tokens of a session form a chain: a token was
\* rotated to one token of its own family, and no token replaces two.
RotationsFormAChain ==
  \A t \in issued : replacedByTokenHash[t] # NoToken =>
    /\ t \in rotated
    /\ replacedByTokenHash[t] \in issued
    /\ familyId[replacedByTokenHash[t]] = familyId[t]
    /\ \A u \in issued : replacedByTokenHash[u] = replacedByTokenHash[t] => u = t

----------------------------------------------------------------------------
(* What the repository says and the code does not do.                      *)

\* "A refresh that arrives while the browser is still sending the token we
\* just rotated is a race, not theft" (auth-refresh-replay.ts): a call that
\* presents a token rotated at most Grace before it began, whose successor is
\* not revoked, does not revoke the session.
RaceIsNotTheft ==
  [][\A c \in Calls :
       (/\ reply[c] = "none" /\ reply'[c] = "reuse"
        /\ arg[c] \in rotated
        /\ now[c] - revokedAt[arg[c]] <= Grace
        /\ replacedByTokenHash[arg[c]] \in live \cup {NoToken})
       => live' = live]_vars
============================================================================
