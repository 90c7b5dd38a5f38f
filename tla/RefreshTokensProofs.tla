------------------------ MODULE RefreshTokensProofs ------------------------
(***************************************************************************)
(* The safety properties of RefreshTokens for any number of calls, any     *)
(* replay window, lifetime, number of versions and length of the clock.    *)
(***************************************************************************)
EXTENDS RefreshTokens, TLAPS

\* The stages of a refresh after its start.
Presenting == {"find", "successor", "user", "claim", "raced", "racedSuccessor",
               "create", "link", "reuse", "refuse", "expire", "rotatedUser"}

\* A refresh works on a token that is stored.
ArgInv == \A c \in Calls : pc[c] \in Presenting => arg[c] \in issued

\* Nothing is ahead of the user's version, and who is about to make a
\* successor has read the version of its token.
VersionInv ==
  /\ \A t \in issued : t.sv <= sessionVersion
  /\ \A c \in Calls : seen[c] <= sessionVersion
  /\ \A c \in Calls : pc[c] \in {"claim", "create"} => seen[c] = arg[c].sv

\* A family is named after a stored token and has its version.
FamilyInv ==
  \A t \in issued : familyId[t] \in issued /\ t.sv = familyId[t].sv

\* Who is about to make a successor has the family to itself: all its tokens
\* were rotated and none is live.
HolderInv ==
  /\ live \cap rotated = {}
  /\ \A c \in Calls : pc[c] = "create" =>
       /\ arg[c] \in rotated
       /\ \A u \in issued : familyId[u] = familyId[arg[c]] => u \in rotated
  /\ \A c, d \in Calls :
       pc[c] = "create" /\ pc[d] = "create" /\ familyId[arg[c]] = familyId[arg[d]] => c = d

\* Who is about to link a successor has made it, and nobody else links it.
LinkInv ==
  /\ \A c \in Calls : pc[c] = "link" =>
       /\ arg[c] \in rotated /\ next[c] \in issued
       /\ familyId[next[c]] = familyId[arg[c]]
       /\ \A u \in issued : replacedByTokenHash[u] # next[c]
  /\ \A c, d \in Calls :
       pc[c] = "link" /\ pc[d] = "link" /\ next[c] = next[d] => c = d

SessionInv == HolderInv /\ OneLiveTokenPerFamily /\ EndedSessionStaysEnded

\* A token that is not stored was not replaced.
UnstoredInv == \A t \in Tokens \ issued : replacedByTokenHash[t] = NoToken

ChainInv == LinkInv /\ RotationsFormAChain /\ UnstoredInv

IInv == TypeOK /\ ArgInv /\ VersionInv /\ FamilyInv /\ SessionInv /\ ChainInv

----------------------------------------------------------------------------
(* No token is the null of replacedByTokenHash.                           *)
LEMMA NoTokenIsNone == NoToken \notin Tokens
BY DEF NoToken, Tokens, Versions, Times

(* Every step keeps the types.                                             *)
LEMMA TypesKept ==
  ASSUME TypeOK, ArgInv, [Next]_vars
  PROVE  TypeOK'
<1> USE BoundAssumption DEF Goto, End, user, rows, table, locals, TypeOK, ArgInv, Presenting,
        Stages, Replies, Versions, Times
<1>1. ASSUME NEW c \in Calls, NEW t \in issued, Refresh(c, t) PROVE TypeOK'
  BY <1>1 DEF Refresh
<1>2. ASSUME NEW c \in Calls, Login(c) PROVE TypeOK'
  BY <1>2 DEF Login
<1>3. ASSUME NEW c \in Calls, ChangePassword(c) PROVE TypeOK'
  BY <1>3 DEF ChangePassword, Bump, Revoke
<1>4. ASSUME NEW c \in Calls, LogoutAll(c) PROVE TypeOK'
  BY <1>4 DEF LogoutAll, Bump
<1>5. ASSUME NEW c \in Calls, FindToken(c) PROVE TypeOK'
  BY <1>5 DEF FindToken
<1>6. ASSUME NEW c \in Calls, ReadSuccessor(c) PROVE TypeOK'
  BY <1>6 DEF ReadSuccessor
<1>7. ASSUME NEW c \in Calls, ReadRotatedUser(c) PROVE TypeOK'
  BY <1>7 DEF ReadRotatedUser
<1>8. ASSUME NEW c \in Calls, RevokeFamily(c) PROVE TypeOK'
  BY <1>8 DEF RevokeFamily, Revoke
<1>9. ASSUME NEW c \in Calls, ExpireToken(c) PROVE TypeOK'
  BY <1>9 DEF ExpireToken, Revoke
<1>10. ASSUME NEW c \in Calls, ReadUser(c) PROVE TypeOK'
  BY <1>10 DEF ReadUser
<1>11. ASSUME NEW c \in Calls, Claim(c) PROVE TypeOK'
  BY <1>11 DEF Claim, Revoke
<1>12. ASSUME NEW c \in Calls, ReadRaced(c) PROVE TypeOK'
  BY <1>12 DEF ReadRaced
<1>13. ASSUME NEW c \in Calls, ReadRacedSuccessor(c) PROVE TypeOK'
  BY <1>13 DEF ReadRacedSuccessor
<1>14. ASSUME NEW c \in Calls, CreateSuccessor(c) PROVE TypeOK'
  BY <1>14 DEF CreateSuccessor, Persist, Made, Tokens
<1>15. ASSUME NEW c \in Calls, LinkSuccessor(c) PROVE TypeOK'
  BY <1>15 DEF LinkSuccessor
<1>16. ASSUME NEW c \in Calls, FailPersist(c) PROVE TypeOK'
  BY <1>16 DEF FailPersist
<1>17. ASSUME NEW c \in Calls, OpenUser(c) PROVE TypeOK'
  BY <1>17 DEF OpenUser
<1>18. ASSUME NEW c \in Calls, OpenSession(c) PROVE TypeOK'
  BY <1>18 DEF OpenSession, Persist, Made, Tokens
<1>19. ASSUME NEW c \in Calls, RevokeAll(c) PROVE TypeOK'
  BY <1>19 DEF RevokeAll, Revoke
<1>20. ASSUME NEW c \in Calls, Crash(c) PROVE TypeOK'
  BY <1>20 DEF Crash
<1>21. ASSUME NEW t \in issued, Logout(t) PROVE TypeOK'
  BY <1>21 DEF Logout, Revoke
<1>22. CASE ResetPassword
  BY <1>22 DEF ResetPassword, Bump, Revoke
<1>23. CASE Deactivate
  <2>1. isActive' \in BOOLEAN BY <1>23, Zenon DEF Deactivate
  <2>2. sessionVersion' \in Versions BY <1>23 DEF Deactivate, Bump
  <2> QED BY <1>23, <2>1, <2>2 DEF Deactivate
<1>24. CASE Reactivate
  BY <1>24 DEF Reactivate
<1>25. CASE ChangeRole
  BY <1>25 DEF ChangeRole, Bump
<1>26. CASE Tick
  BY <1>26 DEF Tick
<1>27. CASE UNCHANGED vars BY <1>27 DEF vars
<1> QED BY <1>1, <1>2, <1>3, <1>4, <1>5, <1>6, <1>7, <1>8, <1>9, <1>10, <1>11,
  <1>12, <1>13, <1>14, <1>15, <1>16, <1>17, <1>18, <1>19, <1>20, <1>21, <1>22,
  <1>23, <1>24, <1>25, <1>26, <1>27 DEF Next, Step

(* A stored token stays stored, so a refresh works on a stored one.        *)
LEMMA ArgsKept ==
  ASSUME TypeOK, ArgInv, [Next]_vars
  PROVE  ArgInv'
<1> USE DEF Goto, End, user, rows, table, locals, TypeOK, ArgInv, Presenting
<1>1. ASSUME NEW c \in Calls, NEW t \in issued, Refresh(c, t) PROVE ArgInv'
  BY <1>1 DEF Refresh
<1>2. ASSUME NEW c \in Calls, Login(c) PROVE ArgInv'
  BY <1>2 DEF Login
<1>3. ASSUME NEW c \in Calls, ChangePassword(c) PROVE ArgInv'
  BY <1>3 DEF ChangePassword, Bump, Revoke
<1>4. ASSUME NEW c \in Calls, LogoutAll(c) PROVE ArgInv'
  BY <1>4 DEF LogoutAll, Bump
<1>5. ASSUME NEW c \in Calls, FindToken(c) PROVE ArgInv'
  BY <1>5 DEF FindToken
<1>6. ASSUME NEW c \in Calls, ReadSuccessor(c) PROVE ArgInv'
  BY <1>6 DEF ReadSuccessor
<1>7. ASSUME NEW c \in Calls, ReadRotatedUser(c) PROVE ArgInv'
  BY <1>7 DEF ReadRotatedUser
<1>8. ASSUME NEW c \in Calls, RevokeFamily(c) PROVE ArgInv'
  BY <1>8 DEF RevokeFamily, Revoke
<1>9. ASSUME NEW c \in Calls, ExpireToken(c) PROVE ArgInv'
  BY <1>9 DEF ExpireToken, Revoke
<1>10. ASSUME NEW c \in Calls, ReadUser(c) PROVE ArgInv'
  BY <1>10 DEF ReadUser
<1>11. ASSUME NEW c \in Calls, Claim(c) PROVE ArgInv'
  BY <1>11 DEF Claim, Revoke
<1>12. ASSUME NEW c \in Calls, ReadRaced(c) PROVE ArgInv'
  BY <1>12 DEF ReadRaced
<1>13. ASSUME NEW c \in Calls, ReadRacedSuccessor(c) PROVE ArgInv'
  BY <1>13 DEF ReadRacedSuccessor
<1>14. ASSUME NEW c \in Calls, CreateSuccessor(c) PROVE ArgInv'
  BY <1>14 DEF CreateSuccessor, Persist, Made
<1>15. ASSUME NEW c \in Calls, LinkSuccessor(c) PROVE ArgInv'
  BY <1>15 DEF LinkSuccessor
<1>16. ASSUME NEW c \in Calls, FailPersist(c) PROVE ArgInv'
  BY <1>16 DEF FailPersist
<1>17. ASSUME NEW c \in Calls, OpenUser(c) PROVE ArgInv'
  BY <1>17 DEF OpenUser
<1>18. ASSUME NEW c \in Calls, OpenSession(c) PROVE ArgInv'
  BY <1>18 DEF OpenSession, Persist, Made
<1>19. ASSUME NEW c \in Calls, RevokeAll(c) PROVE ArgInv'
  BY <1>19 DEF RevokeAll, Revoke
<1>20. ASSUME NEW c \in Calls, Crash(c) PROVE ArgInv'
  BY <1>20 DEF Crash
<1>21. ASSUME NEW t \in issued, Logout(t) PROVE ArgInv'
  BY <1>21 DEF Logout, Revoke
<1>22. CASE ResetPassword
  BY <1>22 DEF ResetPassword, Bump, Revoke
<1>23. CASE Deactivate
  BY <1>23 DEF Deactivate, Bump
<1>24. CASE Reactivate
  BY <1>24 DEF Reactivate
<1>25. CASE ChangeRole
  BY <1>25 DEF ChangeRole, Bump
<1>26. CASE Tick
  BY <1>26 DEF Tick
<1>27. CASE UNCHANGED vars BY <1>27 DEF vars
<1> QED BY <1>1, <1>2, <1>3, <1>4, <1>5, <1>6, <1>7, <1>8, <1>9, <1>10, <1>11,
  <1>12, <1>13, <1>14, <1>15, <1>16, <1>17, <1>18, <1>19, <1>20, <1>21, <1>22,
  <1>23, <1>24, <1>25, <1>26, <1>27 DEF Next, Step

(* The user's version only grows, and a refresh works with the version of  *)
(* its token.                                                              *)
LEMMA VersionsKept ==
  ASSUME TypeOK, ArgInv, VersionInv, [Next]_vars
  PROVE  VersionInv'
<1> USE DEF Goto, End, user, rows, table, locals, TypeOK, ArgInv, VersionInv,
        Presenting, Versions, Tokens, isSessionVersionCurrent
<1>1. ASSUME NEW c \in Calls, NEW t \in issued, Refresh(c, t) PROVE VersionInv'
  BY <1>1 DEF Refresh
<1>2. ASSUME NEW c \in Calls, Login(c) PROVE VersionInv'
  BY <1>2 DEF Login
<1>3. ASSUME NEW c \in Calls, ChangePassword(c) PROVE VersionInv'
  BY <1>3 DEF ChangePassword, Bump, Revoke
<1>4. ASSUME NEW c \in Calls, LogoutAll(c) PROVE VersionInv'
  BY <1>4 DEF LogoutAll, Bump
<1>5. ASSUME NEW c \in Calls, FindToken(c) PROVE VersionInv'
  BY <1>5 DEF FindToken
<1>6. ASSUME NEW c \in Calls, ReadSuccessor(c) PROVE VersionInv'
  BY <1>6 DEF ReadSuccessor
<1>7. ASSUME NEW c \in Calls, ReadRotatedUser(c) PROVE VersionInv'
  BY <1>7 DEF ReadRotatedUser
<1>8. ASSUME NEW c \in Calls, RevokeFamily(c) PROVE VersionInv'
  BY <1>8 DEF RevokeFamily, Revoke
<1>9. ASSUME NEW c \in Calls, ExpireToken(c) PROVE VersionInv'
  BY <1>9 DEF ExpireToken, Revoke
<1>10. ASSUME NEW c \in Calls, ReadUser(c) PROVE VersionInv'
  BY <1>10 DEF ReadUser
<1>11. ASSUME NEW c \in Calls, Claim(c) PROVE VersionInv'
  BY <1>11 DEF Claim, Revoke
<1>12. ASSUME NEW c \in Calls, ReadRaced(c) PROVE VersionInv'
  BY <1>12 DEF ReadRaced
<1>13. ASSUME NEW c \in Calls, ReadRacedSuccessor(c) PROVE VersionInv'
  BY <1>13 DEF ReadRacedSuccessor
<1>14. ASSUME NEW c \in Calls, CreateSuccessor(c) PROVE VersionInv'
  BY <1>14 DEF CreateSuccessor, Persist, Made
<1>15. ASSUME NEW c \in Calls, LinkSuccessor(c) PROVE VersionInv'
  BY <1>15 DEF LinkSuccessor
<1>16. ASSUME NEW c \in Calls, FailPersist(c) PROVE VersionInv'
  BY <1>16 DEF FailPersist
<1>17. ASSUME NEW c \in Calls, OpenUser(c) PROVE VersionInv'
  BY <1>17 DEF OpenUser
<1>18. ASSUME NEW c \in Calls, OpenSession(c) PROVE VersionInv'
  BY <1>18 DEF OpenSession, Persist, Made
<1>19. ASSUME NEW c \in Calls, RevokeAll(c) PROVE VersionInv'
  BY <1>19 DEF RevokeAll, Revoke
<1>20. ASSUME NEW c \in Calls, Crash(c) PROVE VersionInv'
  BY <1>20 DEF Crash
<1>21. ASSUME NEW t \in issued, Logout(t) PROVE VersionInv'
  BY <1>21 DEF Logout, Revoke
<1>22. CASE ResetPassword
  BY <1>22 DEF ResetPassword, Bump, Revoke
<1>23. CASE Deactivate
  BY <1>23 DEF Deactivate, Bump
<1>24. CASE Reactivate
  BY <1>24 DEF Reactivate
<1>25. CASE ChangeRole
  BY <1>25 DEF ChangeRole, Bump
<1>26. CASE Tick
  BY <1>26 DEF Tick
<1>27. CASE UNCHANGED vars BY <1>27 DEF vars
<1> QED BY <1>1, <1>2, <1>3, <1>4, <1>5, <1>6, <1>7, <1>8, <1>9, <1>10, <1>11,
  <1>12, <1>13, <1>14, <1>15, <1>16, <1>17, <1>18, <1>19, <1>20, <1>21, <1>22,
  <1>23, <1>24, <1>25, <1>26, <1>27 DEF Next, Step

(* A successor has the family and the version of the token it replaces.    *)
LEMMA FamiliesKept ==
  ASSUME TypeOK, ArgInv, VersionInv, FamilyInv, [Next]_vars
  PROVE  FamilyInv'
<1> USE DEF Goto, End, user, rows, table, locals, TypeOK, ArgInv, VersionInv,
        FamilyInv, Presenting, Tokens
<1>1. ASSUME NEW c \in Calls, NEW t \in issued, Refresh(c, t) PROVE FamilyInv'
  BY <1>1 DEF Refresh
<1>2. ASSUME NEW c \in Calls, Login(c) PROVE FamilyInv'
  BY <1>2 DEF Login
<1>3. ASSUME NEW c \in Calls, ChangePassword(c) PROVE FamilyInv'
  BY <1>3 DEF ChangePassword, Bump, Revoke
<1>4. ASSUME NEW c \in Calls, LogoutAll(c) PROVE FamilyInv'
  BY <1>4 DEF LogoutAll, Bump
<1>5. ASSUME NEW c \in Calls, FindToken(c) PROVE FamilyInv'
  BY <1>5 DEF FindToken
<1>6. ASSUME NEW c \in Calls, ReadSuccessor(c) PROVE FamilyInv'
  BY <1>6 DEF ReadSuccessor
<1>7. ASSUME NEW c \in Calls, ReadRotatedUser(c) PROVE FamilyInv'
  BY <1>7 DEF ReadRotatedUser
<1>8. ASSUME NEW c \in Calls, RevokeFamily(c) PROVE FamilyInv'
  BY <1>8 DEF RevokeFamily, Revoke
<1>9. ASSUME NEW c \in Calls, ExpireToken(c) PROVE FamilyInv'
  BY <1>9 DEF ExpireToken, Revoke
<1>10. ASSUME NEW c \in Calls, ReadUser(c) PROVE FamilyInv'
  BY <1>10 DEF ReadUser
<1>11. ASSUME NEW c \in Calls, Claim(c) PROVE FamilyInv'
  BY <1>11 DEF Claim, Revoke
<1>12. ASSUME NEW c \in Calls, ReadRaced(c) PROVE FamilyInv'
  BY <1>12 DEF ReadRaced
<1>13. ASSUME NEW c \in Calls, ReadRacedSuccessor(c) PROVE FamilyInv'
  BY <1>13 DEF ReadRacedSuccessor
<1>14. ASSUME NEW c \in Calls, CreateSuccessor(c) PROVE FamilyInv'
  <2> DEFINE a == arg[c] n == Made(c)
  <2>1. /\ a \in issued /\ a \in Tokens /\ familyId[a] \in issued
        /\ seen[c] = a.sv /\ a.sv = familyId[a].sv
    BY <1>14 DEF CreateSuccessor
  <2>2. n \in Tokens /\ n.sv = a.sv /\ n \notin issued
    BY <1>14, <2>1 DEF CreateSuccessor, Persist, Made, Versions
  <2>3. issued' = issued \cup {n} /\ familyId' = [familyId EXCEPT ![n] = familyId[a]]
    BY <1>14 DEF CreateSuccessor, Persist
  <2> HIDE DEF a, n
  <2> QED BY <2>1, <2>2, <2>3
<1>15. ASSUME NEW c \in Calls, LinkSuccessor(c) PROVE FamilyInv'
  BY <1>15 DEF LinkSuccessor
<1>16. ASSUME NEW c \in Calls, FailPersist(c) PROVE FamilyInv'
  BY <1>16 DEF FailPersist
<1>17. ASSUME NEW c \in Calls, OpenUser(c) PROVE FamilyInv'
  BY <1>17 DEF OpenUser
<1>18. ASSUME NEW c \in Calls, OpenSession(c) PROVE FamilyInv'
  <2> DEFINE n == Made(c)
  <2>1. n \in Tokens /\ n \notin issued
    BY <1>18 DEF OpenSession, Persist, Made, Versions
  <2>2. issued' = issued \cup {n} /\ familyId' = [familyId EXCEPT ![n] = n]
    BY <1>18 DEF OpenSession, Persist
  <2> HIDE DEF n
  <2> QED BY <2>1, <2>2
<1>19. ASSUME NEW c \in Calls, RevokeAll(c) PROVE FamilyInv'
  BY <1>19 DEF RevokeAll, Revoke
<1>20. ASSUME NEW c \in Calls, Crash(c) PROVE FamilyInv'
  BY <1>20 DEF Crash
<1>21. ASSUME NEW t \in issued, Logout(t) PROVE FamilyInv'
  BY <1>21 DEF Logout, Revoke
<1>22. CASE ResetPassword
  BY <1>22 DEF ResetPassword, Bump, Revoke
<1>23. CASE Deactivate
  BY <1>23 DEF Deactivate, Bump
<1>24. CASE Reactivate
  BY <1>24 DEF Reactivate
<1>25. CASE ChangeRole
  BY <1>25 DEF ChangeRole, Bump
<1>26. CASE Tick
  BY <1>26 DEF Tick
<1>27. CASE UNCHANGED vars BY <1>27 DEF vars
<1> QED BY <1>1, <1>2, <1>3, <1>4, <1>5, <1>6, <1>7, <1>8, <1>9, <1>10, <1>11,
  <1>12, <1>13, <1>14, <1>15, <1>16, <1>17, <1>18, <1>19, <1>20, <1>21, <1>22,
  <1>23, <1>24, <1>25, <1>26, <1>27 DEF Next, Step

(* No second live token in a family, and none in a family that has ended.  *)
LEMMA SessionsKept ==
  ASSUME TypeOK, ArgInv, FamilyInv, SessionInv, [Next]_vars
  PROVE  SessionInv'
<1> USE DEF Goto, End, user, rows, table, locals, TypeOK, ArgInv, FamilyInv,
        SessionInv, HolderInv, OneLiveTokenPerFamily, EndedSessionStaysEnded, Presenting
<1>1. ASSUME NEW c \in Calls, NEW t \in issued, Refresh(c, t) PROVE SessionInv'
  BY <1>1 DEF Refresh
<1>2. ASSUME NEW c \in Calls, Login(c) PROVE SessionInv'
  BY <1>2 DEF Login
<1>3. ASSUME NEW c \in Calls, ChangePassword(c) PROVE SessionInv'
  BY <1>3 DEF ChangePassword, Bump, Revoke
<1>4. ASSUME NEW c \in Calls, LogoutAll(c) PROVE SessionInv'
  BY <1>4 DEF LogoutAll, Bump
<1>5. ASSUME NEW c \in Calls, FindToken(c) PROVE SessionInv'
  BY <1>5 DEF FindToken
<1>6. ASSUME NEW c \in Calls, ReadSuccessor(c) PROVE SessionInv'
  BY <1>6 DEF ReadSuccessor
<1>7. ASSUME NEW c \in Calls, ReadRotatedUser(c) PROVE SessionInv'
  BY <1>7 DEF ReadRotatedUser
<1>8. ASSUME NEW c \in Calls, RevokeFamily(c) PROVE SessionInv'
  BY <1>8 DEF RevokeFamily, Revoke
<1>9. ASSUME NEW c \in Calls, ExpireToken(c) PROVE SessionInv'
  BY <1>9 DEF ExpireToken, Revoke
<1>10. ASSUME NEW c \in Calls, ReadUser(c) PROVE SessionInv'
  BY <1>10 DEF ReadUser
<1>11. ASSUME NEW c \in Calls, Claim(c) PROVE SessionInv'
  BY <1>11 DEF Claim, Revoke
<1>12. ASSUME NEW c \in Calls, ReadRaced(c) PROVE SessionInv'
  BY <1>12 DEF ReadRaced
<1>13. ASSUME NEW c \in Calls, ReadRacedSuccessor(c) PROVE SessionInv'
  BY <1>13 DEF ReadRacedSuccessor
<1>14. ASSUME NEW c \in Calls, CreateSuccessor(c) PROVE SessionInv'
  <2> DEFINE a == arg[c] n == Made(c)
  <2>1. /\ a \in issued /\ familyId[a] \in issued /\ pc[c] = "create"
        /\ \A u \in issued : familyId[u] = familyId[a] => u \in rotated
    BY <1>14 DEF CreateSuccessor
  <2>2. n \notin issued /\ n \in Tokens
    BY <1>14 DEF CreateSuccessor, Persist, Made, Versions, Tokens
  <2>3. /\ issued' = issued \cup {n} /\ live' = live \cup {n} /\ rotated' = rotated
        /\ arg' = arg /\ revokedAt' = revokedAt /\ replacedByTokenHash' = replacedByTokenHash
        /\ pc' = [pc EXCEPT ![c] = "link"] /\ next' = [next EXCEPT ![c] = n]
    BY <1>14 DEF CreateSuccessor, Persist
  <2>4. familyId' = [familyId EXCEPT ![n] = familyId[a]]
    BY <1>14 DEF CreateSuccessor, Persist
  <2> HIDE DEF n
  <2>5. HolderInv'
    BY <2>1, <2>2, <2>3, <2>4
  <2>6. OneLiveTokenPerFamily'
    BY <2>1, <2>2, <2>3, <2>4
  <2>7. EndedSessionStaysEnded'
    BY <2>1, <2>2, <2>3, <2>4
  <2> QED BY <2>5, <2>6, <2>7
<1>15. ASSUME NEW c \in Calls, LinkSuccessor(c) PROVE SessionInv'
  BY <1>15 DEF LinkSuccessor
<1>16. ASSUME NEW c \in Calls, FailPersist(c) PROVE SessionInv'
  BY <1>16 DEF FailPersist
<1>17. ASSUME NEW c \in Calls, OpenUser(c) PROVE SessionInv'
  BY <1>17 DEF OpenUser
<1>18. ASSUME NEW c \in Calls, OpenSession(c) PROVE SessionInv'
  <2> DEFINE n == Made(c)
  <2>1. \A u \in issued : familyId[u] \in issued
    OBVIOUS
  <2>2. n \notin issued /\ n \in Tokens
    BY <1>18 DEF OpenSession, Persist, Made, Versions, Tokens
  <2>3. /\ issued' = issued \cup {n} /\ live' = live \cup {n} /\ rotated' = rotated
        /\ arg' = arg /\ revokedAt' = revokedAt /\ replacedByTokenHash' = replacedByTokenHash
        /\ pc' = [pc EXCEPT ![c] = "end"] /\ next' = [next EXCEPT ![c] = n]
    BY <1>18 DEF OpenSession, Persist
  <2>4. familyId' = [familyId EXCEPT ![n] = n]
    BY <1>18 DEF OpenSession, Persist
  <2> HIDE DEF n
  <2>5. HolderInv'
    BY <2>1, <2>2, <2>3, <2>4
  <2>6. OneLiveTokenPerFamily'
    BY <2>1, <2>2, <2>3, <2>4
  <2>7. EndedSessionStaysEnded'
    BY <2>1, <2>2, <2>3, <2>4
  <2> QED BY <2>5, <2>6, <2>7
<1>19. ASSUME NEW c \in Calls, RevokeAll(c) PROVE SessionInv'
  BY <1>19 DEF RevokeAll, Revoke
<1>20. ASSUME NEW c \in Calls, Crash(c) PROVE SessionInv'
  BY <1>20 DEF Crash
<1>21. ASSUME NEW t \in issued, Logout(t) PROVE SessionInv'
  BY <1>21 DEF Logout, Revoke
<1>22. CASE ResetPassword
  BY <1>22 DEF ResetPassword, Bump, Revoke
<1>23. CASE Deactivate
  BY <1>23 DEF Deactivate, Bump
<1>24. CASE Reactivate
  BY <1>24 DEF Reactivate
<1>25. CASE ChangeRole
  BY <1>25 DEF ChangeRole, Bump
<1>26. CASE Tick
  BY <1>26 DEF Tick
<1>27. CASE UNCHANGED vars BY <1>27 DEF vars
<1> QED BY <1>1, <1>2, <1>3, <1>4, <1>5, <1>6, <1>7, <1>8, <1>9, <1>10, <1>11,
  <1>12, <1>13, <1>14, <1>15, <1>16, <1>17, <1>18, <1>19, <1>20, <1>21, <1>22,
  <1>23, <1>24, <1>25, <1>26, <1>27 DEF Next, Step

(* The links stay a chain.                                                 *)
LEMMA ChainsKept ==
  ASSUME TypeOK, ArgInv, SessionInv, ChainInv, [Next]_vars
  PROVE  ChainInv'
<1> USE DEF Goto, End, user, rows, table, locals, TypeOK, ArgInv, SessionInv,
        HolderInv, ChainInv, LinkInv, RotationsFormAChain, UnstoredInv, Presenting
<1>1. ASSUME NEW c \in Calls, NEW t \in issued, Refresh(c, t) PROVE ChainInv'
  BY <1>1 DEF Refresh
<1>2. ASSUME NEW c \in Calls, Login(c) PROVE ChainInv'
  BY <1>2 DEF Login
<1>3. ASSUME NEW c \in Calls, ChangePassword(c) PROVE ChainInv'
  BY <1>3 DEF ChangePassword, Bump, Revoke
<1>4. ASSUME NEW c \in Calls, LogoutAll(c) PROVE ChainInv'
  BY <1>4 DEF LogoutAll, Bump
<1>5. ASSUME NEW c \in Calls, FindToken(c) PROVE ChainInv'
  BY <1>5 DEF FindToken
<1>6. ASSUME NEW c \in Calls, ReadSuccessor(c) PROVE ChainInv'
  BY <1>6 DEF ReadSuccessor
<1>7. ASSUME NEW c \in Calls, ReadRotatedUser(c) PROVE ChainInv'
  BY <1>7 DEF ReadRotatedUser
<1>8. ASSUME NEW c \in Calls, RevokeFamily(c) PROVE ChainInv'
  BY <1>8 DEF RevokeFamily, Revoke
<1>9. ASSUME NEW c \in Calls, ExpireToken(c) PROVE ChainInv'
  BY <1>9 DEF ExpireToken, Revoke
<1>10. ASSUME NEW c \in Calls, ReadUser(c) PROVE ChainInv'
  BY <1>10 DEF ReadUser
<1>11. ASSUME NEW c \in Calls, Claim(c) PROVE ChainInv'
  BY <1>11 DEF Claim, Revoke
<1>12. ASSUME NEW c \in Calls, ReadRaced(c) PROVE ChainInv'
  BY <1>12 DEF ReadRaced
<1>13. ASSUME NEW c \in Calls, ReadRacedSuccessor(c) PROVE ChainInv'
  BY <1>13 DEF ReadRacedSuccessor
<1>14. ASSUME NEW c \in Calls, CreateSuccessor(c) PROVE ChainInv'
  <2> DEFINE a == arg[c] n == Made(c)
  <2>1. a \in issued /\ a \in rotated /\ pc[c] = "create"
    BY <1>14 DEF CreateSuccessor
  <2>2. n \notin issued /\ n \in Tokens
    BY <1>14 DEF CreateSuccessor, Persist, Made, Versions, Tokens
  <2>3. /\ issued' = issued \cup {n} /\ live' = live \cup {n} /\ rotated' = rotated
        /\ arg' = arg /\ revokedAt' = revokedAt /\ replacedByTokenHash' = replacedByTokenHash
        /\ pc' = [pc EXCEPT ![c] = "link"] /\ next' = [next EXCEPT ![c] = n]
    BY <1>14 DEF CreateSuccessor, Persist
  <2>4. familyId' = [familyId EXCEPT ![n] = familyId[a]]
    BY <1>14 DEF CreateSuccessor, Persist
  <2> HIDE DEF n
  <2>5. LinkInv'
    BY <2>1, <2>2, <2>3, <2>4, NoTokenIsNone
  <2>6. RotationsFormAChain'
    BY <2>2, <2>3, <2>4
  <2>7. UnstoredInv'
    BY <2>2, <2>3
  <2> QED BY <2>5, <2>6, <2>7
<1>15. ASSUME NEW c \in Calls, LinkSuccessor(c) PROVE ChainInv'
  BY <1>15 DEF LinkSuccessor
<1>16. ASSUME NEW c \in Calls, FailPersist(c) PROVE ChainInv'
  BY <1>16 DEF FailPersist
<1>17. ASSUME NEW c \in Calls, OpenUser(c) PROVE ChainInv'
  BY <1>17 DEF OpenUser
<1>18. ASSUME NEW c \in Calls, OpenSession(c) PROVE ChainInv'
  <2> DEFINE n == Made(c)
  <2>2. n \notin issued /\ n \in Tokens
    BY <1>18 DEF OpenSession, Persist, Made, Versions, Tokens
  <2>3. /\ issued' = issued \cup {n} /\ live' = live \cup {n} /\ rotated' = rotated
        /\ arg' = arg /\ revokedAt' = revokedAt /\ replacedByTokenHash' = replacedByTokenHash
        /\ pc' = [pc EXCEPT ![c] = "end"] /\ next' = [next EXCEPT ![c] = n]
    BY <1>18 DEF OpenSession, Persist
  <2>4. familyId' = [familyId EXCEPT ![n] = n]
    BY <1>18 DEF OpenSession, Persist
  <2> HIDE DEF n
  <2>5. LinkInv'
    BY <2>2, <2>3, <2>4, NoTokenIsNone
  <2>6. RotationsFormAChain'
    BY <2>2, <2>3, <2>4
  <2>7. UnstoredInv'
    BY <2>2, <2>3
  <2> QED BY <2>5, <2>6, <2>7
<1>19. ASSUME NEW c \in Calls, RevokeAll(c) PROVE ChainInv'
  BY <1>19 DEF RevokeAll, Revoke
<1>20. ASSUME NEW c \in Calls, Crash(c) PROVE ChainInv'
  BY <1>20 DEF Crash
<1>21. ASSUME NEW t \in issued, Logout(t) PROVE ChainInv'
  BY <1>21 DEF Logout, Revoke
<1>22. CASE ResetPassword
  BY <1>22 DEF ResetPassword, Bump, Revoke
<1>23. CASE Deactivate
  BY <1>23 DEF Deactivate, Bump
<1>24. CASE Reactivate
  BY <1>24 DEF Reactivate
<1>25. CASE ChangeRole
  BY <1>25 DEF ChangeRole, Bump
<1>26. CASE Tick
  BY <1>26 DEF Tick
<1>27. CASE UNCHANGED vars BY <1>27 DEF vars
<1> QED BY <1>1, <1>2, <1>3, <1>4, <1>5, <1>6, <1>7, <1>8, <1>9, <1>10, <1>11,
  <1>12, <1>13, <1>14, <1>15, <1>16, <1>17, <1>18, <1>19, <1>20, <1>21, <1>22,
  <1>23, <1>24, <1>25, <1>26, <1>27 DEF Next, Step

(* The initial state, and the steps together.                              *)
LEMMA InitInv == Init => IInv
<1> SUFFICES ASSUME Init PROVE IInv
  OBVIOUS
<1>1. TypeOK
  BY BoundAssumption DEF Init, TypeOK, Versions, Times, Stages, Replies
<1>2. ArgInv /\ VersionInv /\ FamilyInv
  BY DEF Init, ArgInv, VersionInv, FamilyInv, Presenting
<1>3. SessionInv
  BY DEF Init, SessionInv, HolderInv, OneLiveTokenPerFamily, EndedSessionStaysEnded
<1>4. ChainInv
  BY DEF Init, ChainInv, LinkInv, RotationsFormAChain, UnstoredInv
<1> QED BY <1>1, <1>2, <1>3, <1>4 DEF IInv

LEMMA StepInv == IInv /\ [Next]_vars => IInv'
BY TypesKept, ArgsKept, VersionsKept, FamiliesKept, SessionsKept, ChainsKept DEF IInv

----------------------------------------------------------------------------
(* The theorems.                                                           *)

\* The inductive invariant holds in every reachable state.
THEOREM SessionInvariant == Spec => []IInv
<1>1. Init => IInv BY InitInv
<1>2. IInv /\ [Next]_vars => IInv' BY StepInv
<1> QED BY <1>1, <1>2, PTL DEF Spec

\* The user's row, the token rows and the calls are well formed.
THEOREM SessionTypes == Spec => []TypeOK
BY SessionInvariant, PTL DEF IInv

\* A family never has two live tokens, however many devices refresh at once:
\* the claim takes the family for one call (refresh).
THEOREM OneLiveToken == Spec => []OneLiveTokenPerFamily
BY SessionInvariant, PTL DEF IInv, SessionInv

\* Every token of a family has the session version of the sign-in that opened
\* it, so a bump of the version ends them all (isSessionVersionCurrent).
THEOREM FamilyVersions == Spec => []FamilyKeepsVersion
<1>1. IInv => FamilyKeepsVersion
  BY DEF IInv, FamilyInv, FamilyKeepsVersion
<1> QED BY <1>1, SessionInvariant, PTL

\* A session that was ended otherwise than by a rotation never has a live
\* token again, whatever rotations were under way (logout, logoutAll,
\* commitCredentialChange, resetPassword).
THEOREM EndedSessions == Spec => []EndedSessionStaysEnded
BY SessionInvariant, PTL DEF IInv, SessionInv

\* The links between the tokens of a family form a chain (persistRefreshToken).
THEOREM RotationChains == Spec => []RotationsFormAChain
BY SessionInvariant, PTL DEF IInv, ChainInv
=============================================================================
