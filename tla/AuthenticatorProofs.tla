------------------------ MODULE AuthenticatorProofs ------------------------
(***************************************************************************)
(* The Authenticator: the credentials a login, a second factor and a reset *)
(* prove, rotation of refresh tokens, and registration with its            *)
(* invitations and email verification.  Each is proved by itself, for any  *)
(* number of requests, users, tokens and attempts.                         *)
(***************************************************************************)
EXTENDS Credentials, RefreshRotation, Registration, TLAPS

-----------------------------------------------------------------------------
(***************************************************************************)
(* Credentials.  A proof that was accepted is never accepted again because *)
(* nothing brings its number back: a TOTP counter is behind the one last   *)
(* used, a code is deleted, a reset token replaced (SpentIsOver), and what *)
(* is minted later is new (SecretsAreFresh).                               *)
(***************************************************************************)

(* What a reset read before hashing is a token.                              *)
CallsCarryNumbers == \A w \in Workers : calls[w].at = "reset" => calls[w].number # 0

(* Secrets, codes and tokens are given out once: the pending enrollment's    *)
(* secret is neither that of the factor nor of a code.                       *)
SecretsAreFresh ==
  /\ factor.secret <= minted /\ enrollment.secret <= minted /\ reset <= minted
  /\ factor.secret = 0 => factor = NoFactor
  /\ enrollment.secret # 0 => enrollment.secret # factor.secret
  /\ \A p \in codes : /\ p[1] = "code" /\ p[2] \in 1..minted /\ p[2] # enrollment.secret

(* What was accepted will not be again: a TOTP counter is behind the         *)
(* factor's, a code is gone, a reset token was replaced or consumed, and no  *)
(* enrollment can bring their secrets back.                                  *)
SpentIsOver ==
  \A p \in spent :
    /\ p[2] \in 1..minted
    /\ p[1] = "totp" =>
         /\ p[2] # enrollment.secret /\ p[3] \in Nat
         /\ p[2] = factor.secret => p[3] <= factor.lastUsed
    /\ p[1] = "code" => p[2] # enrollment.secret /\ p \notin codes
    /\ p[1] = "reset" => p[2] # reset

(* What the two theorems about credentials rest on.                          *)
CredentialsInv ==
  /\ CredentialsTypeOK /\ CallsCarryNumbers /\ SecretsAreFresh /\ SpentIsOver
  /\ ProofsSpentOnce /\ SessionsMatchCredentials

(* Rows of the account's tables.                                             *)
FactorRows == [secret : 0..MaxMinted, lastUsed : 0..(MaxStep + 1)]

EnrollmentRows == [secret : 0..MaxMinted, expired : BOOLEAN]

SessionRows ==
  [state : {"none", "live", "revoked"}, password : 0..MaxPasswords, secret : 0..MaxMinted]

ChallengeRows ==
  [state : {"none", "open", "consumed"}, attempts : 0..MaxAttempts, sessions : 0..1]

CallRecords == [at : CallLabels, number : 0..MaxMinted]

-----------------------------------------------------------------------------
(* The variables' types by the names of the rows they hold.                  *)
LEMMA CredentialsTypes ==
  CredentialsTypeOK <=>
    /\ password \in 1..MaxPasswords
    /\ factor \in FactorRows
    /\ codes \subseteq Proofs
    /\ enrollment \in EnrollmentRows
    /\ reset \in 0..MaxMinted
    /\ session \in [SessionIds -> SessionRows]
    /\ challenge \in [Challenges -> ChallengeRows]
    /\ calls \in [Workers -> CallRecords]
    /\ minted \in 0..MaxMinted /\ step \in 0..MaxStep
    /\ respent \in BOOLEAN
BY Zenon DEF CredentialsTypeOK, FactorRows, EnrollmentRows, SessionRows, ChallengeRows, CallRecords

(* The bounds are numbers.                                                   *)
LEMMA CredentialNumbers ==
  /\ MaxAttempts \in Nat \ {0} /\ RecoveryCodeCount \in Nat \ {0}
  /\ MaxPasswords \in Nat \ {0} /\ MaxMinted \in Nat /\ MaxStep \in Nat
  /\ NoSession \notin SessionIds
BY CredentialConstants, Zenon

(* What a handler remembers between its statements (Login,                   *)
(* BeginTwoFactorEnrollment, ConfirmPasswordReset).                          *)
LEMMA HandlersStep ==
  ASSUME CredentialsTypeOK, CallsCarryNumbers, [CredentialsNext]_credentialVars
  PROVE  CallsCarryNumbers' /\ calls' \in [Workers -> CallRecords]
<1>t. /\ calls \in [Workers -> CallRecords] /\ reset \in 0..MaxMinted /\ MaxMinted \in Nat
  BY CredentialsTypes, CredentialNumbers, Zenon
<1> DEFINE Fine(c) == c \in CallRecords /\ (c.at = "reset" => c.number # 0)
<1>f. \A w \in Workers : Fine(calls[w])
  BY <1>t, Zenon DEF CallsCarryNumbers
<1>n. Fine(NoCall)
  BY <1>t DEF NoCall, CallRecords, CallLabels
<1>q. ASSUME NEW w \in Workers, NEW c, Fine(c), calls' = [calls EXCEPT ![w] = c]
      PROVE  CallsCarryNumbers' /\ calls' \in [Workers -> CallRecords]
  <2>1. calls' \in [Workers -> CallRecords]
    BY <1>q, <1>t, Zenon
  <2>2. \A v \in Workers : Fine(calls'[v])
    BY <1>q, <1>f, <1>t, Zenon
  <2> QED  BY <2>1, <2>2, Zenon DEF CallsCarryNumbers
<1>g. ASSUME NEW w \in Workers, NEW at \in CallLabels, at # "reset", Goto(w, at, 0)
      PROVE  CallsCarryNumbers' /\ calls' \in [Workers -> CallRecords]
  <2> DEFINE c == [at |-> at, number |-> 0]
  <2>1. Fine(c)
    BY <1>g, <1>t DEF CallRecords
  <2>2. calls' = [calls EXCEPT ![w] = c]
    BY <1>g, Zenon DEF Goto
  <2> HIDE DEF c, Fine
  <2> QED  BY <2>1, <2>2, <1>q, Zenon
<1>1. ASSUME NEW w \in Workers, Login(w)
      PROVE  CallsCarryNumbers' /\ calls' \in [Workers -> CallRecords]
  BY <1>1, <1>g, Zenon DEF Login, CallLabels
<1>2. ASSUME NEW w \in Workers, LoginReadsFactor(w)
      PROVE  CallsCarryNumbers' /\ calls' \in [Workers -> CallRecords]
  BY <1>2, <1>g, Zenon DEF LoginReadsFactor, CallLabels
<1>3. ASSUME NEW w \in Workers, BeginReadsFactor(w)
      PROVE  CallsCarryNumbers' /\ calls' \in [Workers -> CallRecords]
  BY <1>3, <1>g, Zenon DEF BeginReadsFactor, CallLabels
<1>4. ASSUME NEW w \in Workers, PrecheckPasswordReset(w)
      PROVE  CallsCarryNumbers' /\ calls' \in [Workers -> CallRecords]
  <2> DEFINE c == [at |-> "reset", number |-> reset]
  <2>1. Fine(c)
    BY <1>4, <1>t DEF PrecheckPasswordReset, CallRecords, CallLabels
  <2>2. calls' = [calls EXCEPT ![w] = c]
    BY <1>4, Zenon DEF PrecheckPasswordReset, Goto
  <2> HIDE DEF c, Fine
  <2> QED  BY <2>1, <2>2, <1>q, Zenon
<1>5. ASSUME NEW w \in Workers, Return(w)
      PROVE  CallsCarryNumbers' /\ calls' \in [Workers -> CallRecords]
  BY <1>5, <1>n, <1>q, Zenon DEF Return
<1>6. CASE UNCHANGED calls
  BY <1>6, <1>t, Zenon DEF CallsCarryNumbers
<1> QED
  BY <1>1, <1>2, <1>3, <1>4, <1>5, <1>6, Zenon
  DEF CredentialsNext, credentialVars, RequestPasswordReset, EnrollmentExpires, StepPasses,
      ConfirmExpiredEnrollment, RevokeUserSession, RevokeOtherSessions, ChangePassword,
      ConfirmTwoFactorEnrollment, DisableTwoFactor, RegenerateTwoFactorRecoveryCodes,
      CompleteTwoFactorLogin, ChallengeExpires, RefuseTwoFactorLogin, LoginCreatesSession,
      CreateTwoFactorLoginChallenge, BeginTwoFactorEnrollment, ConfirmPasswordReset, CallFails

(* A proof that is accepted is a TOTP code past the counter of the factor in *)
(* force, or one of the unused recovery codes (twofactor.go).                *)
LEMMA AcceptedProofs ==
  ASSUME CredentialsTypeOK, SecretsAreFresh, factor # NoFactor, NEW proof \in Presented,
         VerifyTOTPCode(proof) \/ ConsumesRecoveryCode(proof)
  PROVE  /\ factor.secret \in 1..minted /\ factor.lastUsed \in Nat
         /\ AfterProof(proof).factor.secret = factor.secret
         /\ \/ /\ proof[1] = "totp" /\ proof[2] = factor.secret
               /\ proof[3] \in 0..(MaxStep + 1) /\ proof[3] > factor.lastUsed
               /\ VerifyTOTPCode(proof)
               /\ AfterProof(proof).factor = [secret |-> factor.secret, lastUsed |-> proof[3]]
               /\ AfterProof(proof).codes = codes
            \/ /\ proof \in codes /\ proof[1] = "code" /\ ~VerifyTOTPCode(proof)
               /\ AfterProof(proof).factor = factor
               /\ AfterProof(proof).codes = codes \ {proof}
<1>t. factor \in FactorRows /\ minted \in Nat /\ MaxStep \in Nat /\ MaxMinted \in Nat
  BY CredentialsTypes, CredentialNumbers
<1>1. factor.secret \in 1..minted /\ factor.lastUsed \in Nat
  BY <1>t DEF FactorRows, SecretsAreFresh
<1>2. CASE VerifyTOTPCode(proof)
  <2>1. /\ proof[1] = "totp" /\ proof[2] = factor.secret /\ proof[3] > factor.lastUsed
    BY <1>2, Zenon DEF VerifyTOTPCode
  <2>2. proof \notin codes
    BY <2>1, Zenon DEF SecretsAreFresh
  <2>3. proof[3] \in 0..(MaxStep + 1)
    BY <2>2, Zenon DEF Presented
  <2>4. AfterProof(proof) = [factor |-> [factor EXCEPT !.lastUsed = proof[3]], codes |-> codes]
    BY <1>2, Zenon DEF AfterProof
  <2>5. [factor EXCEPT !.lastUsed = proof[3]] = [secret |-> factor.secret, lastUsed |-> proof[3]]
    BY <1>t DEF FactorRows
  <2> QED  BY <1>1, <1>2, <2>1, <2>3, <2>4, <2>5
<1>3. CASE ~VerifyTOTPCode(proof)
  <2>1. proof \in codes
    BY <1>3, Zenon DEF ConsumesRecoveryCode
  <2>2. AfterProof(proof) = [factor |-> factor, codes |-> codes \ {proof}]
    BY <1>3, Zenon DEF AfterProof
  <2>3. proof[1] = "code"
    BY <2>1, Zenon DEF SecretsAreFresh
  <2> QED  BY <1>1, <1>3, <2>1, <2>2, <2>3
<1> QED  BY <1>2, <1>3, Zenon

(* A challenge is closed by its session or by the last wrong code            *)
(* (CompleteTwoFactorLogin).                                                 *)
LEMMA ChallengesStep ==
  ASSUME CredentialsTypeOK, ProofsSpentOnce, [CredentialsNext]_credentialVars
  PROVE  /\ challenge' \in [Challenges -> ChallengeRows]
         /\ \A c \in Challenges :
              /\ challenge'[c].sessions <= 1
              /\ challenge'[c].attempts <= MaxAttempts
              /\ challenge'[c].sessions = 1 \/ challenge'[c].attempts = MaxAttempts
                   => challenge'[c].state = "consumed"
<1>t. challenge \in [Challenges -> ChallengeRows] /\ MaxAttempts \in Nat \ {0}
  BY CredentialsTypes, CredentialNumbers, Zenon
<1> DEFINE Fine(d) ==
      /\ d \in ChallengeRows
      /\ d.sessions <= 1 /\ d.attempts <= MaxAttempts
      /\ d.sessions = 1 \/ d.attempts = MaxAttempts => d.state = "consumed"
<1>f. \A c \in Challenges : Fine(challenge[c])
  BY <1>t, Zenon DEF ProofsSpentOnce
<1>q. ASSUME NEW c \in Challenges, NEW d, Fine(d), challenge' = [challenge EXCEPT ![c] = d]
      PROVE  /\ challenge' \in [Challenges -> ChallengeRows]
             /\ \A b \in Challenges : Fine(challenge'[b])
  <2>1. challenge' \in [Challenges -> ChallengeRows]
    BY <1>q, <1>t, Zenon
  <2>2. \A b \in Challenges : Fine(challenge'[b])
    BY <1>q, <1>f, <1>t, Zenon
  <2> QED  BY <2>1, <2>2, Zenon
<1>1. ASSUME NEW w \in Workers, NEW c \in Challenges, CreateTwoFactorLoginChallenge(w, c)
      PROVE  /\ challenge' \in [Challenges -> ChallengeRows]
             /\ \A b \in Challenges : Fine(challenge'[b])
  <2> DEFINE d == [challenge[c] EXCEPT !.state = "open"]
  <2>1. /\ challenge[c].state = "none"
        /\ challenge' = [challenge EXCEPT ![c].state = "open"]
    BY <1>1, Zenon DEF CreateTwoFactorLoginChallenge
  <2>3. challenge' = [challenge EXCEPT ![c] = d]
    BY <2>1, <1>t, Zenon DEF ChallengeRows
  <2>4. challenge[c] \in ChallengeRows /\ Fine(challenge[c])
    BY <1>t, <1>f, Zenon
  <2>5. Fine(d)
    BY <2>1, <2>4, Zenon DEF ChallengeRows
  <2> HIDE DEF d, Fine
  <2> QED  BY <2>3, <2>5, <1>q, Zenon
<1>2. ASSUME NEW c \in Challenges, RefuseTwoFactorLogin(c)
      PROVE  /\ challenge' \in [Challenges -> ChallengeRows]
             /\ \A b \in Challenges : Fine(challenge'[b])
  <2> DEFINE n == challenge[c].attempts + 1
             at == IF n >= MaxAttempts THEN "consumed" ELSE "open"
             d == [challenge[c] EXCEPT !.attempts = n, !.state = at]
  <2>1. /\ challenge[c].state = "open"
        /\ challenge' = [challenge EXCEPT ![c].attempts = n, ![c].state = at]
    BY <1>2, Zenon DEF RefuseTwoFactorLogin, WrongCode
  <2>4. challenge[c] \in ChallengeRows /\ Fine(challenge[c])
    BY <1>t, <1>f, Zenon
  <2>2. n \in 0..MaxAttempts /\ challenge[c].sessions # 1 /\ challenge[c].sessions \in 0..1
    BY <2>1, <2>4, <1>t DEF ChallengeRows
  <2>3. at \in {"open", "consumed"} /\ (n = MaxAttempts => at = "consumed")
    BY <2>2, <1>t
  <2> HIDE DEF n, at
  <2>5. challenge' = [challenge EXCEPT ![c] = d]
    BY <2>1, <1>t, Zenon DEF ChallengeRows
  <2>6. /\ d \in ChallengeRows /\ d.attempts = n /\ d.state = at
        /\ d.sessions = challenge[c].sessions
    BY <2>2, <2>3, <2>4, Zenon DEF ChallengeRows
  <2>7. Fine(d)
    <3> HIDE DEF d
    <3> QED  BY <2>2, <2>3, <2>6, <1>t
  <2> HIDE DEF d, Fine
  <2> QED  BY <2>5, <2>7, <1>q, Zenon
<1>3. ASSUME NEW c \in Challenges, ChallengeExpires(c)
      PROVE  /\ challenge' \in [Challenges -> ChallengeRows]
             /\ \A b \in Challenges : Fine(challenge'[b])
  <2> DEFINE d == [challenge[c] EXCEPT !.state = "consumed"]
  <2>1. challenge' = [challenge EXCEPT ![c] = d]
    BY <1>3, <1>t, Zenon DEF ChallengeExpires, ChallengeRows
  <2>2. challenge[c] \in ChallengeRows /\ Fine(challenge[c])
    BY <1>t, <1>f, Zenon
  <2>3. Fine(d)
    BY <2>2, Zenon DEF ChallengeRows
  <2> HIDE DEF d, Fine
  <2> QED  BY <2>1, <2>3, <1>q, Zenon
<1>4. ASSUME NEW c \in Challenges, challenge[c].state = "open", challenge' = RightCode(c)
      PROVE  /\ challenge' \in [Challenges -> ChallengeRows]
             /\ \A b \in Challenges : Fine(challenge'[b])
  <2> DEFINE n == challenge[c].sessions + 1
             d == [challenge[c] EXCEPT !.state = "consumed", !.sessions = n]
  <2>1. challenge' = [challenge EXCEPT ![c].state = "consumed", ![c].sessions = n]
    BY <1>4, Zenon DEF RightCode
  <2>2. challenge[c] \in ChallengeRows /\ Fine(challenge[c])
    BY <1>t, <1>f, Zenon
  <2>3. n \in 0..1
    BY <1>4, <2>2 DEF ChallengeRows
  <2> HIDE DEF n
  <2>4. challenge' = [challenge EXCEPT ![c] = d]
    BY <2>1, <1>t, Zenon DEF ChallengeRows
  <2>5. d \in ChallengeRows /\ d.state = "consumed" /\ d.attempts = challenge[c].attempts
        /\ d.sessions = n
    BY <2>2, <2>3, Zenon DEF ChallengeRows
  <2>6. Fine(d)
    <3> HIDE DEF d
    <3> QED  BY <2>2, <2>3, <2>5
  <2> HIDE DEF d, Fine
  <2> QED  BY <2>4, <2>6, <1>q, Zenon
<1>5. ASSUME UNCHANGED challenge
      PROVE  /\ challenge' \in [Challenges -> ChallengeRows]
             /\ \A b \in Challenges : Fine(challenge'[b])
  BY <1>5, <1>t, <1>f, Zenon
<1>6. /\ challenge' \in [Challenges -> ChallengeRows]
      /\ \A b \in Challenges : Fine(challenge'[b])
  <2> HIDE DEF Fine
  <2>1. ASSUME NEW s \in SessionIds, NEW c \in Challenges, NEW proof,
               CompleteTwoFactorLogin(c, s, proof)
        PROVE  /\ challenge' \in [Challenges -> ChallengeRows]
               /\ \A b \in Challenges : Fine(challenge'[b])
    BY <2>1, <1>4, Zenon DEF CompleteTwoFactorLogin
  <2>2. ASSUME NEW s \in SessionIds \cup {NoSession},
               \/ RevokeUserSession(s) \/ RevokeOtherSessions(s) \/ ChangePassword(s)
               \/ \E counter \in 0..(MaxStep + 1) : ConfirmTwoFactorEnrollment(s, counter)
               \/ \E proof \in Presented : \/ DisableTwoFactor(s, proof)
                                          \/ RegenerateTwoFactorRecoveryCodes(s, proof)
        PROVE  UNCHANGED challenge
    BY <2>2, Zenon DEF RevokeUserSession, RevokeOtherSessions, ChangePassword,
                ConfirmTwoFactorEnrollment, DisableTwoFactor, RegenerateTwoFactorRecoveryCodes
  <2>3. ASSUME NEW w \in Workers,
               \/ Login(w) \/ LoginReadsFactor(w)
               \/ \E s \in SessionIds : LoginCreatesSession(w, s)
               \/ BeginReadsFactor(w) \/ BeginTwoFactorEnrollment(w)
               \/ PrecheckPasswordReset(w) \/ ConfirmPasswordReset(w) \/ CallFails(w)
        PROVE  UNCHANGED challenge
    BY <2>3, Zenon DEF Login, LoginReadsFactor, LoginCreatesSession, BeginReadsFactor,
                BeginTwoFactorEnrollment, PrecheckPasswordReset, ConfirmPasswordReset, CallFails
  <2>4. ASSUME \/ RequestPasswordReset \/ EnrollmentExpires \/ StepPasses
               \/ ConfirmExpiredEnrollment \/ UNCHANGED credentialVars
        PROVE  /\ challenge' \in [Challenges -> ChallengeRows]
               /\ \A b \in Challenges : Fine(challenge'[b])
    BY <2>4, <1>5, Zenon DEF RequestPasswordReset, EnrollmentExpires, StepPasses,
                      ConfirmExpiredEnrollment, credentialVars
  <2> QED
    BY <1>1, <1>2, <1>3, <1>5, <2>1, <2>2, <2>3, <2>4, Zenon DEF CredentialsNext
<1> QED  BY <1>6, Zenon

(* A session row that is not live holds nothing; revoking the others leaves  *)
(* the caller's row as it is (RevokeOtherSessions, store/queries.go).        *)
LEMMA RevokedRows ==
  ASSUME session \in [SessionIds -> SessionRows], NEW current
  PROVE  /\ RevokeOthers(session, current) \in [SessionIds -> SessionRows]
         /\ \A s \in SessionIds : RevokeOthers(session, current)[s].state = "live" =>
              s = current /\ RevokeOthers(session, current)[s] = session[s]
<1>1. SessionState("revoked") \in SessionRows /\ SessionState("revoked").state # "live"
  BY CredentialNumbers DEF SessionState, SessionRows
<1>2. ASSUME NEW s \in SessionIds
      PROVE  RevokeOthers(session, current)[s] =
               IF session[s].state = "live" /\ s # current
               THEN SessionState("revoked") ELSE session[s]
  BY Zenon DEF RevokeOthers
<1>3. RevokeOthers(session, current) \in [SessionIds -> SessionRows]
  BY <1>1, Zenon DEF RevokeOthers
<1> QED  BY <1>1, <1>2, <1>3, Zenon

(* The sessions that a change of password keeps have the new one             *)
(* (ChangePassword).                                                         *)
LEMMA KeptPassword ==
  ASSUME NEW rows \in [SessionIds -> SessionRows], NEW kept, NEW n \in 0..MaxPasswords
  PROVE  /\ Readmit(rows, kept, "password", n) \in [SessionIds -> SessionRows]
         /\ \A s \in SessionIds : Readmit(rows, kept, "password", n)[s].state = "live" =>
              /\ rows[s].state = "live"
              /\ Readmit(rows, kept, "password", n)[s].secret = rows[s].secret
              /\ s \in kept => Readmit(rows, kept, "password", n)[s].password = n
<1> DEFINE Kept(s) == [rows[s] EXCEPT !["password"] = n]
<1>1. ASSUME NEW s \in SessionIds
      PROVE  Kept(s) \in SessionRows /\ Kept(s).password = n /\ Kept(s).secret = rows[s].secret
  BY Zenon DEF SessionRows
<1>2. Readmit(rows, kept, "password", n) =
        [s \in SessionIds |-> IF rows[s].state = "live" /\ s \in kept THEN Kept(s) ELSE rows[s]]
  BY Zenon DEF Readmit
<1> HIDE DEF Kept
<1> QED  BY <1>1, <1>2, Zenon

(* The session that a change of the second factor keeps has the new secret   *)
(* (ConfirmTwoFactorEnrollment, DisableTwoFactor).                           *)
LEMMA KeptSecret ==
  ASSUME NEW rows \in [SessionIds -> SessionRows], NEW kept, NEW n \in 0..MaxMinted
  PROVE  /\ Readmit(rows, kept, "secret", n) \in [SessionIds -> SessionRows]
         /\ \A s \in SessionIds : Readmit(rows, kept, "secret", n)[s].state = "live" =>
              /\ rows[s].state = "live"
              /\ Readmit(rows, kept, "secret", n)[s].password = rows[s].password
              /\ s \in kept => Readmit(rows, kept, "secret", n)[s].secret = n
<1> DEFINE Kept(s) == [rows[s] EXCEPT !["secret"] = n]
<1>1. ASSUME NEW s \in SessionIds
      PROVE  Kept(s) \in SessionRows /\ Kept(s).secret = n /\ Kept(s).password = rows[s].password
  BY Zenon DEF SessionRows
<1>2. Readmit(rows, kept, "secret", n) =
        [s \in SessionIds |-> IF rows[s].state = "live" /\ s \in kept THEN Kept(s) ELSE rows[s]]
  BY Zenon DEF Readmit
<1> HIDE DEF Kept
<1> QED  BY <1>1, <1>2, Zenon

(* The live sessions of the account match its credentials.                   *)
LEMMA SessionsStep ==
  ASSUME CredentialsTypeOK, SecretsAreFresh, SessionsMatchCredentials,
         [CredentialsNext]_credentialVars
  PROVE  /\ SessionsMatchCredentials' /\ session' \in [SessionIds -> SessionRows]
         /\ password' \in 1..MaxPasswords
<1> DEFINE Goal == /\ SessionsMatchCredentials' /\ session' \in [SessionIds -> SessionRows]
                   /\ password' \in 1..MaxPasswords
<1>t. /\ session \in [SessionIds -> SessionRows] /\ factor \in FactorRows
      /\ password \in 1..MaxPasswords /\ password \in 0..MaxPasswords
      /\ enrollment \in EnrollmentRows
      /\ MaxPasswords \in Nat /\ MaxMinted \in Nat
  BY CredentialsTypes, CredentialNumbers
(* Sessions are only taken away and the credentials stay.                    *)
<1>k. ASSUME password' = password, factor'.secret = factor.secret,
             session' \in [SessionIds -> SessionRows],
             \A s \in SessionIds : session'[s].state = "live" => session'[s] = session[s]
      PROVE  Goal
  <2>1. ASSUME NEW s \in SessionIds, session'[s].state = "live"
        PROVE  session'[s].password = password' /\ session'[s].secret = factor'.secret
    <3>1. Live(s) /\ session'[s] = session[s]
      BY <2>1, <1>k, Zenon DEF Live
    <3> QED  BY <3>1, <1>k, Zenon DEF SessionsMatchCredentials
  <2> QED  BY <2>1, <1>k, <1>t, Zenon DEF SessionsMatchCredentials, Live
<1>n. ASSUME NEW s \in SessionIds, NewSession(s), password' = password,
             factor'.secret = factor.secret
      PROVE  Goal
  <2> DEFINE d == [state |-> "live", password |-> password, secret |-> factor.secret]
  <2>1. session' = [session EXCEPT ![s] = d]
    BY <1>n, Zenon DEF NewSession
  <2>2. factor.secret \in 0..MaxMinted
    BY <1>t, Zenon DEF FactorRows
  <2>3. d \in SessionRows /\ d.password = password /\ d.secret = factor.secret
    BY <2>2, <1>t, Zenon DEF SessionRows
  <2> HIDE DEF d
  <2>5. session' \in [SessionIds -> SessionRows]
    BY <2>1, <2>3, <1>t, Zenon
  <2>6. ASSUME NEW r \in SessionIds, session'[r].state = "live"
        PROVE  session'[r].password = password' /\ session'[r].secret = factor'.secret
    <3>1. CASE r = s
      BY <3>1, <2>1, <2>3, <1>t, <1>n, Zenon
    <3>2. CASE r # s
      <4>1. session'[r] = session[r] /\ Live(r)
        BY <3>2, <2>1, <2>6, <1>t, Zenon DEF Live
      <4> QED  BY <4>1, <1>n, Zenon DEF SessionsMatchCredentials
    <3> QED  BY <3>1, <3>2, Zenon
  <2> QED  BY <2>5, <2>6, <1>n, <1>t, Zenon DEF SessionsMatchCredentials, Live
(* The session that gives the account another secret, or none, is kept.      *)
<1>c. ASSUME NEW s \in SessionIds, NEW k \in 0..MaxMinted, password' = password,
             factor'.secret = k,
             session' = Readmit(RevokeOthers(session, s), {s}, "secret", k)
      PROVE  Goal
  <2> DEFINE rest == RevokeOthers(session, s)
  <2>1. /\ rest \in [SessionIds -> SessionRows]
        /\ \A r \in SessionIds : rest[r].state = "live" => r = s /\ rest[r] = session[r]
    BY <1>t, RevokedRows, Zenon
  <2> HIDE DEF rest
  <2>2. session' = Readmit(rest, {s}, "secret", k)
    BY <1>c, Zenon DEF rest
  <2>3. /\ session' \in [SessionIds -> SessionRows]
        /\ \A r \in SessionIds : session'[r].state = "live" =>
             /\ rest[r].state = "live" /\ session'[r].password = rest[r].password
             /\ r \in {s} => session'[r].secret = k
    <3> DEFINE after == Readmit(rest, {s}, "secret", k)
    <3>1. /\ after \in [SessionIds -> SessionRows]
          /\ \A r \in SessionIds : after[r].state = "live" =>
               /\ rest[r].state = "live" /\ after[r].password = rest[r].password
               /\ r \in {s} => after[r].secret = k
      BY <2>1, KeptSecret
    <3> HIDE DEF after
    <3> QED  BY <2>2, <3>1 DEF after
  <2>4. ASSUME NEW r \in SessionIds, session'[r].state = "live"
        PROVE  session'[r].password = password' /\ session'[r].secret = factor'.secret
    <3>1. Live(r) /\ rest[r] = session[r] /\ r = s
      BY <2>1, <2>3, <2>4, Zenon DEF Live
    <3> QED  BY <3>1, <2>3, <2>4, <1>c, Zenon DEF SessionsMatchCredentials
  <2> QED  BY <1>c, <1>t, <2>3, <2>4, Zenon DEF SessionsMatchCredentials, Live
<1>1. ASSUME NEW w \in Workers, NEW s \in SessionIds, LoginCreatesSession(w, s)
      PROVE  Goal
  BY <1>1, <1>n, Zenon DEF LoginCreatesSession
<1>2. ASSUME NEW c \in Challenges, NEW s \in SessionIds, NEW proof \in Presented,
             CompleteTwoFactorLogin(c, s, proof)
      PROVE  Goal
  <2>1. /\ NewSession(s) /\ password' = password
        /\ factor # NoFactor /\ factor' = AfterProof(proof).factor
        /\ VerifyTOTPCode(proof) \/ ConsumesRecoveryCode(proof)
    BY <1>2, Zenon DEF CompleteTwoFactorLogin
  <2>2. factor'.secret = factor.secret
    BY <2>1, AcceptedProofs, Zenon
  <2> QED  BY <2>1, <2>2, <1>n, Zenon
<1>3. ASSUME NEW s \in SessionIds, NEW counter \in 0..(MaxStep + 1),
             ConfirmTwoFactorEnrollment(s, counter)
      PROVE  Goal
  <2>1. /\ factor' = [secret |-> enrollment.secret, lastUsed |-> counter]
        /\ session' = Readmit(RevokeOthers(session, s), {s}, "secret", enrollment.secret)
        /\ password' = password
    BY <1>3, Zenon DEF ConfirmTwoFactorEnrollment
  <2>2. enrollment.secret \in 0..MaxMinted /\ factor'.secret = enrollment.secret
    BY <1>t, <2>1, Zenon DEF EnrollmentRows
  <2> QED  BY <1>c, <2>1, <2>2, Zenon
<1>4. ASSUME NEW s \in SessionIds \cup {NoSession}, ChangePassword(s)
      PROVE  Goal
  <2> DEFINE rest == IF s = NoSession THEN session ELSE RevokeOthers(session, s)
             kept == IF s = NoSession THEN SessionIds ELSE {s}
             k == password + 1
  <2>1. /\ session' = Readmit(rest, kept, "password", k)
        /\ password' = k /\ password < MaxPasswords /\ factor' = factor
    BY <1>4, Zenon DEF ChangePassword
  <2>2. /\ rest \in [SessionIds -> SessionRows]
        /\ \A r \in SessionIds : rest[r].state = "live" => r \in kept /\ rest[r] = session[r]
    BY <1>t, RevokedRows, Zenon
  <2>3. k \in 1..MaxPasswords /\ k \in 0..MaxPasswords
    BY <2>1, <1>t
  <2> HIDE DEF rest, kept, k
  <2>4. /\ session' \in [SessionIds -> SessionRows]
        /\ \A r \in SessionIds : session'[r].state = "live" =>
             /\ rest[r].state = "live" /\ session'[r].secret = rest[r].secret
             /\ r \in kept => session'[r].password = k
    <3> DEFINE after == Readmit(rest, kept, "password", k)
    <3>1. /\ after \in [SessionIds -> SessionRows]
          /\ \A r \in SessionIds : after[r].state = "live" =>
               /\ rest[r].state = "live" /\ after[r].secret = rest[r].secret
               /\ r \in kept => after[r].password = k
      BY <2>2, <2>3, KeptPassword
    <3> HIDE DEF after
    <3> QED  BY <2>1, <3>1 DEF after
  <2>5. ASSUME NEW r \in SessionIds, session'[r].state = "live"
        PROVE  session'[r].password = password' /\ session'[r].secret = factor'.secret
    <3>1. Live(r) /\ rest[r] = session[r] /\ r \in kept
      BY <2>2, <2>4, <2>5, Zenon DEF Live
    <3> QED  BY <3>1, <2>1, <2>4, <2>5, Zenon DEF SessionsMatchCredentials
  <2> QED  BY <2>1, <2>3, <2>4, <2>5, Zenon DEF SessionsMatchCredentials, Live
<1>5. ASSUME NEW w \in Workers, ConfirmPasswordReset(w)
      PROVE  Goal
  <2>1. CASE reset # calls[w].number
    BY <1>5, <2>1, <1>k, <1>t, Zenon DEF ConfirmPasswordReset
  <2>2. CASE reset = calls[w].number
    <3>1. /\ password' = password + 1 /\ password < MaxPasswords
          /\ session' = RevokeOthers(session, NoSession)
      BY <1>5, <2>2, Zenon DEF ConfirmPasswordReset
    <3>2. /\ session' \in [SessionIds -> SessionRows]
          /\ \A s \in SessionIds : session'[s].state # "live"
      BY <3>1, <1>t, RevokedRows, CredentialNumbers
    <3>3. password' \in 1..MaxPasswords
      BY <3>1, <1>t
    <3> QED  BY <3>2, <3>3, Zenon DEF SessionsMatchCredentials, Live
  <2> QED  BY <2>1, <2>2, Zenon
<1>6. ASSUME NEW s \in SessionIds, NEW proof \in Presented, DisableTwoFactor(s, proof)
      PROVE  Goal
  <2>1. /\ password' = password /\ factor' = NoFactor
        /\ session' = Readmit(RevokeOthers(session, s), {s}, "secret", 0)
    BY <1>6, Zenon DEF DisableTwoFactor
  <2>2. factor'.secret = 0 /\ 0 \in 0..MaxMinted
    BY <1>t, <2>1 DEF NoFactor
  <2> QED  BY <1>c, <2>1, <2>2, Zenon
<1>7. ASSUME NEW s \in SessionIds, NEW proof \in Presented,
             RegenerateTwoFactorRecoveryCodes(s, proof)
      PROVE  Goal
  <2>1. /\ password' = password /\ factor' = AfterProof(proof).factor /\ factor # NoFactor
        /\ VerifyTOTPCode(proof) /\ session' = RevokeOthers(session, s)
    BY <1>7, Zenon DEF RegenerateTwoFactorRecoveryCodes
  <2>2. factor'.secret = factor.secret
    BY <2>1, AcceptedProofs, Zenon
  <2> QED  BY <2>1, <2>2, <1>k, <1>t, RevokedRows, Zenon
<1>8. ASSUME NEW s \in SessionIds, RevokeOtherSessions(s) \/ RevokeUserSession(s)
      PROVE  Goal
  <2>0. password' = password /\ factor' = factor
    BY <1>8, Zenon DEF RevokeOtherSessions, RevokeUserSession
  <2>1. CASE RevokeOtherSessions(s)
    BY <2>0, <2>1, <1>k, <1>t, RevokedRows, Zenon DEF RevokeOtherSessions
  <2>2. CASE RevokeUserSession(s)
    <3>1. SessionState("revoked") \in SessionRows /\ SessionState("revoked").state # "live"
      BY CredentialNumbers DEF SessionState, SessionRows
    <3>2. session' = [session EXCEPT ![s] = SessionState("revoked")]
      BY <2>2, Zenon DEF RevokeUserSession
    <3>3. /\ session' \in [SessionIds -> SessionRows]
          /\ \A r \in SessionIds : session'[r].state = "live" => session'[r] = session[r]
      BY <3>1, <3>2, <1>t, Zenon
    <3> QED  BY <2>0, <3>3, <1>k, Zenon
  <2> QED  BY <1>8, <2>1, <2>2, Zenon
<1>9. ASSUME UNCHANGED <<password, factor, session>>
      PROVE  Goal
  BY <1>9, <1>k, <1>t, Zenon
<1>10. ASSUME NEW w \in Workers,
               \/ Login(w) \/ LoginReadsFactor(w)
               \/ \E c \in Challenges : CreateTwoFactorLoginChallenge(w, c)
               \/ BeginReadsFactor(w) \/ BeginTwoFactorEnrollment(w)
               \/ PrecheckPasswordReset(w) \/ CallFails(w)
       PROVE  UNCHANGED <<password, factor, session>>
  BY <1>10, Zenon DEF Login, LoginReadsFactor, CreateTwoFactorLoginChallenge, BeginReadsFactor,
               BeginTwoFactorEnrollment, PrecheckPasswordReset, CallFails
<1>11. ASSUME \/ RequestPasswordReset \/ EnrollmentExpires \/ StepPasses
              \/ ConfirmExpiredEnrollment \/ UNCHANGED credentialVars
              \/ \E c \in Challenges : ChallengeExpires(c) \/ RefuseTwoFactorLogin(c)
       PROVE  UNCHANGED <<password, factor, session>>
  BY <1>11, Zenon DEF RequestPasswordReset, EnrollmentExpires, StepPasses,
                     ConfirmExpiredEnrollment, credentialVars, ChallengeExpires,
                     RefuseTwoFactorLogin
<1>12. Goal
  <2> HIDE DEF Goal
  <2> QED
    BY <1>1, <1>2, <1>3, <1>4, <1>5, <1>6, <1>7, <1>8, <1>9, <1>10, <1>11, Zenon DEF CredentialsNext
<1> QED  BY <1>12, Zenon

(* What SpentIsOver says of one proof that was accepted.                     *)
Over(p) ==
  /\ p[2] \in 1..minted
  /\ p[1] = "totp" =>
       /\ p[2] # enrollment.secret /\ p[3] \in Nat
       /\ p[2] = factor.secret => p[3] <= factor.lastUsed
  /\ p[1] = "code" => p[2] # enrollment.secret /\ p \notin codes
  /\ p[1] = "reset" => p[2] # reset

(* The secrets of the account after a step are well typed.                   *)
SecretsTyped ==
  /\ factor \in FactorRows /\ codes \subseteq Proofs /\ enrollment \in EnrollmentRows
  /\ reset \in 0..MaxMinted /\ minted \in 0..MaxMinted /\ step \in 0..MaxStep

(* No secret, code or token comes back, so no proof is accepted twice        *)
(* (last_used_counter, used_at and consumed_at in store/queries.go).         *)
LEMMA SecretsStep ==
  ASSUME CredentialsTypeOK, CallsCarryNumbers, SecretsAreFresh, SpentIsOver, respent = FALSE,
         [CredentialsNext]_credentialVars
  PROVE  SecretsAreFresh' /\ SpentIsOver' /\ respent' = FALSE /\ SecretsTyped'
<1> DEFINE Goal == SecretsAreFresh' /\ SpentIsOver' /\ respent' = FALSE /\ SecretsTyped'
<1>t. /\ factor \in FactorRows /\ codes \subseteq Proofs /\ enrollment \in EnrollmentRows
      /\ reset \in 0..MaxMinted /\ minted \in 0..MaxMinted /\ step \in 0..MaxStep
      /\ calls \in [Workers -> CallRecords]
  BY CredentialsTypes, Zenon
<1>b. /\ MaxMinted \in Nat /\ MaxStep \in Nat /\ RecoveryCodeCount \in Nat /\ minted \in Nat
      /\ reset \in Nat
  BY <1>t, CredentialNumbers
<1>e. /\ enrollment.secret \in Nat /\ enrollment.secret <= minted
      /\ factor.secret \in Nat /\ factor.secret <= minted /\ factor.lastUsed \in Nat
      /\ reset <= minted
  BY <1>t, <1>b DEF EnrollmentRows, FactorRows, SecretsAreFresh
<1>o. \A p \in spent : Over(p)
  BY Zenon DEF SpentIsOver, Over
<1>s. SpentIsOver' <=> (\A p \in spent' : Over(p)')
  BY Zenon DEF SpentIsOver, Over
<1>c. \A p \in codes : p[1] = "code" /\ p[2] \in 1..minted /\ p[2] # enrollment.secret
  BY Zenon DEF SecretsAreFresh
<1>n. /\ NoFactor \in FactorRows /\ NoFactor.secret = 0
      /\ NoEnrollment \in EnrollmentRows /\ NoEnrollment.secret = 0
  BY <1>b DEF NoFactor, NoEnrollment, FactorRows, EnrollmentRows
(* An accepted proof is new, and stays behind.                               *)
<1>p. ASSUME factor # NoFactor, NEW proof \in Presented,
             VerifyTOTPCode(proof) \/ ConsumesRecoveryCode(proof), Spend(proof)
      PROVE  /\ spent' = spent \cup {proof} /\ respent' = FALSE
             /\ proof[2] \in 1..minted /\ proof[2] # enrollment.secret
  <2>1. factor.secret \in 1..minted
    BY <1>p, AcceptedProofs, Zenon
  <2>2. CASE proof \in codes /\ ~VerifyTOTPCode(proof)
    <3>1. proof[1] = "code" /\ proof[2] \in 1..minted /\ proof[2] # enrollment.secret
      BY <2>2, <1>c, Zenon
    <3>2. proof \notin spent
      BY <2>2, <3>1, <1>o, Zenon DEF Over
    <3> QED  BY <3>1, <3>2, <1>p, Zenon DEF Spend
  <2>3. CASE VerifyTOTPCode(proof)
    <3>1. /\ proof[1] = "totp" /\ proof[2] = factor.secret /\ proof[3] > factor.lastUsed
      BY <2>3, Zenon DEF VerifyTOTPCode
    <3>2. proof \notin spent
      BY <3>1, <1>o, <1>e DEF Over
    <3>3. enrollment.secret # factor.secret
      BY <2>1, <1>e DEF SecretsAreFresh
    <3> QED  BY <2>1, <3>1, <3>2, <3>3, <1>p, Zenon DEF Spend
  <2> QED  BY <2>2, <2>3, <1>p, Zenon DEF ConsumesRecoveryCode
<1>1. ASSUME NEW c \in Challenges, NEW s \in SessionIds, NEW proof \in Presented,
             CompleteTwoFactorLogin(c, s, proof)
      PROVE  Goal
  <2>1. /\ factor # NoFactor
        /\ VerifyTOTPCode(proof) \/ ConsumesRecoveryCode(proof)
        /\ factor' = AfterProof(proof).factor /\ codes' = AfterProof(proof).codes
        /\ Spend(proof) /\ UNCHANGED <<enrollment, reset, minted, step>>
    BY <1>1, Zenon DEF CompleteTwoFactorLogin
  <2>2. /\ spent' = spent \cup {proof} /\ respent' = FALSE
        /\ proof[2] \in 1..minted /\ proof[2] # enrollment.secret
    BY <2>1, <1>p, Zenon
  <2>3. factor.secret \in 1..minted
    BY <2>1, AcceptedProofs, Zenon
  <2>4. CASE VerifyTOTPCode(proof)
    <3>1. /\ proof[1] = "totp" /\ proof[2] = factor.secret
          /\ proof[3] \in 0..(MaxStep + 1) /\ proof[3] > factor.lastUsed
          /\ factor' = [secret |-> factor.secret, lastUsed |-> proof[3]] /\ codes' = codes
      BY <2>1, <2>4, AcceptedProofs, Zenon
    <3>2. /\ factor' \in FactorRows /\ factor'.secret = factor.secret
          /\ factor'.lastUsed = proof[3]
      BY <3>1, <1>t, Zenon DEF FactorRows
    <3>3. SecretsAreFresh'
      BY <3>1, <3>2, <2>1, <2>3, Zenon DEF SecretsAreFresh
    <3>4. ASSUME NEW p \in spent  PROVE Over(p)'
      BY <1>o, <1>e, <1>b, <3>1, <3>2, <2>1 DEF Over
    <3>5. Over(proof)'
      BY <2>1, <2>2, <3>1, <3>2, <1>b, SMTT(20) DEF Over
    <3> QED  BY <2>1, <2>2, <3>1, <3>2, <3>3, <3>4, <3>5, <1>s, <1>t, Zenon DEF SecretsTyped
  <2>5. CASE ~VerifyTOTPCode(proof)
    <3>1. proof[1] = "code" /\ factor' = factor /\ codes' = codes \ {proof}
      BY <2>1, <2>5, AcceptedProofs, Zenon
    <3>2. SecretsAreFresh'
      BY <3>1, <2>1, Zenon DEF SecretsAreFresh
    <3>3. ASSUME NEW p \in spent  PROVE Over(p)'
      BY <1>o, <3>1, <2>1, Zenon DEF Over
    <3>4. Over(proof)'
      BY <2>1, <2>2, <3>1, Zenon DEF Over
    <3> QED  BY <2>1, <2>2, <3>1, <3>2, <3>3, <3>4, <1>s, <1>t, Zenon DEF SecretsTyped
  <2> QED  BY <2>4, <2>5, Zenon
<1>2. ASSUME NEW s \in SessionIds, NEW proof \in Presented, DisableTwoFactor(s, proof)
      PROVE  Goal
  <2>1. /\ factor # NoFactor
        /\ VerifyTOTPCode(proof) \/ ConsumesRecoveryCode(proof)
        /\ factor' = NoFactor /\ codes' = {}
        /\ Spend(proof) /\ UNCHANGED <<enrollment, reset, minted, step>>
    BY <1>2, Zenon DEF DisableTwoFactor
  <2>2. /\ spent' = spent \cup {proof} /\ respent' = FALSE
        /\ proof[2] \in 1..minted /\ proof[2] # enrollment.secret
    BY <2>1, <1>p, Zenon
  <2>3. SecretsAreFresh'
    <3>1. /\ factor'.secret = 0 /\ factor' = NoFactor /\ codes' = {}
          /\ enrollment' = enrollment /\ reset' = reset /\ minted' = minted
      BY <2>1, <1>n, Zenon
    <3> QED  BY <3>1, <1>b, <1>e DEF SecretsAreFresh
  <2>4. ASSUME NEW p \in spent  PROVE Over(p)'
    BY <1>o, <1>n, <1>b, <2>1 DEF Over
  <2>5. proof[1] = "totp" \/ proof[1] = "code"
    BY <2>1, AcceptedProofs, Zenon
  <2>6. proof[1] = "totp" => proof[3] \in Nat
    <3>1. proof[1] = "totp" => proof[3] \in 0..(MaxStep + 1)
      BY <2>1, AcceptedProofs, Zenon
    <3> QED  BY <3>1, <1>b
  <2>7. Over(proof)'
    BY <2>1, <2>2, <2>5, <2>6, <1>n, <1>b, SMTT(20) DEF Over
  <2> QED  BY <2>1, <2>2, <2>3, <2>4, <2>7, <1>n, <1>s, <1>t, Zenon DEF SecretsTyped
<1>3. ASSUME NEW s \in SessionIds, NEW proof \in Presented,
             RegenerateTwoFactorRecoveryCodes(s, proof)
      PROVE  Goal
  <2> DEFINE fresh == {"code"} \X {minted + 1} \X (1..RecoveryCodeCount)
  <2>1. /\ factor # NoFactor /\ VerifyTOTPCode(proof) /\ minted < MaxMinted
        /\ factor' = AfterProof(proof).factor /\ codes' = fresh
        /\ Spend(proof) /\ minted' = minted + 1 /\ UNCHANGED <<enrollment, reset, step>>
    BY <1>3 DEF RegenerateTwoFactorRecoveryCodes, Mint
  <2>2. /\ spent' = spent \cup {proof} /\ respent' = FALSE
        /\ proof[2] \in 1..minted /\ proof[2] # enrollment.secret
    BY <2>1, <1>p, Zenon
  <2>3. /\ proof[1] = "totp" /\ proof[2] = factor.secret
        /\ proof[3] \in 0..(MaxStep + 1) /\ proof[3] > factor.lastUsed
        /\ factor' = [secret |-> factor.secret, lastUsed |-> proof[3]]
        /\ factor.secret \in 1..minted
    BY <2>1, AcceptedProofs, Zenon
  <2>4. /\ factor' \in FactorRows /\ factor'.secret = factor.secret
        /\ factor'.lastUsed = proof[3]
    BY <2>3, <1>t, Zenon DEF FactorRows
  <2>5. minted + 1 \in 1..MaxMinted /\ minted' \in 0..MaxMinted
    BY <2>1, <1>b
  <2>6. fresh \subseteq Proofs /\ \A p \in fresh : p[1] = "code" /\ p[2] = minted + 1
    BY <2>5, Zenon DEF Proofs
  <2> HIDE DEF fresh
  <2>7. SecretsAreFresh'
    BY <2>1, <2>3, <2>4, <2>6, <1>b, <1>e DEF SecretsAreFresh
  <2>8. ASSUME NEW p \in spent  PROVE Over(p)'
    <3>1. Over(p)
      BY <1>o, Zenon
    <3>2. p[2] \in 1..minted' /\ p \notin codes'
      BY <3>1, <2>1, <2>6, <1>b DEF Over
    <3> QED  BY <3>1, <3>2, <1>e, <1>b, <2>1, <2>3, <2>4 DEF Over
  <2>9. Over(proof)'
    BY <2>1, <2>2, <2>3, <2>4, <1>b DEF Over
  <2> QED
    BY <2>1, <2>2, <2>4, <2>5, <2>6, <2>7, <2>8, <2>9, <1>s, <1>t DEF SecretsTyped
<1>4. ASSUME NEW s \in SessionIds, NEW counter \in 0..(MaxStep + 1),
             ConfirmTwoFactorEnrollment(s, counter)
      PROVE  Goal
  <2> DEFINE k == enrollment.secret
             fresh == {"code"} \X {k} \X (1..RecoveryCodeCount)
  <2>0. PICK proof : proof = <<"totp", k, counter>>
    BY Zenon
  <2>1. /\ k # 0 /\ factor' = [secret |-> k, lastUsed |-> counter]
        /\ codes' = fresh /\ enrollment' = NoEnrollment
        /\ Spend(proof) /\ UNCHANGED <<reset, minted, step>>
    BY <1>4, <2>0, Zenon DEF ConfirmTwoFactorEnrollment
  <2>2. k \in 1..minted /\ k \in 1..MaxMinted /\ k \in 0..MaxMinted
    BY <2>1, <1>e, <1>b, <1>t
  <2>3. fresh \subseteq Proofs /\ \A p \in fresh : p[1] = "code" /\ p[2] = k
    BY <2>2, Zenon DEF Proofs
  <2>4. /\ factor' \in FactorRows /\ factor'.secret = k /\ factor'.lastUsed = counter
    BY <2>1, <2>2, Zenon DEF FactorRows
  <2>5. proof[1] = "totp" /\ proof[2] = k /\ proof[3] = counter
    BY <2>0, Zenon
  <2>6. ASSUME NEW p \in spent
        PROVE  p[1] \in {"totp", "code"} => p[2] # k
    BY <1>o, Zenon DEF Over
  <2> HIDE DEF k, fresh
  <2>7. proof \notin spent
    BY <2>5, <2>6, Zenon
  <2>8. spent' = spent \cup {proof} /\ respent' = FALSE
    BY <2>1, <2>7, Zenon DEF Spend
  <2>9. SecretsAreFresh'
    <3>1. \A p \in codes' : p[1] = "code" /\ p[2] \in 1..minted' /\ p[2] # enrollment'.secret
      BY <2>1, <2>2, <2>3, <1>n, Zenon
    <3>2. minted' = minted /\ reset' = reset /\ enrollment'.secret = 0 /\ factor'.secret = k
      BY <2>1, <2>4, <1>n, Zenon
    <3> QED  BY <3>1, <3>2, <2>1, <2>2, <1>b, <1>e DEF SecretsAreFresh
  <2>10. ASSUME NEW p \in spent  PROVE Over(p)'
    <3>1. Over(p)
      BY <1>o, Zenon
    <3>2. p[1] = "code" => p \notin codes'
      BY <2>1, <2>3, <2>6, Zenon
    <3>3. p[2] # enrollment'.secret
      BY <3>1, <2>1, <1>n, <1>b DEF Over
    <3>4. p[1] = "totp" => p[2] # factor'.secret
      BY <2>4, <2>6, Zenon
    <3> QED  BY <3>1, <3>2, <3>3, <3>4, <2>1, Zenon DEF Over
  <2>11. Over(proof)'
    <3>1. counter \in Nat
      BY <1>b
    <3> QED  BY <3>1, <2>1, <2>2, <2>4, <2>5, <1>n DEF Over
  <2> QED
    BY <2>1, <2>3, <2>4, <2>8, <2>9, <2>10, <2>11, <1>n, <1>s, <1>t, Zenon DEF SecretsTyped
(* Steps that accept no proof: secrets are given out or forgotten.           *)
<1>q. ASSUME UNCHANGED <<factor, codes, spent, respent>>,
             minted' \in 0..MaxMinted, minted <= minted',
             reset' \in 0..MaxMinted, reset' <= minted',
             reset' = reset \/ reset' = minted + 1,
             enrollment' \in EnrollmentRows, enrollment'.secret <= minted',
             enrollment'.secret \in {enrollment.secret, 0, minted + 1},
             step' \in 0..MaxStep
      PROVE  Goal
  <2>1. minted' \in Nat
    BY <1>q, <1>b
  <2>2. SecretsAreFresh'
    <3>1. \A p \in codes : p[2] \in 1..minted' /\ p[2] # enrollment'.secret
      BY <1>q, <1>c, <1>b, <2>1
    <3>2. enrollment'.secret # 0 => enrollment'.secret # factor.secret
      BY <1>q, <1>e, <1>b DEF SecretsAreFresh
    <3> QED  BY <3>1, <3>2, <2>1, <1>q, <1>e, <1>b, <1>c DEF SecretsAreFresh
  <2>3. ASSUME NEW p \in spent  PROVE Over(p)'
    <3>1. Over(p)
      BY <1>o, Zenon
    <3>2. p[2] \in 1..minted'
      BY <3>1, <2>1, <1>q, <1>b DEF Over
    <3>3. p[1] \in {"totp", "code"} => p[2] # enrollment'.secret
      BY <3>1, <1>q, <1>b DEF Over
    <3>4. p[1] = "reset" => p[2] # reset'
      BY <3>1, <1>q, <1>b DEF Over
    <3> QED  BY <3>1, <3>2, <3>3, <3>4, <1>q, Zenon DEF Over
  <2> QED  BY <2>2, <2>3, <1>q, <1>s, <1>t, Zenon DEF SecretsTyped
<1>5. ASSUME NEW w \in Workers, BeginTwoFactorEnrollment(w)
      PROVE  Goal
  <2>1. UNCHANGED <<factor, codes, spent, respent, reset, step>>
    BY <1>5, Zenon DEF BeginTwoFactorEnrollment
  <2>2. CASE UNCHANGED <<minted, enrollment>>
    <3>1. minted <= minted
      BY <1>b
    <3> HIDE DEF Goal
    <3> QED  BY <2>1, <2>2, <3>1, <1>q, <1>t, <1>e, Zenon
  <2>3. CASE ~UNCHANGED <<minted, enrollment>>
    <3>1. /\ minted < MaxMinted /\ minted' = minted + 1
          /\ enrollment' = [secret |-> minted + 1, expired |-> FALSE]
      BY <1>5, <2>3, Zenon DEF BeginTwoFactorEnrollment, Mint
    <3>2. minted' \in 0..MaxMinted /\ minted <= minted' /\ reset <= minted'
          /\ minted + 1 \in 0..MaxMinted
      BY <3>1, <1>b, <1>e
    <3>3. enrollment' \in EnrollmentRows /\ enrollment'.secret = minted + 1
      BY <3>1, <3>2, Zenon DEF EnrollmentRows
    <3>4. enrollment'.secret <= minted'
      BY <3>1, <3>3, <1>b
    <3> QED  BY <2>1, <3>2, <3>3, <3>4, <1>q, <1>t, Zenon
  <2> QED  BY <2>2, <2>3, Zenon
<1>6. ASSUME RequestPasswordReset  PROVE Goal
  <2>1. /\ UNCHANGED <<factor, codes, spent, respent, enrollment, step>>
        /\ minted < MaxMinted /\ minted' = minted + 1 /\ reset' = minted + 1
    BY <1>6, Zenon DEF RequestPasswordReset, Mint
  <2>2. minted' \in 0..MaxMinted /\ minted <= minted' /\ reset' <= minted'
        /\ reset' \in 0..MaxMinted /\ enrollment.secret <= minted'
    BY <2>1, <1>b, <1>e
  <2> QED  BY <2>1, <2>2, <1>q, <1>t, Zenon
<1>7. ASSUME ConfirmExpiredEnrollment \/ EnrollmentExpires  PROVE Goal
  <2>1. /\ UNCHANGED <<factor, codes, spent, respent, reset, minted, step>>
        /\ \/ enrollment' = NoEnrollment
           \/ enrollment' = [enrollment EXCEPT !.expired = TRUE]
    BY <1>7, Zenon DEF ConfirmExpiredEnrollment, EnrollmentExpires
  <2>2. enrollment' \in EnrollmentRows /\ enrollment'.secret \in {enrollment.secret, 0}
    BY <2>1, <1>n, <1>t, Zenon DEF EnrollmentRows
  <2>3. enrollment'.secret <= minted'
    BY <2>1, <2>2, <1>b, <1>e
  <2>4. minted <= minted
    BY <1>b
  <2> HIDE DEF Goal
  <2> QED  BY <2>1, <2>2, <2>3, <2>4, <1>q, <1>t, <1>e, Zenon
<1>8. ASSUME StepPasses  PROVE Goal
  <2>1. /\ UNCHANGED <<factor, codes, spent, respent, enrollment, reset, minted>>
        /\ step' \in 0..MaxStep
    BY <1>8, <1>t, <1>b DEF StepPasses
  <2>2. minted <= minted
    BY <1>b
  <2> HIDE DEF Goal
  <2> QED  BY <2>1, <2>2, <1>q, <1>t, <1>e, Zenon
<1>9. ASSUME NEW w \in Workers, ConfirmPasswordReset(w)
      PROVE  Goal
  <2> DEFINE n == calls[w].number
  <2>0. PICK proof : proof = <<"reset", n>>
    BY Zenon
  <2>1. CASE reset # n
    <3>1. UNCHANGED <<factor, codes, spent, respent, enrollment, reset, minted, step>>
      BY <1>9, <2>1, Zenon DEF ConfirmPasswordReset
    <3>2. minted <= minted
      BY <1>b
    <3> HIDE DEF Goal
    <3> QED  BY <3>1, <3>2, <1>q, <1>t, <1>e, Zenon
  <2>2. CASE reset = n
    <3>1. /\ UNCHANGED <<factor, codes, enrollment, minted, step>>
          /\ reset' = 0 /\ Spend(proof)
      BY <1>9, <2>0, <2>2, Zenon DEF ConfirmPasswordReset
    <3>2. n # 0
      BY <1>9, Zenon DEF ConfirmPasswordReset, CallsCarryNumbers
    <3>3. n \in 1..minted
      BY <2>2, <3>2, <1>b, <1>e
    <3>4. proof[1] = "reset" /\ proof[2] = n
      BY <2>0, Zenon
    <3> HIDE DEF n
    <3>5. proof \notin spent
      BY <3>4, <2>2, <1>o, Zenon DEF Over
    <3>6. spent' = spent \cup {proof} /\ respent' = FALSE
      BY <3>1, <3>5, Zenon DEF Spend
    <3>7. SecretsAreFresh'
      BY <3>1, <1>b DEF SecretsAreFresh
    <3>8. ASSUME NEW p \in spent  PROVE Over(p)'
      <4>1. Over(p)
        BY <1>o, Zenon
      <4>2. p[2] # reset'
        BY <4>1, <3>1, <1>b DEF Over
      <4> QED  BY <4>1, <4>2, <3>1, Zenon DEF Over
    <3>9. Over(proof)'
      BY <3>1, <3>2, <3>3, <3>4, Zenon DEF Over
    <3>10. reset' \in 0..MaxMinted
      BY <3>1, <1>b
    <3> QED  BY <3>1, <3>6, <3>7, <3>8, <3>9, <3>10, <1>s, <1>t, Zenon DEF SecretsTyped
  <2> QED  BY <2>1, <2>2, Zenon
<1>10. ASSUME UNCHANGED <<factor, codes, spent, respent, enrollment, reset, minted, step>>
       PROVE  Goal
  <2>1. minted <= minted
    BY <1>b
  <2> HIDE DEF Goal
  <2> QED  BY <1>10, <2>1, <1>q, <1>t, <1>e, Zenon
<1>11. ASSUME NEW w \in Workers,
               \/ Login(w) \/ LoginReadsFactor(w)
               \/ \E s \in SessionIds : LoginCreatesSession(w, s)
               \/ \E c \in Challenges : CreateTwoFactorLoginChallenge(w, c)
               \/ BeginReadsFactor(w) \/ PrecheckPasswordReset(w) \/ CallFails(w)
       PROVE  UNCHANGED <<factor, codes, spent, respent, enrollment, reset, minted, step>>
  BY <1>11, Zenon DEF Login, LoginReadsFactor, LoginCreatesSession, CreateTwoFactorLoginChallenge,
               BeginReadsFactor, PrecheckPasswordReset, CallFails
<1>12. ASSUME \/ UNCHANGED credentialVars
              \/ \E c \in Challenges : ChallengeExpires(c) \/ RefuseTwoFactorLogin(c)
              \/ \E s \in SessionIds : RevokeUserSession(s) \/ RevokeOtherSessions(s)
              \/ \E s \in SessionIds \cup {NoSession} : ChangePassword(s)
       PROVE  UNCHANGED <<factor, codes, spent, respent, enrollment, reset, minted, step>>
  BY <1>12, Zenon DEF credentialVars, ChallengeExpires, RefuseTwoFactorLogin, RevokeUserSession,
               RevokeOtherSessions, ChangePassword
<1>13. Goal
  <2> HIDE DEF Goal
  <2> QED
    BY <1>1, <1>2, <1>3, <1>4, <1>5, <1>6, <1>7, <1>8, <1>9, <1>10, <1>11, <1>12, Zenon
    DEF CredentialsNext
<1> QED  BY <1>13, Zenon

(* The invariant of the account's credentials, for any number of handlers,   *)
(* sessions, challenges, passwords and secrets.                              *)
LEMMA CredentialsHold == CredentialsSpec => []CredentialsInv
<1>1. CredentialsInit => CredentialsInv
  <2> SUFFICES ASSUME CredentialsInit PROVE CredentialsInv
    OBVIOUS
  <2>0. /\ \A s \in SessionIds : session[s] = SessionState("none")
        /\ SessionState("none") \in SessionRows /\ SessionState("none").state = "none"
        /\ NoFactor.secret = 0 /\ NoEnrollment.secret = 0
        /\ NoFactor \in FactorRows /\ NoEnrollment \in EnrollmentRows
        /\ NoCall \in CallRecords /\ NoCall.at = "idle"
    BY CredentialNumbers DEF CredentialsInit, SessionState, SessionRows, NoFactor, NoEnrollment,
                             FactorRows, EnrollmentRows, NoCall, CallRecords, CallLabels
  <2>1. CredentialsTypeOK
    <3>1. challenge \in [Challenges -> ChallengeRows]
      BY CredentialNumbers DEF CredentialsInit, ChallengeRows
    <3>2. session \in [SessionIds -> SessionRows] /\ calls \in [Workers -> CallRecords]
      BY <2>0, Zenon DEF CredentialsInit
    <3>3. /\ 1 \in 1..MaxPasswords /\ 0 \in 0..MaxMinted /\ 0 \in 0..MaxStep
          /\ FALSE \in BOOLEAN /\ {} \subseteq Proofs
      BY CredentialNumbers
    <3>4. /\ password = 1 /\ factor = NoFactor /\ codes = {} /\ enrollment = NoEnrollment
          /\ reset = 0 /\ minted = 0 /\ step = 0 /\ respent = FALSE
      BY Zenon DEF CredentialsInit
    <3> QED  BY <2>0, <3>1, <3>2, <3>3, <3>4, CredentialsTypes, Zenon
  <2>2. CallsCarryNumbers
    BY <2>0, Zenon DEF CredentialsInit, CallsCarryNumbers
  <2>3. SecretsAreFresh /\ SpentIsOver
    BY <2>0 DEF CredentialsInit, SecretsAreFresh, SpentIsOver
  <2>4. ProofsSpentOnce
    BY CredentialNumbers DEF CredentialsInit, ProofsSpentOnce
  <2>5. SessionsMatchCredentials
    BY <2>0, Zenon DEF SessionsMatchCredentials, Live
  <2> QED  BY <2>1, <2>2, <2>3, <2>4, <2>5, Zenon DEF CredentialsInv
<1>2. CredentialsInv /\ [CredentialsNext]_credentialVars => CredentialsInv'
  <2> SUFFICES ASSUME CredentialsInv, [CredentialsNext]_credentialVars PROVE CredentialsInv'
    OBVIOUS
  <2>0. respent = FALSE
    <3>1. respent \in BOOLEAN /\ ~respent
      BY CredentialsTypes, Zenon DEF CredentialsInv, ProofsSpentOnce
    <3> QED  BY <3>1, Zenon
  <2>1. CallsCarryNumbers' /\ calls' \in [Workers -> CallRecords]
    BY HandlersStep, Zenon DEF CredentialsInv
  <2>2. /\ SessionsMatchCredentials' /\ session' \in [SessionIds -> SessionRows]
        /\ password' \in 1..MaxPasswords
    BY SessionsStep, Zenon DEF CredentialsInv
  <2>3. SecretsAreFresh' /\ SpentIsOver' /\ respent' = FALSE /\ SecretsTyped'
    BY <2>0, SecretsStep, Zenon DEF CredentialsInv
  <2>4. challenge' \in [Challenges -> ChallengeRows]
    BY ChallengesStep, Zenon DEF CredentialsInv
  <2>5. ProofsSpentOnce'
    BY <2>3, ChallengesStep, Zenon DEF CredentialsInv, ProofsSpentOnce
  <2>6. CredentialsTypeOK'
    <3>1. respent' \in BOOLEAN
      BY <2>3, Zenon
    <3> QED
      BY <2>1, <2>2, <2>3, <2>4, <3>1, Zenon
      DEF CredentialsTypeOK, SecretsTyped, FactorRows, EnrollmentRows, SessionRows,
          ChallengeRows, CallRecords
  <2> QED  BY <2>1, <2>2, <2>3, <2>5, <2>6, Zenon DEF CredentialsInv
<1> QED  BY <1>1, <1>2, PTL DEF CredentialsSpec

(* Every live session was inserted under the password and the factor in      *)
(* force, or kept by the call that put them in force (credentials.go,        *)
(* recovery.go, twofactor.go).                                               *)
THEOREM LiveSessionsMatch == CredentialsSpec => []SessionsMatchCredentials
<1>1. CredentialsInv => SessionsMatchCredentials
  BY Zenon DEF CredentialsInv
<1> QED  BY <1>1, CredentialsHold, PTL

(* No TOTP step, recovery code or reset token is accepted twice, and a       *)
(* challenge is closed by its session or its last wrong code (twofactor.go,  *)
(* recovery.go).                                                             *)
THEOREM ProofsAreSpentOnce == CredentialsSpec => []ProofsSpentOnce
<1>1. CredentialsInv => ProofsSpentOnce
  BY Zenon DEF CredentialsInv
<1> QED  BY <1>1, CredentialsHold, PTL

-----------------------------------------------------------------------------
(***************************************************************************)
(* Rotation.  A token is exchanged for its successor because the previous  *)
(* token of the row is always the one before the current                   *)
(* (PreviousIsBefore), and a rotation is bounded by the absolute deadline  *)
(* because the deadline that a request read is still that of the row       *)
(* (DeadlineIsCurrent): it is set once, before any token exists            *)
(* (TokensFollowLogin).                                                    *)
(***************************************************************************)

PreviousIsBefore ==
  row.token.number # 0 => row.token.number = row.previous + 1

LoggedIn == row.token.number # 0

TokensFollowLogin ==
  /\ ~LoggedIn => row.previous = 0 /\ ~row.revoked
  /\ jar # NoToken => LoggedIn /\ jar.number # 0
  /\ \A r \in Requests : request[r].at # "idle" =>
       LoggedIn /\ request[r].token.number # 0

DeadlineIsCurrent ==
  \A r \in Requests : request[r].at = "rotate" =>
    request[r].absoluteExpiresAt = row.absoluteExpiresAt

RotationInv ==
  /\ RotationTypeOK
  /\ PreviousIsBefore /\ TokensFollowLogin /\ DeadlineIsCurrent /\ OneSuccessor

-----------------------------------------------------------------------------

(* The constants and the records the variables start from are well typed. *)
LEMMA RotationTypes ==
  /\ IdleTTL \in Nat /\ AbsoluteTTL \in Nat /\ RefreshTTL \in Nat /\ RotationGrace \in Nat
  /\ NoNumber \in Tokens /\ Idle \in RequestRecords
  /\ Idle.at = "idle" /\ Idle.token = NoNumber
BY RotationConstants, Zenon DEF NoNumber, Idle, Tokens, RequestRecords, Labels

(* IssueRefreshToken gives the token the number it is asked for. *)
LEMMA IssuedToken ==
  ASSUME NEW n \in Nat, NEW until \in Nat, NEW at \in Nat
  PROVE  /\ IssueRefreshToken(n, until, at) \in Tokens
         /\ IssueRefreshToken(n, until, at).number = n
BY RotationTypes DEF IssueRefreshToken, Tokens, Smaller

(* The typing of the variables, one fact for each. *)
LEMMA Typed ==
  ASSUME RotationInv
  PROVE  /\ now \in Nat /\ row \in Rows /\ jar \in Tokens \cup {NoToken}
         /\ request \in [Requests -> RequestRecords]
         /\ answered \subseteq Nat \X Nat
         /\ row.token \in Tokens /\ row.token.number \in Nat /\ row.previous \in Nat
         /\ row.absoluteExpiresAt \in Nat /\ row.expiresAt \in Nat /\ row.revoked \in BOOLEAN
         /\ \A r \in Requests : /\ request[r].token \in Tokens
                                /\ request[r].token.number \in Nat
                                /\ request[r].now \in Nat
                                /\ request[r].absoluteExpiresAt \in Nat
                                /\ request[r].at \in Labels
<1>1. /\ now \in Nat /\ row \in Rows /\ jar \in Tokens \cup {NoToken}
      /\ request \in [Requests -> RequestRecords]
      /\ answered \subseteq Nat \X Nat
  BY Zenon DEF RotationInv, RotationTypeOK
<1>2. /\ row.token \in Tokens /\ row.token.number \in Nat /\ row.previous \in Nat
      /\ row.absoluteExpiresAt \in Nat /\ row.expiresAt \in Nat /\ row.revoked \in BOOLEAN
  BY <1>1, Zenon DEF Rows, Tokens
<1>3. ASSUME NEW r \in Requests
      PROVE  /\ request[r].token \in Tokens /\ request[r].token.number \in Nat
             /\ request[r].now \in Nat /\ request[r].absoluteExpiresAt \in Nat
             /\ request[r].at \in Labels
  <2>1. request[r] \in RequestRecords
    BY <1>1, Zenon
  <2> QED  BY <2>1, Zenon DEF RequestRecords, Tokens
<1> QED  BY <1>1, <1>2, <1>3, Zenon

(* A step that leaves the row, the jar and the answers alone and moves one *)
(* request keeps the invariant if the request's new record fits.           *)
LEMMA RequestMoves ==
  ASSUME RotationInv, NEW r \in Requests, NEW new \in RequestRecords,
         request' = [request EXCEPT ![r] = new],
         UNCHANGED <<row, jar, answered>>,
         now' \in Nat, {replayed', missed', overtaken'} \subseteq BOOLEAN,
         new.at # "idle" => LoggedIn /\ new.token.number # 0,
         new.at = "rotate" => new.absoluteExpiresAt = row.absoluteExpiresAt,
         new.at = "answer" => new.answer.number = new.token.number + 1
  PROVE  RotationInv'
<1>1. /\ request'[r] = new /\ request' \in [Requests -> RequestRecords]
      /\ \A o \in Requests : o # r => request'[o] = request[o]
  BY Typed, Zenon
<1>2. RotationTypeOK'
  BY <1>1, Zenon DEF RotationInv, RotationTypeOK
<1>3. PreviousIsBefore'
  BY Zenon DEF RotationInv, PreviousIsBefore
<1>4. TokensFollowLogin'
  <2>1. LoggedIn' = LoggedIn
    BY Zenon DEF LoggedIn
  <2>2. ASSUME NEW o \in Requests, request'[o].at # "idle"
        PROVE  LoggedIn /\ request'[o].token.number # 0
    <3>1. CASE o = r
      BY <2>2, <3>1, <1>1, Zenon
    <3>2. CASE o # r
      BY <2>2, <3>2, <1>1, Zenon DEF RotationInv, TokensFollowLogin
    <3> QED  BY <3>1, <3>2, Zenon
  <2> QED  BY <2>1, <2>2, Zenon DEF RotationInv, TokensFollowLogin
<1>5. DeadlineIsCurrent'
  BY <1>1, Zenon DEF RotationInv, DeadlineIsCurrent
<1>6. OneSuccessor'
  BY <1>1, Zenon DEF RotationInv, OneSuccessor
<1> QED  BY <1>2, <1>3, <1>4, <1>5, <1>6, Zenon DEF RotationInv

(* The flags of the client's history stay flags. *)
LEMMA Flags ==
  ASSUME RotationInv
  PROVE  replayed \in BOOLEAN /\ missed \in BOOLEAN /\ overtaken \in BOOLEAN
BY Zenon DEF RotationInv, RotationTypeOK

(* A request that ends leaves nothing behind. *)
LEMMA RequestEnds ==
  ASSUME RotationInv, NEW r \in Requests,
         request' = [request EXCEPT ![r] = Idle],
         UNCHANGED <<now, row, jar, answered, replayed, missed, overtaken>>
  PROVE  RotationInv'
<1>1. now' \in Nat /\ {replayed', missed', overtaken'} \subseteq BOOLEAN
  BY Typed, Flags, Zenon
<1> QED  BY <1>1, RotationTypes, RequestMoves, Zenon

(* Requests are sent with the token of the client's jar. *)
LEMMA SendKeeps ==
  ASSUME RotationInv, NEW r \in Requests, NEW b \in BOOLEAN, Send(r, b)
  PROVE  RotationInv'
<1> DEFINE new == [Idle EXCEPT !.at = "sent", !.token = jar, !.logout = b]
<1>1. /\ jar # NoToken
      /\ request' = [request EXCEPT ![r] = new]
      /\ UNCHANGED <<now, row, jar, answered, replayed, missed>>
      /\ overtaken' \in BOOLEAN
  BY Flags, Zenon DEF Send
<1>2. jar \in Tokens
  BY <1>1, Typed, Zenon
<1>3. new \in RequestRecords /\ new.at = "sent" /\ new.token = jar
  BY <1>2, Zenon DEF Idle, RequestRecords, Labels, NoNumber, Tokens
<1>4. LoggedIn /\ jar.number # 0
  BY <1>1, Zenon DEF RotationInv, TokensFollowLogin
<1>5. now' \in Nat /\ {replayed', missed', overtaken'} \subseteq BOOLEAN
  BY <1>1, Typed, Flags, Zenon
<1> HIDE DEF new
<1> QED  BY <1>1, <1>3, <1>4, <1>5, RequestMoves, Zenon

(* replayRefreshToken answers with the token that follows the presented one, *)
(* or with none.                                                             *)
LEMMA ReplayKeeps ==
  ASSUME RotationInv, NEW r \in Requests, request[r].at # "idle", NEW at \in Nat,
         ReplayRefreshToken(r, row, at),
         UNCHANGED <<now, row, jar, answered, replayed, overtaken>>
  PROVE  RotationInv'
<1> DEFINE to == IF WindowOpen(row, request[r].token, at) THEN "answer" ELSE "replay"
           new == [request[r] EXCEPT !.at = to, !.now = at, !.answer = row.token]
<1>1. request[r] \in RequestRecords
  BY Typed, Zenon
<1>2. request' = [request EXCEPT ![r] = new]
  <2>1. request' = [request EXCEPT ![r].at = to, ![r].now = at, ![r].answer = row.token]
    BY Zenon DEF ReplayRefreshToken
  <2> QED  BY <2>1, <1>1, Typed, Zenon
<1>3. missed' \in BOOLEAN
  BY Flags, Zenon DEF ReplayRefreshToken, WindowOpen
<1>4. to \in Labels
  BY Zenon DEF Labels
<1>5. /\ new \in RequestRecords /\ new.at = to /\ new.answer = row.token
      /\ new.token = request[r].token
  BY <1>1, <1>4, Typed, Zenon DEF RequestRecords
<1>6. LoggedIn /\ request[r].token.number # 0
  BY Zenon DEF RotationInv, TokensFollowLogin
<1>7. to # "rotate"
  OBVIOUS
<1>8. to = "answer" => row.token.number = request[r].token.number + 1
  <2>1. to = "answer" => row.previous = request[r].token.number
    BY Zenon DEF WindowOpen
  <2>2. row.token.number = row.previous + 1
    BY <1>6, Zenon DEF RotationInv, PreviousIsBefore, LoggedIn
  <2> QED  BY <2>1, <2>2, Zenon
<1>9. now' \in Nat /\ {replayed', missed', overtaken'} \subseteq BOOLEAN
  BY <1>3, Typed, Flags, Zenon
<1> HIDE DEF new, to
<1> QED  BY <1>2, <1>5, <1>6, <1>7, <1>8, <1>9, RequestMoves, Zenon

(* rotateRefreshToken up to its comparison. *)
LEMMA ReadKeeps ==
  ASSUME RotationInv, NEW r \in Requests, ReadForRotation(r)
  PROVE  RotationInv'
<1>1. /\ request[r].at = "sent"
      /\ UNCHANGED <<now, row, jar, answered, replayed, overtaken>>
  BY Zenon DEF ReadForRotation
<1>2. CASE Refused(r)
  BY <1>1, <1>2, RequestEnds, Zenon DEF Refused
<1>3. CASE ReplayRefreshToken(r, row, now)
  BY <1>1, <1>3, ReplayKeeps, Typed, Zenon
<1>4. CASE /\ request' = [request EXCEPT ![r].at = "rotate", ![r].now = now,
                            ![r].absoluteExpiresAt = row.absoluteExpiresAt]
           /\ UNCHANGED missed
  <2> DEFINE new == [request[r] EXCEPT !.at = "rotate", !.now = now,
                       !.absoluteExpiresAt = row.absoluteExpiresAt]
  <2>1. request[r] \in RequestRecords
    BY Typed, Zenon
  <2>2. request' = [request EXCEPT ![r] = new]
    BY <1>4, <2>1, Typed, Zenon
  <2>3. /\ new \in RequestRecords /\ new.at = "rotate" /\ new.token = request[r].token
        /\ new.absoluteExpiresAt = row.absoluteExpiresAt
    BY <2>1, Typed, Zenon DEF RequestRecords, Labels
  <2>4. LoggedIn /\ request[r].token.number # 0
    BY <1>1, Zenon DEF RotationInv, TokensFollowLogin
  <2>5. now' \in Nat /\ {replayed', missed', overtaken'} \subseteq BOOLEAN
    BY <1>1, <1>4, Typed, Flags, Zenon
  <2> HIDE DEF new
  <2> QED  BY <1>1, <2>2, <2>3, <2>4, <2>5, RequestMoves, Zenon
<1> QED  BY <1>2, <1>3, <1>4, Zenon DEF ReadForRotation

(* The second reading after a lost exchange. *)
LEMMA ReloadKeeps ==
  ASSUME RotationInv, NEW r \in Requests, ReloadSession(r)
  PROVE  RotationInv'
<1>1. /\ request[r].at = "reload"
      /\ UNCHANGED <<now, row, jar, answered, replayed, overtaken>>
  BY Zenon DEF ReloadSession
<1>2. CASE Refused(r)
  BY <1>1, <1>2, RequestEnds, Zenon DEF Refused
<1>3. CASE ReplayRefreshToken(r, row, request[r].now)
  BY <1>1, <1>3, ReplayKeeps, Typed, Zenon
<1> QED  BY <1>2, <1>3, Zenon DEF ReloadSession

(* Logout's reading, and requests that fail. *)
LEMMA LogoutReadKeeps ==
  ASSUME RotationInv, NEW r \in Requests, ReadForLogout(r) \/ Fail(r)
  PROVE  RotationInv'
<1>1. UNCHANGED <<now, row, jar, answered, replayed, missed, overtaken>>
  BY Zenon DEF ReadForLogout, Fail
<1>2. CASE request' = [request EXCEPT ![r] = Idle]
  BY <1>1, <1>2, RequestEnds, Zenon
<1>3. CASE request[r].at = "sent" /\ request' = [request EXCEPT ![r].at = "logout"]
  <2> DEFINE new == [request[r] EXCEPT !.at = "logout"]
  <2>1. request[r] \in RequestRecords
    BY Typed, Zenon
  <2>2. request' = [request EXCEPT ![r] = new]
    BY <1>3, <2>1, Typed, Zenon
  <2>3. new \in RequestRecords /\ new.at = "logout" /\ new.token = request[r].token
    BY <2>1, Zenon DEF RequestRecords, Labels
  <2>4. LoggedIn /\ request[r].token.number # 0
    BY <1>3, Zenon DEF RotationInv, TokensFollowLogin
  <2>5. now' \in Nat /\ {replayed', missed', overtaken'} \subseteq BOOLEAN
    BY <1>1, Typed, Flags, Zenon
  <2> HIDE DEF new
  <2> QED  BY <1>1, <2>2, <2>3, <2>4, <2>5, RequestMoves, Zenon
<1> QED  BY <1>2, <1>3, Zenon DEF ReadForLogout, Fail

-----------------------------------------------------------------------------

(* A revocation changes nothing of the row but the mark. *)
LEMMA RevokedRow ==
  ASSUME RotationInv, row' = [row EXCEPT !.revoked = TRUE]
  PROVE  /\ row' \in Rows /\ row'.token = row.token /\ row'.previous = row.previous
         /\ row'.absoluteExpiresAt = row.absoluteExpiresAt /\ row'.expiresAt = row.expiresAt
         /\ row.revoked => row' = row
BY Typed, Zenon DEF Rows

(* RevokeSession, by whichever request or from another session. *)
LEMMA RevokeKeeps ==
  ASSUME RotationInv, LoggedIn, row' = [row EXCEPT !.revoked = TRUE],
         \/ request' = request
         \/ \E r \in Requests : request' = [request EXCEPT ![r] = Idle],
         UNCHANGED <<now, jar, answered, missed, overtaken>>, replayed' \in BOOLEAN
  PROVE  RotationInv'
<1>1. \A r \in Requests : request'[r] = request[r] \/ request'[r] = Idle
  BY Typed, Zenon
<1>2. request' \in [Requests -> RequestRecords]
  BY Typed, RotationTypes, Zenon
<1>3. /\ row' \in Rows /\ row'.token = row.token /\ row'.previous = row.previous
      /\ row'.absoluteExpiresAt = row.absoluteExpiresAt
  BY RevokedRow, Zenon
<1>4. RotationTypeOK'
  BY <1>2, <1>3, Zenon DEF RotationInv, RotationTypeOK
<1>5. PreviousIsBefore'
  BY <1>3, Zenon DEF RotationInv, PreviousIsBefore
<1>6. TokensFollowLogin'
  BY <1>1, <1>3, RotationTypes, Zenon DEF RotationInv, TokensFollowLogin, LoggedIn
<1>7. DeadlineIsCurrent'
  BY <1>1, <1>3, RotationTypes, Zenon DEF RotationInv, DeadlineIsCurrent
<1>8. OneSuccessor'
  BY <1>1, RotationTypes, Zenon DEF RotationInv, OneSuccessor
<1> QED  BY <1>4, <1>5, <1>6, <1>7, <1>8, Zenon DEF RotationInv

(* What a login writes into the row (createSessionWithStore). *)
LEMMA CreateKeeps ==
  ASSUME RotationInv, CreateSession
  PROVE  RotationInv'
<1> DEFINE token == IssueRefreshToken(1, now + IdleTTL, now)
<1>1. /\ row.token.number = 0
      /\ row' = [row EXCEPT !.token = token, !.expiresAt = now + IdleTTL,
                            !.absoluteExpiresAt = now + AbsoluteTTL]
      /\ jar' = token
      /\ UNCHANGED <<now, request, answered, replayed, missed, overtaken>>
  BY Zenon DEF CreateSession
<1>2. now \in Nat /\ now + IdleTTL \in Nat /\ now + AbsoluteTTL \in Nat /\ 1 \in Nat
  BY Typed, RotationTypes
<1>3. token \in Tokens /\ token.number = 1
  BY <1>2, IssuedToken, Zenon
<1> HIDE DEF token
<1>4. row' \in Rows /\ row'.token = token /\ row'.previous = row.previous
  BY <1>1, <1>2, <1>3, Typed, Zenon DEF Rows
<1>5. \A r \in Requests : request[r].at = "idle"
  BY <1>1, Zenon DEF RotationInv, TokensFollowLogin, LoggedIn
<1>6. row.previous = 0
  BY <1>1, Zenon DEF RotationInv, TokensFollowLogin, LoggedIn
<1>7. RotationTypeOK'
  BY <1>1, <1>3, <1>4, Zenon DEF RotationInv, RotationTypeOK
<1>8. PreviousIsBefore'
  BY <1>3, <1>4, <1>6 DEF PreviousIsBefore
<1>9. TokensFollowLogin'
  BY <1>1, <1>3, <1>4, <1>5 DEF TokensFollowLogin, LoggedIn
<1>10. DeadlineIsCurrent' /\ OneSuccessor'
  BY <1>1, <1>5, Zenon DEF RotationInv, DeadlineIsCurrent, OneSuccessor
<1> QED  BY <1>7, <1>8, <1>9, <1>10, Zenon DEF RotationInv

(* What the exchange of a token writes into the row. *)
LEMMA RotatedRow ==
  ASSUME RotationInv, NEW r \in Requests, request[r].at = "rotate", row' = Rotated(r)
  PROVE  /\ row' \in Rows
         /\ row'.token = NextToken(r)
         /\ NextToken(r) \in Tokens /\ NextToken(r).number = row.token.number + 1
         /\ row'.previous = row.token.number
         /\ row'.absoluteExpiresAt = row.absoluteExpiresAt
         /\ row'.expiresAt <= row.absoluteExpiresAt
<1>1. request[r].absoluteExpiresAt = row.absoluteExpiresAt
  BY Zenon DEF RotationInv, DeadlineIsCurrent
<1>2. NextExpiry(r) \in Nat /\ NextExpiry(r) <= row.absoluteExpiresAt
  BY <1>1, Typed, RotationTypes DEF NextExpiry, Smaller
<1>3. NextToken(r) \in Tokens /\ NextToken(r).number = row.token.number + 1
  <2>1. row.token.number + 1 \in Nat /\ request[r].now \in Nat
    BY Typed
  <2> QED  BY <1>2, <2>1, IssuedToken, Zenon DEF NextToken
<1>4. request[r].now + RotationGrace \in Nat
  BY Typed, RotationTypes
<1>5. row' = [row EXCEPT !.token = NextToken(r), !.previous = row.token.number,
                         !.validUntil = request[r].now + RotationGrace,
                         !.expiresAt = NextExpiry(r)]
  BY Zenon DEF Rotated
<1>6. /\ row' \in Rows /\ row'.token = NextToken(r) /\ row'.previous = row.token.number
      /\ row'.absoluteExpiresAt = row.absoluteExpiresAt /\ row'.expiresAt = NextExpiry(r)
  BY <1>2, <1>3, <1>4, <1>5, Typed, Zenon DEF Rows
<1> QED  BY <1>2, <1>3, <1>6, Zenon

(* The conditional UPDATE: the request whose token is still current gets the *)
(* successor, any other reads the row again.                                 *)
LEMMA RotateKeeps ==
  ASSUME RotationInv, NEW r \in Requests, RotateRefreshToken(r)
  PROVE  RotationInv'
<1>1. /\ request[r].at = "rotate"
      /\ UNCHANGED <<now, jar, answered, replayed, missed, overtaken>>
  BY Zenon DEF RotateRefreshToken
<1>2. request[r] \in RequestRecords
  BY Typed, Zenon
<1>3. LoggedIn /\ request[r].token.number # 0
  BY <1>1, Zenon DEF RotationInv, TokensFollowLogin
<1>4. now' \in Nat /\ {replayed', missed', overtaken'} \subseteq BOOLEAN
  BY <1>1, Typed, Flags, Zenon
<1>5. CASE ~Rotates(r)
  <2> DEFINE new == [request[r] EXCEPT !.at = "reload"]
  <2>1. request' = [request EXCEPT ![r].at = "reload"] /\ UNCHANGED row
    BY <1>5, Zenon DEF RotateRefreshToken
  <2>2. request' = [request EXCEPT ![r] = new]
    BY <2>1, <1>2, Typed, Zenon
  <2>3. new \in RequestRecords /\ new.at = "reload" /\ new.token = request[r].token
    BY <1>2, Zenon DEF RequestRecords, Labels
  <2> HIDE DEF new
  <2> QED  BY <1>1, <1>3, <1>4, <2>1, <2>2, <2>3, RequestMoves, Zenon
<1>6. CASE Rotates(r)
  <2> DEFINE new == [request[r] EXCEPT !.at = "answer", !.answer = NextToken(r)]
  <2>1. /\ row' = Rotated(r)
        /\ request' = [request EXCEPT ![r].at = "answer", ![r].answer = NextToken(r)]
    BY <1>6, Zenon DEF RotateRefreshToken
  <2>2. /\ row' \in Rows /\ row'.token = NextToken(r) /\ row'.previous = row.token.number
        /\ NextToken(r) \in Tokens /\ NextToken(r).number = row.token.number + 1
        /\ row'.absoluteExpiresAt = row.absoluteExpiresAt
    BY <1>1, <2>1, RotatedRow, Zenon
  <2>3. request' = [request EXCEPT ![r] = new]
    BY <2>1, <1>2, Typed, Zenon
  <2>4. "answer" \in Labels
    BY Zenon DEF Labels
  <2>5. /\ new \in RequestRecords /\ new.at = "answer" /\ new.token = request[r].token
        /\ new.answer = NextToken(r)
    BY <1>2, <2>2, <2>4, Zenon DEF RequestRecords
  <2>6. row.token = request[r].token
    BY <1>6, Zenon DEF Rotates
  <2> HIDE DEF new
  <2>7. /\ request'[r] = new /\ request' \in [Requests -> RequestRecords]
        /\ \A o \in Requests : o # r => request'[o] = request[o]
    BY <2>3, <2>5, Typed, Zenon
  <2>8. RotationTypeOK'
    BY <1>1, <1>4, <2>2, <2>7, Zenon DEF RotationInv, RotationTypeOK
  <2>9. PreviousIsBefore'
    BY <2>2, Zenon DEF PreviousIsBefore
  <2>10. LoggedIn'
    BY <2>2, Typed DEF LoggedIn
  <2>11. TokensFollowLogin'
    <3>1. ASSUME NEW o \in Requests, request'[o].at # "idle"
          PROVE  request'[o].token.number # 0
      <4>1. CASE o = r
        BY <4>1, <2>5, <2>7, <1>3, Zenon
      <4>2. CASE o # r
        BY <3>1, <4>2, <2>7, Zenon DEF RotationInv, TokensFollowLogin
      <4> QED  BY <4>1, <4>2, Zenon
    <3> QED  BY <1>1, <2>10, <3>1, Zenon DEF RotationInv, TokensFollowLogin
  <2>12. DeadlineIsCurrent'
    BY <2>2, <2>5, <2>7, Zenon DEF RotationInv, DeadlineIsCurrent
  <2>13. OneSuccessor'
    BY <1>1, <2>2, <2>5, <2>6, <2>7, Zenon DEF RotationInv, OneSuccessor
  <2> QED  BY <2>8, <2>9, <2>11, <2>12, <2>13, Zenon DEF RotationInv
<1> QED  BY <1>5, <1>6, Zenon

(* An answer that is delivered or lost is one that was given. *)
LEMMA DeliverKeeps ==
  ASSUME RotationInv, NEW r \in Requests, NEW lost \in BOOLEAN, Deliver(r, lost)
  PROVE  RotationInv'
<1>1. /\ request[r].at = "answer"
      /\ answered' = answered \cup {<<request[r].token.number, request[r].answer.number>>}
      /\ jar' \in {jar, request[r].answer}
      /\ request' = [request EXCEPT ![r] = Idle]
      /\ UNCHANGED <<now, row, replayed, missed, overtaken>>
  BY Zenon DEF Deliver, Answer
<1>2. request[r].answer.number = request[r].token.number + 1
  BY <1>1, Zenon DEF RotationInv, OneSuccessor
<1>3. request[r].answer \in Tokens /\ request[r].answer.number \in Nat
  BY Typed, Zenon DEF RequestRecords, Tokens
<1>4. /\ request'[r] = Idle /\ request' \in [Requests -> RequestRecords]
      /\ \A o \in Requests : o # r => request'[o] = request[o]
  BY <1>1, Typed, RotationTypes, Zenon
<1>5. LoggedIn /\ request[r].token.number # 0 /\ request[r].token.number \in Nat
  BY <1>1, Typed, Zenon DEF RotationInv, TokensFollowLogin
<1>6. RotationTypeOK'
  <2>1. answered' \subseteq Nat \X Nat
    BY <1>1, <1>3, <1>5, Typed
  <2>2. jar' \in Tokens \cup {NoToken}
    BY <1>1, <1>3, Typed, Zenon
  <2> QED  BY <1>1, <1>4, <2>1, <2>2, Zenon DEF RotationInv, RotationTypeOK
<1>7. PreviousIsBefore'
  BY <1>1, Zenon DEF RotationInv, PreviousIsBefore
<1>8. TokensFollowLogin'
  <2>1. jar' # NoToken => jar'.number # 0
    BY <1>1, <1>2, <1>5 DEF RotationInv, TokensFollowLogin
  <2>2. LoggedIn'
    BY <1>1, <1>5, Zenon DEF LoggedIn
  <2>3. \A o \in Requests : request'[o].at # "idle" => request'[o].token.number # 0
    BY <1>4, RotationTypes, Zenon DEF RotationInv, TokensFollowLogin
  <2> QED  BY <2>1, <2>2, <2>3, Zenon DEF TokensFollowLogin
<1>9. DeadlineIsCurrent'
  BY <1>1, <1>4, RotationTypes, Zenon DEF RotationInv, DeadlineIsCurrent
<1>10. OneSuccessor'
  <2>1. \A a \in answered' : a[2] = a[1] + 1
    BY <1>1, <1>2 DEF RotationInv, OneSuccessor
  <2>2. \A o \in Requests : request'[o].at = "answer" =>
          request'[o].answer.number = request'[o].token.number + 1
    BY <1>4, RotationTypes, Zenon DEF RotationInv, OneSuccessor
  <2> QED  BY <2>1, <2>2, Zenon DEF OneSuccessor
<1> QED  BY <1>6, <1>7, <1>8, <1>9, <1>10, Zenon DEF RotationInv

-----------------------------------------------------------------------------

(* Before the login there is no token. *)
LEMMA RotationInitial == RotationInit => RotationInv
<1> SUFFICES ASSUME RotationInit
             PROVE  RotationInv
  OBVIOUS
<1>1. RotationTypeOK
  BY RotationTypes, Zenon DEF RotationInit, RotationTypeOK, Rows
<1>2. PreviousIsBefore /\ TokensFollowLogin /\ DeadlineIsCurrent /\ OneSuccessor
  BY RotationTypes, Zenon
  DEF RotationInit, PreviousIsBefore, TokensFollowLogin, DeadlineIsCurrent, OneSuccessor,
      LoggedIn, NoNumber
<1> QED  BY <1>1, <1>2, Zenon DEF RotationInv

(* Every step of the session's requests keeps the invariant. *)
LEMMA RotationSteps == RotationInv /\ [RotationNext]_rotationVars => RotationInv'
<1> SUFFICES ASSUME RotationInv, [RotationNext]_rotationVars
             PROVE  RotationInv'
  OBVIOUS
<1>1. ASSUME UNCHANGED <<row, jar, request, answered, replayed, missed, overtaken>>,
             now' \in Nat
      PROVE  RotationInv'
  BY <1>1, Zenon DEF RotationInv, RotationTypeOK, PreviousIsBefore, TokensFollowLogin,
              DeadlineIsCurrent, OneSuccessor, LoggedIn
<1>2. CASE UNCHANGED rotationVars
  BY <1>1, <1>2, Typed, Zenon DEF rotationVars
<1>3. CASE Tick
  BY <1>1, <1>3, Typed DEF Tick
<1>4. CASE RevokedElsewhere
  BY <1>4, RevokeKeeps, Flags, Zenon DEF RevokedElsewhere, LoggedIn
<1>5. ASSUME NEW r \in Requests, RevokeReplayed(r) \/ RevokeSession(r)
      PROVE  RotationInv'
  <2>1. /\ row' = [row EXCEPT !.revoked = TRUE]
        /\ request' = [request EXCEPT ![r] = Idle]
        /\ UNCHANGED <<now, jar, answered, missed, overtaken>>
        /\ replayed' \in BOOLEAN
    BY <1>5, Flags, Zenon DEF RevokeReplayed, RevokeSession
  <2>2. LoggedIn
    BY <1>5, Zenon DEF RotationInv, TokensFollowLogin, RevokeReplayed, RevokeSession
  <2> QED  BY <2>1, <2>2, RevokeKeeps, Zenon
<1> QED
  BY <1>2, <1>3, <1>4, <1>5, CreateKeeps, SendKeeps, DeliverKeeps, ReadKeeps, RotateKeeps,
     ReloadKeeps, LogoutReadKeeps, Zenon
  DEF RotationNext

(* Whatever requests run at the same time, a refresh token is only exchanged *)
(* for its one successor, for any number of requests and rotations           *)
(* (rotateRefreshToken and replayRefreshToken, auth.go).                     *)
THEOREM TokensHaveOneSuccessor == RotationSpec => []OneSuccessor
<1>1. RotationInv => OneSuccessor
  BY Zenon DEF RotationInv
<1> QED  BY RotationInitial, RotationSteps, <1>1, PTL DEF RotationSpec

(* A revoked session is never touched again and no rotation passes the       *)
(* absolute deadline, however the statements of the requests interleave      *)
(* (RotateRefreshTokenStatement).                                            *)
THEOREM RevokedForGood == RotationSpec => RevocationIsFinal
<1> DEFINE Final ==
      /\ row.revoked => row' = row
      /\ row.token.number # 0 =>
           /\ row'.absoluteExpiresAt = row.absoluteExpiresAt
           /\ row'.expiresAt # row.expiresAt => row'.expiresAt <= row.absoluteExpiresAt
<1>1. RotationInv /\ [RotationNext]_rotationVars => [Final]_rotationVars
  <2> SUFFICES ASSUME RotationInv, RotationNext
               PROVE  Final
    OBVIOUS
  <2>1. CASE row' = row
    BY <2>1, Zenon
  <2>2. CASE row' = [row EXCEPT !.revoked = TRUE]
    BY <2>2, RevokedRow, Zenon
  <2>3. CASE CreateSession
    <3>1. row.token.number = 0
      BY <2>3, Zenon DEF CreateSession
    <3>2. ~row.revoked
      BY <3>1, Zenon DEF RotationInv, TokensFollowLogin, LoggedIn
    <3> QED  BY <3>1, <3>2, Zenon
  <2>4. ASSUME NEW r \in Requests, request[r].at = "rotate", Rotates(r), row' = Rotated(r)
        PROVE  Final
    BY <2>4, RotatedRow, Zenon DEF Rotates
  <2> QED
    BY <2>1, <2>2, <2>3, <2>4, Zenon
    DEF RotationNext, RevokedElsewhere, Tick, Send, Deliver, ReadForRotation,
        RotateRefreshToken, ReloadSession, RevokeReplayed, Fail, ReadForLogout, RevokeSession
<1> QED  BY RotationInitial, RotationSteps, <1>1, PTL DEF RotationSpec, RevocationIsFinal

-----------------------------------------------------------------------------
(* A client that does not overtake itself has one token under way.  Every  *)
(* request holds the row's current token or the one before, and the latter *)
(* is taken for a replay only outside of its window.                       *)

Fits(r) ==
  request[r].at # "idle" =>
    /\ request[r].token = row.token \/ row.previous = request[r].token.number
    /\ request[r].token = row.token => jar = row.token
    /\ request[r].at = "answer" =>
         request[r].answer = row.token /\ row.previous = request[r].token.number
    /\ request[r].at = "reload" => row.revoked \/ row.previous = request[r].token.number
    /\ request[r].at = "replay" => missed

OneToken ==
  \A r, o \in Requests :
    request[r].at # "idle" /\ request[o].at # "idle" => request[r].token = request[o].token

Behaves ==
  /\ jar # NoToken => jar = row.token \/ row.previous = jar.number
  /\ OneToken
  /\ \A r \in Requests : Fits(r)

HonestInv == HonestClientKeepsSession /\ (overtaken \/ Behaves)

(* A request that goes on with its token, or ends, keeps the client honest. *)
LEMMA HonestMove ==
  ASSUME RotationInv, Behaves, NEW r \in Requests, NEW new,
         request' = [request EXCEPT ![r] = new],
         UNCHANGED <<row, jar>>, missed => missed',
         new.at # "idle" => request[r].at # "idle" /\ new.token = request[r].token,
         new.at = "answer" => new.answer = row.token /\ row.previous = request[r].token.number,
         new.at = "reload" => row.revoked \/ row.previous = request[r].token.number,
         new.at = "replay" => missed'
  PROVE  Behaves'
<1>1. request'[r] = new /\ \A o \in Requests : o # r => request'[o] = request[o]
  BY Typed, Zenon
<1>2. \A o \in Requests : request'[o].at # "idle" =>
        request[o].at # "idle" /\ request'[o].token = request[o].token
  BY <1>1, Zenon
<1>3. OneToken'
  BY <1>2, SMTT(20) DEF Behaves, OneToken
<1>4. ASSUME NEW o \in Requests PROVE Fits(o)'
  <2>1. CASE o = r
    BY <2>1, <1>1 DEF Behaves, Fits
  <2>2. CASE o # r
    BY <2>2, <1>1, Zenon DEF Behaves, Fits
  <2> QED  BY <2>1, <2>2, Zenon
<1> QED  BY <1>3, <1>4, Zenon DEF Behaves

(* replayRefreshToken of an honest client: a replay means a missed window. *)
LEMMA HonestReplay ==
  ASSUME RotationInv, Behaves, NEW r \in Requests, request[r].at # "idle", NEW at \in Nat,
         ReplayRefreshToken(r, row, at), UNCHANGED <<row, jar>>,
         row.previous = request[r].token.number
  PROVE  Behaves'
<1> DEFINE to == IF WindowOpen(row, request[r].token, at) THEN "answer" ELSE "replay"
           new == [request[r] EXCEPT !.at = to, !.now = at, !.answer = row.token]
<1>1. request[r] \in RequestRecords
  BY Typed, Zenon
<1>2. request' = [request EXCEPT ![r] = new]
  <2>1. request' = [request EXCEPT ![r].at = to, ![r].now = at, ![r].answer = row.token]
    BY Zenon DEF ReplayRefreshToken
  <2> QED  BY <2>1, <1>1, Typed, Zenon
<1>3. new.at = to /\ new.answer = row.token /\ new.token = request[r].token
  BY <1>1, Zenon DEF RequestRecords
<1>4. to = "replay" => missed'
  BY Zenon DEF ReplayRefreshToken
<1>5. missed => missed'
  BY Zenon DEF ReplayRefreshToken
<1>6. to \in {"answer", "replay"}
  OBVIOUS
<1> HIDE DEF new, to
<1> QED  BY <1>2, <1>3, <1>4, <1>5, <1>6, HonestMove, Zenon

(* The requests of an honest client, up to the exchange of the token. *)
LEMMA HonestReads ==
  ASSUME RotationInv, Behaves, NEW r \in Requests,
         \/ ReadForRotation(r) \/ ReloadSession(r) \/ ReadForLogout(r) \/ Fail(r)
  PROVE  Behaves'
<1>1. UNCHANGED <<row, jar>> /\ request[r].at # "idle"
  BY Zenon DEF ReadForRotation, ReloadSession, ReadForLogout, Fail
<1>2. request[r] \in RequestRecords
  BY Typed, Zenon
<1>3. Fits(r)
  BY Zenon DEF Behaves
<1>4. CASE request' = [request EXCEPT ![r] = Idle] /\ UNCHANGED missed
  BY <1>1, <1>4, RotationTypes, HonestMove, Zenon
<1>5. CASE request' = [request EXCEPT ![r].at = "logout"] /\ UNCHANGED missed
  <2> DEFINE new == [request[r] EXCEPT !.at = "logout"]
  <2>1. request' = [request EXCEPT ![r] = new]
    BY <1>2, <1>5, Typed, Zenon
  <2>2. new.at = "logout" /\ new.token = request[r].token
    BY <1>2, Zenon DEF RequestRecords
  <2> HIDE DEF new
  <2> QED  BY <1>1, <1>5, <2>1, <2>2, HonestMove, Zenon
<1>6. CASE /\ request' = [request EXCEPT ![r].at = "rotate", ![r].now = now,
                            ![r].absoluteExpiresAt = row.absoluteExpiresAt]
           /\ UNCHANGED missed
  <2> DEFINE new == [request[r] EXCEPT !.at = "rotate", !.now = now,
                       !.absoluteExpiresAt = row.absoluteExpiresAt]
  <2>1. request' = [request EXCEPT ![r] = new]
    BY <1>2, <1>6, Typed, Zenon
  <2>2. new.at = "rotate" /\ new.token = request[r].token
    BY <1>2, Zenon DEF RequestRecords
  <2> HIDE DEF new
  <2> QED  BY <1>1, <1>6, <2>1, <2>2, HonestMove, Zenon
<1>7. CASE ReadForRotation(r) /\ row.token # request[r].token
           /\ ReplayRefreshToken(r, row, now)
  BY <1>1, <1>3, <1>7, Typed, HonestReplay, Zenon DEF Fits
<1>8. CASE ReloadSession(r) /\ SessionLives(row, request[r].now)
           /\ ReplayRefreshToken(r, row, request[r].now)
  <2>1. row.previous = request[r].token.number
    BY <1>1, <1>3, <1>8, Zenon DEF Fits, ReloadSession, SessionLives
  <2> QED  BY <1>1, <1>8, <2>1, Typed, HonestReplay, Zenon
<1>9. CASE ReadForRotation(r)
  BY <1>4, <1>6, <1>7, <1>9, Zenon DEF ReadForRotation, Refused
<1>10. CASE ReloadSession(r)
  BY <1>4, <1>8, <1>10, Zenon DEF ReloadSession, Refused
<1> QED  BY <1>4, <1>5, <1>9, <1>10, Zenon DEF ReadForLogout, Fail

(* A client that sends its token while no other is under way stays honest. *)
LEMMA HonestSend ==
  ASSUME RotationInv, Behaves, NEW r \in Requests, NEW b \in BOOLEAN, Send(r, b), ~overtaken'
  PROVE  Behaves'
<1> DEFINE new == [Idle EXCEPT !.at = "sent", !.token = jar, !.logout = b]
<1>1. /\ jar # NoToken /\ request[r].at = "idle"
      /\ request' = [request EXCEPT ![r] = new]
      /\ UNCHANGED <<row, jar, missed>>
      /\ \A o \in Requests : request[o].at # "idle" => request[o].token = jar
  BY Zenon DEF Send
<1>2. new.at = "sent" /\ new.token = jar
  BY Zenon DEF Idle
<1> HIDE DEF new
<1>3. request'[r] = new /\ \A o \in Requests : o # r => request'[o] = request[o]
  BY <1>1, Typed, Zenon
<1>4. \A o \in Requests : request'[o].at # "idle" => request'[o].token = jar
  BY <1>1, <1>2, <1>3, Zenon
<1>5. OneToken'
  BY <1>4, Zenon DEF OneToken
<1>6. ASSUME NEW o \in Requests PROVE Fits(o)'
  <2>1. CASE o = r
    BY <2>1, <1>1, <1>2, <1>3, Zenon DEF Behaves, Fits
  <2>2. CASE o # r
    BY <2>2, <1>1, <1>3, Zenon DEF Behaves, Fits
  <2> QED  BY <2>1, <2>2, Zenon
<1> QED  BY <1>1, <1>5, <1>6, Zenon DEF Behaves

(* The exchange makes the one token under way the previous one. *)
LEMMA HonestRotate ==
  ASSUME RotationInv, Behaves, NEW r \in Requests, RotateRefreshToken(r)
  PROVE  Behaves'
<1>1. request[r].at = "rotate" /\ UNCHANGED <<jar, missed>> /\ request[r] \in RequestRecords
  BY Typed, Zenon DEF RotateRefreshToken
<1>2. CASE ~Rotates(r)
  <2> DEFINE new == [request[r] EXCEPT !.at = "reload"]
  <2>1. request' = [request EXCEPT ![r].at = "reload"] /\ UNCHANGED row
    BY <1>2, Zenon DEF RotateRefreshToken
  <2>2. request' = [request EXCEPT ![r] = new]
    BY <2>1, <1>1, Typed, Zenon
  <2>3. new.at = "reload" /\ new.token = request[r].token
    BY <1>1, Zenon DEF RequestRecords
  <2>4. row.revoked \/ row.previous = request[r].token.number
    BY <1>1, <1>2, Zenon DEF Behaves, Fits, Rotates
  <2> HIDE DEF new
  <2> QED  BY <1>1, <2>1, <2>2, <2>3, <2>4, HonestMove, Zenon
<1>3. CASE Rotates(r)
  <2> DEFINE T == request[r].token
             new == [request[r] EXCEPT !.at = "answer", !.answer = NextToken(r)]
  <2>1. /\ row' = Rotated(r)
        /\ request' = [request EXCEPT ![r].at = "answer", ![r].answer = NextToken(r)]
    BY <1>3, Zenon DEF RotateRefreshToken
  <2>2. /\ row'.token = NextToken(r) /\ row'.previous = row.token.number
        /\ NextToken(r).number = row.token.number + 1
    BY <1>1, <2>1, RotatedRow, Zenon
  <2>3. request' = [request EXCEPT ![r] = new]
    BY <2>1, <1>1, Typed, Zenon
  <2>4. new.at = "answer" /\ new.token = T /\ new.answer = NextToken(r)
    BY <1>1, Zenon DEF RequestRecords
  <2>5. T = row.token /\ T.number \in Nat
    BY <1>3, Typed, Zenon DEF Rotates
  <2>6. row.token.number = row.previous + 1
    BY <1>1, Zenon DEF RotationInv, TokensFollowLogin, LoggedIn, PreviousIsBefore
  <2>7. jar = T
    BY <1>1, <2>5, Zenon DEF Behaves, Fits
  <2>8. \A o \in Requests : request[o].at # "idle" => request[o].token = T
    BY <1>1, Zenon DEF Behaves, OneToken
  <2> HIDE DEF new, T
  <2>9. request'[r] = new /\ \A o \in Requests : o # r => request'[o] = request[o]
    BY <2>3, Typed, Zenon
  <2>10. \A o \in Requests : request'[o].at # "idle" => request'[o].token = T
    BY <2>4, <2>8, <2>9, Zenon
  <2>11. OneToken'
    BY <2>10, Zenon DEF OneToken
  <2>12. row'.previous = T.number /\ row'.token # T
    BY <2>2, <2>5
  <2>13. ASSUME NEW o \in Requests PROVE Fits(o)'
    <3>1. CASE o = r
      <4>1. /\ request'[o].at = "answer" /\ request'[o].token = T
            /\ request'[o].answer = row'.token
        BY <3>1, <2>2, <2>4, <2>9, Zenon
      <4> QED  BY <4>1, <2>12, Zenon DEF Fits
    <3>2. CASE o # r
      <4>1. request'[o] = request[o]
        BY <3>2, <2>9, Zenon
      <4>2. request[o].at # "answer"
        BY <2>5, <2>6, <2>8, Typed DEF Behaves, Fits
      <4> QED  BY <1>1, <4>1, <4>2, <2>8, <2>12, Zenon DEF Behaves, Fits
    <3> QED  BY <3>1, <3>2, Zenon
  <2> QED  BY <1>1, <2>7, <2>11, <2>12, <2>13, Zenon DEF Behaves
<1> QED  BY <1>2, <1>3, Zenon

(* An answer hands the client the row's current token. *)
LEMMA HonestDeliver ==
  ASSUME RotationInv, Behaves, NEW r \in Requests, NEW lost \in BOOLEAN, Deliver(r, lost)
  PROVE  Behaves'
<1>1. /\ request[r].at = "answer"
      /\ jar' \in {jar, request[r].answer}
      /\ request' = [request EXCEPT ![r] = Idle]
      /\ UNCHANGED <<row, missed>>
  BY Zenon DEF Deliver
<1>2. jar' \in {jar, row.token}
  BY <1>1, Zenon DEF Behaves, Fits
<1>3. request'[r] = Idle /\ \A o \in Requests : o # r => request'[o] = request[o]
  BY <1>1, Typed, Zenon
<1>4. OneToken'
  BY <1>3, RotationTypes, Zenon DEF Behaves, OneToken
<1>5. ASSUME NEW o \in Requests PROVE Fits(o)'
  <2>1. CASE o = r
    BY <2>1, <1>3, RotationTypes, Zenon DEF Fits
  <2>2. CASE o # r
    BY <2>2, <1>1, <1>2, <1>3, Zenon DEF Behaves, Fits
  <2> QED  BY <2>1, <2>2, Zenon
<1> QED  BY <1>1, <1>2, <1>4, <1>5, Zenon DEF Behaves

(* A revocation leaves the tokens of the row alone. *)
LEMMA HonestRevoke ==
  ASSUME RotationInv, Behaves, row' = [row EXCEPT !.revoked = TRUE],
         \/ request' = request
         \/ \E r \in Requests : request' = [request EXCEPT ![r] = Idle],
         UNCHANGED <<jar, missed>>
  PROVE  Behaves'
<1>1. \A r \in Requests : request'[r] = request[r] \/ request'[r] = Idle
  BY Typed, Zenon
<1>2. row'.token = row.token /\ row'.previous = row.previous /\ row'.revoked = TRUE
  BY Typed, Zenon DEF Rows
<1>3. OneToken'
  BY <1>1, RotationTypes, Zenon DEF Behaves, OneToken
<1>4. ASSUME NEW o \in Requests PROVE Fits(o)'
  BY <1>1, <1>2, RotationTypes, Zenon DEF Behaves, Fits
<1> QED  BY <1>2, <1>3, <1>4, Zenon DEF Behaves

(* After the login the client holds the row's token and no request runs. *)
LEMMA HonestCreate ==
  ASSUME RotationInv, CreateSession
  PROVE  Behaves'
<1>1. /\ row.token.number = 0 /\ row'.token = jar' /\ UNCHANGED request
  <2>1. row \in Rows
    BY Typed, Zenon
  <2> QED  BY <2>1, Zenon DEF CreateSession, Rows
<1>2. \A r \in Requests : request'[r].at = "idle"
  BY <1>1, Zenon DEF RotationInv, TokensFollowLogin, LoggedIn
<1> QED  BY <1>1, <1>2, Zenon DEF Behaves, OneToken, Fits

(* Every step keeps the client honest or is one by which it overtakes itself. *)
LEMMA HonestSteps ==
  RotationInv /\ HonestInv /\ [RotationNext]_rotationVars => HonestInv'
<1> SUFFICES ASSUME RotationInv, HonestInv, [RotationNext]_rotationVars
             PROVE  HonestInv'
  OBVIOUS
<1>1. (overtaken => overtaken') /\ (missed => missed')
  <2>1. \/ UNCHANGED overtaken
        \/ \E r \in Requests, b \in BOOLEAN : Send(r, b)
    BY Zenon DEF RotationNext, rotationVars, CreateSession, RevokedElsewhere, Tick, Deliver,
           ReadForRotation, RotateRefreshToken, ReloadSession, RevokeReplayed, Fail,
           ReadForLogout, RevokeSession
  <2>2. overtaken => overtaken'
    BY <2>1, Zenon DEF Send
  <2>3. \/ UNCHANGED missed
        \/ \E r \in Requests : ReadForRotation(r) \/ ReloadSession(r)
    BY Zenon DEF RotationNext, rotationVars, CreateSession, RevokedElsewhere, Tick, Send, Deliver,
           RotateRefreshToken, RevokeReplayed, Fail, ReadForLogout, RevokeSession
  <2>4. missed => missed'
    BY <2>3, Zenon DEF ReadForRotation, ReloadSession, Refused, ReplayRefreshToken
  <2> QED  BY <2>2, <2>4, Zenon
<1>2. HonestClientKeepsSession'
  <2>1. CASE UNCHANGED replayed
    BY <1>1, <2>1, Zenon DEF HonestInv, HonestClientKeepsSession
  <2>2. CASE \E r \in Requests : RevokeReplayed(r)
    <3>1. PICK r \in Requests : request[r].at = "replay"
      BY <2>2, Zenon DEF RevokeReplayed
    <3>2. overtaken \/ missed
      BY <3>1, Zenon DEF HonestInv, Behaves, Fits
    <3> QED  BY <1>1, <3>2, Zenon DEF HonestClientKeepsSession
  <2> QED
    BY <2>1, <2>2, Zenon
    DEF RotationNext, rotationVars, CreateSession, RevokedElsewhere, Tick, Send, Deliver,
        ReadForRotation, RotateRefreshToken, ReloadSession, Fail, ReadForLogout, RevokeSession
<1>3. CASE ~overtaken'
  <2>1. Behaves
    BY <1>1, <1>3, Zenon DEF HonestInv
  <2>2. ASSUME UNCHANGED <<row, jar, request, missed>> PROVE Behaves'
    BY <2>1, <2>2, Zenon DEF Behaves, OneToken, Fits
  <2>3. ASSUME UNCHANGED rotationVars PROVE Behaves'
    BY <2>2, <2>3, Zenon DEF rotationVars
  <2>10. ASSUME Tick PROVE Behaves'
    BY <2>2, <2>10, Zenon DEF Tick
  <2>4. ASSUME RevokedElsewhere PROVE Behaves'
    BY <2>1, <2>4, HonestRevoke, Zenon DEF RevokedElsewhere
  <2>5. ASSUME NEW r \in Requests, RevokeReplayed(r) \/ RevokeSession(r)
        PROVE  Behaves'
    BY <2>1, <2>5, HonestRevoke, Zenon DEF RevokeReplayed, RevokeSession
  <2>6. ASSUME NEW r \in Requests, NEW b \in BOOLEAN, Send(r, b)
        PROVE  Behaves'
    BY <1>3, <2>1, <2>6, HonestSend, Zenon
  <2>7. ASSUME NEW r \in Requests, NEW b \in BOOLEAN, Deliver(r, b)
        PROVE  Behaves'
    BY <2>1, <2>7, HonestDeliver, Zenon
  <2>8. ASSUME NEW r \in Requests, RotateRefreshToken(r)
        PROVE  Behaves'
    BY <2>1, <2>8, HonestRotate, Zenon
  <2>9. ASSUME NEW r \in Requests,
               ReadForRotation(r) \/ ReloadSession(r) \/ ReadForLogout(r) \/ Fail(r)
        PROVE  Behaves'
    BY <2>1, <2>9, HonestReads, Zenon
  <2>11. Behaves'
    BY <2>3, <2>4, <2>5, <2>6, <2>7, <2>8, <2>9, <2>10, HonestCreate, Zenon DEF RotationNext
  <2> QED  BY <1>2, <2>11, Zenon DEF HonestInv
<1> QED  BY <1>2, <1>3, Zenon DEF HonestInv

(* A client that never overtakes itself loses its session to replay          *)
(* detection only after missing a window, whatever answers are lost and      *)
(* however its requests interleave (replayRefreshToken, auth.go).            *)
THEOREM HonestClientIsKept == RotationSpec => []HonestClientKeepsSession
<1>1. RotationInit => HonestInv
  BY RotationTypes
  DEF RotationInit, HonestInv, HonestClientKeepsSession, Behaves, OneToken, Fits
<1>2. HonestInv => HonestClientKeepsSession
  BY Zenon DEF HonestInv
<1> QED  BY RotationInitial, RotationSteps, <1>1, HonestSteps, <1>2, PTL DEF RotationSpec

-----------------------------------------------------------------------------
(***************************************************************************)
(* Registration.  An invitation is redeemed in the transaction that stores *)
(* the credential, by the call that reserved it (CallsAreComplete,         *)
(* ReservationsFit), and a user redeems one (RedeemedOnce); an address is  *)
(* verified with a token that was issued for it (TokensFollowCredentials). *)
(***************************************************************************)

(* Rows of registration_invites, of the User service's table, and the calls  *)
(* of Register.                                                              *)
InviteRows ==
  [reserved : Emails \cup {NoEmail}, held : BOOLEAN,
   redeemedBy : Users \cup {NoUser}, redeemedFor : Emails \cup {NoEmail},
   revoked : BOOLEAN, expired : BOOLEAN]

UserRows == [email : Emails \cup {NoEmail}, verified : BOOLEAN]

TokenRows == [state : {"none", "issued", "consumed"}, email : Emails \cup {NoEmail}]

RegistrationCalls ==
  [at : Steps, email : Emails \cup {NoEmail}, user : Users \cup {NoUser},
   invite : Invites \cup {NoInvite}, inTime : BOOLEAN]

(* A call past the User service has found its user, and where invitations    *)
(* are asked for it holds one.                                               *)
CallsAreComplete ==
  \A r \in Registrations :
    registration[r].at # "idle" =>
      /\ registration[r].email \in Emails
      /\ mode = "invite_only" => registration[r].invite # NoInvite
      /\ registration[r].at # "create" => registration[r].user \in Users

(* An invitation is reserved for an email it may be used with.               *)
ReservationsFit ==
  \A i \in Invites :
    invite[i].reserved # NoEmail => BoundEmail[i] \in {NoEmail, invite[i].reserved}

(* A user redeems one invitation.                                            *)
RedeemedOnce ==
  \A i, j \in Invites :
    invite[i].redeemedBy # NoUser /\ invite[i].redeemedBy = invite[j].redeemedBy => i = j

(* Tokens are issued to registered users.                                    *)
TokensFollowCredentials ==
  \A u \in Users :
    verification[u].state = "issued" => u \in credential /\ verification[u].email \in Emails

(* What the two theorems about registration rest on.                         *)
RegistrationInv ==
  /\ RegistrationTypeOK /\ CallsAreComplete /\ ReservationsFit /\ RedeemedOnce
  /\ TokensFollowCredentials /\ InvitePerCredential /\ VerifiedAddressConfirmed

-----------------------------------------------------------------------------
(* The variables' types by the names of the rows they hold.                  *)
LEMMA RegistrationTypes ==
  RegistrationTypeOK <=>
    /\ mode \in Modes
    /\ invite \in [Invites -> InviteRows]
    /\ user \in [Users -> UserRows]
    /\ credential \subseteq Users
    /\ verification \in [Users -> TokenRows]
    /\ registration \in [Registrations -> RegistrationCalls]
    /\ addresses \in [Users -> SUBSET Emails]
    /\ confirmed \subseteq Users \X Emails
BY Zenon DEF RegistrationTypeOK, InviteRows, UserRows, TokenRows, RegistrationCalls

(* How calls of Register move: they are where they were, they end, or they   *)
(* go on with the same email and invitation (auth.go:49-133).                *)
LEMMA CallsStep ==
  ASSUME RegistrationTypeOK, CallsAreComplete, [RegistrationNext]_registrationVars
  PROVE  CallsAreComplete' /\ registration' \in [Registrations -> RegistrationCalls]
<1>t. /\ registration \in [Registrations -> RegistrationCalls]
      /\ NoRegistration \in RegistrationCalls /\ NoRegistration.at = "idle"
  BY RegistrationTypes, Zenon DEF NoRegistration, RegistrationCalls, Steps
<1>u. mode' = mode
  BY Zenon DEF RegistrationNext, registrationVars, ReservationLapses, InviteExpires,
         RevokeRegistrationInvite, UpdateEmail, RequestEmailVerification,
         ConfirmEmailVerification, Register, CreateUser, UserAlreadyExists, CheckCredential,
         ReleaseRegistrationInvite, ReadClock, StoreCredential, RegistrationFails
(* What a call may become.                                                   *)
<1> DEFINE Fine(c) ==
      /\ c \in RegistrationCalls
      /\ c.at # "idle" =>
           /\ c.email \in Emails
           /\ mode = "invite_only" => c.invite # NoInvite
           /\ c.at # "create" => c.user \in Users
<1>f. \A r \in Registrations : Fine(registration[r])
  BY <1>t, Zenon DEF CallsAreComplete
<1>n. Fine(NoRegistration)
  BY <1>t, Zenon
<1>q. ASSUME NEW r \in Registrations, NEW c, Fine(c), registration' = [registration EXCEPT ![r] = c]
      PROVE  CallsAreComplete' /\ registration' \in [Registrations -> RegistrationCalls]
  <2>1. registration' \in [Registrations -> RegistrationCalls]
    BY <1>q, <1>t, Zenon
  <2>2. \A q \in Registrations : Fine(registration'[q])
    BY <1>q, <1>f, <1>t, Zenon
  <2> QED  BY <2>1, <2>2, <1>u, Zenon DEF CallsAreComplete
<1>k. ASSUME registration' = registration
      PROVE  CallsAreComplete' /\ registration' \in [Registrations -> RegistrationCalls]
  BY <1>k, <1>t, <1>u, Zenon DEF CallsAreComplete
<1>1. ASSUME NEW r \in Registrations, NEW e \in Emails, Register(r, e)
      PROVE  CallsAreComplete' /\ registration' \in [Registrations -> RegistrationCalls]
  <2>1. ASSUME NEW i \in Invites \cup {NoInvite}, mode = "invite_only" => i # NoInvite,
               Begin(r, e, i)
        PROVE  CallsAreComplete' /\ registration' \in [Registrations -> RegistrationCalls]
    <3> DEFINE c == [at |-> "create", email |-> e, user |-> NoUser, invite |-> i,
                     inTime |-> FALSE]
    <3>1. registration' = [registration EXCEPT ![r] = c]
      BY <2>1, Zenon DEF Begin
    <3>2. Fine(c)
      BY <2>1, Zenon DEF RegistrationCalls, Steps
    <3> HIDE DEF c, Fine
    <3> QED  BY <3>1, <3>2, <1>q, Zenon
  <2>2. CASE mode = "open"
    <3>1. Begin(r, e, NoInvite)
      BY <1>1, <2>2, Zenon DEF Register
    <3> QED  BY <3>1, <2>1, <2>2, Zenon
  <2>3. CASE mode # "open"
    <3>1. PICK i \in Invites : Begin(r, e, i)
      BY <1>1, <2>3, Zenon DEF Register
    <3>2. i # NoInvite
      BY RegistrationConstants, Zenon
    <3> QED  BY <3>1, <3>2, <2>1, Zenon
  <2> QED  BY <2>2, <2>3, Zenon
<1>2. ASSUME NEW r \in Registrations, NEW u \in Users, NEW lost \in BOOLEAN, CreateUser(r, u, lost)
      PROVE  CallsAreComplete' /\ registration' \in [Registrations -> RegistrationCalls]
  <2> DEFINE c == [registration[r] EXCEPT !.at = "transact", !.user = u]
  <2>1. registration[r] \in RegistrationCalls /\ Fine(registration[r])
        /\ registration[r].at = "create"
    BY <1>2, <1>t, <1>f, Zenon DEF CreateUser
  <2>2. Fine(c)
    BY <2>1, Zenon DEF RegistrationCalls, Steps
  <2>3. CASE lost
    BY <1>2, <2>3, <1>n, <1>q, Zenon DEF CreateUser, End
  <2>4. CASE ~lost
    <3>1. registration' = [registration EXCEPT ![r].at = "transact", ![r].user = u]
      BY <1>2, <2>4, Zenon DEF CreateUser
    <3>2. registration' = [registration EXCEPT ![r] = c]
      BY <3>1, <1>t, Zenon DEF RegistrationCalls
    <3> HIDE DEF c, Fine
    <3> QED  BY <3>2, <2>2, <1>q, Zenon
  <2> QED  BY <2>3, <2>4, Zenon
<1>3. ASSUME NEW r \in Registrations, UserAlreadyExists(r)
      PROVE  CallsAreComplete' /\ registration' \in [Registrations -> RegistrationCalls]
  <2>1. registration[r] \in RegistrationCalls /\ Fine(registration[r])
        /\ registration[r].at = "create"
    BY <1>3, <1>t, <1>f, Zenon DEF UserAlreadyExists
  <2>2. CASE \E u \in Users : user[u].email = registration[r].email
    <3> DEFINE u == CHOOSE u \in Users : user[u].email = registration[r].email
               c == [registration[r] EXCEPT !.at = "check", !.user = u]
    <3>0. u \in Users
      BY <2>2, Zenon
    <3>1. registration' = [registration EXCEPT ![r].at = "check", ![r].user = u]
      BY <1>3, <2>2, Zenon DEF UserAlreadyExists
    <3> HIDE DEF u
    <3>2. registration' = [registration EXCEPT ![r] = c]
      BY <3>1, <1>t, Zenon DEF RegistrationCalls
    <3>3. Fine(c)
      BY <2>1, <3>0, Zenon DEF RegistrationCalls, Steps
    <3> HIDE DEF c, Fine
    <3> QED  BY <3>2, <3>3, <1>q, Zenon
  <2>3. CASE ~\E u \in Users : user[u].email = registration[r].email
    BY <1>3, <2>3, <1>n, <1>q, Zenon DEF UserAlreadyExists, End
  <2> QED  BY <2>2, <2>3, Zenon
<1>4. ASSUME NEW r \in Registrations, CheckCredential(r)
      PROVE  CallsAreComplete' /\ registration' \in [Registrations -> RegistrationCalls]
  <2> DEFINE at == IF registration[r].user \in credential THEN "release" ELSE "transact"
             c == [registration[r] EXCEPT !.at = at]
  <2>1. registration[r] \in RegistrationCalls /\ Fine(registration[r])
        /\ registration[r].at = "check"
    BY <1>4, <1>t, <1>f, Zenon DEF CheckCredential
  <2>2. registration' = [registration EXCEPT ![r].at = at]
    BY <1>4, Zenon DEF CheckCredential, Continue
  <2>3. at \in {"release", "transact"}
    OBVIOUS
  <2> HIDE DEF at
  <2>4. registration' = [registration EXCEPT ![r] = c]
    BY <2>2, <1>t, Zenon DEF RegistrationCalls
  <2>5. Fine(c)
    BY <2>1, <2>3, Zenon DEF RegistrationCalls, Steps
  <2> HIDE DEF c, Fine
  <2> QED  BY <2>4, <2>5, <1>q, Zenon
<1>5. ASSUME NEW r \in Registrations, ReadClock(r)
      PROVE  CallsAreComplete' /\ registration' \in [Registrations -> RegistrationCalls]
  <2> DEFINE c == [registration[r] EXCEPT !.inTime = TRUE]
  <2>1. registration[r] \in RegistrationCalls /\ Fine(registration[r])
    BY <1>t, <1>f, Zenon
  <2>2. registration' = [registration EXCEPT ![r].inTime = TRUE]
    BY <1>5, Zenon DEF ReadClock
  <2>4. registration' = [registration EXCEPT ![r] = c]
    BY <2>2, <1>t, Zenon DEF RegistrationCalls
  <2>5. Fine(c)
    BY <2>1, Zenon DEF RegistrationCalls
  <2> HIDE DEF c, Fine
  <2> QED  BY <2>4, <2>5, <1>q, Zenon
<1>6. ASSUME NEW r \in Registrations,
             ReleaseRegistrationInvite(r) \/ StoreCredential(r) \/ RegistrationFails(r)
      PROVE  CallsAreComplete' /\ registration' \in [Registrations -> RegistrationCalls]
  BY <1>6, <1>n, <1>q, Zenon DEF ReleaseRegistrationInvite, StoreCredential, RegistrationFails, End
<1>7. CASE UNCHANGED registration
  BY <1>7, <1>k, Zenon
<1> QED
  BY <1>1, <1>2, <1>3, <1>4, <1>5, <1>6, <1>7, Zenon
  DEF RegistrationNext, registrationVars, ReservationLapses, InviteExpires,
      RevokeRegistrationInvite, UpdateEmail, RequestEmailVerification, ConfirmEmailVerification

(* An invitation is redeemed by the transaction of Register, for the email   *)
(* it is reserved for; in every other step it is reserved, released, revoked *)
(* or expired, and never once it was redeemed (invite statements of          *)
(* store/queries.go).                                                        *)
Redeeming(r, i) ==
  /\ registration[r].at = "transact" /\ registration[r].invite = i
  /\ registration[r].user \notin credential /\ Redeems(r, i)
  /\ credential' = credential \cup {registration[r].user}
  /\ invite'[i].redeemedBy = registration[r].user
  /\ invite'[i].redeemedFor = registration[r].email
  /\ invite'[i].reserved = invite[i].reserved /\ invite'[i].revoked = invite[i].revoked

Keeping(i) ==
  /\ invite'[i].redeemedBy = invite[i].redeemedBy
  /\ invite'[i].redeemedFor = invite[i].redeemedFor
  /\ \/ invite'[i].reserved = invite[i].reserved /\ invite'[i].revoked = invite[i].revoked
     \/ /\ invite[i].redeemedBy = NoUser
        /\ \/ invite'[i].reserved = invite[i].reserved
           \/ invite'[i].reserved = NoEmail
           \/ BoundEmail[i] \in {NoEmail, invite'[i].reserved}

(* Every step redeems an invitation or keeps what it stands for.             *)
LEMMA InvitesStep ==
  ASSUME RegistrationTypeOK, [RegistrationNext]_registrationVars
  PROVE  /\ invite' \in [Invites -> InviteRows]
         /\ \/ \A i \in Invites : Keeping(i)
            \/ \E r \in Registrations, i \in Invites :
                 Redeeming(r, i) /\ \A j \in Invites \ {i} : Keeping(j)
<1>t. /\ invite \in [Invites -> InviteRows]
      /\ registration \in [Registrations -> RegistrationCalls]
  BY RegistrationTypes, Zenon
<1>r. \A r \in Registrations : /\ registration[r].email \in Emails \cup {NoEmail}
                               /\ registration[r].user \in Users \cup {NoUser}
                               /\ registration[r].invite \in Invites \cup {NoInvite}
  BY <1>t, Zenon DEF RegistrationCalls
<1>k. CASE UNCHANGED invite
  BY <1>k, <1>t, Zenon DEF Keeping
<1>q. ASSUME NEW i \in Invites, NEW c \in InviteRows, invite' = [invite EXCEPT ![i] = c]
      PROVE  /\ invite' \in [Invites -> InviteRows]
             /\ invite'[i] = c
             /\ \A j \in Invites \ {i} : Keeping(j)
  BY <1>q, <1>t, Zenon DEF Keeping
<1>1. ASSUME NEW r \in Registrations, NEW e \in Emails, Register(r, e)
      PROVE  /\ invite' \in [Invites -> InviteRows]
             /\ \A i \in Invites : Keeping(i)
  <2>1. CASE UNCHANGED invite
    BY <2>1, <1>t, Zenon DEF Keeping
  <2>2. CASE ~UNCHANGED invite
    <3>1. PICK i \in Invites :
            /\ Reservable(i, e)
            /\ invite' = [invite EXCEPT ![i].reserved = e, ![i].held = TRUE]
      BY <1>1, <2>2, Zenon DEF Register
    <3> DEFINE c == [invite[i] EXCEPT !.reserved = e, !.held = TRUE]
    <3>2. /\ c \in InviteRows /\ c.reserved = e
          /\ c.redeemedBy = invite[i].redeemedBy /\ c.redeemedFor = invite[i].redeemedFor
      BY <1>t, Zenon DEF InviteRows
    <3>3. invite' = [invite EXCEPT ![i] = c]
      BY <3>1, <1>t, Zenon DEF InviteRows
    <3> HIDE DEF c
    <3>4. Keeping(i)
      BY <3>1, <3>2, <3>3, <1>q, Zenon DEF Keeping, Reservable
    <3> QED  BY <3>2, <3>3, <3>4, <1>q, Zenon
  <2> QED  BY <2>1, <2>2, Zenon
<1>2. ASSUME NEW r \in Registrations, ReleaseRegistrationInvite(r)
      PROVE  /\ invite' \in [Invites -> InviteRows]
             /\ \A i \in Invites : Keeping(i)
  <2>1. CASE UNCHANGED invite
    BY <2>1, <1>t, Zenon DEF Keeping
  <2>2. CASE ~UNCHANGED invite
    <3> DEFINE i == registration[r].invite
    <3>1. /\ i # NoInvite /\ invite[i].redeemedBy = NoUser
          /\ invite' = [invite EXCEPT ![i].reserved = NoEmail, ![i].held = FALSE]
      BY <1>2, <2>2, Zenon DEF ReleaseRegistrationInvite
    <3>i. i \in Invites
      BY <3>1, <1>r, Zenon
    <3> HIDE DEF i
    <3> DEFINE c == [invite[i] EXCEPT !.reserved = NoEmail, !.held = FALSE]
    <3>2. /\ c \in InviteRows /\ c.reserved = NoEmail
          /\ c.redeemedBy = invite[i].redeemedBy /\ c.redeemedFor = invite[i].redeemedFor
      BY <1>t, <3>i, Zenon DEF InviteRows
    <3>3. invite' = [invite EXCEPT ![i] = c]
      BY <3>1, <1>t, <3>i, Zenon DEF InviteRows
    <3> HIDE DEF c
    <3>4. Keeping(i)
      BY <3>1, <3>2, <3>3, <3>i, <1>q, Zenon DEF Keeping
    <3> QED  BY <3>2, <3>3, <3>4, <3>i, <1>q, Zenon
  <2> QED  BY <2>1, <2>2, Zenon
<1>3. ASSUME NEW r \in Registrations, StoreCredential(r)
      PROVE  /\ invite' \in [Invites -> InviteRows]
             /\ \/ \A i \in Invites : Keeping(i)
                \/ \E i \in Invites : Redeeming(r, i) /\ \A j \in Invites \ {i} : Keeping(j)
  <2>1. CASE UNCHANGED invite
    BY <2>1, <1>t, Zenon DEF Keeping
  <2>2. CASE ~UNCHANGED invite
    <3> DEFINE i == registration[r].invite
               b == registration[r].user
               e == registration[r].email
    <3>1. /\ i # NoInvite /\ b \notin credential /\ Redeems(r, i)
          /\ credential' = credential \cup {b}
          /\ registration[r].at = "transact"
          /\ invite' = [invite EXCEPT ![i].redeemedBy = b, ![i].redeemedFor = e]
      BY <1>3, <2>2, Zenon DEF StoreCredential, Redeem
    <3>i. i \in Invites /\ b \in Users \cup {NoUser} /\ e \in Emails \cup {NoEmail}
      BY <3>1, <1>r, Zenon
    <3> DEFINE c == [invite[i] EXCEPT !.redeemedBy = b, !.redeemedFor = e]
    <3> HIDE DEF i, b, e
    <3>2. /\ c \in InviteRows /\ c.reserved = invite[i].reserved /\ c.revoked = invite[i].revoked
          /\ c.redeemedBy = b /\ c.redeemedFor = e
      BY <1>t, <3>i, Zenon DEF InviteRows
    <3>3. invite' = [invite EXCEPT ![i] = c]
      BY <3>1, <1>t, <3>i, Zenon DEF InviteRows
    <3> HIDE DEF c
    <3>4. Redeeming(r, i)
      <4>1. invite'[i] = c
        BY <3>2, <3>3, <3>i, <1>q, Zenon
      <4> QED  BY <4>1, <3>1, <3>2, Zenon DEF Redeeming, i, b, e
    <3> QED  BY <3>2, <3>3, <3>4, <3>i, <1>q, Zenon
  <2> QED  BY <2>1, <2>2, Zenon
<1>4. ASSUME NEW i \in Invites,
             ReservationLapses(i) \/ InviteExpires(i) \/ RevokeRegistrationInvite(i)
      PROVE  /\ invite' \in [Invites -> InviteRows]
             /\ \A j \in Invites : Keeping(j)
  <2>1. CASE ReservationLapses(i)
    <3> DEFINE c == [invite[i] EXCEPT !.held = FALSE]
    <3>2. /\ c \in InviteRows /\ c.reserved = invite[i].reserved /\ c.revoked = invite[i].revoked
          /\ c.redeemedBy = invite[i].redeemedBy /\ c.redeemedFor = invite[i].redeemedFor
      BY <1>t, Zenon DEF InviteRows
    <3>3. invite' = [invite EXCEPT ![i] = c]
      BY <2>1, <1>t, Zenon DEF InviteRows, ReservationLapses
    <3> HIDE DEF c
    <3>4. Keeping(i)
      BY <3>2, <3>3, <1>q, Zenon DEF Keeping
    <3> QED  BY <3>2, <3>3, <3>4, <1>q, Zenon
  <2>2. CASE InviteExpires(i)
    <3> DEFINE c == [invite[i] EXCEPT !.expired = TRUE, !.held = FALSE]
    <3>2. /\ c \in InviteRows /\ c.reserved = invite[i].reserved /\ c.revoked = invite[i].revoked
          /\ c.redeemedBy = invite[i].redeemedBy /\ c.redeemedFor = invite[i].redeemedFor
      BY <1>t, Zenon DEF InviteRows
    <3>3. invite' = [invite EXCEPT ![i] = c]
      BY <2>2, <1>t, Zenon DEF InviteRows, InviteExpires
    <3> HIDE DEF c
    <3>4. Keeping(i)
      BY <3>2, <3>3, <1>q, Zenon DEF Keeping
    <3> QED  BY <3>2, <3>3, <3>4, <1>q, Zenon
  <2>3. CASE RevokeRegistrationInvite(i)
    <3> DEFINE c == [invite[i] EXCEPT !.revoked = TRUE]
    <3>2. /\ c \in InviteRows /\ c.reserved = invite[i].reserved
          /\ c.redeemedBy = invite[i].redeemedBy /\ c.redeemedFor = invite[i].redeemedFor
      BY <1>t, Zenon DEF InviteRows
    <3>3. /\ invite' = [invite EXCEPT ![i] = c]
          /\ invite[i].redeemedBy = NoUser
      BY <2>3, <1>t, Zenon DEF InviteRows, RevokeRegistrationInvite
    <3> HIDE DEF c
    <3>4. Keeping(i)
      BY <3>2, <3>3, <1>q, Zenon DEF Keeping
    <3> QED  BY <3>2, <3>3, <3>4, <1>q, Zenon
  <2> QED  BY <1>4, <2>1, <2>2, <2>3, Zenon
<1> QED
  BY <1>1, <1>2, <1>3, <1>4, <1>k, Zenon
  DEF RegistrationNext, registrationVars, UpdateEmail, RequestEmailVerification,
      ConfirmEmailVerification, CreateUser, UserAlreadyExists, CheckCredential, ReadClock,
      RegistrationFails

(* Credentials and mode under a step: StoreCredential alone adds a           *)
(* credential, and with an invitation where one is asked for (auth.go).      *)
LEMMA CredentialsGrow ==
  ASSUME RegistrationTypeOK, CallsAreComplete, [RegistrationNext]_registrationVars
  PROVE  /\ mode' = mode /\ credential \subseteq credential' /\ credential' \subseteq Users
         /\ \A u \in credential' \ credential : mode = "invite_only" =>
              \E i \in Invites : invite'[i].redeemedBy = u
<1>t. /\ credential \subseteq Users /\ invite \in [Invites -> InviteRows]
      /\ registration \in [Registrations -> RegistrationCalls]
  BY RegistrationTypes, Zenon
<1>u. mode' = mode
  BY Zenon DEF RegistrationNext, registrationVars, ReservationLapses, InviteExpires,
         RevokeRegistrationInvite, UpdateEmail, RequestEmailVerification,
         ConfirmEmailVerification, Register, CreateUser, UserAlreadyExists, CheckCredential,
         ReleaseRegistrationInvite, ReadClock, StoreCredential, RegistrationFails
<1>1. CASE UNCHANGED credential
  BY <1>1, <1>t, <1>u, Zenon
<1>2. ASSUME NEW r \in Registrations, StoreCredential(r), ~UNCHANGED credential
      PROVE  /\ credential \subseteq credential' /\ credential' \subseteq Users
             /\ \A u \in credential' \ credential : mode = "invite_only" =>
                  \E i \in Invites : invite'[i].redeemedBy = u
  <2> DEFINE i == registration[r].invite
             b == registration[r].user
             e == registration[r].email
  <2>1. /\ registration[r].at = "transact" /\ credential' = credential \cup {b}
        /\ i # NoInvite =>
             invite' = [invite EXCEPT ![i].redeemedBy = b, ![i].redeemedFor = e]
    BY <1>2, Zenon DEF StoreCredential, Redeem
  <2>2. /\ b \in Users /\ i \in Invites \cup {NoInvite}
        /\ mode = "invite_only" => i # NoInvite
    BY <2>1, <1>t, Zenon DEF CallsAreComplete, RegistrationCalls
  <2> HIDE DEF i, b, e
  <2>3. ASSUME mode = "invite_only"  PROVE invite'[i].redeemedBy = b /\ i \in Invites
    BY <2>1, <2>2, <2>3, <1>t, Zenon DEF InviteRows
  <2> QED  BY <2>1, <2>2, <2>3, <1>t, Zenon
<1> QED
  BY <1>1, <1>2, <1>u, Zenon
  DEF RegistrationNext, registrationVars, ReservationLapses, InviteExpires,
      RevokeRegistrationInvite, UpdateEmail, RequestEmailVerification,
      ConfirmEmailVerification, Register, CreateUser, UserAlreadyExists, CheckCredential,
      ReleaseRegistrationInvite, ReadClock, RegistrationFails

(* The invitations of a state: those redeemed belong to their users, one     *)
(* each.                                                                     *)
InvitesBelong ==
  /\ \A i \in Invites :
       invite[i].redeemedBy # NoUser =>
         /\ invite[i].redeemedBy \in credential
         /\ ~invite[i].revoked
         /\ BoundEmail[i] \in {NoEmail, invite[i].redeemedFor}
         /\ invite[i].reserved = invite[i].redeemedFor
  /\ mode = "invite_only" =>
       \A u \in credential : \E i \in Invites : invite[i].redeemedBy = u

(* A user redeems one invitation.                                            *)
LEMMA InvitesAreSingle ==
  ASSUME InvitesBelong, RedeemedOnce
  PROVE  InvitePerCredential
<1>1. ASSUME NEW u \in Users, NEW i \in Redeemed(u), NEW j \in Redeemed(u)
      PROVE  i = j
  <2>1. u # NoUser
    BY RegistrationConstants, Zenon
  <2> QED  BY <2>1, Zenon DEF Redeemed, RedeemedOnce
<1> QED  BY <1>1, Zenon DEF InvitesBelong, InvitePerCredential, Redeemed

(* An invitation is reserved within its bounds, redeemed by one user, and    *)
(* whoever registers where invitations are asked for redeems one.            *)
LEMMA InvitationsStep ==
  ASSUME RegistrationTypeOK, CallsAreComplete, ReservationsFit, RedeemedOnce, InvitesBelong,
         [RegistrationNext]_registrationVars
  PROVE  ReservationsFit' /\ RedeemedOnce' /\ InvitesBelong'
<1>t. /\ credential \subseteq Users /\ invite \in [Invites -> InviteRows]
      /\ registration \in [Registrations -> RegistrationCalls]
      /\ \A i \in Invites : invite[i].revoked \in BOOLEAN
  BY RegistrationTypes, Zenon DEF InviteRows
<1>m. /\ mode' = mode /\ credential \subseteq credential'
      /\ \A u \in credential' \ credential : mode = "invite_only" =>
              \E i \in Invites : invite'[i].redeemedBy = u
  BY CredentialsGrow, Zenon
<1>s. \/ \A i \in Invites : Keeping(i)
      \/ \E r \in Registrations, i \in Invites :
           Redeeming(r, i) /\ \A j \in Invites \ {i} : Keeping(j)
  BY InvitesStep, Zenon
<1>r. ASSUME NEW r \in Registrations, NEW i \in Invites, Redeeming(r, i)
      PROVE  /\ registration[r].email # NoEmail /\ registration[r].email = invite[i].reserved
             /\ invite[i].redeemedBy = NoUser /\ ~invite[i].revoked
             /\ registration[r].user # NoUser
  <2>1. registration[r].email \in Emails /\ registration[r].user \in Users
    BY <1>r, Zenon DEF Redeeming, CallsAreComplete
  <2> QED  BY <1>r, <2>1, RegistrationConstants, Zenon DEF Redeeming, Redeems
<1>1. ReservationsFit'
  <2> SUFFICES ASSUME NEW i \in Invites, invite'[i].reserved # NoEmail
               PROVE  BoundEmail[i] \in {NoEmail, invite'[i].reserved}
    BY Zenon DEF ReservationsFit
  <2>1. CASE Keeping(i)
    BY <2>1, Zenon DEF Keeping, ReservationsFit
  <2>2. CASE \E r \in Registrations : Redeeming(r, i)
    BY <2>2, Zenon DEF Redeeming, ReservationsFit
  <2> QED  BY <2>1, <2>2, <1>s, Zenon
<1>2. RedeemedOnce'
  <2>1. CASE \A i \in Invites : Keeping(i)
    BY <2>1 DEF Keeping, RedeemedOnce
  <2>2. ASSUME NEW r \in Registrations, NEW i \in Invites, Redeeming(r, i),
               \A j \in Invites \ {i} : Keeping(j)
        PROVE  RedeemedOnce'
    <3>1. invite'[i].redeemedBy \notin credential /\ invite'[i].redeemedBy # NoUser
      BY <2>2, <1>r, Zenon DEF Redeeming
    <3>3. \A j \in Invites \ {i} : invite'[j].redeemedBy = invite[j].redeemedBy
      BY <2>2 DEF Keeping
    <3>4. \A j \in Invites : invite[j].redeemedBy \in credential \cup {NoUser}
      BY DEF InvitesBelong
    <3>2. \A j \in Invites \ {i} : invite'[j].redeemedBy # invite'[i].redeemedBy
      BY <3>1, <3>3, <3>4, Zenon
    <3> QED  BY <3>2, <3>3, Zenon DEF RedeemedOnce
  <2> QED  BY <2>1, <2>2, <1>s, Zenon
<1>3. ASSUME NEW i \in Invites, invite'[i].redeemedBy # NoUser
      PROVE  /\ invite'[i].redeemedBy \in credential'
             /\ ~invite'[i].revoked
             /\ BoundEmail[i] \in {NoEmail, invite'[i].redeemedFor}
             /\ invite'[i].reserved = invite'[i].redeemedFor
  <2>1. CASE Keeping(i)
    <3>1. invite[i].redeemedBy # NoUser
      BY <2>1, <1>3, Zenon DEF Keeping
    <3>2. /\ invite'[i].redeemedBy = invite[i].redeemedBy
          /\ invite'[i].redeemedFor = invite[i].redeemedFor
          /\ invite'[i].reserved = invite[i].reserved /\ invite'[i].revoked = invite[i].revoked
      BY <2>1, <3>1, Zenon DEF Keeping
    <3> QED  BY <3>1, <3>2, <1>m, Zenon DEF InvitesBelong
  <2>2. ASSUME NEW r \in Registrations, Redeeming(r, i)
        PROVE  /\ invite'[i].redeemedBy \in credential'
               /\ ~invite'[i].revoked
               /\ BoundEmail[i] \in {NoEmail, invite'[i].redeemedFor}
               /\ invite'[i].reserved = invite'[i].redeemedFor
    BY <2>2, <1>r, Zenon DEF Redeeming, ReservationsFit
  <2> QED  BY <2>1, <2>2, <1>s, Zenon
<1>4. ASSUME mode = "invite_only", NEW u \in credential'
      PROVE  \E i \in Invites : invite'[i].redeemedBy = u
  <2>1. CASE u \notin credential
    BY <2>1, <1>4, <1>m, Zenon
  <2>2. CASE u \in credential
    <3>1. PICK i \in Invites : invite[i].redeemedBy = u
      BY <2>2, <1>4, Zenon DEF InvitesBelong
    <3>2. u # NoUser
      BY <2>2, <1>t, RegistrationConstants, Zenon
    <3>3. Keeping(i)
      BY <3>1, <3>2, <1>s, <1>r, Zenon
    <3> QED  BY <3>1, <3>3, Zenon DEF Keeping
  <2> QED  BY <2>1, <2>2, Zenon
<1>5. InvitesBelong'
  BY <1>3, <1>4, <1>m, Zenon DEF InvitesBelong
<1> QED  BY <1>1, <1>2, <1>5, Zenon

(* Tokens and verified addresses: a token belongs to a registered user, and  *)
(* only the token of the present address verifies it (recovery.go,           *)
(* MarkUserEmailVerified).                                                   *)
LEMMA VerificationStep ==
  ASSUME RegistrationTypeOK, CallsAreComplete, TokensFollowCredentials,
         VerifiedAddressConfirmed, [RegistrationNext]_registrationVars
  PROVE  /\ TokensFollowCredentials' /\ VerifiedAddressConfirmed'
         /\ user' \in [Users -> UserRows] /\ verification' \in [Users -> TokenRows]
         /\ addresses' \in [Users -> SUBSET Emails] /\ confirmed' \subseteq Users \X Emails
<1> DEFINE Goal == /\ TokensFollowCredentials' /\ VerifiedAddressConfirmed'
                   /\ user' \in [Users -> UserRows] /\ verification' \in [Users -> TokenRows]
                   /\ addresses' \in [Users -> SUBSET Emails]
                   /\ confirmed' \subseteq Users \X Emails
<1>t. /\ user \in [Users -> UserRows] /\ verification \in [Users -> TokenRows]
      /\ addresses \in [Users -> SUBSET Emails] /\ confirmed \subseteq Users \X Emails
      /\ credential \subseteq Users /\ registration \in [Registrations -> RegistrationCalls]
  BY RegistrationTypes, Zenon
<1>c. credential \subseteq credential'
  BY CredentialsGrow, Zenon
<1>1. CASE UNCHANGED <<user, verification, addresses, confirmed>>
  BY <1>1, <1>t, <1>c, Zenon DEF TokensFollowCredentials, VerifiedAddressConfirmed
<1>i. ASSUME NEW u \in credential, NEW e \in Emails, IssueVerification(u, e),
             UNCHANGED <<user, addresses, confirmed, credential>>
      PROVE  Goal
  <2>0. u \in Users
    BY <1>t, Zenon
  <2>1. [state |-> "issued", email |-> e] \in TokenRows
    BY Zenon DEF TokenRows
  <2>2. verification' = [verification EXCEPT ![u] = [state |-> "issued", email |-> e]]
    BY <1>i, Zenon DEF IssueVerification
  <2>3. verification' \in [Users -> TokenRows]
    BY <2>1, <2>2, <1>t, Zenon
  <2>4. \A v \in Users : v # u => verification'[v] = verification[v]
    BY <2>2, <1>t, Zenon
  <2>5. verification'[u].state = "issued" /\ verification'[u].email = e
    BY <2>0, <2>2, <1>t, Zenon
  <2>6. TokensFollowCredentials'
    BY <2>4, <2>5, <1>i, Zenon DEF TokensFollowCredentials
  <2>7. VerifiedAddressConfirmed'
    BY <2>4, <2>5, <1>i, Zenon DEF VerifiedAddressConfirmed
  <2> QED  BY <2>3, <2>6, <2>7, <1>i, <1>t, Zenon
<1>2. ASSUME NEW u \in Users, NEW e \in Emails, UpdateEmail(u, e)
      PROVE  Goal
  <2>1. /\ user' = [user EXCEPT ![u] = [email |-> e, verified |-> FALSE]]
        /\ addresses' = [addresses EXCEPT ![u] = @ \cup {e}]
        /\ UNCHANGED <<credential, verification, confirmed>>
    BY <1>2, Zenon DEF UpdateEmail
  <2>2. user' \in [Users -> UserRows] /\ addresses' \in [Users -> SUBSET Emails]
    BY <2>1, <1>t, Zenon DEF UserRows
  <2>3. /\ \A v \in Users : v # u => user'[v] = user[v]
        /\ ~user'[u].verified
    BY <2>1, <1>t, Zenon
  <2>4. ASSUME NEW v \in Users
        PROVE  /\ user'[v].verified => v \in credential /\ <<v, user'[v].email>> \in confirmed
               /\ verification[v].state = "consumed" =>
                    <<v, verification[v].email>> \in confirmed
    <3>1. CASE v = u
      BY <3>1, <2>3, Zenon DEF VerifiedAddressConfirmed
    <3>2. CASE v # u
      BY <3>2, <2>3, Zenon DEF VerifiedAddressConfirmed
    <3> QED  BY <3>1, <3>2, Zenon
  <2>5. VerifiedAddressConfirmed'
    BY <2>1, <2>4, Zenon DEF VerifiedAddressConfirmed
  <2> QED  BY <2>1, <2>2, <2>5, <1>t, Zenon DEF TokensFollowCredentials
<1>3. ASSUME NEW u \in Users, NEW e \in Emails, RequestEmailVerification(u, e)
      PROVE  Goal
  BY <1>3, <1>i, Zenon DEF RequestEmailVerification
<1>4. ASSUME NEW u \in Users, NEW lost \in BOOLEAN, ConfirmEmailVerification(u, lost)
      PROVE  Goal
  <2> DEFINE e == verification[u].email
  <2>1. /\ verification[u].state = "issued" /\ user[u].email = e
        /\ user' = [user EXCEPT ![u].verified = TRUE]
        /\ confirmed' = confirmed \cup {<<u, e>>}
        /\ UNCHANGED <<credential, addresses>>
        /\ \/ verification' = verification
           \/ verification' = [verification EXCEPT ![u].state = "consumed"]
    BY <1>4, Zenon DEF ConfirmEmailVerification, Marks
  <2>2. u \in credential /\ e \in Emails
    BY <2>1, Zenon DEF TokensFollowCredentials
  <2>3. /\ user' \in [Users -> UserRows]
        /\ \A v \in Users : user'[v].email = user[v].email
        /\ \A v \in Users : v # u => user'[v] = user[v]
    BY <2>1, <1>t, ZenonT(30) DEF UserRows
  <2>4. /\ verification' \in [Users -> TokenRows]
        /\ \A v \in Users : verification'[v].email = verification[v].email
        /\ \A v \in Users : v # u => verification'[v] = verification[v]
    BY <2>1, <1>t, Zenon DEF TokenRows
  <2>5. confirmed' \subseteq Users \X Emails /\ confirmed \subseteq confirmed'
        /\ <<u, e>> \in confirmed'
    BY <2>1, <2>2, <1>t
  <2>6. TokensFollowCredentials'
    BY <2>1, <2>2, <2>4, Zenon DEF TokensFollowCredentials
  <2>7. ASSUME NEW v \in Users
        PROVE  /\ user'[v].verified => v \in credential /\ <<v, user'[v].email>> \in confirmed'
               /\ verification'[v].state = "consumed" =>
                    <<v, verification'[v].email>> \in confirmed'
    <3>1. CASE v = u
      BY <3>1, <2>1, <2>2, <2>3, <2>4, <2>5, Zenon
    <3>2. CASE v # u
      BY <3>2, <2>3, <2>4, <2>5, Zenon DEF VerifiedAddressConfirmed
    <3> QED  BY <3>1, <3>2, Zenon
  <2>8. VerifiedAddressConfirmed'
    BY <2>1, <2>7, Zenon DEF VerifiedAddressConfirmed
  <2> QED  BY <2>1, <2>3, <2>4, <2>5, <2>6, <2>8, <1>t, Zenon
<1>5. ASSUME NEW r \in Registrations, NEW u \in Users, NEW lost \in BOOLEAN,
             CreateUser(r, u, lost)
      PROVE  Goal
  <2> DEFINE e == registration[r].email
  <2>1. /\ registration[r].at = "create" /\ user[u].email = NoEmail
        /\ user' = [user EXCEPT ![u].email = e]
        /\ addresses' = [addresses EXCEPT ![u] = @ \cup {e}]
        /\ UNCHANGED <<credential, verification, confirmed>>
    BY <1>5, Zenon DEF CreateUser
  <2>2. e \in Emails
    BY <2>1, Zenon DEF CallsAreComplete
  <2> HIDE DEF e
  <2>3. ~user[u].verified
    BY <2>1, <1>t, RegistrationConstants, Zenon DEF VerifiedAddressConfirmed
  <2>4. /\ user' \in [Users -> UserRows]
        /\ \A v \in Users : v # u => user'[v] = user[v]
        /\ user'[u].verified = user[u].verified
    BY <2>1, <2>2, <1>t, Zenon DEF UserRows
  <2>5. addresses' \in [Users -> SUBSET Emails]
    BY <2>1, <2>2, <1>t, Zenon
  <2>6. VerifiedAddressConfirmed'
    BY <2>1, <2>3, <2>4, Zenon DEF VerifiedAddressConfirmed
  <2> QED  BY <2>1, <2>4, <2>5, <2>6, <1>t, Zenon DEF TokensFollowCredentials
<1>6. ASSUME NEW r \in Registrations, StoreCredential(r)
      PROVE  Goal
  <2>1. CASE UNCHANGED verification
    BY <2>1, <1>6, <1>1, Zenon DEF StoreCredential
  <2>2. CASE ~UNCHANGED verification
    <3> DEFINE u == registration[r].user
               e == registration[r].email
    <3>1. /\ registration[r].at = "transact"
          /\ credential' = credential \cup {u} /\ IssueVerification(u, e)
          /\ UNCHANGED <<user, addresses, confirmed>>
      BY <1>6, <2>2, Zenon DEF StoreCredential
    <3>2. u \in Users /\ e \in Emails
      BY <3>1, Zenon DEF CallsAreComplete
    <3> HIDE DEF u, e
    <3>3. [state |-> "issued", email |-> e] \in TokenRows
      BY <3>2, Zenon DEF TokenRows
    <3>4. verification' = [verification EXCEPT ![u] = [state |-> "issued", email |-> e]]
      BY <3>1, Zenon DEF IssueVerification
    <3>5. verification' \in [Users -> TokenRows]
      BY <3>3, <3>4, <1>t, Zenon
    <3>6. \A v \in Users : v # u => verification'[v] = verification[v]
      BY <3>4, <1>t, Zenon
    <3>7. verification'[u].state = "issued" /\ verification'[u].email = e
      BY <3>2, <3>4, <1>t, Zenon
    <3>8. TokensFollowCredentials'
      BY <3>1, <3>2, <3>6, <3>7, Zenon DEF TokensFollowCredentials
    <3>9. VerifiedAddressConfirmed'
      BY <3>1, <3>6, <3>7, Zenon DEF VerifiedAddressConfirmed
    <3> QED  BY <3>1, <3>5, <3>8, <3>9, <1>t, Zenon
  <2> QED  BY <2>1, <2>2, Zenon
<1> QED
  BY <1>1, <1>2, <1>3, <1>4, <1>5, <1>6, Zenon
  DEF RegistrationNext, registrationVars, ReservationLapses, InviteExpires,
      RevokeRegistrationInvite, Register, UserAlreadyExists, CheckCredential,
      ReleaseRegistrationInvite, ReadClock, RegistrationFails

(* Type correctness, the invariant of Register and both properties hold for  *)
(* any number of registrations, users, emails and invitations.               *)
LEMMA RegistrationHolds == RegistrationSpec => [](RegistrationInv /\ InvitesBelong)
<1>1. RegistrationInit => RegistrationInv /\ InvitesBelong
  <2> SUFFICES ASSUME RegistrationInit PROVE RegistrationInv /\ InvitesBelong
    OBVIOUS
  <2>1. RegistrationTypeOK
    BY Zenon DEF RegistrationInit, RegistrationTypeOK, NoRegistration, Steps
  <2>2. /\ \A i \in Invites : invite[i].reserved = NoEmail /\ invite[i].redeemedBy = NoUser
        /\ \A r \in Registrations : registration[r].at = "idle"
        /\ \A u \in Users : verification[u].state = "none" /\ ~user[u].verified
        /\ credential = {}
    BY Zenon DEF RegistrationInit, NoRegistration
  <2>3. CallsAreComplete /\ ReservationsFit /\ RedeemedOnce /\ TokensFollowCredentials
    BY <2>2, Zenon DEF CallsAreComplete, ReservationsFit, RedeemedOnce, TokensFollowCredentials
  <2>4. VerifiedAddressConfirmed /\ InvitesBelong
    BY <2>2, Zenon DEF VerifiedAddressConfirmed, InvitesBelong
  <2> QED  BY <2>1, <2>3, <2>4, InvitesAreSingle, Zenon DEF RegistrationInv
<1>2. RegistrationInv /\ InvitesBelong /\ [RegistrationNext]_registrationVars
        => (RegistrationInv /\ InvitesBelong)'
  <2> SUFFICES ASSUME RegistrationInv, InvitesBelong, [RegistrationNext]_registrationVars
               PROVE  (RegistrationInv /\ InvitesBelong)'
    OBVIOUS
  <2>1. CallsAreComplete' /\ registration' \in [Registrations -> RegistrationCalls]
    BY CallsStep, Zenon DEF RegistrationInv
  <2>2. ReservationsFit' /\ RedeemedOnce' /\ InvitesBelong'
    BY InvitationsStep, Zenon DEF RegistrationInv
  <2>3. /\ TokensFollowCredentials' /\ VerifiedAddressConfirmed'
        /\ user' \in [Users -> UserRows] /\ verification' \in [Users -> TokenRows]
        /\ addresses' \in [Users -> SUBSET Emails] /\ confirmed' \subseteq Users \X Emails
    BY VerificationStep, Zenon DEF RegistrationInv
  <2>4. RegistrationTypeOK'
    <3>1. mode' = mode /\ credential' \subseteq Users
      BY CredentialsGrow, Zenon DEF RegistrationInv
    <3>2. mode \in Modes
      BY RegistrationTypes, Zenon DEF RegistrationInv
    <3>3. invite' \in [Invites -> InviteRows]
      BY InvitesStep, Zenon DEF RegistrationInv
    <3> QED
      BY <2>1, <2>3, <3>1, <3>2, <3>3, Zenon
      DEF RegistrationTypeOK, InviteRows, UserRows, TokenRows, RegistrationCalls
  <2>5. InvitePerCredential'
    BY <2>2, InvitesAreSingle, PTL
  <2> QED  BY <2>1, <2>2, <2>3, <2>4, <2>5, Zenon DEF RegistrationInv
<1> QED  BY <1>1, <1>2, PTL DEF RegistrationSpec

(* An invitation is never lost and never shared, whatever registrations      *)
(* overlap and whichever of their calls fail (Register, auth.go:49-133).     *)
THEOREM InvitationsAreKept == RegistrationSpec => []InvitePerCredential
<1>1. RegistrationInv => InvitePerCredential
  BY Zenon DEF RegistrationInv
<1> QED  BY <1>1, RegistrationHolds, PTL

(* A verified address is the user's present one and was confirmed, whatever  *)
(* tokens were requested before the address changed (recovery.go).           *)
THEOREM VerifiedAddressesWereConfirmed == RegistrationSpec => []VerifiedAddressConfirmed
<1>1. RegistrationInv => VerifiedAddressConfirmed
  BY Zenon DEF RegistrationInv
<1> QED  BY <1>1, RegistrationHolds, PTL

=============================================================================
