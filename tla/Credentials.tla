----------------------------- MODULE Credentials -----------------------------
(***************************************************************************)
(* The credentials of one account in the Authenticator: its password, its  *)
(* TOTP factor and recovery codes, a pending enrollment, login challenges, *)
(* a password reset token, and the sessions these admit.                   *)
(*                                                                         *)
(* A database transaction is one step: each locks the rows it decides on.  *)
(* What a handler reads before its transaction, or between two statements  *)
(* that share none, is kept in calls[w], and anything may happen before it *)
(* is used.  Passwords, secrets, codes and tokens are numbers, given out   *)
(* in increasing order.  Lifetimes are not counted: what can expire may    *)
(* expire at any moment.  That two TOTP steps may share six digits is left *)
(* out.                                                                    *)
(***************************************************************************)
EXTENDS Integers, FiniteSets

CONSTANTS
  Workers,            \* handlers that run at the same time
  SessionIds,         \* bound: sessions of the account
  Challenges,         \* bound: two-factor login challenges
  NoSession,
  MaxAttempts,        \* TwoFactor.MaxAttempts
  RecoveryCodeCount,  \* TwoFactor.RecoveryCodeCount
  MaxMinted,          \* bound: secrets, code sets and reset tokens
  MaxPasswords,       \* bound: passwords
  MaxStep             \* bound: TOTP time steps

ASSUME CredentialConstants ==
  /\ NoSession \notin SessionIds
  /\ {MaxAttempts, RecoveryCodeCount, MaxPasswords} \subseteq Nat \ {0}
  /\ {MaxMinted, MaxStep} \subseteq Nat

VARIABLES
  password,    \* number of the stored password
  factor,      \* TOTP factor: secret (0: none) and last_used_counter
  codes,       \* unused recovery codes
  enrollment,  \* pending enrollment's secret (0: none) and whether expired
  reset,       \* reset token's number, 0 when absent, consumed or expired
  session,     \* sessions: state, and the credentials they were last let stand with
  challenge,   \* challenges: state, wrong attempts, sessions created
  calls,       \* handlers: next step and what they read
  minted,      \* numbers given out
  step,        \* the TOTP time step
  spent,       \* single-use proofs that were accepted
  respent      \* one was accepted again

credentialVars ==
  <<password, factor, codes, enrollment, reset, session, challenge,
    calls, minted, step, spent, respent>>

Proofs ==
  ({"totp"} \X (1..MaxMinted) \X (0..(MaxStep + 1)))
    \cup ({"code"} \X (1..MaxMinted) \X (1..RecoveryCodeCount))

CallLabels ==
  {"idle", "readFactor", "createSession", "createChallenge", "enroll", "reset"}

NoCall == [at |-> "idle", number |-> 0]

NoFactor == [secret |-> 0, lastUsed |-> 0]
NoEnrollment == [secret |-> 0, expired |-> FALSE]

(* A session that is not live; its credentials no longer matter *)
SessionState(state) == [state |-> state, password |-> 0, secret |-> 0]

CredentialsInit ==
  /\ password = 1
  /\ factor = NoFactor
  /\ codes = {}
  /\ enrollment = NoEnrollment
  /\ reset = 0
  /\ session = [s \in SessionIds |-> SessionState("none")]
  /\ challenge = [c \in Challenges |-> [state |-> "none", attempts |-> 0, sessions |-> 0]]
  /\ calls = [w \in Workers |-> NoCall]
  /\ minted = 0
  /\ step = 0
  /\ spent = {}
  /\ respent = FALSE

-----------------------------------------------------------------------------
Live(s) == session[s].state = "live"

Goto(w, at, number) == calls' = [calls EXCEPT ![w] = [at |-> at, number |-> number]]

Return(w) == calls' = [calls EXCEPT ![w] = NoCall]

(* A secret, code or token is generated *)
Mint == minted < MaxMinted /\ minted' = minted + 1

Spend(proof) ==
  /\ spent' = spent \cup {proof}
  /\ respent' = (respent \/ proof \in spent)

(* Fault: nothing is revoked. *)
RevokeNoSession(sessions, current) == sessions

(* The store's RevokeOtherSessions; NoSession stands for id 0 *)
RevokeOthers(sessions, current) ==
  [s \in SessionIds |->
     IF sessions[s].state = "live" /\ s # current
     THEN SessionState("revoked") ELSE sessions[s]]

(* The sessions a change of credentials keeps stand with the new ones *)
Readmit(sessions, kept, by, number) ==
  [s \in SessionIds |->
     IF sessions[s].state = "live" /\ s \in kept
     THEN [sessions[s] EXCEPT ![by] = number] ELSE sessions[s]]

(* createSessionWithStore; the row stands with the credentials in force when
   it is inserted, whichever the login verified *)
NewSession(s) ==
  /\ session[s].state = "none"
  /\ session' = [session EXCEPT ![s] =
       [state |-> "live", password |-> password, secret |-> factor.secret]]

(* Fault: a used counter is accepted again. *)
VerifyAnyCounter(proof) ==
  /\ proof[1] = "totp" /\ proof[2] = factor.secret
  /\ proof[3] \in (step - 1)..(step + 1)

(* verifyTOTPCode: VerifyCode skips counters up to last_used_counter *)
VerifyTOTPCode(proof) ==
  /\ proof[1] = "totp" /\ proof[2] = factor.secret
  /\ proof[3] \in (step - 1)..(step + 1)
  /\ proof[3] > factor.lastUsed

(* ConsumeRecoveryCode: the code is there and unused *)
ConsumesRecoveryCode(proof) == proof \in codes

(* UpdateTOTPLastUsedCounter or ConsumeRecoveryCode *)
AfterProof(proof) ==
  IF VerifyTOTPCode(proof)
  THEN [factor |-> [factor EXCEPT !.lastUsed = proof[3]], codes |-> codes]
  ELSE [factor |-> factor, codes |-> codes \ {proof}]

-----------------------------------------------------------------------------
(* Login: the password is verified, outside a transaction, and nothing looks
   at it again: neither the insertion below nor CompleteTwoFactorLogin *)
Login(w) ==
  /\ calls[w].at = "idle"
  /\ Goto(w, "readFactor", 0)
  /\ UNCHANGED <<password, factor, codes, enrollment, reset, session,
                 challenge, minted, step, spent, respent>>

(* ... the factor is read, without a lock *)
LoginReadsFactor(w) ==
  /\ calls[w].at = "readFactor"
  /\ Goto(w, IF factor = NoFactor THEN "createSession" ELSE "createChallenge", 0)
  /\ UNCHANGED <<password, factor, codes, enrollment, reset, session,
                 challenge, minted, step, spent, respent>>

(* ... and a session or a challenge is inserted *)
LoginCreatesSession(w, s) ==
  /\ calls[w].at = "createSession"
  /\ NewSession(s)
  /\ Return(w)
  /\ UNCHANGED <<password, factor, codes, enrollment, reset, challenge,
                 minted, step, spent, respent>>

CreateTwoFactorLoginChallenge(w, c) ==
  /\ calls[w].at = "createChallenge"
  /\ challenge[c].state = "none"
  /\ challenge' = [challenge EXCEPT ![c].state = "open"]
  /\ Return(w)
  /\ UNCHANGED <<password, factor, codes, enrollment, reset, session,
                 minted, step, spent, respent>>

(* A wrong code counts; the last one allowed consumes the challenge *)
WrongCode(c) ==
  [challenge EXCEPT
     ![c].attempts = challenge[c].attempts + 1,
     ![c].state = IF challenge[c].attempts + 1 >= MaxAttempts
                  THEN "consumed" ELSE "open"]

RightCode(c) ==
  [challenge EXCEPT ![c].state = "consumed",
                    ![c].sessions = challenge[c].sessions + 1]

(* CompleteTwoFactorLogin: one transaction that locks challenge and factor *)
CompleteTwoFactorLogin(c, s, proof) ==
  /\ challenge[c].state = "open"
  /\ factor # NoFactor
  /\ VerifyTOTPCode(proof) \/ ConsumesRecoveryCode(proof)
  /\ factor' = AfterProof(proof).factor
  /\ codes' = AfterProof(proof).codes
  /\ Spend(proof)
  /\ challenge' = RightCode(c)
  /\ NewSession(s)
  /\ UNCHANGED <<password, enrollment, reset, calls, minted, step>>

(* ... which any other code leaves with one attempt less *)
RefuseTwoFactorLogin(c) ==
  /\ challenge[c].state = "open"
  /\ factor # NoFactor
  /\ challenge' = WrongCode(c)
  /\ UNCHANGED <<password, factor, codes, enrollment, reset, session, calls,
                 minted, step, spent, respent>>

-----------------------------------------------------------------------------
(* The session of an authenticated call: the API found it alive when it
   verified the access token; it may have been revoked since *)
CallerSession(s) == session[s].state # "none"

(* BeginTwoFactorEnrollment finds no factor and verifies the password ... *)
BeginReadsFactor(w) ==
  /\ calls[w].at = "idle"
  /\ \E s \in SessionIds : Live(s)
  /\ factor = NoFactor
  /\ Goto(w, "enroll", 0)
  /\ UNCHANGED <<password, factor, codes, enrollment, reset, session,
                 challenge, minted, step, spent, respent>>

(* ... CreateTOTPEnrollment: only over none or an expired one *)
BeginTwoFactorEnrollment(w) ==
  /\ calls[w].at = "enroll"
  /\ IF enrollment.secret = 0 \/ enrollment.expired
     THEN /\ Mint
          /\ enrollment' = [secret |-> minted + 1, expired |-> FALSE]
     ELSE UNCHANGED <<minted, enrollment>>
  /\ Return(w)
  /\ UNCHANGED <<password, factor, codes, reset, session, challenge,
                 step, spent, respent>>

(* ConfirmTwoFactorEnrollment with a code of the pending secret; an unknown
   token or a wrong code changes nothing *)
ConfirmTwoFactorEnrollment(s, counter) ==
  /\ CallerSession(s)
  /\ enrollment.secret # 0 /\ ~enrollment.expired
  /\ counter \in (step - 1)..(step + 1)
  /\ factor' = [secret |-> enrollment.secret, lastUsed |-> counter]
  /\ codes' = {"code"} \X {enrollment.secret} \X (1..RecoveryCodeCount)
  /\ enrollment' = NoEnrollment
  /\ session' = Readmit(RevokeOthers(session, s), {s}, "secret", enrollment.secret)
  /\ Spend(<<"totp", enrollment.secret, counter>>)
  /\ UNCHANGED <<password, reset, challenge, calls, minted, step>>

(* ... an expired enrollment is deleted *)
ConfirmExpiredEnrollment ==
  /\ enrollment.expired
  /\ enrollment' = NoEnrollment
  /\ UNCHANGED <<password, factor, codes, reset, session, challenge, calls,
                 minted, step, spent, respent>>

(* DisableTwoFactor: a wrong proof changes nothing *)
DisableTwoFactor(s, proof) ==
  /\ CallerSession(s)
  /\ factor # NoFactor
  /\ VerifyTOTPCode(proof) \/ ConsumesRecoveryCode(proof)
  /\ factor' = NoFactor
  /\ codes' = {}
  /\ session' = Readmit(RevokeOthers(session, s), {s}, "secret", 0)
  /\ Spend(proof)
  /\ UNCHANGED <<password, enrollment, reset, challenge, calls, minted, step>>

(* RegenerateTwoFactorRecoveryCodes: a TOTP code only *)
RegenerateTwoFactorRecoveryCodes(s, proof) ==
  /\ CallerSession(s)
  /\ factor # NoFactor
  /\ VerifyTOTPCode(proof)
  /\ Mint
  /\ factor' = AfterProof(proof).factor
  /\ codes' = {"code"} \X {minted + 1} \X (1..RecoveryCodeCount)
  /\ session' = RevokeOthers(session, s)
  /\ Spend(proof)
  /\ UNCHANGED <<password, enrollment, reset, challenge, calls, step>>

-----------------------------------------------------------------------------
(* ChangePassword, once the old password was verified under the row's lock;
   a wrong one changes nothing.  A request that names no current session
   revokes none. *)
ChangePassword(s) ==
  /\ s # NoSession => CallerSession(s)
  /\ password < MaxPasswords
  /\ password' = password + 1
  /\ session' = IF s = NoSession
                THEN Readmit(session, SessionIds, "password", password + 1)
                ELSE Readmit(RevokeOthers(session, s), {s}, "password", password + 1)
  /\ UNCHANGED <<factor, codes, enrollment, reset, challenge, calls,
                 minted, step, spent, respent>>

(* RequestPasswordReset replaces the pending token *)
RequestPasswordReset ==
  /\ Mint
  /\ reset' = minted + 1
  /\ UNCHANGED <<password, factor, codes, enrollment, session, challenge,
                 calls, step, spent, respent>>

(* ConfirmPasswordReset: the token is checked before hashing ... *)
PrecheckPasswordReset(w) ==
  /\ calls[w].at = "idle"
  /\ reset # 0
  /\ Goto(w, "reset", reset)
  /\ UNCHANGED <<password, factor, codes, enrollment, reset, session,
                 challenge, minted, step, spent, respent>>

(* ... and again in the transaction, with its row locked *)
ConfirmPasswordReset(w) ==
  /\ calls[w].at = "reset"
  /\ IF reset = calls[w].number
     THEN /\ password < MaxPasswords
          /\ password' = password + 1
          /\ reset' = 0
          /\ session' = RevokeOthers(session, NoSession)
          /\ Spend(<<"reset", calls[w].number>>)
     ELSE UNCHANGED <<password, reset, session, spent, respent>>
  /\ Return(w)
  /\ UNCHANGED <<factor, codes, enrollment, challenge, minted, step>>

(* RevokeOtherSessions and RevokeUserSession *)
RevokeOtherSessions(s) ==
  /\ CallerSession(s)
  /\ session' = RevokeOthers(session, s)
  /\ UNCHANGED <<password, factor, codes, enrollment, reset, challenge, calls,
                 minted, step, spent, respent>>

RevokeUserSession(s) ==
  /\ Live(s)
  /\ session' = [session EXCEPT ![s] = SessionState("revoked")]
  /\ UNCHANGED <<password, factor, codes, enrollment, reset, challenge, calls,
                 minted, step, spent, respent>>

-----------------------------------------------------------------------------
(* A statement fails, or the caller goes away *)
CallFails(w) ==
  /\ calls[w].at # "idle"
  /\ Return(w)
  /\ UNCHANGED <<password, factor, codes, enrollment, reset, session,
                 challenge, minted, step, spent, respent>>

ChallengeExpires(c) ==
  /\ challenge[c].state = "open"
  /\ challenge' = [challenge EXCEPT ![c].state = "consumed"]
  /\ UNCHANGED <<password, factor, codes, enrollment, reset, session,
                 calls, minted, step, spent, respent>>

EnrollmentExpires ==
  /\ enrollment.secret # 0 /\ ~enrollment.expired
  /\ enrollment' = [enrollment EXCEPT !.expired = TRUE]
  /\ UNCHANGED <<password, factor, codes, reset, session, challenge,
                 calls, minted, step, spent, respent>>

StepPasses ==
  /\ step < MaxStep
  /\ step' = step + 1
  /\ UNCHANGED <<password, factor, codes, enrollment, reset, session,
                 challenge, calls, minted, spent, respent>>

(* The proofs that may be accepted; all others are refused alike *)
Presented ==
  ({"totp"} \X {factor.secret} \X (0..(MaxStep + 1))) \cup codes

CredentialsNext ==
  \/ RequestPasswordReset \/ EnrollmentExpires \/ StepPasses
  \/ ConfirmExpiredEnrollment
  \/ \E s \in SessionIds \cup {NoSession} : ChangePassword(s)
  \/ \E s \in SessionIds :
       \/ RevokeUserSession(s) \/ RevokeOtherSessions(s)
       \/ \E counter \in 0..(MaxStep + 1) : ConfirmTwoFactorEnrollment(s, counter)
       \/ \E proof \in Presented :
            \/ DisableTwoFactor(s, proof)
            \/ RegenerateTwoFactorRecoveryCodes(s, proof)
            \/ \E c \in Challenges : CompleteTwoFactorLogin(c, s, proof)
  \/ \E c \in Challenges : ChallengeExpires(c) \/ RefuseTwoFactorLogin(c)
  \/ \E w \in Workers :
       \/ Login(w) \/ LoginReadsFactor(w)
       \/ \E s \in SessionIds : LoginCreatesSession(w, s)
       \/ \E c \in Challenges : CreateTwoFactorLoginChallenge(w, c)
       \/ BeginReadsFactor(w) \/ BeginTwoFactorEnrollment(w)
       \/ PrecheckPasswordReset(w) \/ ConfirmPasswordReset(w) \/ CallFails(w)

CredentialsSpec == CredentialsInit /\ [][CredentialsNext]_credentialVars

-----------------------------------------------------------------------------
CredentialsTypeOK ==
  /\ password \in 1..MaxPasswords
  /\ factor \in [secret : 0..MaxMinted, lastUsed : 0..(MaxStep + 1)]
  /\ codes \subseteq Proofs
  /\ enrollment \in [secret : 0..MaxMinted, expired : BOOLEAN]
  /\ reset \in 0..MaxMinted
  /\ session \in [SessionIds ->
       [state : {"none", "live", "revoked"}, password : 0..MaxPasswords,
        secret : 0..MaxMinted]]
  /\ challenge \in [Challenges ->
       [state : {"none", "open", "consumed"}, attempts : 0..MaxAttempts,
        sessions : 0..1]]
  /\ calls \in [Workers -> [at : CallLabels, number : 0..MaxMinted]]
  /\ minted \in 0..MaxMinted /\ step \in 0..MaxStep
  /\ respent \in BOOLEAN

(* No session outlives a change of credentials, but for the session that
   makes it: a live session was inserted while the password and the second
   factor that are in force were, or was kept by the call that put them in
   force.  ChangePassword, ConfirmPasswordReset, ConfirmTwoFactorEnrollment
   and DisableTwoFactor revoke all others in their transaction; only a
   ChangePassword that names no session keeps them all (credentials.go:82).
   A login that verified the old password, or found no factor, and inserts
   its session after the change is not undone by it, and ends with the next
   change. *)
SessionsMatchCredentials ==
  \A s \in SessionIds :
    Live(s) => session[s].password = password /\ session[s].secret = factor.secret

(* No TOTP step, recovery code or reset token is accepted twice, across
   logins, disabling, regeneration and enrollment (last_used_counter, used_at
   and consumed_at in the statements of store/queries.go).  A login challenge
   creates at most one session, takes at most MaxAttempts wrong codes, and is
   closed after either (CompleteTwoFactorLogin). *)
ProofsSpentOnce ==
  /\ ~respent
  /\ \A c \in Challenges :
       /\ challenge[c].sessions <= 1
       /\ challenge[c].attempts <= MaxAttempts
       /\ challenge[c].sessions = 1 \/ challenge[c].attempts = MaxAttempts
            => challenge[c].state = "consumed"

=============================================================================
