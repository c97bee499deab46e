--------------------------- MODULE RefreshRotation ---------------------------
(***************************************************************************)
(* One authentication session of the Authenticator: its row in the         *)
(* sessions table, the rotation of its refresh token and its revocation.   *)
(*                                                                         *)
(* A refresh reads the row, exchanges the token with one conditional       *)
(* UPDATE, and treats a token that is not the current one as a retry, when *)
(* it is the previous one and its window is open, or else as a replay that *)
(* revokes the session.  Other requests run between any two statements.    *)
(* Refresh tokens are numbered in the order the row issued them; a token   *)
(* is reissued from the row, so that its number stands for its text.       *)
(*                                                                         *)
(* The client's cookie jar holds the last token it received.  Requests     *)
(* take the token from there; their answers may be lost.  Time is counted  *)
(* in whole seconds, as the claims of a token are.                         *)
(***************************************************************************)
EXTENDS Integers

CONSTANTS
  Requests,       \* requests in progress with the session's tokens
  NoToken,
  IdleTTL,        \* Sessions.IdleTTL
  AbsoluteTTL,    \* Sessions.AbsoluteTTL
  RefreshTTL,     \* Tokens.Refresh.TTL
  RotationGrace,  \* Sessions.RotationGrace
  MaxTime,        \* bound: the clock
  MaxRotations    \* bound: tokens of the session

Tokens == [number : Nat, expiresAt : Nat]

ASSUME RotationConstants ==
  /\ {IdleTTL, AbsoluteTTL, RefreshTTL} \subseteq Nat \ {0}
  /\ {RotationGrace, MaxTime, MaxRotations} \subseteq Nat

NoTokenAssumption == NoToken \notin Tokens

ASSUME NoTokenIsNoToken == NoTokenAssumption

VARIABLES
  now,        \* the clock
  row,        \* the session's row; token number 0 before the login
  jar,        \* the token the client holds
  request,    \* requests: next statement, token, clock and row they read
  answered,   \* <<token presented, token answered>>, by number
  replayed,   \* a request took its token for a replay
  missed,     \* a request came after the window of its token
  overtaken   \* the client used a new token while one with an older ran

rotationVars == <<now, row, jar, request, answered, replayed, missed, overtaken>>

Labels == {"idle", "sent", "rotate", "reload", "replay", "answer", "logout"}

Rows ==
  [token : Tokens, previous : Nat, validUntil : Nat, expiresAt : Nat,
   absoluteExpiresAt : Nat, revoked : BOOLEAN]

RequestRecords ==
  [at : Labels, token : Tokens, now : Nat, absoluteExpiresAt : Nat,
   answer : Tokens, logout : BOOLEAN]

NoNumber == [number |-> 0, expiresAt |-> 0]

Idle ==
  [at |-> "idle", token |-> NoNumber, now |-> 0, absoluteExpiresAt |-> 0,
   answer |-> NoNumber, logout |-> FALSE]

Smaller(a, b) == IF a < b THEN a ELSE b

RotationInit ==
  /\ now = 0
  /\ row = [token |-> NoNumber, previous |-> 0, validUntil |-> 0,
            expiresAt |-> 0, absoluteExpiresAt |-> 0, revoked |-> FALSE]
  /\ jar = NoToken
  /\ request = [r \in Requests |-> Idle]
  /\ answered = {}
  /\ replayed = FALSE
  /\ missed = FALSE
  /\ overtaken = FALSE

-----------------------------------------------------------------------------
(* IssueRefreshToken: a token does not outlive its session *)
IssueRefreshToken(number, sessionExpiresAt, at) ==
  [number |-> number, expiresAt |-> Smaller(at + RefreshTTL, sessionExpiresAt)]

(* checkSession: not revoked, neither deadline passed *)
SessionLives(r, at) ==
  ~r.revoked /\ r.expiresAt > at /\ r.absoluteExpiresAt > at

(* createSessionWithStore, for a login that succeeded *)
CreateSession ==
  /\ row.token.number = 0
  /\ LET token == IssueRefreshToken(1, now + IdleTTL, now)
     IN  /\ row' = [row EXCEPT !.token = token, !.expiresAt = now + IdleTTL,
                               !.absoluteExpiresAt = now + AbsoluteTTL]
         /\ jar' = token
  /\ UNCHANGED <<now, request, answered, replayed, missed, overtaken>>

(* The client sends Refresh, AuthenticateCookie or Logout with its token *)
Send(r, logout) ==
  /\ jar # NoToken
  /\ request[r].at = "idle"
  /\ overtaken' = \/ overtaken
                  \/ \E o \in Requests : request[o].at # "idle"
                                        /\ request[o].token # jar
  /\ request' = [request EXCEPT
       ![r] = [Idle EXCEPT !.at = "sent", !.token = jar, !.logout = logout]]
  /\ UNCHANGED <<now, row, jar, answered, replayed, missed>>

WindowOpen(latest, token, at) ==
  latest.previous = token.number /\ latest.validUntil >= at

(* replayRefreshToken on the row just read: the successor again for the
   previous token within its window, anything else is a replay *)
ReplayRefreshToken(r, latest, at) ==
  /\ request' = [request EXCEPT
       ![r].at = IF WindowOpen(latest, request[r].token, at)
                 THEN "answer" ELSE "replay",
       ![r].now = at, ![r].answer = latest.token]
  /\ missed' = (missed \/ (/\ latest.previous = request[r].token.number
                           /\ ~WindowOpen(latest, request[r].token, at)))

Answer(r, answer) ==
  answered' = answered \cup {<<request[r].token.number, answer.number>>}

Refused(r) ==
  /\ request' = [request EXCEPT ![r] = Idle]
  /\ UNCHANGED missed

(* rotateRefreshToken up to the comparison with the current token: parse,
   read the row, check it *)
ReadForRotation(r) ==
  /\ request[r].at = "sent" /\ ~request[r].logout
  /\ IF request[r].token.expiresAt <= now \/ ~SessionLives(row, now)
     THEN Refused(r)
     ELSE IF row.token = request[r].token
     THEN /\ request' = [request EXCEPT
               ![r].at = "rotate", ![r].now = now,
               ![r].absoluteExpiresAt = row.absoluteExpiresAt]
          /\ UNCHANGED missed
     ELSE ReplayRefreshToken(r, row, now)
  /\ UNCHANGED <<now, row, jar, answered, replayed, overtaken>>

NextExpiry(r) ==
  Smaller(request[r].now + IdleTTL, request[r].absoluteExpiresAt)

NextToken(r) ==
  IssueRefreshToken(row.token.number + 1, NextExpiry(r), request[r].now)

(* Fault: the exchanged token is not kept as the previous one. *)
RotatedWithoutPrevious(r) ==
  [row EXCEPT !.token = NextToken(r), !.expiresAt = NextExpiry(r)]

(* What the UPDATE of RotateRefreshToken sets *)
Rotated(r) ==
  [row EXCEPT !.token = NextToken(r), !.previous = row.token.number,
              !.validUntil = request[r].now + RotationGrace,
              !.expiresAt = NextExpiry(r)]

(* Fault: the UPDATE does not compare the stored hash. *)
RotatesAnyToken(r) == ~row.revoked

(* Fault: the UPDATE does not look at revoked_at. *)
RotatesRevoked(r) == row.token = request[r].token

(* Its condition: revoked_at = 0 AND refresh_token_hash = the presented one *)
Rotates(r) == row.token = request[r].token /\ ~row.revoked

RotateRefreshToken(r) ==
  /\ request[r].at = "rotate"
  /\ row.token.number < MaxRotations
  /\ IF Rotates(r)
     THEN /\ row' = Rotated(r)
          /\ request' = [request EXCEPT ![r].at = "answer",
                                        ![r].answer = NextToken(r)]
     ELSE /\ request' = [request EXCEPT ![r].at = "reload"]
          /\ UNCHANGED row
  /\ UNCHANGED <<now, jar, answered, replayed, missed, overtaken>>

(* The row changed in between: the latest one, with the clock of the start *)
ReloadSession(r) ==
  /\ request[r].at = "reload"
  /\ IF SessionLives(row, request[r].now)
     THEN ReplayRefreshToken(r, row, request[r].now)
     ELSE Refused(r)
  /\ UNCHANGED <<now, row, jar, answered, replayed, overtaken>>

(* RevokeSession for a replay; its error is ignored *)
RevokeReplayed(r) ==
  /\ request[r].at = "replay"
  /\ replayed' = TRUE
  /\ row' = [row EXCEPT !.revoked = TRUE]
  /\ request' = [request EXCEPT ![r] = Idle]
  /\ UNCHANGED <<now, jar, answered, missed, overtaken>>

(* The answer reaches the client, or is lost on the way *)
Deliver(r, lost) ==
  /\ request[r].at = "answer"
  /\ Answer(r, request[r].answer)
  /\ jar' = IF lost THEN jar ELSE request[r].answer
  /\ request' = [request EXCEPT ![r] = Idle]
  /\ UNCHANGED <<now, row, replayed, missed, overtaken>>

(* A statement fails or the client gives up: the request ends *)
Fail(r) ==
  /\ request[r].at \in {"sent", "rotate", "reload", "replay", "logout"}
  /\ request' = [request EXCEPT ![r] = Idle]
  /\ UNCHANGED <<now, row, jar, answered, replayed, missed, overtaken>>

(* Logout: getSessionWithRefreshToken accepts the current token and the
   previous one within its window *)
ReadForLogout(r) ==
  /\ request[r].at = "sent" /\ request[r].logout
  /\ IF /\ request[r].token.expiresAt > now
        /\ SessionLives(row, now)
        /\ row.token = request[r].token \/ WindowOpen(row, request[r].token, now)
     THEN request' = [request EXCEPT ![r].at = "logout"]
     ELSE request' = [request EXCEPT ![r] = Idle]
  /\ UNCHANGED <<now, row, jar, answered, replayed, missed, overtaken>>

(* RevokeSession of Logout *)
RevokeSession(r) ==
  /\ request[r].at = "logout"
  /\ row' = [row EXCEPT !.revoked = TRUE]
  /\ request' = [request EXCEPT ![r] = Idle]
  /\ UNCHANGED <<now, jar, answered, replayed, missed, overtaken>>

(* RevokeUserSession, RevokeOtherSessions from another session *)
RevokedElsewhere ==
  /\ row.token.number # 0 /\ ~row.revoked
  /\ row' = [row EXCEPT !.revoked = TRUE]
  /\ UNCHANGED <<now, jar, request, answered, replayed, missed, overtaken>>

Tick ==
  /\ now < MaxTime
  /\ now' = now + 1
  /\ UNCHANGED <<row, jar, request, answered, replayed, missed, overtaken>>

RotationNext ==
  \/ CreateSession \/ RevokedElsewhere \/ Tick
  \/ \E r \in Requests :
       \/ \E b \in BOOLEAN : Send(r, b) \/ Deliver(r, b)
       \/ ReadForRotation(r) \/ RotateRefreshToken(r) \/ ReloadSession(r)
       \/ RevokeReplayed(r) \/ Fail(r) \/ ReadForLogout(r) \/ RevokeSession(r)

RotationSpec == RotationInit /\ [][RotationNext]_rotationVars

-----------------------------------------------------------------------------
RotationTypeOK ==
  /\ now \in Nat
  /\ row \in Rows
  /\ jar \in Tokens \cup {NoToken}
  /\ request \in [Requests -> RequestRecords]
  /\ answered \subseteq Nat \X Nat
  /\ {replayed, missed, overtaken} \subseteq BOOLEAN

(* Whatever refreshes run at the same time and whichever are retried, a
   token is only ever exchanged for its one successor: no two requests with
   the same token receive different ones (auth.go, rotateRefreshToken and
   replayRefreshToken; "concurrent browser requests and a retry after a lost
   response idempotent", authentication.md). *)
OneSuccessor ==
  /\ \A a \in answered : a[2] = a[1] + 1
  /\ \A r \in Requests :
       request[r].at = "answer" =>
         request[r].answer.number = request[r].token.number + 1

(* A client that does not use a new token while a request with an older one
   runs loses its session to replay detection only when a request came after
   the window of its token: lost answers, retries and requests at the same
   time do no harm (replayRefreshToken, auth.go:373). *)
HonestClientKeepsSession == replayed => missed \/ overtaken

(* A revoked session is never touched again: a refresh that read the row
   before a logout or revocation does not rotate it after (the revoked_at
   condition of RotateRefreshTokenStatement), and no rotation moves the
   absolute deadline or passes it. *)
RevocationIsFinal ==
  [][/\ row.revoked => row' = row
     /\ row.token.number # 0 =>
          /\ row'.absoluteExpiresAt = row.absoluteExpiresAt
          /\ row'.expiresAt # row.expiresAt =>
               row'.expiresAt <= row.absoluteExpiresAt]_rotationVars

=============================================================================
