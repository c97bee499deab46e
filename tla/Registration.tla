---------------------------- MODULE Registration ----------------------------
(***************************************************************************)
(* Registration, across two services: the Authenticator reserves an        *)
(* invitation, the User service creates the user, and a transaction of the *)
(* Authenticator stores the credential, redeems the invitation and issues  *)
(* the token that verifies the email.  Any call may fail, before or after  *)
(* it took effect, and the registrant tries again from the start.          *)
(*                                                                         *)
(* Deadlines are not counted: a reservation lapses, and an invitation      *)
(* expires, at any moment.                                                 *)
(***************************************************************************)
EXTENDS Integers, FiniteSets

CONSTANTS
  Registrations,   \* calls of Register in progress
  Users,           \* user ids, bound: users created
  NoUser,
  Emails,
  NoEmail,
  Invites,
  NoInvite,
  BoundEmail       \* the email an invitation is bound to, or NoEmail

ASSUME RegistrationConstants ==
  /\ NoUser \notin Users
  /\ NoEmail \notin Emails
  /\ NoInvite \notin Invites
  /\ BoundEmail \in [Invites -> Emails \cup {NoEmail}]

Modes == {"open", "closed", "invite_only"}

VARIABLES
  mode,          \* Registration.Mode, fixed while the service runs
  invite,        \* rows of registration_invites
  user,          \* rows of the User service; NoEmail before the row exists
  credential,    \* users with a row in user_credentials
  verification,  \* email verification tokens: state and email
  registration,  \* calls: next step, email, user, invitation, deadline kept
  addresses,     \* emails a user has had
  confirmed      \* <<user, email>> whose token was confirmed

registrationVars ==
  <<mode, invite, user, credential, verification, registration, addresses,
    confirmed>>

Steps == {"idle", "create", "check", "release", "transact"}

NoRegistration ==
  [at |-> "idle", email |-> NoEmail, user |-> NoUser, invite |-> NoInvite,
   inTime |-> FALSE]

RegistrationInit ==
  /\ mode \in Modes
  /\ invite = [i \in Invites |->
       [reserved |-> NoEmail, held |-> FALSE, redeemedBy |-> NoUser,
        redeemedFor |-> NoEmail, revoked |-> FALSE, expired |-> FALSE]]
  /\ user = [u \in Users |-> [email |-> NoEmail, verified |-> FALSE]]
  /\ credential = {}
  /\ verification = [u \in Users |-> [state |-> "none", email |-> NoEmail]]
  /\ registration = [r \in Registrations |-> NoRegistration]
  /\ addresses = [u \in Users |-> {}]
  /\ confirmed = {}

-----------------------------------------------------------------------------
Continue(r, at) == registration' = [registration EXCEPT ![r].at = at]

End(r) == registration' = [registration EXCEPT ![r] = NoRegistration]

Begin(r, email, i) ==
  registration' = [registration EXCEPT ![r] =
    [at |-> "create", email |-> email, user |-> NoUser, invite |-> i, inTime |-> FALSE]]

(* The WHERE clause of ReserveRegistrationInvite *)
Reservable(i, email) ==
  /\ ~invite[i].revoked /\ invite[i].redeemedBy = NoUser /\ ~invite[i].expired
  /\ BoundEmail[i] \in {NoEmail, email}
  /\ ~invite[i].held \/ invite[i].reserved = email

(* Register up to the User service: reserveRegistrationInvite *)
Register(r, email) ==
  /\ registration[r].at = "idle"
  /\ \/ /\ mode = "open"
        /\ Begin(r, email, NoInvite)
        /\ UNCHANGED invite
     \/ /\ mode = "invite_only"
        /\ \E i \in Invites :
             /\ Reservable(i, email)
             /\ invite' = [invite EXCEPT ![i].reserved = email, ![i].held = TRUE]
             /\ Begin(r, email, i)
  /\ UNCHANGED <<mode, user, credential, verification, addresses, confirmed>>

(* CreateUser: the user is new; its answer may be lost *)
CreateUser(r, u, lost) ==
  /\ registration[r].at = "create"
  /\ \A v \in Users : user[v].email # registration[r].email
  /\ user[u].email = NoEmail
  /\ user' = [user EXCEPT ![u].email = registration[r].email]
  /\ addresses' = [addresses EXCEPT ![u] = @ \cup {registration[r].email}]
  /\ IF lost THEN End(r)
     ELSE registration' = [registration EXCEPT ![r].at = "transact", ![r].user = u]
  /\ UNCHANGED <<mode, invite, credential, verification, confirmed>>

(* ... or AlreadyExists: GetUser finds the user with this email, or none if
   it was the username that is taken or the user has moved away *)
UserAlreadyExists(r) ==
  /\ registration[r].at = "create"
  /\ IF \E u \in Users : user[u].email = registration[r].email
     THEN registration' = [registration EXCEPT ![r].at = "check",
            ![r].user = CHOOSE u \in Users : user[u].email = registration[r].email]
     ELSE End(r)
  /\ UNCHANGED <<mode, invite, user, credential, verification, addresses, confirmed>>

(* GetUserCredential: the user is complete, or a leftover to be claimed *)
CheckCredential(r) ==
  /\ registration[r].at = "check"
  /\ Continue(r, IF registration[r].user \in credential
                 THEN "release" ELSE "transact")
  /\ UNCHANGED <<mode, invite, user, credential, verification, addresses, confirmed>>

(* releaseRegistrationInvite *)
ReleaseRegistrationInvite(r) ==
  /\ registration[r].at = "release"
  /\ LET i == registration[r].invite
     IN  IF /\ i # NoInvite
            /\ invite[i].reserved = registration[r].email
            /\ invite[i].redeemedBy = NoUser
         THEN invite' = [invite EXCEPT ![i].reserved = NoEmail,
                                       ![i].held = FALSE]
         ELSE UNCHANGED invite
  /\ End(r)
  /\ UNCHANGED <<mode, user, credential, verification, addresses, confirmed>>

(* The clock is read before the transaction *)
ReadClock(r) ==
  /\ registration[r].at = "transact" /\ ~registration[r].inTime
  /\ registration[r].invite # NoInvite
  /\ invite[registration[r].invite].held
  /\ registration' = [registration EXCEPT ![r].inTime = TRUE]
  /\ UNCHANGED <<mode, invite, user, credential, verification, addresses, confirmed>>

(* Fault: the invitation's reservation and redemption are not checked. *)
RedeemsAnything(r, i) == ~invite[i].revoked

(* The WHERE clause of RedeemRegistrationInvite *)
Redeems(r, i) ==
  /\ invite[i].reserved = registration[r].email
  /\ invite[i].held \/ registration[r].inTime
  /\ ~invite[i].revoked
  /\ invite[i].redeemedBy = NoUser

Redeem(r, i) ==
  [invite EXCEPT ![i].redeemedBy = registration[r].user,
                 ![i].redeemedFor = registration[r].email]

IssueVerification(u, email) ==
  verification' = [verification EXCEPT ![u] = [state |-> "issued", email |-> email]]

(* The transaction of Register: insert the credential if there is none,
   redeem the invitation, issue the verification token; all or nothing *)
StoreCredential(r) ==
  /\ registration[r].at = "transact"
  /\ LET u == registration[r].user
         i == registration[r].invite
     IN  IF u \notin credential /\ (i = NoInvite \/ Redeems(r, i))
         THEN /\ credential' = credential \cup {u}
              /\ IssueVerification(u, registration[r].email)
              /\ invite' = IF i = NoInvite THEN invite ELSE Redeem(r, i)
         ELSE UNCHANGED <<credential, verification, invite>>
  /\ End(r)
  /\ UNCHANGED <<mode, user, addresses, confirmed>>

(* A call fails or its server stops: the registrant starts over *)
RegistrationFails(r) ==
  /\ registration[r].at # "idle"
  /\ End(r)
  /\ UNCHANGED <<mode, invite, user, credential, verification, addresses, confirmed>>

-----------------------------------------------------------------------------
ReservationLapses(i) ==
  /\ invite[i].held
  /\ invite' = [invite EXCEPT ![i].held = FALSE]
  /\ UNCHANGED <<mode, user, credential, verification, registration,
                 addresses, confirmed>>

(* A reservation ends no later than its invitation *)
InviteExpires(i) ==
  /\ ~invite[i].expired
  /\ invite' = [invite EXCEPT ![i].expired = TRUE, ![i].held = FALSE]
  /\ UNCHANGED <<mode, user, credential, verification, registration,
                 addresses, confirmed>>

RevokeRegistrationInvite(i) ==
  /\ ~invite[i].revoked /\ invite[i].redeemedBy = NoUser
  /\ invite' = [invite EXCEPT ![i].revoked = TRUE]
  /\ UNCHANGED <<mode, user, credential, verification, registration,
                 addresses, confirmed>>

(* UpdateEmail of the User service; the Authenticator is not told *)
UpdateEmail(u, email) ==
  /\ u \in credential
  /\ \A v \in Users : user[v].email # email
  /\ user' = [user EXCEPT ![u] = [email |-> email, verified |-> FALSE]]
  /\ addresses' = [addresses EXCEPT ![u] = @ \cup {email}]
  /\ UNCHANGED <<mode, invite, credential, verification, registration, confirmed>>

(* RequestEmailVerification: only a completed registration gets a token; the
   address was read before, and may have been replaced since *)
RequestEmailVerification(u, email) ==
  /\ u \in credential
  /\ email \in addresses[u]
  /\ IssueVerification(u, email)
  /\ UNCHANGED <<mode, invite, user, credential, registration, addresses, confirmed>>

(* Fault: MarkEmailVerified does not compare the address. *)
MarksAnyAddress(u) == user[u].email # NoEmail

(* The WHERE clause of MarkUserEmailVerified *)
Marks(u) == user[u].email = verification[u].email

(* ConfirmEmailVerification: MarkEmailVerified is called before the commit
   that consumes the token; the call or the commit may fail *)
ConfirmEmailVerification(u, lost) ==
  /\ verification[u].state = "issued"
  /\ Marks(u)
  /\ user' = [user EXCEPT ![u].verified = TRUE]
  /\ confirmed' = confirmed \cup {<<u, verification[u].email>>}
  /\ verification' = IF lost THEN verification
                     ELSE [verification EXCEPT ![u].state = "consumed"]
  /\ UNCHANGED <<mode, invite, credential, registration, addresses>>

RegistrationNext ==
  \/ \E i \in Invites :
       ReservationLapses(i) \/ InviteExpires(i) \/ RevokeRegistrationInvite(i)
  \/ \E u \in Users :
       \/ \E e \in Emails : UpdateEmail(u, e) \/ RequestEmailVerification(u, e)
       \/ \E lost \in BOOLEAN : ConfirmEmailVerification(u, lost)
  \/ \E r \in Registrations :
       \/ \E e \in Emails : Register(r, e)
       \/ \E u \in Users, lost \in BOOLEAN : CreateUser(r, u, lost)
       \/ UserAlreadyExists(r) \/ CheckCredential(r)
       \/ ReleaseRegistrationInvite(r) \/ ReadClock(r)
       \/ StoreCredential(r) \/ RegistrationFails(r)

RegistrationSpec == RegistrationInit /\ [][RegistrationNext]_registrationVars

-----------------------------------------------------------------------------
RegistrationTypeOK ==
  /\ mode \in Modes
  /\ invite \in [Invites ->
       [reserved : Emails \cup {NoEmail}, held : BOOLEAN,
        redeemedBy : Users \cup {NoUser}, redeemedFor : Emails \cup {NoEmail},
        revoked : BOOLEAN, expired : BOOLEAN]]
  /\ user \in [Users -> [email : Emails \cup {NoEmail}, verified : BOOLEAN]]
  /\ credential \subseteq Users
  /\ verification \in [Users -> [state : {"none", "issued", "consumed"},
                                 email : Emails \cup {NoEmail}]]
  /\ registration \in [Registrations ->
       [at : Steps, email : Emails \cup {NoEmail}, user : Users \cup {NoUser},
        invite : Invites \cup {NoInvite}, inTime : BOOLEAN]]
  /\ addresses \in [Users -> SUBSET Emails]
  /\ confirmed \subseteq Users \X Emails

Redeemed(u) == {i \in Invites : invite[i].redeemedBy = u}

(* An invitation is never lost and never shared: a redeemed one belongs to a
   user with a credential, it was not revoked and it was meant for the email
   that registered, nobody redeems two, and whoever got a credential while
   only invitations were accepted redeemed one.  The reservation, the
   creation of the user and the transaction are three calls, other
   registrations, lapses and revocations in between (Register,
   auth.go:49-133). *)
InvitePerCredential ==
  /\ \A i \in Invites :
       invite[i].redeemedBy # NoUser =>
         /\ invite[i].redeemedBy \in credential
         /\ ~invite[i].revoked
         /\ BoundEmail[i] \in {NoEmail, invite[i].redeemedFor}
         /\ invite[i].reserved = invite[i].redeemedFor
  /\ \A u \in Users : \A i, j \in Redeemed(u) : i = j
  /\ mode = "invite_only" => \A u \in credential : Redeemed(u) # {}

(* A verified address is the user's present one and a token sent there was
   confirmed, whatever addresses the user had when tokens were requested; a
   leftover user, whose registration stopped before the credential, is never
   verified; a token is only spent with the verification it was for
   (RequestEmailVerification and ConfirmEmailVerification, recovery.go;
   "keeps stale verification tokens from confirming an address the user has
   since replaced", users.go:155). *)
VerifiedAddressConfirmed ==
  \A u \in Users :
    /\ user[u].verified => u \in credential /\ <<u, user[u].email>> \in confirmed
    /\ verification[u].state = "consumed" => <<u, verification[u].email>> \in confirmed

=============================================================================
