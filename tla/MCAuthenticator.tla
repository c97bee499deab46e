--------------------------- MODULE MCAuthenticator ---------------------------
(***************************************************************************)
(* The three parts of the Authenticator, each on a small instance.  They   *)
(* keep their state in different tables and no operation of one reads what *)
(* an operation of another writes, except that a session is only created   *)
(* for a registered account; a behaviour follows the one the first state   *)
(* chooses, the others stay as they are.                                   *)
(***************************************************************************)
EXTENDS RefreshRotation, Credentials, Registration, TLC

CONSTANTS p1, p2, p3, x1, x2, alice, bob, forAlice, forAnyone

VARIABLE subject  \* the part this behaviour follows

allVars == <<rotationVars, credentialVars, registrationVars, subject>>

MCBoundEmail ==
  [i \in Invites |-> IF i = forAlice THEN alice ELSE NoEmail]

MCSymmetry == Permutations({p1, p2}) \cup Permutations({x1, x2})

MCInit ==
  /\ subject \in {"rotation", "credentials", "registration"}
  /\ RotationInit /\ CredentialsInit
  /\ IF subject = "registration" THEN RegistrationInit
     ELSE RegistrationInit /\ mode = "open"

MCNext ==
  \/ /\ subject = "rotation" /\ RotationNext
     /\ UNCHANGED <<credentialVars, registrationVars, subject>>
  \/ /\ subject = "credentials" /\ CredentialsNext
     /\ UNCHANGED <<rotationVars, registrationVars, subject>>
  \/ /\ subject = "registration" /\ RegistrationNext
     /\ UNCHANGED <<rotationVars, credentialVars, subject>>

MCSpec == MCInit /\ [][MCNext]_allVars

=============================================================================
