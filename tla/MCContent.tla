------------------------------ MODULE MCContent ------------------------------
(***************************************************************************)
(* The transactions of the services that own content: the claim of an      *)
(* idempotency key, relationships of the User service, mention expansion   *)
(* and read states of the Message service, uploads of the Media service,   *)
(* the channel layout and the membership of the Guild service.  They share *)
(* no state; a behaviour follows the one its first state chooses.          *)
(***************************************************************************)
EXTENDS Idempotency, Relationships, Mentions, ReadStates, Uploads, ChannelLayout,
        Membership, TLC

VARIABLE subject  \* the part this behaviour follows

MCInit ==
  /\ subject \in {"keys", "relations", "mentions", "read states", "uploads", "layout",
                  "membership"}
  /\ KeyInit /\ RelationInit /\ MentionInit /\ ReadInit /\ UploadInit /\ LayoutInit
  /\ MembershipInit
  /\ subject # "keys" => {creator[c].hash : c \in Creators} = {CHOOSE f \in Fingerprints : TRUE}

MCNext ==
  \/ /\ subject = "keys" /\ KeyNext
     /\ UNCHANGED <<relationVars, mentionVars, readVars, uploadVars, layoutVars,
                    membershipVars, subject>>
  \/ /\ subject = "relations" /\ RelationNext
     /\ UNCHANGED <<keyVars, mentionVars, readVars, uploadVars, layoutVars,
                    membershipVars, subject>>
  \/ /\ subject = "mentions" /\ MentionNext
     /\ UNCHANGED <<keyVars, relationVars, readVars, uploadVars, layoutVars,
                    membershipVars, subject>>
  \/ /\ subject = "read states" /\ ReadNext
     /\ UNCHANGED <<keyVars, relationVars, mentionVars, uploadVars, layoutVars,
                    membershipVars, subject>>
  \/ /\ subject = "uploads" /\ UploadNext
     /\ UNCHANGED <<keyVars, relationVars, mentionVars, readVars, layoutVars,
                    membershipVars, subject>>
  \/ /\ subject = "layout" /\ LayoutNext
     /\ UNCHANGED <<keyVars, relationVars, mentionVars, readVars, uploadVars,
                    membershipVars, subject>>
  \/ /\ subject = "membership" /\ MembershipNext
     /\ UNCHANGED <<keyVars, relationVars, mentionVars, readVars, uploadVars,
                    layoutVars, subject>>

MCSpec ==
  MCInit /\ [][MCNext]_<<keyVars, relationVars, mentionVars, readVars, uploadVars,
                         layoutVars, membershipVars, subject>>

\* Requests in progress are interchangeable, and so are the users who joined.
Symmetry == Permutations(Tasks) \cup Permutations(People \ {Founder})

==============================================================================
