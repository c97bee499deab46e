----------------------------- MODULE ReadStates -----------------------------
(***************************************************************************)
(* A user's read watermark in one channel of the Message service.  Several *)
(* devices acknowledge messages at once; each AckMessage is a transaction  *)
(* that advances the row, reads the channel's state back and, when it      *)
(* advanced, enqueues message.read.updated.  Message IDs are drawn before  *)
(* the transaction that stores the message, so they become visible in any  *)
(* order; a deleted message can still be acknowledged.                     *)
(***************************************************************************)
EXTENDS Naturals, Sequences, FiniteSets

CONSTANTS
  Devices,    \* concurrent AckMessage calls of the user
  LastId      \* message IDs are 1..LastId

ASSUME ReadConstants == LastId \in Nat

VARIABLES
  posted,     \* per message ID: not stored yet, live or deleted
  watermark,  \* last_read_message_id, 0 without a row
  ack,        \* per device: its step, target and what its transaction knows
  holder,     \* the devices whose open transaction locks the row
  told        \* the read-state events, in the order of their stream

readVars == <<posted, watermark, ack, holder, told>>

Ids == 1..LastId

NoAck == [step |-> "idle"]

\* What message.read.updated carries.
ReadStatesSet == [last : 0..LastId, read : 0..LastId]

Acks ==
  [step : {"upsert"}, target : Ids]
    \union [step : {"list"}, target : Ids, mark : 0..LastId]
    \union [step : {"commit"}, target : Ids, mark : 0..LastId, state : ReadStatesSet]

ReadTypeOK ==
  /\ posted \in [Ids -> {"none", "live", "deleted"}]
  /\ watermark \in 0..LastId
  /\ ack \in [Devices -> Acks \union {NoAck}]
  /\ holder \in SUBSET Devices
  /\ told \in Seq(ReadStatesSet)

ReadInit ==
  /\ posted = [m \in Ids |-> "none"]
  /\ watermark = 0
  /\ ack = [d \in Devices |-> NoAck]
  /\ holder = {}
  /\ told = <<>>

(***************************************************************************)
(* Operators                                                               *)
(***************************************************************************)

Greatest(s) == IF s = {} THEN 0 ELSE CHOOSE m \in s : \A n \in s : n <= m

LastMessageId == Greatest({m \in Ids : posted[m] = "live"})

\* The upsert's WHERE: the watermark only grows.
Advanced(d) == IF watermark < ack[d].target THEN ack[d].target ELSE watermark

EndAck(d) ==
  /\ ack' = [ack EXCEPT ![d] = NoAck]
  /\ holder' = holder \ {d}

(***************************************************************************)
(* Actions                                                                 *)
(***************************************************************************)

StoreMessage(m) ==
  /\ posted[m] = "none"
  /\ posted' = [posted EXCEPT ![m] = "live"]
  /\ UNCHANGED <<watermark, ack, holder, told>>

RemoveMessage(m) ==
  /\ posted[m] = "live"
  /\ posted' = [posted EXCEPT ![m] = "deleted"]
  /\ UNCHANGED <<watermark, ack, holder, told>>

\* AckMessage is called for a message the device was shown.
BeginAck(d, m) ==
  /\ ack[d] = NoAck /\ posted[m] # "none"
  /\ ack' = [ack EXCEPT ![d] = [step |-> "upsert", target |-> m]]
  /\ UNCHANGED <<posted, watermark, holder, told>>

\* Fault: the upsert waits for no other transaction.
UpsertUnlocked(d) ==
  /\ ack[d].step = "upsert"
  /\ ack' = [ack EXCEPT ![d] = [step |-> "list", target |-> @.target, mark |-> Advanced(d)]]
  /\ holder' = holder \union {d}
  /\ UNCHANGED <<posted, watermark, told>>

\* The upsert locks the row until the transaction ends and computes the new
\* watermark from the row as it is then.
Upsert(d) ==
  /\ ack[d].step = "upsert" /\ holder = {}
  /\ ack' = [ack EXCEPT ![d] = [step |-> "list", target |-> @.target, mark |-> Advanced(d)]]
  /\ holder' = {d}
  /\ UNCHANGED <<posted, watermark, told>>

\* ListReadyChannelReadStates, within the transaction.
ListState(d) ==
  /\ ack[d].step = "list"
  /\ ack' = [ack EXCEPT ![d] =
       [step |-> "commit", target |-> @.target, mark |-> @.mark,
        state |-> [last |-> LastMessageId, read |-> @.mark]]]
  /\ UNCHANGED <<posted, watermark, holder, told>>

\* An advance is announced with the state read back, in the same commit.
CommitAck(d) ==
  /\ ack[d].step = "commit"
  /\ watermark' = ack[d].mark
  /\ told' = IF ack[d].mark = watermark THEN told ELSE Append(told, ack[d].state)
  /\ EndAck(d)
  /\ UNCHANGED posted

AckFails(d) ==
  /\ ack[d] # NoAck
  /\ EndAck(d)
  /\ UNCHANGED <<posted, watermark, told>>

ReadNext ==
  \/ \E m \in Ids : StoreMessage(m) \/ RemoveMessage(m)
  \/ \E d \in Devices :
       \/ \E m \in Ids : BeginAck(d, m)
       \/ Upsert(d) \/ ListState(d) \/ CommitAck(d) \/ AckFails(d)

ReadSpec == ReadInit /\ [][ReadNext]_readVars

(***************************************************************************)
(* Properties                                                              *)
(***************************************************************************)

\* The events of a user's read state carry growing watermarks and end at the
\* stored one, so a device that applies them in order shows what a fresh READY
\* would, however the devices' acknowledgements overlap (AckMessage,
\* read_states.go; ackMessageQuery).
ReadEventsFollowRow ==
  /\ \A i, j \in DOMAIN told : i < j => told[i].read < told[j].read
  /\ watermark = IF told = <<>> THEN 0 ELSE told[Len(told)].read

=============================================================================
