----------------------------- MODULE Checkpoints -----------------------------
(***************************************************************************)
(* Acknowledged sequences on their way from a client's heartbeats to the   *)
(* logical session: the Gateway checks a heartbeat against what it has     *)
(* written to the socket (client.go, frames.go), keeps one dirty           *)
(* checkpoint per session (checkpoint.go) and synchronizes it in the       *)
(* background; the Session node applies what matches the current binding   *)
(* (SyncGatewayConnections).                                               *)
(*                                                                         *)
(* One session, one Gateway, and the connections a client makes to it one  *)
(* after the other; an older one may linger until its handler notices.     *)
(* The replay buffer is as long as it needs to be (LogicalSession has the  *)
(* bounded one), so RESUME succeeds from the acknowledged sequence on.     *)
(***************************************************************************)
EXTENDS Integers

CONSTANTS Sockets, NoSocket,
          MaxSequence   \* bound: events of the session

ASSUME CheckpointConstants == NoSocket \notin Sockets /\ MaxSequence \in Nat

VARIABLES
    socket,     \* each connection, as its handler and its client see it
    session,    \* bound connection, bindingEpoch, sequence, ackedSequence
    dirty,      \* checkpointManager.pending[session]
    batch,      \* what flush is synchronizing
    requests,   \* SyncGatewayConnections calls not yet handled
    displaced   \* connections whose dirty checkpoint another one overwrote

checkpointVars == <<socket, session, dirty, batch, requests, displaced>>

Clean == [conn |-> NoSocket, epoch |-> 0, sequence |-> 0]

CheckpointOf(c) ==
    [conn |-> c, epoch |-> socket[c].epoch, sequence |-> socket[c].acked]

Nobody == [phase |-> "new", epoch |-> 0, got |-> 0, ready |-> 0, queued |-> 0,
           highest |-> 0, acked |-> 0, noting |-> FALSE]

-------------------------------------------------------------------------------
(* The client connects and resumes from q, which it has received; a first    *)
(* connection identifies, which is the same from 0.  READY or RESUMED is the *)
(* session's next event, and the handshake lasts until it is written.        *)
Bind(c, q) ==
    /\ socket[c].phase = "new"
    /\ session.sequence < MaxSequence
    /\ session.acked <= q
    /\ q = 0 \/ \E d \in Sockets : q <= socket[d].got
    /\ session' = [session EXCEPT !.bound = c, !.epoch = @ + 1, !.sequence = @ + 1]
    /\ socket' = [socket EXCEPT ![c] =
                    [phase |-> "binding", epoch |-> session.epoch + 1, got |-> q,
                     ready |-> session.sequence + 1, queued |-> session.sequence + 1,
                     highest |-> 0, acked |-> 0, noting |-> FALSE]]
    /\ UNCHANGED <<dirty, batch, requests, displaced>>

(* The session's next event, queued for the bound connection. *)
AppendEvent ==
    /\ session.sequence < MaxSequence
    /\ session' = [session EXCEPT !.sequence = @ + 1]
    /\ socket' = [c \in Sockets |->
                    IF c = session.bound THEN [socket[c] EXCEPT !.queued = session.sequence + 1]
                    ELSE socket[c]]
    /\ UNCHANGED <<dirty, batch, requests, displaced>>

(* writeSessionFrame: the frame goes to the socket, even if a newer          *)
(* connection has been bound since it was queued ...                         *)
WriteFrame(c) ==
    /\ socket[c].phase \in {"binding", "ready"}
    /\ socket[c].got < socket[c].queued
    /\ socket' = [socket EXCEPT ![c].got = @ + 1]
    /\ UNCHANGED <<session, dirty, batch, requests, displaced>>

(* ... and its sequence is recorded after that.  The binding is ready when   *)
(* READY or RESUMED has been written.                                        *)
RecordBindingMetadata(c) ==
    /\ socket[c].phase \in {"binding", "ready"}
    /\ socket[c].highest < socket[c].got
    /\ socket' = [socket EXCEPT ![c].highest = socket[c].got,
                                ![c].phase = IF socket[c].got >= socket[c].ready
                                             THEN "ready" ELSE @]
    /\ UNCHANGED <<session, dirty, batch, requests, displaced>>

(* A heartbeat for q, whatever the client sends: one ahead of the Gateway is *)
(* refused, one that advances nothing leaves no checkpoint.                  *)
HandleHeartbeat(c, q) ==
    /\ socket[c].phase = "ready" /\ ~socket[c].noting
    /\ q \in socket[c].acked + 1 .. socket[c].highest
    /\ socket' = [socket EXCEPT ![c].acked = q, ![c].noting = TRUE]
    /\ UNCHANGED <<session, dirty, batch, requests, displaced>>

(* checkpointManager.record. *)
Record(c) ==
    LET new == CheckpointOf(c)
    IN  /\ socket[c].noting
        /\ dirty' = IF \/ dirty.conn # c \/ dirty.epoch # new.epoch
                       \/ new.sequence > dirty.sequence
                    THEN new ELSE dirty
        /\ displaced' = IF dirty.conn \in Sockets \ {c} THEN displaced \cup {dirty.conn}
                        ELSE displaced
        /\ socket' = [socket EXCEPT ![c].noting = FALSE]
        /\ UNCHANGED <<session, batch, requests>>

(* The handler ends: the socket failed or was closed, or the Session stream  *)
(* was, as a newer connection makes it do.                                   *)
EndConnection(c) ==
    /\ socket[c].phase \in {"binding", "ready"} /\ ~socket[c].noting
    /\ socket' = [socket EXCEPT ![c].phase = "closed"]
    /\ dirty' = IF dirty.conn = c /\ dirty.epoch = socket[c].epoch THEN Clean ELSE dirty
    /\ UNCHANGED <<session, batch, requests, displaced>>

(* Session notices: the detach frame, or the end of the stream. *)
DetachBinding(c) ==
    /\ socket[c].phase = "closed" /\ session.bound = c
    /\ session' = [session EXCEPT !.bound = NoSocket]
    /\ UNCHANGED <<socket, dirty, batch, requests, displaced>>

-------------------------------------------------------------------------------
(* flush copies the dirty checkpoints and calls the Session node. *)
Flush ==
    /\ batch = Clean /\ dirty # Clean
    /\ batch' = dirty
    /\ requests' = requests \cup {dirty}
    /\ UNCHANGED <<socket, session, dirty, displaced>>

(* Fault: checkpoints of replaced connections are applied as well. *)
AppliesToSession(r) == r.sequence <= session.sequence

(* The conditions of SyncGatewayConnections. *)
Applies(r) ==
    r.conn = session.bound /\ r.epoch = session.epoch /\ r.sequence <= session.sequence

SyncGatewayConnections(r) ==
    /\ r \in requests
    /\ requests' = requests \ {r}
    /\ session' = IF Applies(r) /\ r.sequence > session.acked
                  THEN [session EXCEPT !.acked = r.sequence] ELSE session
    /\ UNCHANGED <<socket, dirty, batch, displaced>>

(* The call returned: deleteSynced drops the checkpoint unless it changed. *)
DeleteSynced ==
    /\ batch # Clean /\ batch \notin requests
    /\ dirty' = IF dirty = batch THEN Clean ELSE dirty
    /\ batch' = Clean
    /\ UNCHANGED <<socket, session, requests, displaced>>

(* The call failed or timed out, and may have been or still be handled: the  *)
(* checkpoint stays dirty for the next flush.                                *)
SyncFails ==
    /\ batch # Clean
    /\ batch' = Clean
    /\ requests' \in {requests, requests \ {batch}}
    /\ UNCHANGED <<socket, session, dirty, displaced>>

-------------------------------------------------------------------------------
CheckpointInit ==
    /\ socket = [c \in Sockets |-> Nobody]
    /\ session = [bound |-> NoSocket, epoch |-> 0, sequence |-> 0, acked |-> 0]
    /\ dirty = Clean /\ batch = Clean
    /\ requests = {} /\ displaced = {}

CheckpointNext ==
    \/ \E c \in Sockets :
         \/ \E q \in 0 .. MaxSequence : Bind(c, q) \/ HandleHeartbeat(c, q)
         \/ WriteFrame(c) \/ RecordBindingMetadata(c) \/ Record(c)
         \/ EndConnection(c) \/ DetachBinding(c)
    \/ AppendEvent \/ Flush \/ DeleteSynced \/ SyncFails
    \/ \E r \in requests : SyncGatewayConnections(r)

CheckpointSpec == CheckpointInit /\ [][CheckpointNext]_checkpointVars

-------------------------------------------------------------------------------
(* What the session takes for acknowledged, the client of the current        *)
(* binding has received on it or resumed from, however late checkpoints of   *)
(* this or of a replaced connection arrive: RESUME can start from any        *)
(* position that client may be at (server.go, SyncGatewayConnections;        *)
(* acknowledgeLocked cuts the replay buffer there).                          *)
AckWithinBinding ==
    session.bound \in Sockets => session.acked <= socket[session.bound].got

(* An acknowledgement the session has not seen is still on its way: while    *)
(* its connection is bound, what a heartbeat acknowledged (client.go,        *)
(* handleHeartbeat) has been applied or is the dirty checkpoint, whatever    *)
(* record, flush and deleteSynced do in between.  The exception is a         *)
(* connection whose checkpoint an older connection's late heartbeat replaced *)
(* (checkpoint.go, record): its acknowledgement waits for the next advance.  *)
AckIsPending ==
    \A c \in Sockets :
        session.bound = c /\ socket[c].phase = "ready" /\ ~socket[c].noting
          => \/ socket[c].acked <= session.acked
             \/ dirty = CheckpointOf(c)
             \/ c \in displaced

(* Both: the session's position is one its client has been at, and moves on. *)
AcksReachBinding == AckWithinBinding /\ AckIsPending
===============================================================================
