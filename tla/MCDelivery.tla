------------------------------ MODULE MCDelivery ------------------------------
(***************************************************************************)
(* The parts an event passes on its way to a client, and a client's state  *)
(* on its way back: Presence, the Dispatcher with the filters of the       *)
(* Session nodes, the duplicate filter itself, the checkpoints of a        *)
(* Gateway and the limiter in front of it.  They share no state; a         *)
(* behaviour follows the one its first state chooses.  Presence is         *)
(* followed twice, with every call and a fault and with the calls that     *)
(* publish, from two sessions; so is the Dispatcher, with two nodes and    *)
(* with one node and more mishaps.                                         *)
(***************************************************************************)
EXTENDS Presence, DedupStore, Dispatch, Checkpoints, KeyedLimiter, TLC

CONSTANTS
  s1, n1,
  Publishers  \* the sessions of the calls that publish

VARIABLE subject  \* the part this behaviour follows

PresenceCall(op, s, g, status, client) ==
  [op |-> op, session |-> s, generation |-> g, status |-> status, client |-> client]

\* One session: every call, with two statuses to choose from.
EveryCall ==
  UNION {{PresenceCall("register", s1, g, "online", TRUE),
          PresenceCall("refresh", s1, g, "online", TRUE),
          PresenceCall("update", s1, g, "invisible", FALSE),
          PresenceCall("update", s1, g, "online", TRUE),
          PresenceCall("update", s1, g, None, TRUE),
          PresenceCall("remove", s1, g, None, FALSE),
          PresenceCall("resolve", s1, g, None, FALSE),
          PresenceCall("renew", s1, g, None, FALSE)} : g \in Generations}

\* The calls that publish, from two sessions.
AnnouncedCalls ==
  UNION {{PresenceCall("register", s, g, "online", TRUE),
          PresenceCall("update", s, g, "invisible", FALSE),
          PresenceCall("update", s, g, "online", FALSE),
          PresenceCall("remove", s, g, None, FALSE)} : s \in Publishers, g \in Generations}

Announced == INSTANCE Presence WITH
  Sessions <- Publishers, Calls <- AnnouncedCalls, MaxVersion <- 4, MaxFaults <- 0

OneNode == INSTANCE Dispatch WITH Nodes <- {n1}, MaxMishaps <- MaxMishaps + 2

Subjects == {"presence", "announced", "filter", "two nodes", "one node", "checkpoints",
             "limiter"}

MCInit ==
  /\ subject \in Subjects
  /\ IF subject = "announced" THEN Announced!Init ELSE Init
  /\ DedupInit /\ CheckpointInit /\ KeyedInit
  /\ IF subject = "one node" THEN OneNode!DispatchInit ELSE DispatchInit

MCNext ==
  \/ /\ \/ subject = "presence" /\ Next
        \/ subject = "announced" /\ Announced!Next
     /\ UNCHANGED <<dedupVars, dispatchVars, checkpointVars, keyedVars, subject>>
  \/ /\ subject = "filter" /\ DedupNext
     /\ UNCHANGED <<vars, dispatchVars, checkpointVars, keyedVars, subject>>
  \/ /\ \/ subject = "two nodes" /\ DispatchNext
        \/ subject = "one node" /\ OneNode!DispatchNext
     /\ UNCHANGED <<vars, dedupVars, checkpointVars, keyedVars, subject>>
  \/ /\ subject = "checkpoints" /\ CheckpointNext
     /\ UNCHANGED <<vars, dedupVars, dispatchVars, keyedVars, subject>>
  \/ /\ subject = "limiter" /\ KeyedNext
     /\ UNCHANGED <<vars, dedupVars, dispatchVars, checkpointVars, subject>>

MCSpec ==
  MCInit /\ [][MCNext]_<<vars, dedupVars, dispatchVars, checkpointVars, keyedVars, subject>>

Symmetry == Permutations(Handlers) \cup Permutations(Dispatchers) \cup Permutations(Publishers)

(* Presence's TransitionsAnnounced and LiveUserHasStatus, of every call and  *)
(* of two sessions: with no call in progress and nothing failed, the newest  *)
(* public event has the version of the snapshot unless an on-demand          *)
(* resolution recorded it, and the snapshot has the status of a user with a  *)
(* live session unless a renewal was half done when it was taken.            *)
EveryTransitionPublished ==
  /\ subject = "presence" => TransitionsAnnounced /\ LiveUserHasStatus
  /\ subject = "announced" => Announced!TransitionsAnnounced /\ Announced!LiveUserHasStatus

===============================================================================
