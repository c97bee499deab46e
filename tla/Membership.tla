----------------------------- MODULE Membership -----------------------------
(***************************************************************************)
(* Who belongs to a guild: its members, owner, bans, role assignments and  *)
(* an invite, changed by concurrent PostgreSQL transactions.               *)
(*                                                                         *)
(* Every operation is one READ COMMITTED transaction: it reads the actor's *)
(* and the target's standing without locking, then writes.  What orders    *)
(* the writers is the locks their statements take: the row of a member,    *)
(* the row of the invite, and the row of the guild, which DeleteGuild and  *)
(* TransferGuildOwnership update and every change of a member or of an     *)
(* assignment updates through the access revision triggers.  The last      *)
(* thing a transaction does before it commits is to read the guild again,  *)
(* for its event, and it fails when the guild is gone.  Commits are steps  *)
(* of their own.                                                           *)
(*                                                                         *)
(* One custom role stands for all: its holders may kick, ban, add members  *)
(* and manage roles, and rank below the owner and above everyone else.     *)
(*                                                                         *)
(* Source: services/guild/v1/internal/server/members.go, bans.go,          *)
(* invites.go, roles.go, guilds.go and outbox.go, the statements of        *)
(* internal/store/queries and the triggers of the seventh migration.       *)
(***************************************************************************)
EXTENDS Naturals, FiniteSets

CONSTANTS
    People,         \* users
    Founder,        \* the user who created the guild
    Requests,       \* transactions that may run at the same time
    NoRequest,
    MaxUses         \* guild_invites.max_uses, 0 when there is no limit

ASSUME MembershipConstants ==
    Founder \in People /\ NoRequest \notin Requests /\ MaxUses \in Nat

VARIABLES
    owner,          \* guilds.owner_id
    exists,         \* guilds.deleted_at = 0
    members,        \* live rows of guild_members
    banned,         \* rows of guild_bans
    assigned,       \* users with a row of guild_member_roles
    uses,           \* guild_invites.uses
    request,        \* what each transaction is doing
    memberRow,      \* holder of the lock on a member's row
    inviteRow,      \* holder of the lock on the invite's row
    guildHold       \* holder of the lock on the guild's row

tables == <<owner, exists, members, banned, assigned, uses>>
rowLocks == <<memberRow, inviteRow, guildHold>>
membershipVars == <<tables, request, rowLocks>>

Ops == {"join", "add", "kick", "leave", "ban", "transfer", "assign",
        "unassign", "delete"}
Stages == {"consume", "insert", "remove", "mark", "clear", "settle", "commit"}

Underway == [op : Ops, stage : Stages, user : People,
             from : People,          \* the owner a transfer has read
             role : BOOLEAN,         \* an assignment was deleted
             out : BOOLEAN,          \* the member was removed
             bans : SUBSET People]   \* bans that were deleted

NoneUnderway == [op |-> "none", stage |-> "none", user |-> Founder,
                 from |-> Founder, role |-> FALSE, out |-> FALSE, bans |-> {}]

MembershipTypeOK ==
    /\ owner \in People
    /\ exists \in BOOLEAN
    /\ {members, banned, assigned} \subseteq SUBSET People
    /\ uses \in Nat
    /\ request \in [Requests -> Underway \cup {NoneUnderway}]
    /\ memberRow \in [People -> Requests \cup {NoRequest}]
    /\ {inviteRow, guildHold} \subseteq Requests \cup {NoRequest}

MembershipInit ==
    /\ owner = Founder
    /\ exists = TRUE
    /\ members = {Founder}
    /\ banned = {}
    /\ assigned = {}
    /\ uses = 0
    /\ request = [t \in Requests |-> NoneUnderway]
    /\ memberRow = [u \in People |-> NoRequest]
    /\ inviteRow = NoRequest
    /\ guildHold = NoRequest

----------------------------------------------------------------------------
(* Standing.                                                              *)

Rank(u) == IF u = owner THEN 2 ELSE IF u \in assigned THEN 1 ELSE 0

(* loadMemberAuthority fails for a user who is not a member.              *)
Has(actor) == exists /\ actor \in members /\ Rank(actor) > 0

canManageMember(actor, u) == actor = owner \/ Rank(actor) > Rank(u)

----------------------------------------------------------------------------
(* Bookkeeping.                                                           *)

Staged(t, ops, stage) == request[t].op \in ops /\ request[t].stage = stage

Open(t, op, u, stage) ==
    /\ request[t] = NoneUnderway
    /\ request' = [request EXCEPT
           ![t] = [op |-> op, stage |-> stage, user |-> u,
                   from |-> IF op = "transfer" THEN owner ELSE Founder,
                   role |-> FALSE, out |-> FALSE, bans |-> {}]]
    /\ UNCHANGED <<tables, rowLocks>>

Close(t) ==
    /\ request' = [request EXCEPT ![t] = NoneUnderway]
    /\ memberRow' = [u \in People |->
                        IF memberRow[u] = t THEN NoRequest ELSE memberRow[u]]
    /\ inviteRow' = IF inviteRow = t THEN NoRequest ELSE inviteRow
    /\ guildHold' = IF guildHold = t THEN NoRequest ELSE guildHold

FreeFor(lock, t) == lock \in {NoRequest, t}

----------------------------------------------------------------------------
(* The reads at the head of each transaction.                             *)

UsesLeft == MaxUses = 0 \/ uses < MaxUses

JoinGuildByInvite(t, u) ==
    /\ exists
    /\ UsesLeft
    /\ u \notin members
    /\ Open(t, "join", u, "consume")

AddGuildMember(t, actor, u) ==
    /\ Has(actor)
    /\ u \notin banned \cup members
    /\ Open(t, "add", u, "insert")

KickGuildMember(t, actor, u) ==
    /\ Has(actor)
    /\ u \in members \ {owner}
    /\ canManageMember(actor, u)
    /\ Open(t, "kick", u, "remove")

LeaveGuild(t, u) ==
    /\ exists
    /\ u \in members \ {owner}
    /\ Open(t, "leave", u, "remove")

BanGuildMember(t, actor, u) ==
    /\ Has(actor)
    /\ u \notin {actor, owner}
    /\ u \in members => canManageMember(actor, u)
    /\ Open(t, "ban", u, IF u \in members THEN "remove" ELSE "settle")

TransferGuildOwnership(t, u) ==
    /\ exists
    /\ owner \in members
    /\ u \in members \ {owner}
    /\ Open(t, "transfer", u, "settle")

(* Only the owner outranks the one role.                                  *)
changeGuildRoleMembers(t, u, op) ==
    /\ Has(owner)
    /\ u \in members
    /\ Open(t, op, u, "settle")

DeleteGuild(t) ==
    /\ exists
    /\ owner \in members
    /\ Open(t, "delete", Founder, "mark")

----------------------------------------------------------------------------
(* The writes.                                                            *)

(* One UPDATE that counts the use if there is one left, then the guild and *)
(* the user's ban are read.                                                *)
ConsumeGuildInvite(t) ==
    /\ Staged(t, {"join"}, "consume")
    /\ exists /\ UsesLeft /\ FreeFor(inviteRow, t)
    /\ request[t].user \notin banned
    /\ inviteRow' = t
    /\ request' = [request EXCEPT ![t].stage = "insert"]
    /\ UNCHANGED <<tables, memberRow, guildHold>>

(* The INSERT whose WHERE and ON CONFLICT clauses leave out banned users   *)
(* and live members.                                                       *)
CreateGuildMember(t) ==
    LET u == request[t].user
    IN  /\ Staged(t, {"join", "add"}, "insert")
        /\ FreeFor(memberRow[u], t)
        /\ u \notin banned \cup members
        /\ memberRow' = [memberRow EXCEPT ![u] = t]
        /\ request' = [request EXCEPT ![t].stage = "settle"]
        /\ UNCHANGED <<tables, inviteRow, guildHold>>

(* The user's assignments are deleted, which locks the guild's row if      *)
(* there are any, and the member's row is marked deleted.                  *)
RemoveGuildMember(t) ==
    LET u == request[t].user
    IN  /\ Staged(t, {"kick", "leave", "ban"}, "remove")
        /\ FreeFor(memberRow[u], t)
        /\ u \in members
        /\ u \in assigned => FreeFor(guildHold, t)
        /\ memberRow' = [memberRow EXCEPT ![u] = t]
        /\ guildHold' = IF u \in assigned THEN t ELSE guildHold
        /\ request' = [request EXCEPT ![t].stage = "settle", ![t].out = TRUE,
                                      ![t].role = u \in assigned]
        /\ UNCHANGED <<tables, inviteRow>>

MarkGuildDeleted(t) ==
    /\ Staged(t, {"delete"}, "mark")
    /\ exists /\ FreeFor(guildHold, t)
    /\ guildHold' = t
    /\ request' = [request EXCEPT ![t].stage = "clear"]
    /\ UNCHANGED <<tables, memberRow, inviteRow>>

ClearGuild(t) ==
    /\ Staged(t, {"delete"}, "clear")
    /\ \A u \in members : FreeFor(memberRow[u], t)
    /\ FreeFor(inviteRow, t)
    /\ memberRow' = [u \in People |-> IF u \in members THEN t ELSE memberRow[u]]
    /\ inviteRow' = t
    /\ request' = [request EXCEPT ![t].stage = "settle", ![t].bans = banned]
    /\ UNCHANGED <<tables, guildHold>>

----------------------------------------------------------------------------
(* The end of each transaction.                                           *)

(* Fault: no trigger updates the guild, so that nothing waits for its row. *)
EnqueueUnlocked(t) ==
    /\ Staged(t, Ops \ {"delete"}, "settle")
    /\ exists
    /\ request[t].op = "transfer" => owner = request[t].from
    /\ request' = [request EXCEPT ![t].stage = "commit"]
    /\ UNCHANGED <<tables, rowLocks>>

(* The trigger of the changed row, or the statement itself, updates the     *)
(* guild's row, and enqueueEvents reads the guild.  A ban of somebody who   *)
(* is no member has no trigger; a change of roles that changes nothing has  *)
(* none either and ends as RollBackRequest does.                            *)
enqueueEvents(t) ==
    LET touches == request[t].op # "ban" \/ request[t].out
    IN  /\ Staged(t, Ops \ {"delete"}, "settle")
        /\ touches => FreeFor(guildHold, t)
        /\ request[t].op = "assign" => request[t].user \notin assigned
        /\ request[t].op = "unassign" => request[t].user \in assigned
        /\ exists
        /\ request[t].op = "transfer" => owner = request[t].from
        /\ guildHold' = IF touches THEN t ELSE guildHold
        /\ request' = [request EXCEPT ![t].stage = "commit"]
        /\ UNCHANGED <<tables, memberRow, inviteRow>>

CommitJoin(t) ==
    /\ Staged(t, {"join", "add"}, "commit")
    /\ members' = members \cup {request[t].user}
    /\ uses' = IF request[t].op = "join" THEN uses + 1 ELSE uses
    /\ Close(t)
    /\ UNCHANGED <<owner, exists, banned, assigned>>

CommitRemoval(t) ==
    /\ Staged(t, {"kick", "leave", "ban"}, "commit")
    /\ members' = IF request[t].out THEN members \ {request[t].user}
                                    ELSE members
    /\ assigned' = IF request[t].role THEN assigned \ {request[t].user}
                                      ELSE assigned
    /\ banned' = IF request[t].op = "ban" THEN banned \cup {request[t].user}
                                          ELSE banned
    /\ Close(t)
    /\ UNCHANGED <<owner, exists, uses>>

CommitTransfer(t) ==
    /\ Staged(t, {"transfer"}, "commit")
    /\ owner' = request[t].user
    /\ Close(t)
    /\ UNCHANGED <<exists, members, banned, assigned, uses>>

CommitRoles(t) ==
    /\ Staged(t, {"assign", "unassign"}, "commit")
    /\ assigned' = IF request[t].op = "assign"
                   THEN assigned \cup {request[t].user}
                   ELSE assigned \ {request[t].user}
    /\ Close(t)
    /\ UNCHANGED <<owner, exists, members, banned, uses>>

(* The event of a deleted guild is written without reading it.            *)
CommitDeletion(t) ==
    /\ Staged(t, {"delete"}, "settle")
    /\ exists' = FALSE
    /\ members' = {}
    /\ assigned' = {}
    /\ banned' = banned \ request[t].bans
    /\ Close(t)
    /\ UNCHANGED <<owner, uses>>

(* One DELETE between the reads and the event; nothing to wait for.       *)
UnbanGuildMember(t, actor, u) ==
    /\ request[t] = NoneUnderway
    /\ Has(actor)
    /\ u \in banned
    /\ banned' = banned \ {u}
    /\ UNCHANGED <<owner, exists, members, assigned, uses,
                   request, rowLocks>>

(* A statement that matches no row, a deadlock that PostgreSQL breaks, a   *)
(* canceled context or a crash: nothing of the transaction is kept.  Also  *)
(* the commit of a change of roles that had nothing to change.             *)
RollBackRequest(t) ==
    /\ request[t] # NoneUnderway
    /\ Close(t)
    /\ UNCHANGED tables

MembershipNext ==
    \E t \in Requests :
        \/ \E u \in People : JoinGuildByInvite(t, u) \/ LeaveGuild(t, u)
        \/ \E u \in People : TransferGuildOwnership(t, u)
        \/ \E u \in People, op \in {"assign", "unassign"} :
               changeGuildRoleMembers(t, u, op)
        \/ \E a, u \in People :
              \/ AddGuildMember(t, a, u)
              \/ KickGuildMember(t, a, u)
              \/ BanGuildMember(t, a, u)
              \/ UnbanGuildMember(t, a, u)
        \/ DeleteGuild(t)
        \/ ConsumeGuildInvite(t) \/ CreateGuildMember(t)
        \/ RemoveGuildMember(t)
        \/ MarkGuildDeleted(t) \/ ClearGuild(t)
        \/ enqueueEvents(t)
        \/ CommitJoin(t) \/ CommitRemoval(t) \/ CommitTransfer(t)
        \/ CommitRoles(t) \/ CommitDeletion(t)
        \/ RollBackRequest(t)

MembershipSpec == MembershipInit /\ [][MembershipNext]_membershipVars

----------------------------------------------------------------------------
(* A deleted guild keeps no member and no assignment, although a join, an  *)
(* addition or an assignment may be past all its reads when DeleteGuild    *)
(* starts: the trigger makes them wait for the guild's row, and what       *)
(* enqueueEvents then reads fails them.                                    *)
DeletedGuildIsEmpty == ~exists => members = {} /\ assigned = {}

(* The invite pays for no more joins than its limit: two joins that both   *)
(* previewed the last use cannot both take it.                             *)
InviteLimitKept == MaxUses # 0 => uses <= MaxUses

============================================================================
