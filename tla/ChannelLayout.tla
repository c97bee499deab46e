--------------------------- MODULE ChannelLayout ---------------------------
(***************************************************************************)
(* The channel layout of one guild: which channels live, in which order    *)
(* and under which category.                                               *)
(*                                                                         *)
(* Creating, deleting, moving and reordering channels are transactions     *)
(* under the guild's channel advisory lock.  Each carries the layout       *)
(* revision its client read, is refused when the guild has moved on, and   *)
(* advances the revision once.  Each writes one event for every row it     *)
(* changed, with which clients follow the layout.  Deleting the guild      *)
(* takes no advisory lock: it meets the others on the row of the guild,    *)
(* which the access revision triggers and the revision update lock, and on *)
(* the rows of the channels.                                               *)
(*                                                                         *)
(* Source: services/guild/v1/internal/server/channels.go and               *)
(* channel_layout.go, with the statements of internal/store/queries.       *)
(***************************************************************************)
EXTENDS Naturals, FiniteSets

CONSTANTS
    Editors,        \* requests that change the layout
    NoEditor,
    MaxChannels,    \* bound: channels ever created
    MaxLayout,      \* bound: layout revisions
    MaxItems        \* bound: positions asked for in one reordering

ASSUME LayoutConstants ==
    /\ NoEditor \notin Editors
    /\ MaxChannels \in Nat /\ MaxChannels >= 4  \* room for the default channels
    /\ MaxLayout \in Nat \ {0}

VARIABLES
    layout,         \* committed rows: id -> row, for the live channels
    lastId,         \* the greatest channel id given out
    layoutRevision, \* guilds.channel_layout_revision
    guildLives,     \* guilds.deleted_at = 0
    editor,         \* what each request is doing
    layoutLock,     \* holder of the guild's channel advisory lock
    guildRow,       \* holder of the lock on the guild's row
    replica         \* the layout a client builds out of the events

layoutVars == <<layout, lastId, layoutRevision, guildLives, editor,
                layoutLock, guildRow, replica>>

Root == 0
ChannelIds == 1..MaxChannels
Kinds == {"channel", "category"}
Rows == [kind : Kinds, parent : ChannelIds \cup {Root}, position : 0..MaxChannels]
GuildDeleter == "guild deleter"

(* What a transaction has written: rows inserted or updated, rows deleted, *)
(* and the rows its channel created and updated events carry.              *)
Nothing == [rows |-> <<>>, gone |-> {}, told |-> <<>>]
NoEdit == [step |-> "idle", expected |-> 0, draft |-> Nothing]

AreRows(r) == DOMAIN r \subseteq ChannelIds /\ \A c \in DOMAIN r : r[c] \in Rows

LayoutTypeOK ==
    /\ AreRows(layout) /\ AreRows(replica)
    /\ lastId \in ChannelIds
    /\ layoutRevision \in 1..MaxLayout
    /\ guildLives \in BOOLEAN
    /\ \A t \in Editors :
          /\ editor[t].step \in {"idle", "waiting", "locked", "written"}
          /\ editor[t].expected \in 0..MaxLayout
          /\ AreRows(editor[t].draft.rows) /\ AreRows(editor[t].draft.told)
    /\ layoutLock \in Editors \cup {NoEditor}
    /\ guildRow \in Editors \cup {NoEditor, GuildDeleter}

(* A new guild has a text channel and a voice channel, each under a       *)
(* category of its own.                                                   *)
createDefaultChannels ==
    [c \in 1..4 |->
        [kind |-> IF c \in {1, 3} THEN "category" ELSE "channel",
         parent |-> IF c \in {1, 3} THEN Root ELSE c - 1,
         position |-> c - 1]]

LayoutInit ==
    /\ layout = createDefaultChannels /\ replica = createDefaultChannels
    /\ lastId = 4
    /\ layoutRevision = 1
    /\ guildLives = TRUE
    /\ editor = [t \in Editors |-> NoEdit]
    /\ layoutLock = NoEditor
    /\ guildRow = NoEditor

----------------------------------------------------------------------------
(* Placement.                                                             *)

(* ORDER BY position, id: the channels in front of each.                  *)
ListGuildChannels(l) ==
    [c \in DOMAIN l |->
        {d \in DOMAIN l : \/ l[d].position < l[c].position
                          \/ l[d].position = l[c].position /\ d < c}]

isUncategorizedChannel(row) == row.parent = Root /\ row.kind = "channel"

WriteChannels(l, written, gone) ==
    [c \in (DOMAIN l \cup DOMAIN written) \ gone |->
        IF c \in DOMAIN written THEN written[c] ELSE l[c]]

(* The rows an order changes, given the channels it puts ahead of each.   *)
Updates(l, ahead, parents) ==
    LET at == [c \in DOMAIN l |->
                  [l[c] EXCEPT !.position = Cardinality(ahead[c]),
                               !.parent = IF c \in DOMAIN parents
                                          THEN parents[c] ELSE @]]
    IN [c \in {d \in DOMAIN l : at[d] # l[d]} |-> at[c]]

nextGuildChannelPosition(l) ==
    CHOOSE p \in 0..MaxChannels :
        /\ \A c \in DOMAIN l : l[c].position < p
        /\ \A q \in 0..p - 1 : \E c \in DOMAIN l : q <= l[c].position

uncategorizedChannelInsertPosition(l) ==
    LET after == {l[c].position : c \in {d \in DOMAIN l :
                                           ~isUncategorizedChannel(l[d])}}
                 \cup {nextGuildChannelPosition(l)}
    IN CHOOSE p \in after : \A q \in after : p <= q

validateChannelParent(l, kind, parent) ==
    parent # Root => /\ kind # "category"
                     /\ parent \in DOMAIN l /\ l[parent].kind = "category"

CreatedRows(l, c, kind, parent) ==
    LET ahead == kind # "category" /\ parent = Root
        p == IF ahead THEN uncategorizedChannelInsertPosition(l)
             ELSE nextGuildChannelPosition(l)
        shifted == {d \in DOMAIN l : ahead /\ l[d].position >= p}
    IN [d \in shifted \cup {c} |->
           IF d = c THEN [kind |-> kind, parent |-> parent, position |-> p]
           ELSE [l[d] EXCEPT !.position = @ + 1]]

(* The other channels keep their order.  The moved one follows the leading *)
(* uncategorized channels, or the last channel of its category.            *)
MoveOrder(l, c, parent) ==
    LET listed == ListGuildChannels(l)
        remaining == DOMAIN l \ {c}
        UpTo(d) == (listed[d] \cup {d}) \ {c}
        kept == IF parent = Root
                THEN {d \in remaining :
                         \A e \in UpTo(d) : isUncategorizedChannel(l[e])}
                ELSE UNION {UpTo(e) :
                         e \in {f \in remaining : f = parent \/ l[f].parent = parent}}
    IN [d \in DOMAIN l |->
           IF d = c THEN kept
           ELSE IF d \in kept THEN listed[d] \ {c} ELSE listed[d] \cup {c}]

channelParentMoveUpdates(l, c, parent) ==
    Updates(l, MoveOrder(l, c, parent), [d \in {c} |-> parent])

(* The requested channels at their positions, the others in their order in *)
(* the slots left free.                                                    *)
Slots(l, positions) ==
    LET free == (0..Cardinality(DOMAIN l) - 1) \ {positions[c] : c \in DOMAIN positions}
        others(c) == Cardinality(ListGuildChannels(l)[c] \ DOMAIN positions)
    IN [c \in DOMAIN l |->
           IF c \in DOMAIN positions THEN positions[c]
           ELSE LET n == others(c)
                IN CHOOSE p \in free : Cardinality({q \in free : q < p}) = n]

(* Channels without a category come first.                                *)
NormalOrder(l, positions, parents) ==
    LET slot == Slots(l, positions)
        First(c) == isUncategorizedChannel(
                       [l[c] EXCEPT !.parent = IF c \in DOMAIN parents
                                               THEN parents[c] ELSE @])
    IN [c \in DOMAIN l |->
           LET first == First(c)
               at == slot[c]
           IN {d \in DOMAIN l : IF First(d) = first THEN slot[d] < at ELSE First(d)}]

normalizeGuildChannelPlacements(l, positions, parents) ==
    Updates(l, NormalOrder(l, positions, parents), parents)

(* What ReorderGuildChannels accepts: distinct positions within range, for *)
(* live channels, and for any of them a category to go to.                 *)
Placements(l) ==
    UNION {{[positions |-> p, parents |-> q] :
              p \in {f \in [asked -> 0..Cardinality(DOMAIN l) - 1] :
                        \A a, b \in asked : f[a] = f[b] => a = b},
              q \in UNION {{f \in [moved -> DOMAIN l \cup {Root}] :
                              \A c \in moved : validateChannelParent(
                                                  l, l[c].kind, f[c])} :
                           moved \in SUBSET asked}} :
           asked \in {s \in SUBSET DOMAIN l : Cardinality(s) \in 1..MaxItems}}

----------------------------------------------------------------------------
(* Transactions.                                                          *)

Enter(t, step) == editor' = [editor EXCEPT ![t].step = step]

FinishChange(t) ==
    /\ editor' = [editor EXCEPT ![t] = NoEdit]
    /\ layoutLock' = IF layoutLock = t THEN NoEditor ELSE layoutLock
    /\ guildRow' = IF guildRow = t THEN NoEditor ELSE guildRow

(* A request arrives with the revision of some layout its client has seen. *)
(* Its actor's authority is read before the lock, except for a move.       *)
BeginChange(t) ==
    /\ editor[t].step = "idle"
    /\ guildLives
    /\ \E r \in 1..layoutRevision :
          editor' = [editor EXCEPT ![t].step = "waiting", ![t].expected = r]
    /\ UNCHANGED <<layout, lastId, layoutRevision, guildLives, layoutLock,
                   guildRow, replica>>

(* LockGuildChannelMutations, then requireGuildChannelLayoutRevision.     *)
requireGuildChannelLayoutRevision(t) ==
    guildLives /\ layoutRevision = editor[t].expected

LockGuildChannelMutations(t) ==
    /\ editor[t].step = "waiting"
    /\ layoutLock = NoEditor
    /\ IF requireGuildChannelLayoutRevision(t)
       THEN Enter(t, "locked") /\ layoutLock' = t /\ guildRow' = guildRow
       ELSE FinishChange(t)
    /\ UNCHANGED <<layout, lastId, layoutRevision, guildLives, replica>>

Draft(t, written, gone, told) ==
    editor' = [editor EXCEPT ![t].step = "written",
                             ![t].draft = [rows |-> written, gone |-> gone,
                                           told |-> told]]

(* An insert, or an update of deleted_at, fires the access revision       *)
(* trigger, which updates the guild's row and so holds it.                *)
HoldGuildRow(t) == guildRow \in {NoEditor, t} /\ guildRow' = t

CreateGuildChannel(t) ==
    /\ editor[t].step = "locked"
    /\ lastId < MaxChannels
    /\ \E kind \in Kinds, parent \in DOMAIN layout \cup {Root} :
          LET written == CreatedRows(layout, lastId + 1, kind, parent)
          IN /\ validateChannelParent(layout, kind, parent)
             /\ Draft(t, written, {}, written)
    /\ HoldGuildRow(t)
    /\ UNCHANGED <<layout, lastId, layoutRevision, guildLives, layoutLock,
                   replica>>

(* A move to the category the channel is in changes no placement.  A      *)
(* change of the name or topic alone takes no layout lock and writes none *)
(* of these columns: its one statement announces the placement that its   *)
(* row lock finds, so it is no step of the layout.                        *)
UpdateGuildChannel(t) ==
    /\ editor[t].step = "locked"
    /\ \E c \in DOMAIN layout, parent \in DOMAIN layout \cup {Root} :
          LET written == channelParentMoveUpdates(layout, c, parent)
          IN /\ validateChannelParent(layout, layout[c].kind, parent)
             /\ IF parent = layout[c].parent
                THEN FinishChange(t)
                ELSE /\ Draft(t, written, {}, written)
                     /\ UNCHANGED <<layoutLock, guildRow>>
    /\ UNCHANGED <<layout, lastId, layoutRevision, guildLives, replica>>

ReorderGuildChannels(t) ==
    /\ editor[t].step = "locked"
    /\ \E r \in Placements(layout) :
          LET written == normalizeGuildChannelPlacements(
                         layout, r.positions, r.parents)
          IN IF DOMAIN written = {}
             THEN FinishChange(t)
             ELSE /\ Draft(t, written, {}, written)
                  /\ UNCHANGED <<layoutLock, guildRow>>
    /\ UNCHANGED <<layout, lastId, layoutRevision, guildLives, replica>>

(* The children of a deleted category go to the root, where they are.     *)
ClearGuildChannelParent(c) ==
    [d \in {e \in DOMAIN layout : layout[e].parent = c} |->
        [layout[d] EXCEPT !.parent = Root]]

(* Fault: the channels a deletion moved are not announced.                *)
DeleteQuietly(t) ==
    /\ editor[t].step = "locked"
    /\ \E c \in DOMAIN layout :
          Draft(t, ClearGuildChannelParent(c), {c}, <<>>)
    /\ HoldGuildRow(t)
    /\ UNCHANGED <<layout, lastId, layoutRevision, guildLives, layoutLock,
                   replica>>

DeleteGuildChannel(t) ==
    /\ editor[t].step = "locked"
    /\ \E c \in DOMAIN layout :
          LET children == ClearGuildChannelParent(c)
          IN Draft(t, children, {c}, children)
    /\ HoldGuildRow(t)
    /\ UNCHANGED <<layout, lastId, layoutRevision, guildLives, layoutLock,
                   replica>>

(* AdvanceGuildChannelLayoutRevision, the events and the commit.          *)
AdvanceGuildChannelLayoutRevision(t) ==
    /\ editor[t].step = "written"
    /\ guildRow \in {NoEditor, t}
    /\ layoutRevision < MaxLayout
    /\ LET d == editor[t].draft
       IN IF requireGuildChannelLayoutRevision(t)
          THEN /\ layout' = WriteChannels(layout, d.rows, d.gone)
               /\ replica' = WriteChannels(replica, d.told, d.gone)
               /\ lastId' = IF lastId + 1 \in DOMAIN d.rows
                            THEN lastId + 1 ELSE lastId
               /\ layoutRevision' = layoutRevision + 1
          ELSE UNCHANGED <<layout, replica, lastId, layoutRevision>>
    /\ FinishChange(t)
    /\ UNCHANGED guildLives

(* A refused or failed request, or the victim of a deadlock.              *)
RollBackChange(t) ==
    /\ editor[t].step # "idle"
    /\ FinishChange(t)
    /\ UNCHANGED <<layout, lastId, layoutRevision, guildLives, replica>>

(* DeleteGuild: the guild's row first, then the rows of its channels, for *)
(* which it waits while another transaction has written them.             *)
DeleteGuildRow ==
    /\ guildLives
    /\ guildRow = NoEditor
    /\ guildRow' = GuildDeleter
    /\ UNCHANGED <<layout, lastId, layoutRevision, guildLives, editor,
                   layoutLock, replica>>

DeleteGuildChannels ==
    /\ guildRow = GuildDeleter
    /\ \A t \in Editors : editor[t].step # "written"
    /\ layout' = <<>> /\ replica' = <<>>
    /\ guildLives' = FALSE
    /\ guildRow' = NoEditor
    /\ UNCHANGED <<lastId, layoutRevision, editor, layoutLock>>

RollBackDeletion ==
    /\ guildRow = GuildDeleter
    /\ guildRow' = NoEditor
    /\ UNCHANGED <<layout, lastId, layoutRevision, guildLives, editor,
                   layoutLock, replica>>

LayoutNext ==
    \/ \E t \in Editors :
          \/ BeginChange(t) \/ LockGuildChannelMutations(t)
          \/ CreateGuildChannel(t) \/ UpdateGuildChannel(t)
          \/ ReorderGuildChannels(t) \/ DeleteGuildChannel(t)
          \/ AdvanceGuildChannelLayoutRevision(t) \/ RollBackChange(t)
    \/ DeleteGuildRow \/ DeleteGuildChannels \/ RollBackDeletion

LayoutSpec == LayoutInit /\ [][LayoutNext]_layoutVars

----------------------------------------------------------------------------

(* A client that applies the channel events of every committed change, in  *)
(* order, has the guild's layout: each change announces all the rows it    *)
(* wrote, shifted neighbours and re-parented children included.  And that  *)
(* layout is one a client can show: no two channels share a position, a    *)
(* channel hangs under a live category or under none, a category under     *)
(* none, and a deleted guild has no channels.  It is what the placement    *)
(* functions of channel_layout.go, the re-reads under the lock and the     *)
(* race of DeleteGuild with a change in flight could break.                *)
EventsRebuildLayout ==
    /\ replica = layout
    /\ \A c, d \in DOMAIN layout :
          layout[c].position = layout[d].position => c = d
    /\ \A c \in DOMAIN layout :
          validateChannelParent(layout, layout[c].kind, layout[c].parent)
    /\ ~guildLives => DOMAIN layout = {}

============================================================================
