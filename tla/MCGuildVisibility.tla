--------------------------- MODULE MCGuildVisibility ---------------------------
(* GuildVisibility for TLC: the handlers are interchangeable, and so are the   *)
(* sessions.                                                                   *)
EXTENDS GuildVisibility, TLC

Symmetry == Permutations(Sessions) \cup Permutations(Handlers)
=============================================================================
