--------------------------- MODULE MCProfileStore ---------------------------
(* Three ids, enough for a copy of a copy and a deletion; two names, so that  *)
(* a name in use is refused and one that was freed is taken again.            *)
EXTENDS ProfileStore
=============================================================================
