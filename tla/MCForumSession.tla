--------------------------- MODULE MCForumSession ---------------------------
(* ForumSession for TLC: two accounts, so that one can follow the other.    *)
EXTENDS ForumSession, TLC
CONSTANTS anna, bo
MCUsers == {anna, bo}
AllProviders == {"anonymous", "facebook", "google"}
AnonymousOnly == {"anonymous"}
=============================================================================
