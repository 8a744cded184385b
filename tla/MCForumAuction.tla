--------------------------- MODULE MCForumAuction ---------------------------
(* ForumAuction for TLC: a hat, which can be withdrawn, and a coat.         *)
EXTENDS ForumAuction, TLC
CONSTANTS anna, hat, coat
OneUser == {anna}
Nobody == {}
BothItems == {hat, coat}
BothInOrder == <<hat, coat>>
HatOnly == {hat}
CoatOnly == {coat}
=============================================================================
