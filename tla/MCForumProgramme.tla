-------------------------- MODULE MCForumProgramme --------------------------
(* ForumProgramme for TLC: a lecture on Friday, and Saturday without one.   *)
EXTENDS ForumProgramme
CONSTANTS anna, fri
OneUser == {anna}
AnonymousOnly == {"anonymous"}
TwoDays == {0, 1}
FridayOnly == {fri}
FridayOrder == <<fri>>
DayOfFriday == fri :> 0
=============================================================================
