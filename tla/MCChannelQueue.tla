--------------------------- MODULE MCChannelQueue ---------------------------
(* Constants for TLC: a user writes to two bots in private, so that both    *)
(* conversations carry the user's chat id, and to one of them in a group.   *)
EXTENDS ChannelQueue, TLC

CONSTANTS user, group, helper, coder, m1, m2, m3, m4, g1

UserChat == [m \in Messages |-> IF m = g1 THEN group ELSE user]
ToHelperOrCoder == [m \in Messages |-> IF m \in {m3, m4} THEN coder ELSE helper]

============================================================================
