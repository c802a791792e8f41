--------------------------- MODULE MCConversation ---------------------------
(* Two messages and one pulse. *)
EXTENDS Conversation, TLC

CONSTANTS m1, m2

TwoMsgs  == {m1, m2}
OnePulse == {"p"}
MsgSymmetry == Permutations(TwoMsgs)
=============================================================================
