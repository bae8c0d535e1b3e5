---------------------------- MODULE MCMessenger ----------------------------
(* Messenger for TLC: mate is in the game of driver and not his friend, so   *)
(* is not told when he comes.                                                *)
EXTENDS Messenger

CONSTANTS driver, mate

MCTeams == {<<mate, driver>>}
=============================================================================
