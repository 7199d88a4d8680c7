-------------------------------- MODULE MCChat --------------------------------
(***************************************************************************)
(* Chat for TLC: texts and nonces, which a .cfg cannot write.              *)
(***************************************************************************)
EXTENDS Chat

(* A word; and signs that a line, a tag and an escape have a meaning for.  *)
MCTexts == {<<"plain">>, <<"colon", "backslash", "s", "space", "semi">>}

MCNonces == {<<"plain">>, <<"plain", "colon", "plain">>}
=============================================================================
