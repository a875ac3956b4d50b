------------------------------- MODULE MCChat -------------------------------
(* Besides: the rules of the search, prompts and providers of a turn. *)
EXTENDS Chat, MCPrompting

Stream   == "stream"
Blocking == "blocking"

Turns         == {Stream, Blocking}
StreamedTurns == {Stream}
=============================================================================
