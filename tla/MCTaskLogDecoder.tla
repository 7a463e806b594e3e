--------------------------- MODULE MCTaskLogDecoder ---------------------------
(* A log of two frames, the second on the error output, with a line that    *)
(* goes on into it and a character of two bytes across them, and one of a   *)
(* terminal, without frames.                                                *)
EXTENDS TaskLogDecoder

Frame(type, payload) == <<type, 0, 0, 0, 0, 0, 0, Len(payload)>> \o payload

TwoLogs == {Frame(1, <<97, 10, 98, Lead>>) \o Frame(2, <<Accent, 13, 10>>),
            <<97, Lead, Accent, 13, 10, 98>>}
==============================================================================
