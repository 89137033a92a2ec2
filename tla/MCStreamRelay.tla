---------------------------- MODULE MCStreamRelay ----------------------------
(* The chunks an upstream sends in StreamRelay's runs: whole frames, frames *)
(* cut at a line end or inside a line, coalesced frames, an upstream that   *)
(* is a gateway itself, and bodies that are not SSE.                        *)
EXTENDS StreamRelay

Frame(p) == <<p, "nl", "nl">>

MixedChunks ==
    {Frame(p) : p \in {"delta1", "delta2", "delta3", "finish1", "finish2",
                       "done", "failure", "IdleTimeout", "comment", "meta"}}
    \cup {<<"head">>, <<"rest", "nl", "nl">>, <<"nl">>, <<"comment", "nl">>,
          <<"done">>, <<"raw">>,
          <<"stop", "nl">>, <<"everror", "nl">>,
          Frame("done") \o Frame("failure"), Frame("done") \o <<"delta3">>,
          Frame("finish1") \o <<"done">>}

\* Frames that never end a stream, and cut frames that may.
EndlessChunks ==
    {Frame("delta1"), Frame("finish1"), <<"head">>, <<"rest", "nl", "nl">>,
     <<"done">>, <<"raw">>}

=============================================================================
