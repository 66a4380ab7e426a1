------------------------------ MODULE MCMeteredRun ------------------------------
(* Two candidates with a handler thread each, of which the first may still be at *)
(* work when the second runs; two requests of each, and costs that fill a cap of *)
(* 2 exactly, cross it, or cross it alone; a connection probe of the terminal UI. *)
EXTENDS MeteredRun

CONSTANTS t1, t2, p1

MCThreads == {t1, t2}
MCCandidates == <<"mem0", "gbrain">>
MCServedBy == [t \in MCThreads |-> IF t = t2 THEN "gbrain" ELSE "mem0"]
MCCosts == {1, 3}
MCConfigs ==
    {[chat |-> "api", embed |-> "openai"], [chat |-> "codex", embed |-> "local"],
     [chat |-> "claude", embed |-> "gemini"], [chat |-> "kimi", embed |-> "local"]}
MCProbers == {p1}
=============================================================================
