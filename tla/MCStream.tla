------------------------------- MODULE MCStream -------------------------------
(* A small instance of Stream for TLC. *)
EXTENDS Stream, TLC

Ways == {<<"google", "rawOpenAI">>, <<"openai">>, <<"anthropic">>, <<"rawAnthropic">>}
TheRequest == {"r"}
TheOthers == {"x"}
Alone == [x \in {"r", "x"} |-> x]
Shared == [x \in {"r", "x"} |-> "s"]
AloneOrShared == {Alone, Shared}
=============================================================================
