--------------------------- MODULE SubscriptionClient ---------------------------
(***************************************************************************)
(* What the subscription adapters make of a vendor CLI: the readiness a     *)
(* status command reports, and the answer an execution prints.  Codex       *)
(* prints a line of JSON per event, Claude one JSON object; Kimi and Grok   *)
(* have no adapter.  A text is abstracted to whether it is there, a token   *)
(* count to whether it is a valid one.                                      *)
(***************************************************************************)
EXTENDS Naturals, Sequences, FiniteSets, SequencesExt

Statuses == {"READY", "UNSUPPORTED", "CLI_UNAVAILABLE", "AUTH_UNAVAILABLE",
             "EXECUTION_UNAVAILABLE"}

-----------------------------------------------------------------------------
(* Status *)

\* The output of `codex login status`: "not logged in" holds "logged in", too,
\* and is looked for first.
CodexStatusOutputs == [code : {0, 1}, says : {"logged in", "logged out", "neither"}]

CodexStatus(out) ==
    IF out.says = "logged out" THEN "AUTH_UNAVAILABLE"
    ELSE IF out.code = 0 /\ out.says = "logged in" THEN "READY"
    ELSE "EXECUTION_UNAVAILABLE"

\* The output of `claude auth status --json`: consumer says whether the
\* credential is the first-party OAuth token of a subscription.
ClaudeStatusOutputs ==
    [code : {0, 1}, fields : BOOLEAN, loggedIn : BOOLEAN, consumer : BOOLEAN]

ClaudeStatus(out) ==
    IF out.code # 0 \/ ~out.fields THEN "EXECUTION_UNAVAILABLE"
    ELSE IF out.loggedIn /\ out.consumer THEN "READY"
    ELSE "AUTH_UNAVAILABLE"

\* What probe_status may report; a timeout and a cancellation are reports, too.
Unreached == {"CLI_UNAVAILABLE", "EXECUTION_UNAVAILABLE"}
Reports(provider) ==
    CASE provider = "codex"  -> Unreached \cup {CodexStatus(o) : o \in CodexStatusOutputs}
      [] provider = "claude" -> Unreached \cup {ClaudeStatus(o) : o \in ClaudeStatusOutputs}
      [] OTHER               -> {"UNSUPPORTED"}

-----------------------------------------------------------------------------
(* Answers *)

\* What comes of an execution that ends in time: no answer (malformed, empty, or
\* not a success), or one whose tokens the CLI counted, or did not.
UsageKinds == {"native", "unavailable"}
NoAnswer == "none"
Answer(counted) == IF counted THEN "native" ELSE "unavailable"

\* A line `codex exec --json` prints: an event of a known type, or not, with the
\* text of a message, with valid counts.
CodexLine == [known : BOOLEAN, text : BOOLEAN, usage : BOOLEAN]

\* _parse_structured_output: one unknown line spoils the whole answer.
CodexAnswer(code, lines) ==
    IF /\ code = 0
       /\ \A i \in DOMAIN lines : lines[i].known
       /\ \E i \in DOMAIN lines : lines[i].text
    THEN Answer(\E i \in DOMAIN lines : lines[i].usage)
    ELSE NoAnswer

\* The object `claude -p --output-format json` prints.  byModel tells whether it
\* has modelUsage, perModel which of the models in it are counted.
ClaudeObject ==
    [success : BOOLEAN, text : BOOLEAN, usage : BOOLEAN, byModel : BOOLEAN,
     perModel : SUBSET BOOLEAN]

\* Every model must be counted for the sum to be.
ClaudeCounted(object) ==
    IF object.byModel THEN object.perModel = {TRUE} ELSE object.usage

ClaudeAnswer(code, object) ==
    IF code = 0 /\ object.success /\ object.text
    THEN Answer(ClaudeCounted(object))
    ELSE NoAnswer

CodexAnswers ==
    {CodexAnswer(code, lines) : code \in {0, 1}, lines \in TupleOf(CodexLine, 2)}
ClaudeAnswers ==
    {ClaudeAnswer(code, object) : code \in {0, 1}, object \in ClaudeObject}
AnswersOf(provider) == IF provider = "codex" THEN CodexAnswers ELSE ClaudeAnswers
=============================================================================
