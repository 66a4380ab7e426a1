---------------------------- MODULE ConnectorCrawl ----------------------------
(***************************************************************************)
(* The crawl of one source of a run (_crawl and _canonical_coverage of     *)
(* orchestration.py): the connector of production.py crawls with a crawler *)
(* of its own, the snapshot is accepted whatever the crawler says of it,   *)
(* and its coverage becomes a record of the run's artifact.                *)
(***************************************************************************)
EXTENDS SlackCrawl, NotionCrawl

CONSTANTS slack, notion

ASSUME SourceAssumption == slack # notion

VARIABLES
    source,  \* the connector at hand
    record   \* completeness of the coverage record of the run

allVars == <<source, record, slackVars, notionVars>>

\* The variables of the crawler that is not at hand stay at one value.
RunInit ==
    /\ SlackInit /\ NotionInit
    /\ record = none
    /\ \/ source = slack
       \/ source = notion /\ tools = Tools

SlackStep ==
    /\ source = slack /\ SlackNext
    /\ UNCHANGED <<source, record, notionVars>>

NotionStep ==
    /\ source = notion /\ NotionNext
    /\ UNCHANGED <<source, record, slackVars>>

\* Whether the crawler returned; a SlackCrawlResult of any status will do.
Returned ==
    CASE source = slack  -> result \in {"OK", "FAILED", "CAPABILITY_UNAVAILABLE"}
      [] source = notion -> npc = "over"

\* The ledger of a Slack crawl has no completeness of its own.
Accept ==
    /\ Returned /\ record = none
    /\ record' = IF source = slack THEN "UNKNOWN" ELSE completeness
    /\ UNCHANGED <<source, slackVars, notionVars>>

RunNext == SlackStep \/ NotionStep \/ Accept

Work ==
    \/ source = slack /\ Crawl /\ UNCHANGED <<source, record, notionVars>>
    \/ source = notion /\ NotionWork /\ UNCHANGED <<source, record, slackVars>>
    \/ Accept

\* The event loop runs, and every call is answered within its read timeout.
RunSpec == RunInit /\ [][RunNext]_allVars /\ WF_allVars(Work)

-----------------------------------------------------------------------------
(* Properties *)

\* The run claims a coverage, SEARCH_DISCOVERED or EXHAUSTIVE, only of a crawl
\* that is whole, whatever pages, blocks and refusals the server answered with:
\* what was lost on the way is not told by a counter that nobody reads.
ClaimedCoverageIsWhole ==
    record \notin {none, "UNKNOWN"} => source = notion /\ CrawlIsWhole

\* A crawl comes to an end: the tasks of Slack do not wait for each other's
\* permits, a server that answers rate_limited for ever is given up, and cursors
\* and blocks that lead back to themselves are followed once.
CrawlEnds ==
    <>(\/ record # none
       \/ source = slack /\ result \in {"ABORTED", "RAISED"}
       \/ source = notion /\ npc = "raised")
=============================================================================
