------------------------------ MODULE NotionCrawl ------------------------------
(***************************************************************************)
(* NotionCrawler.crawl of connectors/notion.py: what the identity may do,  *)
(* the pages of one search, and for each entity found its document, whose  *)
(* unknown blocks, and theirs, are fetched and appended to its text.       *)
(*                                                                         *)
(* The server answers each call as it likes: any page with any cursor, any *)
(* unknown blocks, the same ones again, a refusal.  What it said is kept   *)
(* in the history variable told.                                           *)
(*                                                                         *)
(* Left out: titles, authors, times, urls and other metadata, warnings,    *)
(* and search results that have no id, which are passed over.              *)
(***************************************************************************)
EXTENDS Naturals, Sequences, FiniteSets, SequencesExt

CONSTANTS
    Cursors,   \* cursors of the search
    Results,   \* the lists of entity ids a page of the search may hold
    Unknowns,  \* the lists of unknown blocks an answer may name
    none

ASSUME NotionAssumption == \A list \in Results \cup Unknowns : list \in Seq(ToSet(list))

VARIABLES
    npc,         \* where crawl() is
    exhaustive,  \* the identity says coverage = EXHAUSTIVE
    cursor, seenCursors,
    discovered,  \* entity ids in the order of the search, repeated ones included
    entity,      \* index of the entity at hand
    pending, visited, \* its unknown blocks
    documents,   \* sequence of [id, text]: the blocks whose text was appended to its own
    counters,
    told,        \* per document: the blocks the server named, and whether it left out any
    completeness \* of the CoverageRecord returned; none before

searchVars == <<exhaustive, cursor, seenCursors, discovered>>
blockVars == <<pending, visited>>
notionVars == <<npc, searchVars, entity, blockVars, documents, counters, told, completeness>>

NoCounts == [discovered |-> 0, fetched |-> 0, denied |-> 0, truncated |-> 0, unsupported |-> 0]

Current == discovered[entity]

\* The ids of the entities before the one at hand
Seen == {discovered[i] : i \in 1..(entity - 1)}

NotionInit ==
    /\ npc = "identity"
    /\ exhaustive = FALSE
    /\ cursor = none /\ seenCursors = {}
    /\ discovered = <<>> /\ entity = 1
    /\ pending = <<>> /\ visited = {}
    /\ documents = <<>> /\ told = <<>>
    /\ counters = NoCounts
    /\ completeness = none

\* One more of each counter named
Counted(names) == [k \in DOMAIN counters |-> counters[k] + IF k \in names THEN 1 ELSE 0]

-----------------------------------------------------------------------------
(* Identity and search *)

\* The identity may search and fetch.
Identify ==
    /\ npc = "identity"
    /\ npc' = "search"
    /\ exhaustive' \in BOOLEAN
    /\ UNCHANGED <<cursor, seenCursors, discovered, entity, blockVars, documents,
                   counters, told, completeness>>

\* crawl() raises: no access, no search, a first page that is refused; and in
\* every call an error of the transport, or the cancellation of the run.
Raise ==
    /\ npc \notin {"over", "raised"}
    /\ npc' = "raised"
    /\ UNCHANGED <<searchVars, entity, blockVars, documents, counters, told, completeness>>

\* Variant of Repeated: a cursor that comes again is followed again.
RepeatedNever(next) == FALSE

Repeated(next) == next \in seenCursors

SearchPage ==
    /\ npc = "search"
    /\ \E ids \in Results, next \in Cursors \cup {none} :
          /\ discovered' = discovered \o ids
          /\ cursor' = next
          /\ seenCursors' = IF next = none THEN seenCursors ELSE seenCursors \cup {next}
          /\ npc' = IF next = none \/ Repeated(next) THEN "entities" ELSE "search"
          /\ counters' = IF next # none /\ Repeated(next)
                         THEN Counted({"unsupported"}) ELSE counters
    /\ UNCHANGED <<exhaustive, entity, blockVars, documents, told, completeness>>

\* A later page is refused: its cursor is invalid or expired.
SearchCut ==
    /\ npc = "search" /\ cursor # none
    /\ counters' = Counted({"unsupported"})
    /\ npc' = "entities"
    /\ UNCHANGED <<searchVars, entity, blockVars, documents, told, completeness>>

-----------------------------------------------------------------------------
(* Documents *)

\* What the payload of an entity or of a block says of its unknown blocks: their
\* ids, or only that it is truncated.
Payloads == [unknown : Unknowns, truncated : BOOLEAN]

Omitted(payload) == payload.truncated /\ payload.unknown = <<>>

\* What the answer adds to the counters beside the fetch itself
Cut(payload) == IF Omitted(payload) THEN {"unsupported"} ELSE {}

\* The search found it before.
SkipEntity ==
    /\ npc = "entities" /\ entity <= Len(discovered) /\ Current \in Seen
    /\ entity' = entity + 1
    /\ UNCHANGED <<npc, searchVars, blockVars, documents, counters, told, completeness>>

FetchEntity ==
    /\ npc = "entities" /\ entity <= Len(discovered) /\ Current \notin Seen
    /\ \E payload \in Payloads :
          /\ documents' = Append(documents, [id |-> Current, text |-> <<>>])
          /\ told' = Append(told, [named |-> ToSet(payload.unknown), cut |-> Omitted(payload)])
          /\ counters' = Counted({"discovered", "fetched"} \cup Cut(payload)
                         \cup IF payload.unknown # <<>> THEN {"truncated"} ELSE {})
          /\ IF payload.unknown = <<>>
             THEN entity' = entity + 1 /\ UNCHANGED npc
             ELSE npc' = "blocks" /\ UNCHANGED entity
          /\ pending' = payload.unknown
          /\ visited' = {}
    /\ UNCHANGED <<searchVars, completeness>>

\* Any error of Notion, one that says upgrade_required too
DenyEntity ==
    /\ npc = "entities" /\ entity <= Len(discovered) /\ Current \notin Seen
    /\ counters' = Counted({"discovered", "denied"})
    /\ entity' = entity + 1
    /\ UNCHANGED <<npc, searchVars, blockVars, documents, told, completeness>>

NextBlock == Head(pending)

Visited(id) == id \in visited

SkipBlock ==
    /\ npc = "blocks" /\ pending # <<>> /\ Visited(NextBlock)
    /\ pending' = Tail(pending)
    /\ UNCHANGED <<npc, searchVars, entity, visited, documents, counters, told, completeness>>

FetchBlock ==
    /\ npc = "blocks" /\ pending # <<>> /\ ~Visited(NextBlock)
    /\ \E payload \in Payloads :
          LET d == Len(documents) IN
          /\ documents' = [documents EXCEPT ![d].text = Append(@, NextBlock)]
          /\ told' = [told EXCEPT ![d] = [named |-> @.named \cup ToSet(payload.unknown),
                                          cut |-> @.cut \/ Omitted(payload)]]
          /\ counters' = Counted(Cut(payload))
          /\ pending' = Tail(pending) \o payload.unknown
    /\ visited' = visited \cup {NextBlock}
    /\ UNCHANGED <<npc, searchVars, entity, completeness>>

\* Variant of LoseBlock: a block that is refused is not counted.
LoseBlockUncounted ==
    /\ npc = "blocks" /\ pending # <<>> /\ ~Visited(NextBlock)
    /\ pending' = Tail(pending)
    /\ visited' = visited \cup {NextBlock}
    /\ UNCHANGED <<npc, searchVars, entity, documents, counters, told, completeness>>

LoseBlock ==
    /\ npc = "blocks" /\ pending # <<>> /\ ~Visited(NextBlock)
    /\ counters' = Counted({"unsupported"})
    /\ pending' = Tail(pending)
    /\ visited' = visited \cup {NextBlock}
    /\ UNCHANGED <<npc, searchVars, entity, documents, told, completeness>>

BlocksDone ==
    /\ npc = "blocks" /\ pending = <<>>
    /\ npc' = "entities"
    /\ entity' = entity + 1
    /\ visited' = {}
    /\ UNCHANGED <<searchVars, pending, documents, counters, told, completeness>>

Return ==
    /\ npc = "entities" /\ entity > Len(discovered)
    /\ npc' = "over"
    /\ completeness' = IF counters.unsupported > 0 THEN "UNKNOWN"
                       ELSE IF exhaustive THEN "EXHAUSTIVE" ELSE "SEARCH_DISCOVERED"
    /\ UNCHANGED <<searchVars, entity, blockVars, documents, counters, told>>

NotionWork ==
    \/ Identify \/ SearchPage \/ SearchCut
    \/ SkipEntity \/ FetchEntity \/ DenyEntity
    \/ SkipBlock \/ FetchBlock \/ LoseBlock \/ BlocksDone
    \/ Return

NotionNext == NotionWork \/ Raise

-----------------------------------------------------------------------------
(* Properties *)

\* The last page of the search was read.
SearchIsWhole == cursor = none

\* Document d is whole: its text has that of every block named, each once, and no
\* answer was cut short without naming what it left out.
DocumentIsWhole(d) ==
    LET text == documents[d].text IN
    /\ ToSet(text) = told[d].named
    /\ IsInjective(text)
    /\ ~told[d].cut

\* What a claim other than UNKNOWN says: the search was read to its end, each
\* entity found is one whole document or counted as denied.
CrawlIsWhole ==
    /\ SearchIsWhole
    /\ \A d \in DOMAIN documents : DocumentIsWhole(d)
    /\ IsInjective([d \in DOMAIN documents |-> documents[d].id])
    /\ Len(documents) + counters.denied = Cardinality(ToSet(discovered))
=============================================================================
