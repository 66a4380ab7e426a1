------------------------------ MODULE SlackCrawl ------------------------------
(***************************************************************************)
(* SlackCrawler.crawl of connectors/slack.py: the channels are listed, and *)
(* one task per channel pages through its history, reads the attachments   *)
(* of each message and pages through its threads.  The tasks share a       *)
(* semaphore, which a call holds while it waits for the MCP server, and    *)
(* the flags partial and interrupted.                                      *)
(*                                                                         *)
(* The server answers a call with what the workspace holds, or refuses it  *)
(* in any of the ways the crawler tells apart; each way out of a call, and *)
(* each malformed part of an answer, is an action.  A step ends where the  *)
(* task waits, or where it turns to the next message or attachment.        *)
(*                                                                         *)
(* Left out: texts, permalinks and hashes, warnings, the counters          *)
(* rate_limited and those of the record of the channel list.               *)
(***************************************************************************)
EXTENDS Naturals, Sequences, FiniteSets, SequencesExt

CONSTANTS
    Channels,     \* channel ids
    Main,         \* the task of crawl() itself
    Listing,      \* pages of the channel list: sequences of [id, readable]
    History,      \* per channel, pages of messages [id, items, replies]
    ToolSets,     \* the sets of tools a server may advertise
    Concurrency,  \* permits of the semaphore
    MaxRetries    \* max_retries

ASSUME CrawlAssumption ==
    /\ IsFiniteSet(Channels) /\ Main \notin Channels
    /\ Concurrency \in Nat \ {0}
    /\ MaxRetries \in Nat

Ids(channels) == {channels[i].id : i \in DOMAIN channels}
Key(item)     == <<item.surface, item.id>>
Posted(c)     == UNION {ToSet(History[c][i]) : i \in DOMAIN History[c]}

\* A paginated list has a first page, empty or not.
IsPaginated(list) ==
    /\ list \in Seq(ToSet(list)) \ {<<>>}
    /\ \A i \in DOMAIN list : list[i] \in Seq(ToSet(list[i]))

\* What is in the workspace does not change while it is crawled.  A timestamp
\* names one message of its channel, and an attachment is of one type, whichever
\* messages carry it.
ASSUME WorkspaceAssumption ==
    /\ IsPaginated(Listing)
    /\ \A i \in DOMAIN Listing : Ids(Listing[i]) \subseteq Channels
    /\ \A c \in Channels :
          /\ IsPaginated(History[c])
          /\ \A m \in Posted(c) :
                /\ m.items \in Seq(ToSet(m.items))
                /\ \A item \in ToSet(m.items) :
                      item.surface \in {"file", "canvas"} /\ item.text \in BOOLEAN
                /\ m.replies = <<>> \/ IsPaginated(m.replies)
          /\ \A m, n \in Posted(c) :
                /\ m.id = n.id => m = n
                /\ \A x \in ToSet(m.items), y \in ToSet(n.items) :
                      Key(x) = Key(y) => x.text = y.text

VARIABLES
    tools,        \* what the server advertises
    found,        \* the channels discovered so far
    at,           \* per task: where it is
    sent,         \* per task: its call is with the server and holds a permit
    retries,      \* per task: retries of the call
    page,         \* per task: page of the list it reads
    got,          \* per channel: messages of the history
    replies,      \* per channel: messages of the current thread
    turn,         \* per channel: index of its message, and of the attachment
    cut,          \* per channel: the history was truncated
    seen,         \* per channel: seen_attachments
    ledger,       \* state.records of the channels
    docs,         \* per channel: its documents
    partial,      \* state.partial
    interrupted,  \* state.interrupted
    result        \* status of the SlackCrawlResult, or why there is none

listVars == <<found, page, got, replies>>
bookVars == <<cut, seen, ledger, docs, partial, interrupted>>
slackVars == <<tools, at, sent, retries, listVars, turn, bookVars, result>>

Tasks    == Channels \cup {Main}
Tools    == {"channels", "history", "threads", "files", "canvases"}
Surfaces == {"message", "thread_reply", "file", "canvas"}
Counters == {"discovered", "fetched", "skipped", "truncated", "denied", "unsupported"}
Calls    == {"listing", "history", "reading", "thread"}
Ended    == {"over", "interrupted"}

ASSUME ToolAssumption == ToolSets \subseteq SUBSET Tools

Readable(c) == \E i \in DOMAIN Listing : \E j \in DOMAIN Listing[i] :
                  Listing[i][j].id = c /\ Listing[i][j].readable

Message(c) == got[c][turn[c].message]
Item(c)    == Message(c).items[turn[c].item]

\* The paginated list a task reads; the root is the first message of its thread.
List(t) ==
    CASE at[t] = "listing" -> Listing
      [] at[t] = "history" -> History[t]
      [] at[t] = "thread"  -> Message(t).replies

SlackInit ==
    /\ tools \in ToolSets
    /\ found = {}
    /\ at      = [t \in Tasks |-> IF t = Main THEN "new" ELSE "idle"]
    /\ sent    = [t \in Tasks |-> FALSE]
    /\ retries = [t \in Tasks |-> 0]
    /\ page    = [t \in Tasks |-> 1]
    /\ got     = [c \in Channels |-> <<>>]
    /\ replies = [c \in Channels |-> <<>>]
    /\ turn    = [c \in Channels |-> [message |-> 1, item |-> 1]]
    /\ cut     = [c \in Channels |-> FALSE]
    /\ seen    = [c \in Channels |-> {}]
    /\ ledger  = [c \in Channels |-> [s \in Surfaces |-> [k \in Counters |-> 0]]]
    /\ docs    = [c \in Channels |-> {}]
    /\ partial = FALSE /\ interrupted = FALSE
    /\ result  = "NONE"

-----------------------------------------------------------------------------
(* Calls *)

MoveTo(t, place) == at' = [at EXCEPT ![t] = place]

\* The answer is in: the permit goes back, and the next call starts afresh.
Answered(t) ==
    /\ sent[t]
    /\ sent'    = [sent EXCEPT ![t] = FALSE]
    /\ retries' = [retries EXCEPT ![t] = 0]

Send(t) ==
    /\ at[t] \in Calls
    /\ ~sent[t]
    /\ Cardinality({u \in Tasks : sent[u]}) < Concurrency
    /\ sent' = [sent EXCEPT ![t] = TRUE]
    /\ UNCHANGED <<tools, at, retries, listVars, turn, bookVars, result>>

\* rate_limited, with a Retry-After that can be waited for outside the permit.
\* An exhausted budget is a truncation, a Retry-After that cannot be read is a
\* malformed answer: the failures below.
Retry(t) ==
    /\ sent[t]
    /\ retries[t] < MaxRetries
    /\ sent'    = [sent EXCEPT ![t] = FALSE]
    /\ retries' = [retries EXCEPT ![t] = @ + 1]
    /\ UNCHANGED <<tools, at, listVars, turn, bookVars, result>>

\* One more of what a channel's ledger counts, for each counter named
Count(c, s, counters) ==
    ledger' = [ledger EXCEPT ![c][s] =
                  [k \in Counters |-> @[k] + IF k \in counters THEN 1 ELSE 0]]

-----------------------------------------------------------------------------
(* crawl() and _discover_channels *)

Begin ==
    /\ at[Main] = "new"
    /\ IF {"channels", "history"} \subseteq tools
       THEN MoveTo(Main, "listing") /\ UNCHANGED result
       ELSE MoveTo(Main, "over") /\ result' = "CAPABILITY_UNAVAILABLE"
    /\ UNCHANGED <<tools, sent, retries, listVars, turn, bookVars>>

ListingPage ==
    /\ at[Main] = "listing"
    /\ Answered(Main)
    /\ found' = found \cup Ids(Listing[page[Main]])
    /\ IF page[Main] < Len(Listing)
       THEN page' = [page EXCEPT ![Main] = @ + 1] /\ UNCHANGED at
       ELSE /\ at' = [t \in Tasks |->
                        IF t = Main THEN "crawling"
                        ELSE IF t \in found' /\ Readable(t) THEN "history" ELSE "idle"]
            /\ UNCHANGED page
    /\ UNCHANGED <<tools, got, replies, turn, bookVars, result>>

\* Malformed, denied or truncated: no channel is crawled.
ListingFails ==
    /\ at[Main] = "listing"
    /\ Answered(Main)
    /\ MoveTo(Main, "over")
    /\ partial' = TRUE
    /\ result' = "FAILED"
    /\ UNCHANGED <<tools, listVars, turn, cut, seen, ledger, docs, interrupted>>

\* Every task has ended.
Finish ==
    /\ at[Main] = "crawling"
    /\ \A c \in Channels : at[c] \in Ended \cup {"idle"}
    /\ MoveTo(Main, "over")
    /\ result' = IF partial THEN "FAILED" ELSE "OK"
    /\ UNCHANGED <<tools, sent, retries, listVars, turn, bookVars>>

\* The client raises, or the run is cancelled: the task group cancels every
\* task and crawl() raises.
AbortCrawl ==
    /\ at[Main] \in {"listing", "crawling"}
    /\ result' = "ABORTED"
    /\ UNCHANGED <<tools, at, sent, retries, listVars, turn, bookVars>>

-----------------------------------------------------------------------------
(* A channel: its history *)

\* Where the loop over the messages goes next
NextMessage(c) ==
    /\ turn' = [turn EXCEPT ![c] = [message |-> @.message + 1, item |-> 1]]
    /\ MoveTo(c, "messages")

HistoryPage(c) ==
    /\ at[c] = "history"
    /\ Answered(c)
    /\ got' = [got EXCEPT ![c] = @ \o History[c][page[c]]]
    /\ IF page[c] < Len(History[c])
       THEN page' = [page EXCEPT ![c] = @ + 1] /\ UNCHANGED at
       ELSE MoveTo(c, "messages") /\ UNCHANGED page
    /\ UNCHANGED <<tools, found, replies, turn, bookVars, result>>

\* A call that fails when there are messages already, denied ones and
\* interrupted ones included: _PartialMessages, and they are kept.
HistoryCut(c) ==
    /\ at[c] = "history"
    /\ got[c] # <<>>
    /\ Answered(c)
    /\ Count(c, "message", {"truncated"})
    /\ cut' = [cut EXCEPT ![c] = TRUE]
    /\ partial' = TRUE
    /\ interrupted' \in {interrupted, TRUE}
    /\ MoveTo(c, "messages")
    /\ UNCHANGED <<tools, listVars, turn, seen, docs, result>>

\* Variant of HistoryDenied that forgets the flag
HistoryDeniedSilently(c) ==
    /\ at[c] = "history"
    /\ got[c] = <<>>
    /\ Answered(c)
    /\ Count(c, "message", {"denied"})
    /\ MoveTo(c, "over")
    /\ UNCHANGED <<tools, listVars, turn, cut, seen, docs, partial, interrupted, result>>

HistoryDenied(c) ==
    /\ at[c] = "history"
    /\ got[c] = <<>>
    /\ Answered(c)
    /\ Count(c, "message", {"denied"})
    /\ partial' = TRUE
    /\ MoveTo(c, "over")
    /\ UNCHANGED <<tools, listVars, turn, cut, seen, docs, interrupted, result>>

\* The whole history is given up: a first call that is truncated or malformed,
\* or a page that is malformed or repeats a cursor, whatever came before it.
HistoryLost(c) ==
    /\ at[c] = "history"
    /\ Answered(c)
    /\ Count(c, "message", {"truncated"})
    /\ partial' = TRUE
    /\ MoveTo(c, "over")
    /\ UNCHANGED <<tools, listVars, turn, cut, seen, docs, interrupted, result>>

\* InterruptedError, unless a list with messages in hand absorbs it: the task
\* ends, and its documents are dropped.
Interrupt(c) ==
    /\ \/ at[c] = "history" /\ got[c] = <<>>
       \/ at[c] = "thread" /\ replies[c] = <<>>
       \/ at[c] = "reading"
    /\ Answered(c)
    /\ Count(c, "message", {"truncated"})
    /\ partial' = TRUE /\ interrupted' = TRUE
    /\ MoveTo(c, "interrupted")
    /\ UNCHANGED <<tools, listVars, turn, cut, seen, docs, result>>

-----------------------------------------------------------------------------
(* Its messages *)

\* Variant of Document that marks nothing
DocumentUnmarked(id, surface, root, mark) ==
    [id |-> id, surface |-> surface, root |-> root, partial |-> FALSE]

Document(id, surface, root, mark) ==
    [id |-> id, surface |-> surface, root |-> root, partial |-> mark]

TakeMessage(c) ==
    /\ at[c] = "messages"
    /\ turn[c].message <= Len(got[c])
    /\ Count(c, "message", {"discovered", "fetched"})
    /\ docs' = [docs EXCEPT ![c] = @ \cup
                   {Document(Message(c).id, "message", Message(c).id, cut[c])}]
    /\ MoveTo(c, "items")
    /\ UNCHANGED <<tools, sent, retries, listVars, turn, cut, seen, partial,
                   interrupted, result>>

\* A message without a timestamp or a permalink
SkipMessage(c) ==
    /\ at[c] = "messages"
    /\ turn[c].message <= Len(got[c])
    /\ Count(c, "message", {"discovered", "skipped", "truncated"})
    /\ partial' = TRUE
    /\ NextMessage(c)
    /\ UNCHANGED <<tools, sent, retries, listVars, cut, seen, docs, interrupted, result>>

ChannelDone(c) ==
    /\ at[c] = "messages"
    /\ turn[c].message > Len(got[c])
    /\ MoveTo(c, "over")
    /\ UNCHANGED <<tools, sent, retries, listVars, turn, bookVars, result>>

-----------------------------------------------------------------------------
(* Their attachments: files, then canvases *)

Pending(c) == at[c] = "items" /\ turn[c].item <= Len(Message(c).items)
NextItem(c) == turn' = [turn EXCEPT ![c].item = @ + 1]
ToolFor(s) == IF s = "file" THEN "files" ELSE "canvases"

\* An attachment that is no object is not even discovered; one without an id is.
MalformedItem(c) ==
    /\ Pending(c)
    /\ \/ Count(c, Item(c).surface, {"truncated"})
       \/ Count(c, Item(c).surface, {"discovered", "truncated"})
    /\ partial' = TRUE
    /\ NextItem(c)
    /\ UNCHANGED <<tools, at, sent, retries, listVars, cut, seen, docs, interrupted, result>>

RepeatedItem(c) ==
    /\ Pending(c)
    /\ Key(Item(c)) \in seen[c]
    /\ Count(c, Item(c).surface, {"discovered", "skipped"})
    /\ NextItem(c)
    /\ UNCHANGED <<tools, at, sent, retries, listVars, cut, seen, docs, partial,
                   interrupted, result>>

\* A file that is no text is no loss; one that no tool reads is.
UnsupportedItem(c) ==
    /\ Pending(c)
    /\ Key(Item(c)) \notin seen[c]
    /\ ~Item(c).text \/ ToolFor(Item(c).surface) \notin tools
    /\ seen' = [seen EXCEPT ![c] = @ \cup {Key(Item(c))}]
    /\ Count(c, Item(c).surface, {"discovered", "skipped", "unsupported"})
    /\ partial' = (partial \/ Item(c).text)
    /\ NextItem(c)
    /\ UNCHANGED <<tools, at, sent, retries, listVars, cut, docs, interrupted, result>>

OpenItem(c) ==
    /\ Pending(c)
    /\ Key(Item(c)) \notin seen[c]
    /\ Item(c).text /\ ToolFor(Item(c).surface) \in tools
    /\ seen' = [seen EXCEPT ![c] = @ \cup {Key(Item(c))}]
    /\ Count(c, Item(c).surface, {"discovered"})
    /\ MoveTo(c, "reading")
    /\ UNCHANGED <<tools, sent, retries, listVars, turn, cut, docs, partial,
                   interrupted, result>>

ReadItem(c) ==
    /\ at[c] = "reading"
    /\ Answered(c)
    /\ Count(c, Item(c).surface, {"fetched"})
    /\ docs' = [docs EXCEPT ![c] = @ \cup
                   {Document(Item(c).id, Item(c).surface, Message(c).id, cut[c])}]
    /\ NextItem(c)
    /\ MoveTo(c, "items")
    /\ UNCHANGED <<tools, listVars, cut, seen, partial, interrupted, result>>

\* Denied, truncated or without a text, or without a permalink
LoseItem(c) ==
    /\ at[c] = "reading"
    /\ Answered(c)
    /\ \E counters \in {{"denied"}, {"truncated"}, {"skipped", "truncated"}} :
          Count(c, Item(c).surface, counters)
    /\ partial' = TRUE
    /\ NextItem(c)
    /\ MoveTo(c, "items")
    /\ UNCHANGED <<tools, listVars, cut, seen, docs, interrupted, result>>

-----------------------------------------------------------------------------
(* Their threads *)

ItemsDone(c) ==
    /\ at[c] = "items"
    /\ turn[c].item > Len(Message(c).items)

NoThread(c) ==
    /\ ItemsDone(c)
    /\ Message(c).replies = <<>>
    /\ NextMessage(c)
    /\ UNCHANGED <<tools, sent, retries, listVars, bookVars, result>>

UnsupportedThread(c) ==
    /\ ItemsDone(c)
    /\ Message(c).replies # <<>>
    /\ "threads" \notin tools
    /\ Count(c, "thread_reply", {"unsupported", "truncated"})
    /\ partial' = TRUE
    /\ NextMessage(c)
    /\ UNCHANGED <<tools, sent, retries, listVars, cut, seen, docs, interrupted, result>>

OpenThread(c) ==
    /\ ItemsDone(c)
    /\ Message(c).replies # <<>>
    /\ "threads" \in tools
    /\ page' = [page EXCEPT ![c] = 1]
    /\ replies' = [replies EXCEPT ![c] = <<>>]
    /\ MoveTo(c, "thread")
    /\ UNCHANGED <<tools, sent, retries, found, got, turn, bookVars, result>>

Thread(c) == Message(c).replies

\* Of the messages of a thread, all but its root
RepliesIn(c, messages) == {i \in DOMAIN messages : messages[i].id # Message(c).id}

\* The loop over them, with what else is counted.  thread_partial looks at the
\* record of the channel, not at this thread's.
TakeReplies(c, messages, counters) ==
    LET others == RepliesIn(c, messages)
        mark   == ledger'[c]["thread_reply"]["truncated"] > 0
    IN  /\ ledger' = [ledger EXCEPT ![c]["thread_reply"] =
                [k \in Counters |->
                    @[k] + (IF k \in {"discovered", "fetched"} THEN Cardinality(others) ELSE 0)
                         + (IF k \in counters THEN 1 ELSE 0)]]
        /\ docs' = [docs EXCEPT ![c] = @ \cup
                {Document(messages[i].id, "thread_reply", Message(c).id, mark) : i \in others}]
        /\ NextMessage(c)

ThreadPage(c) ==
    /\ at[c] = "thread"
    /\ page[c] < Len(Thread(c))
    /\ Answered(c)
    /\ replies' = [replies EXCEPT ![c] = @ \o Thread(c)[page[c]]]
    /\ page' = [page EXCEPT ![c] = @ + 1]
    /\ UNCHANGED <<tools, at, found, got, turn, bookVars, result>>

ThreadRead(c) ==
    /\ at[c] = "thread"
    /\ page[c] = Len(Thread(c))
    /\ Answered(c)
    /\ TakeReplies(c, replies[c] \o Thread(c)[page[c]], {})
    /\ UNCHANGED <<tools, listVars, cut, seen, partial, interrupted, result>>

ThreadCut(c) ==
    /\ at[c] = "thread"
    /\ replies[c] # <<>>
    /\ Answered(c)
    /\ TakeReplies(c, replies[c], {"truncated"})
    /\ partial' = TRUE
    /\ interrupted' \in {interrupted, TRUE}
    /\ UNCHANGED <<tools, listVars, cut, seen, result>>

ThreadLost(c) ==
    /\ at[c] = "thread"
    /\ Answered(c)
    /\ \/ Count(c, "thread_reply", {"truncated"})
       \/ replies[c] = <<>> /\ Count(c, "thread_reply", {"denied", "truncated"})
    /\ partial' = TRUE
    /\ NextMessage(c)
    /\ UNCHANGED <<tools, listVars, cut, seen, docs, interrupted, result>>

\* One of the replies, all read or cut short, has no timestamp or no permalink:
\* nothing on the way out of crawl() catches the error, and the task group
\* cancels the other channels.
MalformedReply(c) ==
    /\ at[c] = "thread"
    /\ Answered(c)
    /\ \/ RepliesIn(c, replies[c]) # {}
       \/ page[c] = Len(Thread(c)) /\ RepliesIn(c, Thread(c)[page[c]]) # {}
    /\ result' = "RAISED"
    /\ UNCHANGED <<tools, at, listVars, turn, bookVars>>

-----------------------------------------------------------------------------
Histories(c) == HistoryPage(c) \/ HistoryCut(c) \/ HistoryDenied(c) \/ HistoryLost(c)
Messages(c)  == TakeMessage(c) \/ SkipMessage(c) \/ ChannelDone(c)
Attachments(c) ==
    \/ MalformedItem(c) \/ RepeatedItem(c) \/ UnsupportedItem(c)
    \/ OpenItem(c) \/ ReadItem(c) \/ LoseItem(c)
Threads(c) ==
    \/ NoThread(c) \/ UnsupportedThread(c) \/ OpenThread(c)
    \/ ThreadPage(c) \/ ThreadRead(c) \/ ThreadCut(c) \/ ThreadLost(c) \/ MalformedReply(c)

Crawl ==
    /\ result = "NONE"
    /\ \/ Begin \/ ListingPage \/ ListingFails \/ Finish
       \/ \E t \in Tasks : Send(t) \/ Retry(t)
       \/ \E c \in Channels :
             Histories(c) \/ Interrupt(c) \/ Messages(c) \/ Attachments(c) \/ Threads(c)

SlackNext == Crawl \/ (result = "NONE" /\ AbortCrawl)

\* The event loop runs, and every call is answered within its read timeout.
SlackSpec == SlackInit /\ [][SlackNext]_slackVars /\ WF_slackVars(Crawl)

-----------------------------------------------------------------------------
(* Properties *)

\* Every variable holds values of its type; no call is retried more often than
\* max_retries, and no page beyond the last is asked for.
SlackTypeOK ==
    /\ tools \subseteq Tools
    /\ found \subseteq Channels
    /\ at \in [Tasks -> {"new", "idle", "messages", "items", "crawling"} \cup Calls \cup Ended]
    /\ sent \in [Tasks -> BOOLEAN]
    /\ retries \in [Tasks -> 0..MaxRetries]
    /\ \A t \in Tasks : at[t] \in {"listing", "history", "thread"} => page[t] \in DOMAIN List(t)
    /\ \A c \in Channels :
          /\ turn[c].message \in 1..(Len(got[c]) + 1)
          /\ at[c] \in {"items", "reading"} => turn[c].item \in 1..(Len(Message(c).items) + 1)
          /\ \A d \in docs[c] : d.surface \in Surfaces
    /\ cut \in [Channels -> BOOLEAN]
    /\ ledger \in [Channels -> [Surfaces -> [Counters -> Nat]]]
    /\ partial \in BOOLEAN /\ interrupted \in BOOLEAN
    /\ result \in {"NONE", "OK", "FAILED", "CAPABILITY_UNAVAILABLE", "ABORTED", "RAISED"}

\* The first n pages of a list, joined
Joined(pages, n) ==
    LET joined[i \in 0..Len(pages)] == IF i = 0 THEN <<>> ELSE joined[i - 1] \o pages[i]
    IN  joined[n]

Everything(c) == Joined(History[c], Len(History[c]))
Texts(m)      == {item \in ToSet(m.items) : item.text}
AllReplies(m) == {r \in ToSet(Joined(m.replies, Len(m.replies))) : r.id # m.id}

\* Channel c has a whole document of that id and kind.
Whole(c, id, surface) ==
    \E d \in docs[c] : d.id = id /\ d.surface = surface /\ ~d.partial

\* Status.OK says that the crawl is complete (slack.py:321): every message,
\* reply and text attachment of every channel it may read is a document, none
\* of them marked partial, and nothing was interrupted.  Whatever is denied, cut,
\* malformed or out of the server's tools, in any of the tasks, rules it out.
OkIsComplete ==
    result = "OK" =>
        /\ ~interrupted
        /\ \A c \in Channels : Readable(c) =>
              \A m \in ToSet(Everything(c)) :
                 /\ Whole(c, m.id, "message")
                 /\ \A item \in Texts(m) : Whole(c, item.id, item.surface)
                 /\ \A r \in AllReplies(m) : Whole(c, r.id, "thread_reply")

\* The provenance "partial" of a document is true: one that is "false" comes from
\* a list that was read to its end, the history of its channel for a message or an
\* attachment, its thread for a reply; and one that is "true", though the tasks
\* share one flag partial, from a list whose truncation its own channel counts.
PartialMarksAreTrue ==
    \A c \in Channels :
        /\ at[c] \in Ended =>
              \A d \in {x \in docs[c] : ~x.partial} :
                  IF d.surface = "thread_reply"
                  THEN \A m \in ToSet(got[c]) : m.id = d.root =>
                          \A r \in AllReplies(m) : Whole(c, r.id, "thread_reply")
                  ELSE got[c] = Everything(c)
        /\ \A d \in {x \in docs[c] : x.partial} :
              ledger[c][IF d.surface = "thread_reply" THEN "thread_reply"
                        ELSE "message"].truncated > 0

=============================================================================
