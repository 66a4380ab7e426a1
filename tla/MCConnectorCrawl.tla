-------------------------- MODULE MCConnectorCrawl --------------------------
(***************************************************************************)
(* A workspace of three channels for TLC.  c1 has a history of two pages,  *)
(* with a text file, a picture and a thread of two pages on its first      *)
(* message, and that file again and a canvas on its second; the history of *)
(* c2 starts with an empty page; c3 is of a type that is not read.  The     *)
(* search of Notion has two cursors, two entities and two blocks.           *)
(***************************************************************************)
EXTENDS ConnectorCrawl

CONSTANTS c1, c2, c3, m1, m2, n1, r1, r2, f1, f2, v1, e1, e2, b1, b2

MCChannels == {c1, c2, c3}

MCListing == << <<[id |-> c1, readable |-> TRUE]>>,
                <<[id |-> c2, readable |-> TRUE], [id |-> c3, readable |-> FALSE]>> >>

File(id, isText) == [id |-> id, surface |-> "file", text |-> isText]
Canvas(id)       == [id |-> id, surface |-> "canvas", text |-> TRUE]

MCHistory ==
    [c \in MCChannels |->
        CASE c = c1 ->
               << <<[id |-> m1, items |-> <<File(f1, TRUE), File(f2, FALSE)>>,
                     replies |-> << <<[id |-> m1], [id |-> r1]>>, <<[id |-> r2]>> >>]>>,
                  <<[id |-> m2, items |-> <<File(f1, TRUE), Canvas(v1)>>,
                     replies |-> <<>>]>> >>
          [] c = c2 ->
               << <<>>, <<[id |-> n1, items |-> <<>>, replies |-> <<>>]>> >>
          [] c = c3 -> << <<>> >>]

MCToolSets == {Tools, Tools \ {"threads"}, Tools \ {"canvases"}, {"channels"}}

MCResults  == {<<>>, <<e1>>, <<e2, e1>>}
MCUnknowns == {<<>>, <<b2>>, <<b1, b2>>}
=============================================================================
