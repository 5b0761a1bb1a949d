------------------------------ MODULE HitReads ------------------------------
(***************************************************************************)
(* The owner of a bin reads its hits (internal/httpapi/webhook.go) while   *)
(* the transactions of WebhookHits go on.  handleGetBin calls Get and then *)
(* ListHits, handleListHits calls ListHits with a cursor and then Get; Get *)
(* is getOwned, ListHits is getOwned and a query.  Each is a statement     *)
(* outside of any transaction, which sees what is committed when it runs.  *)
(*                                                                         *)
(* A walk is what a page of the front end does with the two: the newest    *)
(* hits first, then those before the last one listed, until there are      *)
(* none.  GetHit and the contents of a hit are left out, and pruneExpired  *)
(* is one of Drops.                                                        *)
(***************************************************************************)
EXTENDS WebhookHits

VARIABLES
  at,      \* the next statement of the reader's request, or where the walk is
  after,   \* the cursor of the request, NoOne for the newest hits
  page,    \* the hits of the last query
  listed,  \* history: hits of all pages of the walk
  there,   \* history: hits in the bin ever since the first page was read
  early,   \* history: requests that chose their rows before that
  lost,    \* history: hits that these requests have removed since
  cut      \* history: the rows of a query broke off during the walk

walk     == <<listed, there, early, lost, cut>>
readVars == <<at, after, page, walk>>
allVars  == <<vars, readVars>>

ReadInit == /\ Init
            /\ at = "idle"
            /\ after = NoOne
            /\ page = {}
            /\ listed = {} /\ there = {} /\ early = {} /\ lost = {}
            /\ cut = FALSE

-----------------------------------------------------------------------------
\* The walk is over, or given up: a request was answered 404 or failed.
Forget == /\ at' = "idle"
          /\ after' = NoOne
          /\ page' = {}
          /\ listed' = {} /\ there' = {} /\ early' = {} /\ lost' = {}
          /\ cut' = FALSE

\* GET /bins/{id}, the first request of a walk.
OpenBin == /\ at = "idle"
           /\ at' = "get"
           /\ UNCHANGED <<vars, after, page, walk>>

\* GET /bins/{id}/hits?after=<the last hit listed>.
NextPage == /\ at = "listed"
            /\ \E c \in page :
                 /\ \A h \in page : recv[c] <= recv[h]
                 /\ after' = c
            /\ at' = "owned"
            /\ UNCHANGED <<vars, page, walk>>

\* A request that lists hits is answered.
Listed == IF page = {} THEN "over" ELSE "listed"

\* Get: the bin's row.  handleGetBin has yet to list the hits.
Get == /\ at = "get"
       /\ ConnectionFree
       /\ IF bin
          THEN /\ at' = IF after = NoOne THEN "owned" ELSE Listed
               /\ UNCHANGED <<after, page, walk>>
          ELSE Forget
       /\ UNCHANGED vars

\* ListHits: getOwned.
Owned == /\ at = "owned"
         /\ ConnectionFree
         /\ IF bin
            THEN at' = "query" /\ UNCHANGED <<after, page, walk>>
            ELSE Forget
         /\ UNCHANGED vars

\* Mutants of Before: a cursor that is gone starts again; the comparison the
\* other way round.
BeforeOrNewest(c) ==
  IF c \in hits THEN {h \in hits : recv[h] < recv[c]} ELSE hits
BeforeReversed(c) == {h \in hits : c \in hits /\ recv[h] > recv[c]}

\* received_at < (SELECT received_at ... id = after): NULL, and so no hits, if
\* the hit is gone.
Before(c) == {h \in hits : c \in hits /\ recv[h] < recv[c]}

\* ORDER BY received_at DESC LIMIT MaxHits, ties in any order.
Top(S) ==
  {P \in SUBSET S :
     /\ Cardinality(P) = IF Cardinality(S) > MaxHits THEN MaxHits ELSE Cardinality(S)
     /\ \A p \in P, h \in S \ P : recv[p] >= recv[h]}

\* Rows arrive one by one.  If the connection breaks or the context ends in
\* between, rows.Next is FALSE, and ListHits, which does not ask rows.Err,
\* answers with those it has.
Deliver(S) ==
  /\ page' \in {P \in SUBSET S :
                 /\ Cardinality(P) <= MaxHits
                 /\ \A p \in P, h \in S \ P : recv[p] >= recv[h]}
  /\ cut' = (cut \/ page' \notin Top(S))

\* Requests whose deletions are chosen, and not yet committed.
Chosen == {r \in Requests : pc[r] \in {"delete", "count", "update", "commit"}}

\* ListHits: the query of the newest hits.
QueryFirst ==
  /\ at = "query" /\ after = NoOne
  /\ ConnectionFree
  /\ Deliver(hits)
  /\ listed' = page'
  /\ there' = hits
  /\ early' = Chosen
  /\ lost' = {}
  /\ at' = IF page' = {} THEN "over" ELSE "listed"
  /\ UNCHANGED <<vars, after>>

\* ListHits: the query of the hits before the cursor.
QueryNext ==
  /\ at = "query" /\ after # NoOne
  /\ ConnectionFree
  /\ Deliver(Before(after))
  /\ listed' = listed \union page'
  /\ at' = "get"
  /\ UNCHANGED <<vars, after, there, early, lost>>

\* A statement of the reader fails, or the user leaves.
GiveUp == at # "idle" /\ Forget /\ UNCHANGED vars

\* What a step of another request does to the history of the walk.
Watch(r) ==
  /\ there' = there \intersect hits'
  /\ lost' = IF r \in early THEN lost \union (hits \ hits') ELSE lost
  /\ UNCHANGED <<at, after, page, listed, early, cut>>

Reader == \/ OpenBin
          \/ NextPage
          \/ Get
          \/ Owned
          \/ QueryFirst
          \/ QueryNext
          \/ GiveUp

ReadNext == \/ \E r \in Requests : (Arrive(r) \/ Statement(r) \/ Break(r)) /\ Watch(r)
            \/ Reader

ReadSpec == ReadInit /\ [][ReadNext]_allVars

-----------------------------------------------------------------------------
\* The values of the variables; a page has hits that were listed, as many as
\* the limit allows, and what was there from the start may be gone by now but
\* never comes back.
ReadTypeOK ==
  /\ at \in {"idle", "get", "owned", "query", "listed", "over"}
  /\ after \in Ingests \union {NoOne}
  /\ page \subseteq listed /\ Cardinality(page) <= MaxHits
  /\ listed \subseteq stored
  /\ there \subseteq hits
  /\ early \subseteq Requests /\ lost \subseteq stored \ hits
  /\ cut \in BOOLEAN

\* A walk that comes to its end has listed every hit that was in the bin from
\* its first page on, although pages are read at different moments and a
\* cursor may be trimmed in between.  Excepted are hits received at the very
\* instant of one that was listed (the comparison of ListHits is strict),
\* those older than a cursor that was removed by a request which had chosen
\* its rows before the walk began, and did not see them, and walks in which
\* the rows of a query broke off.
WalkComplete ==
  at = "over" /\ ~cut =>
    \A h \in there \ listed :
      \/ \E c \in listed : recv[c] = recv[h]
      \/ after \in lost

\* A walk never lists a hit twice: pages do not overlap (strict comparison of
\* ListHits), whatever is committed between them.
NoHitTwice == [][at = "query" /\ at' = "get" => page' \intersect listed = {}]_allVars
=============================================================================
