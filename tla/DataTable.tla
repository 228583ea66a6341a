------------------------------ MODULE DataTable ------------------------------
(***************************************************************************)
(* The list of deployments: its controls, the requests they send and the   *)
(* answers, in whatever order they come (internal/ui/static/js/            *)
(* datatable.js, deployments.js), and the query that counts and reads the  *)
(* rows (infra/db/queries.go, ListDeploymentsAdvanced).                    *)
(*                                                                         *)
(* Sort, search, filters and page size are one "query". Of the rows only   *)
(* counts matter: matching[q] is the number of pages of q. "loading" only  *)
(* dims the table and is left out.                                         *)
(***************************************************************************)
EXTENDS Naturals, FiniteSets

CONSTANTS
    Queries,
    NoQuery,
    MaxPages,     \* bound: pages of a query
    MaxRequests   \* bound: requests of the table

ASSUME DataTableAssumption ==
    NoQuery \notin Queries /\ MaxPages \in Nat \ {0} /\ MaxRequests \in Nat \ {0}

VARIABLES
    matching,    \* pages of rows that match each query
    query,       \* sortBy, sortDir, search, filters, pageSize
    pageNo,      \* page
    total,       \* total, in pages of the query it was counted for
    rows,        \* the request that the rows are the answer of
    typed,       \* the search that the debounce timer waits to apply
    flight,      \* requests that are not answered
    sent,        \* requests so far
    started,     \* init has sent its own; the controls are there before
    failed,      \* history: the last request failed
    checkedFor,  \* history: the query whose total setPage compared with
    shrunk       \* history: the queries that rows went away from

tableVars == <<matching, query, pageNo, total, rows, typed, flight, sent,
               started, failed, checkedFor, shrunk>>

TableRequest == [id : 1 .. MaxRequests, query : Queries, page : 1 .. MaxPages,
            count : 0 .. MaxPages, read : BOOLEAN]

NoRows == [id |-> 0, query |-> NoQuery, page |-> 1]

TableTypeOK ==
    /\ matching \in [Queries -> 0 .. MaxPages]
    /\ query \in Queries
    /\ pageNo \in 1 .. MaxPages
    /\ total \in 0 .. MaxPages
    /\ rows \in [id : 1 .. MaxRequests, query : Queries, page : 1 .. MaxPages]
                  \cup {NoRows}
    /\ typed \in Queries \cup {NoQuery}
    /\ flight \subseteq TableRequest
    /\ sent \in 0 .. MaxRequests
    /\ started \in BOOLEAN
    /\ failed \in BOOLEAN
    /\ checkedFor \in Queries \cup {NoQuery}
    /\ shrunk \subseteq Queries

TableInit ==
    /\ matching \in [Queries -> 0 .. MaxPages]
    /\ query \in Queries
    /\ pageNo = 1
    /\ total = 0
    /\ rows = NoRows
    /\ typed = NoQuery
    /\ flight = {}
    /\ sent = 0
    /\ started = FALSE
    /\ failed = FALSE
    /\ checkedFor = NoQuery
    /\ shrunk = {}

------------------------------------------------------------------------------
(* The rows *)

\* A deployment is queued, or takes on a status or a name that matches.
RowsAppear(q) ==
    /\ matching[q] < MaxPages
    /\ matching' = [matching EXCEPT ![q] = @ + 1]
    /\ UNCHANGED <<query, pageNo, total, rows, typed, flight, sent, started, failed,
                   checkedFor, shrunk>>

\* A project is deleted, or a deployment leaves the status that is filtered.
RowsVanish(q) ==
    /\ matching[q] > 0
    /\ matching' = [matching EXCEPT ![q] = @ - 1]
    /\ shrunk' = shrunk \cup {q}
    /\ UNCHANGED <<query, pageNo, total, rows, typed, flight, sent, started, failed,
                   checkedFor>>

------------------------------------------------------------------------------
(* Requests *)

\* load, for controls that have these values by now.
LoadFor(q, p) ==
    /\ sent < MaxRequests
    /\ sent' = sent + 1
    /\ failed' = FALSE
    /\ flight' = flight \cup {[id |-> sent + 1, query |-> q, page |-> p,
                               count |-> 0, read |-> FALSE]}

\* ListDeploymentsAdvanced: the count, and right after it the rows.
Answered(r) == [r EXCEPT !.count = matching[r.query], !.read = TRUE]

ListDeployments(r) ==
    /\ ~r.read
    /\ flight' = (flight \ {r}) \cup {Answered(r)}
    /\ UNCHANGED <<matching, query, pageNo, total, rows, typed, sent, started, failed,
                   checkedFor, shrunk>>

\* The answer is taken over whatever else was asked or answered meanwhile.
Answer(r) ==
    /\ r.read
    /\ flight' = flight \ {r}
    /\ rows' = [id |-> r.id, query |-> r.query, page |-> r.page]
    /\ total' = r.count
    /\ UNCHANGED <<matching, query, pageNo, typed, sent, started, failed, checkedFor,
                   shrunk>>

\* A request that fails leaves the old rows under the new controls.
LoadFails(r) ==
    /\ flight' = flight \ {r}
    /\ failed' = (failed \/ r.id = sent)
    /\ UNCHANGED <<matching, query, pageNo, total, rows, typed, sent, started,
                   checkedFor, shrunk>>

------------------------------------------------------------------------------
(* Controls *)

\* init of the page, which has awaited the projects first.
FirstLoad ==
    /\ ~started
    /\ started' = TRUE
    /\ LoadFor(query, pageNo)
    /\ UNCHANGED <<matching, query, pageNo, total, rows, typed, checkedFor,
                   shrunk>>

\* Mutant: load builds its URL before the page is set back.
LoadThenReset(q) ==
    /\ query' = q
    /\ LoadFor(q, pageNo)
    /\ pageNo' = 1
    /\ checkedFor' = NoQuery
    /\ UNCHANGED shrunk

\* Every change of the query goes back to the first page.
SetQuery(q) ==
    /\ query' = q
    /\ pageNo' = 1
    /\ LoadFor(q, 1)
    /\ checkedFor' = NoQuery
    /\ UNCHANGED shrunk

\* setSort, setFilter, setPageSize
SetFilter(q) ==
    /\ SetQuery(q)
    /\ UNCHANGED <<matching, total, rows, typed, started>>

\* setSearch starts the timer again.
SetSearch(q) ==
    /\ typed' = q
    /\ UNCHANGED <<matching, query, pageNo, total, rows, flight, sent, started, failed,
                   checkedFor, shrunk>>

SearchTimer ==
    /\ typed # NoQuery
    /\ SetQuery(typed)
    /\ typed' = NoQuery
    /\ UNCHANGED <<matching, total, rows, started>>

totalPages == IF total = 0 THEN 1 ELSE total

\* setPage: compares with the total of the last answer.
SetPage(n) ==
    /\ n <= totalPages
    /\ pageNo' = n
    /\ LoadFor(query, n)
    /\ checkedFor' = rows.query
    /\ UNCHANGED <<matching, query, total, rows, typed, started, shrunk>>

TableNext ==
    \/ FirstLoad \/ SearchTimer
    \/ \E q \in Queries : RowsAppear(q) \/ RowsVanish(q) \/ SetFilter(q)
                              \/ SetSearch(q)
    \/ \E n \in 1 .. MaxPages : SetPage(n)
    \/ \E r \in flight : ListDeployments(r) \/ Answer(r) \/ LoadFails(r)

TableSpec == TableInit /\ [][TableNext]_tableVars

------------------------------------------------------------------------------

\* Nothing is under way that would change the table.
Settled == started /\ flight = {} /\ typed = NoQuery

\* The last request was answered, and its answer was the last to arrive.
LastAnswerShown == rows.id = sent

\* A table at rest shows the rows of the query and the page its controls name,
\* unless the last request failed or its answer was overtaken by an older one;
\* and that page exists, unless rows of the query went away, or the page was
\* compared with the total of another query (every change of a control sets the
\* page back before it loads, and setPage is limited by the total).
RowsExplained ==
    Settled =>
        /\ \/ failed
           \/ rows.id < sent
           \/ rows.query = query /\ rows.page = pageNo
        /\ LastAnswerShown /\ pageNo > totalPages
               => query \in shrunk \/ checkedFor # query
==============================================================================
