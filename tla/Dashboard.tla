------------------------------ MODULE Dashboard ------------------------------
(***************************************************************************)
(* One browser tab showing the dashboard: the page renderUI wrote, and the *)
(* script of ui_template.go that refreshes it, against a task table that   *)
(* its own buttons and other users change meanwhile.                       *)
(*                                                                         *)
(* A refresh is an asynchronous fetch and nothing cancels the one before,  *)
(* so answers are handled in any order; on the server, List and Count are  *)
(* two statements with other calls between them.  An answer that is not ok *)
(* is still JSON, and refreshTable reads it like any other.                *)
(***************************************************************************)
EXTENDS TaskStore, Listing

CONSTANTS
  Filters,     \* what the search form and the status tabs can be set to
  Sizes,       \* the page sizes the bar offers
  Slots,       \* bound: refreshes in flight
  MaxActs      \* bound: acts of users, changes of the table and failures

ASSUME DashConstants ==
  /\ \A f \in Filters : [f EXCEPT !.status = {}] \in Filters
  /\ Sizes \subseteq Nat \ {0}

VARIABLES
  body,        \* the page has a taskBody: renderUI found a task to show
  barEl,       \* the page has a pagination element: it had more than one page
  filter,      \* the search form and the active tab
  page,        \* currentPage; Unset when undefined
  size,        \* currentPageSize; Unset when undefined
  auto,        \* the auto-refresh timer is running
  inflight,    \* slot -> a refresh that has not been handled
  shown,       \* the query the table body answers, and its rows
  bar,         \* what the bar shows: page and total pages; Hidden
  lost,        \* history: a refresh failed since the last one handled
  acts         \* bound: acts so far

pageVars == <<body, barEl, filter, page, size, auto, inflight, shown, bar, lost>>
dashVars == <<storeVars, pageVars, acts>>

Hidden == [page |-> 0, pages |-> 0]

\* What a row of the table shows and the properties compare.
Rows(table, q) ==
  LET ids == List(table, q.filter, Offset(q), SizeOf(q))
  IN  [i \in DOMAIN ids |-> [id |-> ids[i], status |-> table[ids[i]].status]]

Pages(table, q) == TotalPages(Count(table, q.filter), SizeOf(q))

\* currentQueryString: the page and the size only when they are not the default.
Query(f, p, s) ==
  [filter |-> f,
   page   |-> IF p # Unset /\ p > 1 THEN p ELSE Unset,
   size   |-> IF s # DefaultSize THEN s ELSE Unset]

(***************************************************************************)
(* The page as it is loaded: renderUI lists, counts and draws.             *)
(***************************************************************************)
Loaded(n) == [t \in 1 .. n |-> [type |-> "once", status |-> "pending", maxRetry |-> 0,
                                retry |-> 0, worker |-> NoWorker, parent |-> 0,
                                enabled |-> TRUE, nextRun |-> 0]]

DashInit ==
  /\ now = 0
  /\ filter \in Filters
  /\ page \in 1 .. 2
  /\ size = DefaultSize
  /\ \E n \in 0 .. MaxId :
       LET q == Query(filter, page, size)
       IN  /\ nextId = n + 1
           /\ tasks = Loaded(n)
           /\ shown = [query |-> q, rows |-> Rows(tasks, q)]
           /\ body = (Rows(tasks, q) # <<>>)
           /\ barEl = (Pages(tasks, q) > 1)
           /\ bar = IF barEl THEN [page |-> page, pages |-> Pages(tasks, q)] ELSE Hidden
  /\ auto = FALSE
  /\ inflight = [s \in {} |-> Unset]
  /\ lost = FALSE
  /\ acts = 0

(***************************************************************************)
(* refreshTable: send the form, the page and the size as they are now.     *)
(***************************************************************************)
Put(f, k, v) == [x \in DOMAIN f \cup {k} |-> IF x = k THEN v ELSE f[x]]

Refresh(f, p, s) ==
  /\ \E slot \in Slots \ DOMAIN inflight :
       inflight' = Put(inflight, slot, [query |-> Query(f, p, s), stage |-> "sent",
                                        rows |-> <<>>, pages |-> 0])
  /\ filter' = f
  /\ page' = p
  /\ size' = s
  /\ UNCHANGED <<storeVars, body, barEl, shown, bar, lost>>

Act == acts < MaxActs /\ acts' = acts + 1

\* The timer of auto-refresh.
Timer == auto /\ Refresh(filter, page, size) /\ UNCHANGED <<auto, acts>>

\* A tab is clicked, or the form submitted: the page stays what it was.
Search(f) ==
  /\ f.parent = filter.parent
  /\ Act
  /\ Refresh(f, page, size)
  /\ UNCHANGED auto

\* resetSearch clears everything but the hidden parent_id.
Cleared(f) ==
  [c \in DOMAIN f |-> CASE c = "parent" -> f.parent [] c = "status" -> {} [] OTHER -> Unset]

\* resetSearch, and the answer of a task created from the page: back to page 1.
Restart ==
  /\ Act
  /\ \E f \in {filter, Cleared(filter)} : Refresh(f, 1, size)
  /\ UNCHANGED auto

\* goPage, from a button of the bar that is drawn and not disabled.
GoPage(n) ==
  /\ bar # Hidden /\ bar.page # Unset
  /\ n \in {bar.page - 1, bar.page + 1} \cup {BuildPageItems(bar.page, bar.pages)[i] :
                                               i \in DOMAIN BuildPageItems(bar.page, bar.pages)}
  /\ n \in 1 .. bar.pages
  /\ Act
  /\ Refresh(filter, n, size)
  /\ UNCHANGED auto

ChangePageSize(s) == bar # Hidden /\ Act /\ Refresh(filter, 1, s) /\ UNCHANGED auto

\* toggleAutoRefresh: turning it on refreshes at once.
ToggleAuto ==
  /\ Act
  /\ auto' = ~auto
  /\ IF auto THEN UNCHANGED <<storeVars, body, barEl, filter, page, size, inflight, shown, bar, lost>>
             ELSE Refresh(filter, page, size)

(***************************************************************************)
(* The server's side of a refresh: listTasks, or an answer of some other   *)
(* status (429, 401, 500), or none at all.                                 *)
(***************************************************************************)
In(slot, stage) == slot \in DOMAIN inflight /\ inflight[slot].stage = stage

ServeList(slot) ==
  /\ In(slot, "sent")
  /\ inflight' = [inflight EXCEPT ![slot].stage = "listed",
                                  ![slot].rows = Rows(tasks, inflight[slot].query)]
  /\ UNCHANGED <<storeVars, body, barEl, filter, page, size, auto, shown, bar, lost, acts>>

ServeCount(slot) ==
  /\ In(slot, "listed")
  /\ inflight' = [inflight EXCEPT ![slot].stage = "answered",
                                  ![slot].pages = Pages(tasks, inflight[slot].query)]
  /\ UNCHANGED <<storeVars, body, barEl, filter, page, size, auto, shown, bar, lost, acts>>

ServeError(slot) ==
  /\ In(slot, "sent") \/ In(slot, "listed")
  /\ Act
  /\ inflight' = [inflight EXCEPT ![slot].stage = "error"]
  /\ UNCHANGED <<storeVars, body, barEl, filter, page, size, auto, shown, bar, lost>>

\* The rest of the script's steps: what has been handled leaves its slot.
Handled(slot) == [s \in DOMAIN inflight \ {slot} |-> inflight[s]]

\* fetch rejects: a toast, and nothing is drawn.
Fail(slot) ==
  /\ In(slot, "sent")
  /\ Act
  /\ inflight' = Handled(slot)
  /\ lost' = TRUE
  /\ UNCHANGED <<storeVars, body, barEl, filter, page, size, auto, shown, bar>>

(***************************************************************************)
(* renderRows and renderPagination, on an answer.                          *)
(***************************************************************************)

\* Mutant: an empty answer leaves the rows that were there.
DrawSomething(query, rows) ==
  shown' = IF body /\ rows # <<>> THEN [query |-> query, rows |-> rows] ELSE shown

\* renderRows: without a taskBody nothing is drawn.
Draw(query, rows) == shown' = IF body THEN [query |-> query, rows |-> rows] ELSE shown

\* renderPagination past its early return: the page and the size are taken from
\* the answer, then the bar is drawn, or the missing element throws.
TakePage(p, s, pages) ==
  /\ page' = p
  /\ size' = s
  /\ bar' = IF barEl THEN [page |-> p, pages |-> pages] ELSE bar

\* Mutant: renderPagination redraws the bar and leaves currentPage alone.
HandleKeepingPage(slot) ==
  /\ In(slot, "answered")
  /\ LET a == inflight[slot]
     IN  /\ Draw(a.query, a.rows)
         /\ bar' = IF ~barEl THEN bar
                   ELSE IF a.pages <= 1 THEN Hidden
                   ELSE [page |-> PageOf(a.query), pages |-> a.pages]
  /\ inflight' = Handled(slot)
  /\ lost' = FALSE
  /\ UNCHANGED <<storeVars, body, barEl, filter, page, size, auto, acts>>

Handle(slot) ==
  /\ In(slot, "answered")
  /\ LET a == inflight[slot]
     IN  /\ Draw(a.query, a.rows)
         /\ IF a.pages <= 1 THEN bar' = (IF barEl THEN Hidden ELSE bar) /\ UNCHANGED <<page, size>>
                            ELSE TakePage(PageOf(a.query), SizeOf(a.query), a.pages)
  /\ inflight' = Handled(slot)
  /\ lost' = FALSE
  /\ UNCHANGED <<storeVars, body, barEl, filter, auto, acts>>

\* An error body has none of the fields: no rows, and everything else undefined.
HandleError(slot) ==
  /\ In(slot, "error")
  /\ Draw(Unset, <<>>)
  /\ TakePage(Unset, Unset, Unset)
  /\ inflight' = Handled(slot)
  /\ lost' = FALSE
  /\ UNCHANGED <<storeVars, body, barEl, filter, auto, acts>>

\* The table changes: a button of this page, another user, a client.
Change ==
  /\ Act
  /\ \/ Create("once", 0, 0)
     \/ \E id \in DOMAIN tasks : Delete(id) \/ StopTask(id) \/ ResumeTask(id)
  /\ UNCHANGED pageVars

Serve(slot) == ServeList(slot) \/ ServeCount(slot) \/ Handle(slot) \/ HandleError(slot)

DashNext ==
  \/ Timer
  \/ \E f \in Filters : Search(f)
  \/ Restart
  \/ \E n \in 1 .. MaxId : GoPage(n)
  \/ \E s \in Sizes : ChangePageSize(s)
  \/ ToggleAuto
  \/ \E slot \in Slots : Serve(slot) \/ ServeError(slot) \/ Fail(slot)
  \/ Change

DashSpec ==
  /\ DashInit
  /\ [][DashNext]_dashVars
  /\ WF_dashVars(Timer)
  /\ \A slot \in Slots : WF_dashVars(Serve(slot))

(***************************************************************************)
(* Properties.                                                             *)
(***************************************************************************)

\* However the table has changed, its pages taken together are the rows that
\* match, in order and each once, under every filter and page size.
PagesAreExact ==
  \A f \in Filters, s \in Sizes : PagesPartition(tasks, f, Query(f, 1, s))

\* The bar of every number of pages shows the ends, the window and the gaps.
BarsAreRight ==
  \A total \in 2 .. 9 : \A current \in 1 .. total :
    IsBar(BuildPageItems(current, total), current, total)

\* When every answer is in, in whatever order they came, the page the next
\* refresh will ask for is the one the bar shows as current.
PageIsBarPage == DOMAIN inflight = {} /\ ~lost /\ bar # Hidden => page = bar.page

\* The table shows the current filter's rows as they are now, on some page.
Fresh ==
  /\ shown.query # Unset
  /\ shown.query.filter = filter
  /\ shown.rows = Rows(tasks, shown.query)

\* With auto-refresh left on, a page loaded with tasks ends up showing what it
\* was asked for, after any overtaking, failing or torn answers.
CatchesUp == [](body /\ <>[]auto => <>[]Fresh)
=============================================================================
