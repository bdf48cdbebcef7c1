------------------------------- MODULE Listing -------------------------------
(***************************************************************************)
(* The read side of the task table: the filter and the page a request asks *)
(* for, the rows List and Count find (internal/store/store.go), the answer *)
(* of listTasks (internal/server/server.go) and of renderUI, and the page  *)
(* bar both ends draw (internal/server/ui.go, ui_template.go).             *)
(*                                                                         *)
(* A table is a function from ids to rows.  A text is whatever the         *)
(* instance takes it to be; SQLite's LIKE is the parameter Like.           *)
(***************************************************************************)
EXTENDS Integers, Sequences, FiniteSets, SequencesExt

CONSTANTS
  Unset,           \* an absent query parameter, or an empty column
  Like(_, _),      \* Like(text, pattern): text LIKE %pattern%
  DefaultSize,     \* 20 in the code
  MaxSize          \* 500 in the code

ASSUME ListingConstants ==
  /\ MaxSize \in Nat
  /\ DefaultSize \in 1 .. MaxSize
  /\ Unset \notin Int

\* splitStatuses and the "done" alias; "failed" is a status no row ever has.
Statuses(f) == IF f.status = {"done"} THEN {"success", "failed", "dead"} ELSE f.status

Field(f, r, c) == f[c] # Unset => r[c] = f[c]

Text(f, r, c) == f[c] # Unset => Like(r[c], f[c])

\* buildWhere.  A parent of 0 shows the rows that have none.
Matches(f, r) ==
  /\ Field(f, r, "type") /\ Field(f, r, "enabled")
  /\ Text(f, r, "name") /\ Text(f, r, "command") /\ Text(f, r, "worker")
  /\ Statuses(f) # {} => r.status \in Statuses(f)
  /\ r.parent = f.parent

Matching(table, f) == {id \in DOMAIN table : Matches(f, table[id])}

AtLeast(a, b) == IF a >= b THEN a ELSE b
AtMost(a, b) == IF a <= b THEN a ELSE b

NewestFirst(ids) ==
  [i \in 1 .. Cardinality(ids) |->
     CHOOSE id \in ids : Cardinality({other \in ids : other > id}) = i - 1]

\* Count
Count(table, f) == Cardinality(Matching(table, f))

\* List: LIMIT and OFFSET over the matching rows, newest first.
List(table, f, offset, limit) ==
  LET all == NewestFirst(Matching(table, f))
      from == IF offset < 0 THEN 0 ELSE offset
  IN  SubSeq(all, from + 1, AtMost(from + limit, Len(all)))

(***************************************************************************)
(* listTasks and renderUI: the normalised page and size, the offset and    *)
(* the number of pages.                                                    *)
(***************************************************************************)
PageOf(q) == IF q.page = Unset \/ q.page < 1 THEN 1 ELSE q.page

SizeOf(q) == IF q.size = Unset \/ q.size <= 0 \/ q.size > MaxSize THEN DefaultSize ELSE q.size

\* Mutant: the offset counts the page asked for as already read.
OffsetPastPage(q) == PageOf(q) * SizeOf(q)

Offset(q) == (PageOf(q) - 1) * SizeOf(q)

\* Mutant: the last, partly filled page is not counted.
TotalPagesRoundedDown(total, size) ==
  IF total \div size < 1 THEN 1 ELSE total \div size

TotalPages(total, size) ==
  LET whole == total \div size + (IF total % size # 0 THEN 1 ELSE 0)
  IN  IF whole < 1 THEN 1 ELSE whole

(***************************************************************************)
(* The page bar: page numbers, and Gap for an ellipsis.                    *)
(***************************************************************************)
Gap == 0

Numbers(lo, hi) == [i \in 1 .. (IF hi < lo THEN 0 ELSE hi - lo + 1) |-> lo + i - 1]

\* Mutant: the gap before the window is drawn whenever the window is not at 1.
BuildPageItemsAlwaysGap(current, total) ==
  LET lo == AtLeast(1, current - 2)
      hi == AtMost(total, current + 2)
  IN  (IF lo > 1 THEN <<1, Gap>> ELSE <<>>)
      \o Numbers(lo, hi)
      \o (IF hi < total THEN (IF hi < total - 1 THEN <<Gap>> ELSE <<>>) \o <<total>> ELSE <<>>)

\* buildPageItems, and the bar renderPagination builds again in the browser.
BuildPageItems(current, total) ==
  LET lo == AtLeast(1, current - 2)
      hi == AtMost(total, current + 2)
  IN  (IF lo > 1 THEN <<1>> \o (IF lo > 2 THEN <<Gap>> ELSE <<>>) ELSE <<>>)
      \o Numbers(lo, hi)
      \o (IF hi < total THEN (IF hi < total - 1 THEN <<Gap>> ELSE <<>>) \o <<total>> ELSE <<>>)

(***************************************************************************)
(* Properties of the operators.                                            *)
(***************************************************************************)

\* The pages a reader may ask for, taken together, are the matching rows in
\* order: the offset, the limit and the number of pages agree.
PagesPartition(table, f, q) ==
  FlattenSeq([p \in 1 .. TotalPages(Count(table, f), SizeOf(q)) |->
                List(table, f, Offset([q EXCEPT !.page = p]), SizeOf(q))])
    = NewestFirst(Matching(table, f))

\* What a bar has to show: the ends, the window around the current page, and a
\* gap exactly where numbers are missing.
IsBar(bar, current, total) ==
  /\ {bar[i] : i \in DOMAIN bar} \ {Gap}
       = {p \in 1 .. total : p \in {1, total} \cup (current - 2 .. current + 2)}
  /\ \A i \in 1 .. Len(bar) - 1 :
       bar[i] # Gap => IF bar[i + 1] = Gap THEN bar[i] + 1 < bar[i + 2]
                                           ELSE bar[i] + 1 = bar[i + 1]
=============================================================================
