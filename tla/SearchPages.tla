---------------------------- MODULE SearchPages ----------------------------
(***************************************************************************)
(* app/search.py and app/searchform.py on ldaputil/asynch.py: a search is    *)
(* made from the rows of a form; its results are received one by one and are  *)
(* shown as pages with links to other pages, or written to a file.            *)
(*                                                                         *)
(* Results are numbered from 1; some are search continuations, which no size  *)
(* limit counts.  Left out: the text of filters, attributes and templates of  *)
(* the rows of a page, commands of an entry.                                  *)
(***************************************************************************)
EXTENDS FiniteSets, Integers, Sequences, SequencesExt

CONSTANTS
  MaxResults,
  References,   \* results that are search continuations
  Limits,       \* size limits of the server; 0 is none
  PageSizes,    \* search_resnumber; 0 is all
  RowLists,     \* rows of the form
  MaxRows,      \* web2ldapcnf.max_searchparams
  MaxChanges    \* bound of the changes by others, for model checking

RowType == [at : STRING, option : STRING, av : {""} \union STRING]   \* the provers do not know "" as a STRING

SearchAssumption ==
  /\ {MaxResults, MaxRows, MaxChanges} \subseteq Nat
  /\ References \subseteq 1..MaxResults
  /\ Limits \union PageSizes \subseteq Nat
  /\ RowLists \subseteq Seq(RowType)

Outputs == {"table", "raw", "print", "ldif", "csv", "excel"}
Paged == {"table", "raw"}
Context == 0   \* a naming context, shown below the root

VARIABLES
  pc,      \* the page in the browser, or the point w2l_search() has reached
  form,    \* its fields
  dir,     \* the results there are, limits and controls of the server
  work,    \* the result handler
  report,  \* the page, or the file
  past     \* history: what was seen going from page to page

vars == <<pc, form, dir, work, report, past>>

NoLink == [min |-> 0, num |-> -1]
NoReport == [first |-> 0, last |-> 0, rows |-> <<>>, warn |-> FALSE, foot |-> 0,
             links |-> {}, next |-> NoLink]
NewHandler == [sent |-> 0, begin |-> 0, end |-> 0, rows |-> <<>>]

Init ==
  /\ pc = "Form"
  /\ form \in [min : {0}, num : PageSizes, output : Outputs, rows : RowLists, root : BOOLEAN]
  /\ dir \in [n : 0..MaxResults, limit : Limits, noop : BOOLEAN, changes : {0}]
  /\ work = NewHandler
  /\ report = NoReport
  /\ past = [seen |-> {}, onward |-> TRUE]

OtherChanges ==
  /\ pc \in {"Results", "Count", "Page"} /\ dir.changes < MaxChanges
  /\ \E n \in {dir.n - 1, dir.n + 1} \intersect (work.sent..MaxResults) :
       dir' = [dir EXCEPT !.n = n, !.changes = @ + 1]
  /\ UNCHANGED <<pc, form, work, report, past>>

-----------------------------------------------------------------------------
(* The form.  A row has an attribute type, an option and a value.           *)

Exists == {"exists", "does not"}
Used(row) == row.at # "" /\ (row.av # "" \/ row.option \in Exists)
Filter(rows) == SelectSeq(rows, Used)

(* search_form_adv(): "+" copies a row without its value. *)
EditRows ==
  /\ pc = "Form"
  /\ \E i \in DOMAIN form.rows :
       \/ Len(form.rows) < MaxRows /\ form' = [form EXCEPT !.rows = InsertAt(@, i + 1, [@[i] EXCEPT !.av = ""])]
       \/ Len(form.rows) > 1 /\ form' = [form EXCEPT !.rows = RemoveAt(@, i)]
  /\ UNCHANGED <<pc, dir, work, report, past>>

(* "Empty search values."; csv and excel without attributes; print without  *)
(* templates; or the search begins.                                           *)
Submit ==
  /\ pc = "Form"
  /\ \/ Filter(form.rows) = <<>> /\ pc' = "Form"
     \/ form.output \in {"csv", "excel"} /\ pc' = "Form"
     \/ form.output = "print" /\ pc' = "Error"
     \/ Filter(form.rows) # <<>> /\ pc' = "Results"
  /\ work' = NewHandler
  /\ report' = NoReport
  /\ UNCHANGED <<form, dir, past>>

-----------------------------------------------------------------------------
(* AsyncSearchHandler.process_results() *)

SizeLimit == IF form.num > 0 THEN form.min + form.num ELSE -1
EntriesIn(k) == Cardinality((1..k) \ References)
Beyond(limit, k) == limit > 0 /\ k < dir.n /\ k + 1 \notin References /\ EntriesIn(k) >= limit
Exceeds(k) == Beyond(SizeLimit, k) \/ Beyond(dir.limit, k)

Ignored == IF form.output \in Paged THEN form.min ELSE 0
Processed == IF form.output \in Paged /\ form.num > 0 THEN form.num + 1 ELSE 0

(* One result: dropped, processed or cut off. *)
Received(k) ==
  LET got == [work EXCEPT !.sent = k]
  IN IF work.end < Ignored THEN [got EXCEPT !.begin = @ + 1, !.end = @ + 1]
     ELSE IF Processed = 0 \/ work.end < Ignored + Processed
     THEN [got EXCEPT !.rows = Append(@, k), !.end = @ + 1]
     ELSE got

Receive ==
  /\ pc = "Results" /\ work.sent < dir.n /\ ~Exceeds(work.sent)
  /\ work' = Received(work.sent + 1)
  /\ UNCHANGED <<pc, form, dir, report, past>>

(* A bad filter, no object: the form again; below the root the naming       *)
(* contexts are shown instead.  Other errors leave to run().                  *)
SearchFails ==
  /\ pc = "Results"
  /\ pc' \in {"Form", "Error"}
  /\ UNCHANGED <<form, dir, work, report, past>>

-----------------------------------------------------------------------------
(* The page. *)

Link(min, num) == [min |-> min, num |-> num]
Largest(i, j) == IF i > j THEN i ELSE j

(* page_appl_anchor(): first, previous, all, next and last; total is the    *)
(* number that a search with the no-op control has found, or -1.  The mutant  *)
(* begins the next page after the last row.                                   *)
NextPage_AfterLast(total, partial) == IF partial THEN Link(work.end + 1, form.num) ELSE NoLink
NextPage(total, partial) ==
  IF partial /\ ((total >= 0 /\ work.end < total) \/ work.begin + form.num <= work.end)
  THEN Link(work.begin + form.num, form.num) ELSE NoLink

OtherPages(total, partial) ==
  LET min == work.begin
      num == form.num
  IN IF ~((partial /\ SizeLimit > 0) \/ min > 0) THEN {} ELSE
     {Link(0, 0)}
     \union (IF min > num THEN {Link(0, num)} ELSE {})
     \union (IF min > 0 THEN {Link(Largest(0, min - num), num)} ELSE {})
     \union (IF partial /\ total >= 0 /\ work.end < total THEN {Link(total - num, num)} ELSE {})

(* Partial results of the server, not only of this page. *)
Warns == SizeLimit < 0 \/ work.end < SizeLimit

(* No results below the root: the naming contexts. *)
Rows == IF form.root /\ work.rows = <<>> THEN <<Context>> ELSE work.rows

Show(total, exceeded) ==
  LET partial == IF exceeded THEN TRUE ELSE SizeLimit >= 0 /\ work.end > SizeLimit
      shown == (partial /\ SizeLimit > 0) \/ work.begin > 0
  IN /\ pc' = IF Rows = <<>> THEN "None" ELSE "Page"
     /\ report' = [first |-> work.begin + 1,
                   last |-> IF Rows = work.rows THEN work.end ELSE 1,
                   rows |-> Rows, warn |-> exceeded /\ Warns, foot |-> 1,
                   links |-> OtherPages(total, partial),
                   next |-> IF shown THEN NextPage(total, partial) ELSE NoLink]
     /\ past' = [past EXCEPT !.seen = @ \union Range(Rows)]
     /\ UNCHANGED <<form, dir, work>>

ShowAll ==
  /\ pc = "Results" /\ form.output \in Paged /\ work.sent = dir.n
  /\ Show(-1, FALSE)

Exceeded ==
  /\ pc = "Results" /\ form.output \in Paged /\ Exceeds(work.sent)
  /\ pc' = "Count"
  /\ UNCHANGED <<form, dir, work, report, past>>

(* noop_search(), which may exceed a limit, too. *)
ShowPart ==
  /\ pc = "Count"
  /\ \E total \in {-1} \union (IF dir.noop THEN {dir.n} ELSE {}) : Show(total, TRUE)

Follow(link) ==
  /\ pc = "Page" /\ link # NoLink
  /\ past' = IF link = report.next /\ past.onward THEN past
             ELSE [seen |-> {}, onward |-> link.min = 0]
  /\ IF link.min < 0 THEN pc' = "Error" /\ UNCHANGED <<form, work, report>>   \* [0-9]+
     ELSE /\ pc' = "Results"
          /\ form' = [form EXCEPT !.min = link.min, !.num = link.num]
          /\ work' = NewHandler
          /\ report' = NoReport
  /\ UNCHANGED dir

-----------------------------------------------------------------------------
(* A file: post_processing() writes its end; at a limit w2l_search() calls  *)
(* it.  PrintableHTMLWriter writes nothing before all results are there.      *)
Foot(whole) == 1

Written(whole) ==
  [NoReport EXCEPT !.rows = IF form.output = "print" /\ ~whole THEN <<>> ELSE work.rows,
                   !.foot = Foot(whole)]

Write ==
  /\ pc = "Results" /\ form.output \notin Paged
  /\ \/ work.sent = dir.n /\ report' = Written(TRUE)
     \/ Exceeds(work.sent) /\ report' = Written(FALSE)
  /\ pc' = "File"
  /\ UNCHANGED <<form, dir, work, past>>

Next ==
  \/ OtherChanges \/ EditRows \/ Submit \/ Receive \/ SearchFails
  \/ ShowAll \/ Exceeded \/ ShowPart \/ Write
  \/ \E link \in report.links \union {report.next} : Follow(link)

Spec == Init /\ [][Next]_vars

-----------------------------------------------------------------------------
(* Properties. *)

Links == [min : Int, num : Int]

(* Every variable has its type. *)
TypeOK ==
  /\ pc \in {"Form", "Results", "Count", "Page", "None", "File", "Error"}
  /\ form \in [min : Nat, num : Nat, output : Outputs, rows : Seq(RowType), root : BOOLEAN]
  /\ dir \in [n : Nat, limit : Limits, noop : BOOLEAN, changes : 0..MaxChanges]
  /\ work \in [sent : Nat, begin : Nat, end : Nat, rows : Seq(Nat)]
  /\ report \in [first : Nat, last : Nat, rows : Seq(Nat), warn : BOOLEAN, foot : Nat,
                 links : SUBSET Links, next : Links]
  /\ past \in [seen : SUBSET Nat, onward : BOOLEAN]

(* "Search results first - last" are the rows of the page, none twice. *)
RowsAsCounted ==
  (pc = "Page" /\ Context \notin Range(report.rows)) =>
    report.rows = [i \in 1..(report.last - report.first + 1) |-> report.first + i - 1]

(* Who goes from page to page by "next" until there is none has seen every  *)
(* result, also where search continuations are among them; if the server has  *)
(* no limit of its own and results do not change meanwhile.                    *)
PagesCoverAll ==
  (pc = "Page" /\ past.onward /\ report.next = NoLink /\ dir.limit = 0 /\ dir.changes = 0)
    => 1..dir.n \subseteq past.seen

(* No link leads before the first result, where the form of the command     *)
(* refuses it: but "last", if the server's limit is smaller than a page.      *)
LinksAccepted ==
  pc = "Page" => \/ \A link \in report.links \union {report.next} : link.min >= 0
                 \/ dir.limit \in 1..(form.num - 1)

(* A page after which results are missing that no page shows, because of a  *)
(* limit of the server, has the warning.                                      *)
LimitIsSaid ==
  (pc = "Page" /\ report.next = NoLink /\ dir.changes = 0 /\ report.last < dir.n) => report.warn

(* A file ends properly wherever the results were cut off, and has all that *)
(* were received; only the printable page is empty then.                      *)
FileEnds ==
  pc = "File" => /\ report.foot = 1
                 /\ form.output # "print" => Len(report.rows) = work.sent
=============================================================================
