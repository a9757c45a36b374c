------------------------------- MODULE PRFiles -------------------------------
(***************************************************************************)
(* Client.GetPRFiles: the files of a pull request, page by page.  How many *)
(* files there are was answered by an earlier request (getPR): the pull    *)
(* request may have changed since.  A file is its place in the list.       *)
(***************************************************************************)
EXTENDS Integers, Sequences

CONSTANTS
  MaxPerPage,      \* maxPerPage, and the largest page the API gives
  DefaultPerPage,  \* the API's page when the request names no size
  Sizes            \* the numbers of files explored

ASSUME PRFilesAssumption ==
  /\ MaxPerPage \in Nat \ {0}
  /\ DefaultPerPage \in 1 .. MaxPerPage - 1
  /\ Sizes \subseteq Nat

VARIABLES
  size,   \* params.FileSize: what getPR said
  total,  \* the files the list has now
  i,      \* the next page
  ret,    \* the files so far
  pc

vars == <<size, total, i, ret, pc>>

\* The pages the loop may ask for.
n == (size \div MaxPerPage) + 1

\* i is bounded by n: the loop returns from inside, the last page it asks for is
\* never a full one, even when the list has grown.
TypeOK ==
  /\ size \in Sizes
  /\ total \in Sizes
  /\ i \in 1 .. n
  /\ ret \in Seq(1 .. total)
  /\ pc \in {"page", "done", "failed"}

Init ==
  /\ size \in Sizes
  /\ total \in Sizes
  /\ i = 1
  /\ ret = <<>>
  /\ pc = IF size = 0 THEN "done" ELSE "page"

-----------------------------------------------------------------------------
PerPageBug(page) == IF page = n THEN (size - 1) % MaxPerPage ELSE MaxPerPage

\* opts.PerPage: the last page asks for the rest.
PerPage(page) == IF page = n THEN size % MaxPerPage ELSE MaxPerPage

\* The request leaves out a per_page of 0 (`url:"per_page,omitempty"`).
Asked(page) == IF PerPage(page) = 0 THEN DefaultPerPage ELSE PerPage(page)

\* The API answers with files first + 1 .. last: pages all have the size that
\* this request asks for.
Page(page) ==
  LET first == (page - 1) * Asked(page)
      last  == IF page * Asked(page) < total THEN page * Asked(page) ELSE total
  IN  [k \in 1 .. IF first < last THEN last - first ELSE 0 |-> first + k]

ShortPageBug(files) == FALSE

\* len(files) != maxPerPage
ShortPage(files) == Len(files) # MaxPerPage

GetPage ==
  /\ pc = "page"
  /\ ret' = ret \o Page(i)
  /\ IF ShortPage(Page(i))
     THEN pc' = "done" /\ UNCHANGED i
     ELSE i' = i + 1 /\ UNCHANGED pc
  /\ UNCHANGED <<size, total>>

\* The files of that page only, and an error: the build fails.
GetPageFails ==
  /\ pc = "page"
  /\ pc' = "failed"
  /\ UNCHANGED <<size, total, i, ret>>

Terminated == pc # "page" /\ UNCHANGED vars

Next == GetPage \/ GetPageFails \/ Terminated

Spec == Init /\ [][Next]_vars

-----------------------------------------------------------------------------
(* Properties *)

UpTo(k) == [j \in 1 .. k |-> j]

\* A pull request of less than a page is complete and in order, and if its list
\* has grown since getPR the result is cut at the number getPR gave.
SmallPRComplete ==
  pc = "done" /\ size < MaxPerPage =>
    ret = UpTo(IF size < total THEN size ELSE total)

\* Full pages are contiguous: as long as the loop goes on it has every file up
\* to the page it is at, once.
PrefixComplete == pc = "page" => ret = UpTo((i - 1) * MaxPerPage)

-----------------------------------------------------------------------------
(* What the documentation says and the code does not do *)

\* README: "Files: Response body of GitHub API: List pull requests files".  If
\* the pull request has not changed, each of its files is there once.
FilesComplete == pc = "done" /\ size = total => ret = UpTo(size)
=============================================================================
