----------------------------- MODULE MCPRFiles -----------------------------
(* Instances of PRFiles for TLC, with the page sizes of the code and the API. *)
EXTENDS PRFiles

\* Both sides of one, two and three pages, and sizes between.
MCSizes == {0, 1, 2, 29, 30, 31, 50, 99, 100, 101, 130, 150, 199, 200, 201, 250, 301}
=============================================================================
