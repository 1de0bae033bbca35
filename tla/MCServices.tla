----------------------------- MODULE MCServices -----------------------------
(* A small instance of every service for TLC. *)
EXTENDS Services

\* The first match is of project p, by symmetry; the second of either.
TwoProjects == <<{<<"p", "x">>}, {<<"q", "x">>}>>
\* The two paths of the metrics upstream.
TwoPaths == <<"query", "query_range">>
=============================================================================
