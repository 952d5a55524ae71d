------------------------------- MODULE MCSearch -------------------------------
(* Values of the constants of Search for TLC. *)
EXTENDS Search

\* A tree with conflicts at every level, open branches on three levels at once and
\* one more device than romID has rows for.
SixIds == {<<0, 0, 0>>, <<0, 0, 1>>, <<0, 1, 0>>, <<1, 0, 0>>, <<1, 1, 0>>, <<1, 1, 1>>}
===============================================================================
