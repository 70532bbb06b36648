------------------------------ MODULE MCScreen ------------------------------
(* Texts for module Screen, and what of a state tells it from another. *)
EXTENDS Screen

MCTexts    == {<<"o", NUL>>, <<Newline>>}
MCMessages == {<<"o", Newline>>}

\* The kernel writes VIDEO and never reads it, and no invariant of the runs is
\* about it: states that differ in it alone are explored once.
MCView == <<screen, curr_terminal, cursor, inputVars, frozen, tail>>
=============================================================================
