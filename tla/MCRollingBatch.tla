--------------------------- MODULE MCRollingBatch ---------------------------
(* Small requests for RollingBatch.                                        *)
EXTENDS RollingBatch

\* One resource at a time, where a failed group must not be followed, and two at
\* once where no failure is accepted.
MCRequest ==
    {[n |-> 3, size |-> 1, threshold |-> 1, cont |-> TRUE],
     [n |-> 3, size |-> 2, threshold |-> 0, cont |-> FALSE]}
=============================================================================
