--------------------------- MODULE MCBlockingLists ---------------------------
(* Small instances of BlockingLists for TLC.                               *)
EXTENDS BlockingListsPromise, TLC

\* Clients are alike as long as their patience is, and so are elements and
\* keys.  Safety runs only.
Symmetry ==
    Permutations(Impatient) \cup Permutations(Clients \ Impatient)
        \cup Permutations(Keys) \cup Permutations(Elements)
=============================================================================
