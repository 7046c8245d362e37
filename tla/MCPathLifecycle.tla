--------------------------- MODULE MCPathLifecycle ---------------------------
(***************************************************************************)
(* Instances of PathLifecycle for TLC: an author and an approver, two      *)
(* contents, and three path identifiers, so that a path can be revised     *)
(* while another competes for its spectrum.                                *)
(***************************************************************************)
EXTENDS PathLifecycle, TLC

\* The values that nothing in the model tells apart.
Interchangeable ==
    Permutations(Path) \cup Permutations(Request) \cup Permutations(Content)
        \cup Permutations(User)
=============================================================================
