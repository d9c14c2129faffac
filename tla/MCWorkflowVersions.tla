------------------------- MODULE MCWorkflowVersions -------------------------
(***************************************************************************)
(* The symmetry of a small form: ids are only ever compared.               *)
(***************************************************************************)
EXTENDS WorkflowVersions, TLC

\* Requests are interchangeable, and so are version ids and sections.
Interchangeable == Permutations(Requests) \union Permutations(Versions)
                   \union Permutations(SectionNodes)
=============================================================================
