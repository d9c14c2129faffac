--------------------------- MODULE MCFormContent ---------------------------
(***************************************************************************)
(* A section of an upload question and two choice questions, a form of     *)
(* three views, and a response whose answer to the upload question lists   *)
(* two files.                                                              *)
(***************************************************************************)
EXTENDS FormContent, TLC

CONSTANTS q1, q2, q3, q4, v1, v2, v3, v4, r1, f1, f2, f3

MCOldQuestions == <<q1, q2, q3>>
MCOldViews     == <<v1, v2, v3>>
MCOldTypes     == [q \in Questions |-> IF q = q1 THEN "upload" ELSE "choice"]
MCOldFiles     == [f \in Files |-> IF f = f3 THEN NoSlot ELSE <<r1, q1>>]
MCWanted       == {0, 2, 4}
MCNames        == {<<1>>}
=============================================================================
