--------------------------- MODULE MCMockupPreview ---------------------------
(* An instance of MockupPreview: a mockup with a component, a file without *)
(* one, and a file that is not to be previewed.                            *)
EXTENDS MockupPreview

MCExports == [f \in File |-> IF f = "Card" THEN {"named", "other"} ELSE {}]
=============================================================================
