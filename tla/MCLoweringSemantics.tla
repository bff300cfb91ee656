------------------------ MODULE MCLoweringSemantics ------------------------
(* The programs of MCLowering, compiled and executed.                       *)
EXTENDS LoweringSemantics, MCLowering
=============================================================================
