---------------------------- MODULE MCToolAnswers ----------------------------
(* One call of each tool while the chain makes up to three blocks.          *)
EXTENDS ToolAnswers
MCHeights == 1 .. 3
=============================================================================
