----------------------------- MODULE MCPreparation -----------------------------
(* A small preparation for TLC: a command-line provider before the paid one. *)
EXTENDS PatchProperties

McRoute == <<"claude_cli", "openai_api">>

===============================================================================
