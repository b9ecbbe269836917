----------------------------- MODULE MCModules -----------------------------
(* An instance of Modules for TLC: module "b" is what module "a" and the     *)
(* host call "./x"; from "b" that is "b" itself.                             *)
EXTENDS Modules, TLC

CONSTANTS c1, c2, o, nil

MCCtx == {c1, c2}
MCNames == {"a", "b"}
MCQualified == (Dot :> "b") @@ ("a" :> "b") @@ ("b" :> "b")
MCExports == {Main, "x"}

(* No step reads what the last one has answered, and ImportsAgree speaks of  *)
(* what was answered before.                                                 *)
WithoutResult == <<cache, current, options, loaders, stack, answered>>

Symm == Permutations(MCCtx)
=============================================================================
