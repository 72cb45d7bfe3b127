----------------------------- MODULE MCExecConfig -----------------------------
(* ExecConfig on documents whose settings hold up to two flags.             *)
EXTENDS ExecConfig

OneOrTwoFlags ==
    {<<>>} \cup {<<w>> : w \in FlagWords} \cup {<<w, x>> : w, x \in FlagWords}
=============================================================================
