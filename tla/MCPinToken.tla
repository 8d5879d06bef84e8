----------------------------- MODULE MCPinToken -----------------------------
(* Small instances of PinToken for TLC. *)
EXTENDS PinToken

MCPinLen == [p \in PINs |-> CASE p = "p4" -> 4 [] p = "q4" -> 4 [] p = "p6" -> 6
                              [] OTHER -> 64]
MCPerms == {MC, GA, LBW, ACFG, PCMR}
MCPermSets == {{GA}, {MC, GA}, {ACFG}, {PCMR}}
=============================================================================
