------------------------------- MODULE MCStmt -------------------------------
(* Small functions, by the statements they are made of. *)
EXTENDS StmtRef

CONSTANT L

LoopKinds == {"act", "if", "for", "while", "break", "continue", "block"}
Switches == {"act", "switch", "case", "default", "break", "do", "if", "block"}
Gotos    == {"act", "goto", "label", "while", "do", "switch", "case", "return",
             "block"}
MCFamilies == {[kinds |-> LoopKinds, tokens |-> 4], [kinds |-> Switches, tokens |-> 5],
               [kinds |-> Gotos, tokens |-> 5]}
Ranges   == {<<0, 0>>, <<1, 1>>, <<0, 1>>, <<1, 0>>}
=============================================================================
