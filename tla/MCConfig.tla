------------------------------ MODULE MCConfig ------------------------------
(* Two terminals, one of them a shell; two ways to configure. *)
EXTENDS Config

CONSTANTS shell, terminal, absent, torn, mixed, nothing

MCProcs == {shell, terminal}
MCShells == {shell}
MCChoices == {[preset |-> "local", backend |-> "local"],
              [preset |-> "real", backend |-> "langgraph"]}
=============================================================================
