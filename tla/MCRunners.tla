----------------------------- MODULE MCRunners -----------------------------
(* The policies of both presets, and all edited policies of at most three  *)
(* candidates of five makes, with names of their own or with one name for  *)
(* the first and the last, under every command line.                       *)
EXTENDS Generation

CONSTANTS nothing, key, base, n1, n2, n3

MCNothing == nothing
MCKey == key
MCBase == base
MCVariables == {key, base}
MCCommands == {"harness", "claude", "codex"}

Makes == {[Simulated(n1, "claude") EXCEPT !.cli = nothing],
          Subscription(n1, "claude"), Subscription(n1, "codex"),
          [Subscription(n1, "grok") EXCEPT !.cli = "claude"],
          [Api(n1, "codex", base) EXCEPT !.cli = nothing]}

OfNames(names) ==
    UNION {{[i \in 1..len |-> [makes[i] EXCEPT !.name = names[i]]] :
              makes \in [1..len -> Makes]} : len \in 0..Len(names)}

PresetPolicies == {Presets[s][r] : s \in DOMAIN Presets, r \in PolicyRoles}
MCPolicies == PresetPolicies \cup OfNames(<<n1, n2, n3>>)
                              \cup OfNames(<<n1, n2, n1>>)
MCNames == {c.name : c \in UNION {{policy[i] : i \in DOMAIN policy} :
                                     policy \in MCPolicies}}
=============================================================================
