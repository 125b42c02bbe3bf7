----------------------------- MODULE MCPipeline -----------------------------
(* A small instance of Pipeline: one agent that writes a file, one name that *)
(* stands for the echo, and commands that move the peer between the two.     *)
EXTENDS Pipeline

MCInputs ==
    [kind : {"plain", "query", "media"}, agent : {None}]
        \cup {[kind |-> "switch", agent |-> "hermes"],
              [kind |-> "switch_process", agent |-> "codex"]}
=============================================================================
