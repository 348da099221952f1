------------------------------- MODULE MCAgent -------------------------------
(* A small instance of AgentSession for TLC: a tool that is always asked for *)
(* and one that the user may come to allow.                                  *)
EXTENDS AgentSession

Calls == {"run", "write"}
Tools == {"shell", "file"}
ToolOfCall == [c \in Calls |-> IF c = "run" THEN "shell" ELSE "file"]
==============================================================================
