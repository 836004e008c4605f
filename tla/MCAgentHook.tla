------------------------------ MODULE MCAgentHook -----------------------------
(* Two stages of approval; the clock outlasts every timeout. *)
EXTENDS AgentHook
===============================================================================
