---- MODULE MCHooks ----
(* One write against every query, of hooks that keep to the rules. *)
EXTENDS MCCache, HookRules
====
