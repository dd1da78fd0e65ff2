-------------------------- MODULE MCKeymonMachine ---------------------------
(* Two keys of one group, one of another, two ordinary keys. *)
EXTENDS KeymonMachine

CONSTANTS lsuper, rsuper, alt, a, b

MCGroups    == {"SUPER", "ALT"}
MCModifiers == {lsuper, rsuper, alt}
MCGroupOf   == [m \in MCModifiers |-> IF m = alt THEN "ALT" ELSE "SUPER"]
MCOrdinary  == {a, b}
=============================================================================
