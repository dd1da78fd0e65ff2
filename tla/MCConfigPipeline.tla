-------------------------- MODULE MCConfigPipeline --------------------------
(***************************************************************************)
(* Instances of ConfigPipeline: one group with a left and a right key,     *)
(* which a payload may bind in either map, both in the list, or twice.     *)
(***************************************************************************)
EXTENDS ConfigPipeline, TLC

CONSTANTS left, right, super, v1, v2

McGroup == [k \in Keys |-> super]

Bind(k, v) == [key |-> k, command |-> v]
Payload(v, system, ambxst, custom) ==
    [settings |-> [s \in Settings |-> v], system |-> system, ambxst |-> ambxst,
     custom |-> custom]

McRequested == {
    Payload(v1, {}, {}, <<>>),
    Payload(Unset, {Bind(left, v1)}, {Bind(right, v1), Bind(left, v2)}, <<>>),
    Payload(Unset, {}, {Bind(left, v2)}, <<Bind(left, v1), Bind(right, v2)>>),
    Payload(v2, {}, {}, <<Bind(left, v1), Bind(left, v2)>>)}

None == [s \in {} |-> Unset]
McChanges ==
    {[settings |-> [s \in Settings |-> v2], unbinds |-> {}, bind |-> Gap]}
    \cup [settings: {None}, unbinds: {{}}, bind: {Bind(left, v1), Bind(left, v2), Bind(right, v1), Bind(right, Unset)}]
    \cup [settings: {None}, unbinds: {{left}}, bind: {Gap, Bind(left, v2)}]

Symmetry == Permutations(Clients)
=============================================================================
