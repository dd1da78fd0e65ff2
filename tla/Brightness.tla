----------------------------- MODULE Brightness -----------------------------
(***************************************************************************)
(* Brightness.Set, Adjust, Save and Restore of pkg/server/brightness.go.   *)
(* Connections run them in goroutines of their own and nothing is locked:  *)
(* each step is one run of brightnessctl or ddcutil, or one access to      *)
(* brightness.tsv, which is empty from os.Create until it is flushed.      *)
(* Levels are in percent.  There is one internal panel, and monitors are   *)
(* plugged in and out; a command on one that is not there fails.           *)
(***************************************************************************)
EXTENDS Integers, Sequences, SequencesExt

CONSTANTS
    Clients,   \* connections
    Devices,   \* the panel, then the monitors, as ListBrightness lists them
    Values,    \* what Set sets
    Deltas,    \* what Adjust adds
    MaxCalls,  \* bound: requests
    MaxEvents  \* bound: monitors plugged and unplugged

BrightnessAssumption ==
    /\ Devices # <<>> /\ IsInjective(Devices)
    /\ Values \subseteq 0..100 /\ Deltas \subseteq -100..100
    /\ MaxCalls \in Nat /\ MaxEvents \in Nat

VARIABLES
    level,    \* device -> percent
    attached, \* those that are there
    file,     \* brightness.tsv: device -> percent
    job,      \* client -> its request
    calls, events,
    kept,     \* history: device -> the level it had when it was last saved
    clean     \* history: saves and restores nothing else has interfered with

vars == <<level, attached, file, job, calls, events, kept, clean>>

Panel == Head(Devices)
Names == ToSet(Devices)
All   == ""
Idle  == [op |-> "none", name |-> All, value |-> 0, phase |-> "idle", todo |-> {}, saved |-> <<>>, took |-> <<>>]
\* Mutant: no upper end.
ClampLow(low, v) == IF v < low THEN low ELSE v

Clamp(low, v) == IF v < low THEN low ELSE IF v > 100 THEN 100 ELSE v

\* Some of the devices with a level each, and the entries of f over those of g.
IsLevels(f) == DOMAIN f \subseteq Names /\ f \in [DOMAIN f -> 0..100]
Over(f, g)  == [d \in DOMAIN f \union DOMAIN g |-> IF d \in DOMAIN f THEN f[d] ELSE g[d]]

Operations == {"none", "set", "adjust", "save", "restore"}
Phases     == {"idle", "list", "apply", "read", "adjust", "file", "save", "flush", "restore", "restored"}

TypeOK ==
    /\ level \in [Names -> 0..100]
    /\ attached \subseteq Names
    /\ IsLevels(file) /\ IsLevels(kept)
    /\ clean \subseteq Clients
    /\ \A c \in Clients :
         /\ job[c].op \in Operations /\ job[c].name \in Names \union {All} /\ job[c].value \in -100..100
         /\ job[c].phase \in Phases /\ job[c].todo \subseteq Names
         /\ IsLevels(job[c].saved) /\ IsLevels(job[c].took)

Init ==
    /\ level \in {[d \in Names |-> v] : v \in Values}
    /\ attached = Names
    /\ file \in {<<>>} \union {[d \in Names |-> v] : v \in Values}
    /\ job = [c \in Clients |-> Idle]
    /\ calls = 0 /\ events = 0
    /\ kept = file /\ clean = {}

----------------------------------------------------------------------------
(* Requests. *)

\* resolveTargets; asking for "backlight" is asking for the panel, except
\* that Restore does not know that name.
\* A device that is asked for by name and is not there is an error.
resolveTargets(name) == {d \in attached : name \in {All, d}}
Unknown(name) == name # All /\ name \notin attached

\* The devices are worked through in the order they are listed.
First(D) == {Devices[i] : i \in {k \in DOMAIN Devices :
                                    Devices[k] \in D /\ \A m \in 1..k - 1 : Devices[m] \notin D}}

Disturbs(c, ops) == clean' = {e \in clean : e = c \/ job[e].op \notin ops}
Goes(c, phase, todo) == job' = [job EXCEPT ![c].phase = phase, ![c].todo = todo]
Return(c) == job' = [job EXCEPT ![c] = Idle]
Working(c, phase) == job[c].phase = phase /\ job[c].todo # {}

Call(c) ==
    /\ job[c].phase = "idle" /\ calls < MaxCalls /\ calls' = calls + 1
    /\ \E name \in Names \union {All} :
         \E r \in {[op |-> "set", value |-> v] : v \in Values} \union {[op |-> "adjust", value |-> v] : v \in Deltas}
                    \union {[op |-> op, value |-> 0] : op \in {"save", "restore"}} :
           job' = [job EXCEPT ![c] = [op |-> r.op, name |-> name, value |-> r.value, todo |-> {}, saved |-> <<>>, took |-> <<>>,
                                      phase |-> IF r.op \in {"save", "restore"} THEN "file" ELSE "list"]]
    /\ UNCHANGED <<level, attached, file, events, kept, clean>>

\* Set, Adjust and Save find their devices.
List(c) ==
    /\ job[c].phase = "list"
    /\ IF Unknown(job[c].name) THEN Return(c)
       ELSE Goes(c, CASE job[c].op = "set" -> "apply" [] job[c].op = "adjust" -> "read" [] OTHER -> "save",
                 resolveTargets(job[c].name))
    /\ UNCHANGED <<level, attached, file, calls, events, kept, clean>>

\* applyTo: the panel is never switched off.
applyTo(c, d, v) ==
    /\ level' = [level EXCEPT ![d] = Clamp(IF d = Panel THEN 1 ELSE 0, v)]
    /\ Disturbs(c, {"restore"})

\* Set of all devices goes on after a failure, Set of one and Adjust do not.
Apply(c) ==
    /\ Working(c, "apply")
    /\ \E d \in First(job[c].todo) :
         IF d \in attached
           THEN applyTo(c, d, job[c].value) /\ Goes(c, "apply", job[c].todo \ {d})
           ELSE /\ IF job[c].name = All THEN Goes(c, "apply", job[c].todo \ {d}) ELSE Return(c)
                /\ UNCHANGED <<level, clean>>
    /\ UNCHANGED <<attached, file, calls, events, kept>>

\* AdjustBrightness reads a device, adds and applies; one it cannot read it leaves out.
Read(c) ==
    /\ Working(c, "read")
    /\ \E d \in First(job[c].todo) :
         IF d \in attached
           THEN job' = [job EXCEPT ![c].phase = "adjust",
                                   ![c].saved = [e \in {d} |-> Clamp(5, level[d] + job[c].value)]]
           ELSE Goes(c, "read", job[c].todo \ {d})
    /\ UNCHANGED <<level, attached, file, calls, events, kept, clean>>

Adjust(c) ==
    /\ job[c].phase = "adjust"
    /\ \E d \in DOMAIN job[c].saved :
         IF d \in attached
           THEN applyTo(c, d, job[c].saved[d]) /\ Goes(c, "read", job[c].todo \ {d})
           ELSE Return(c) /\ UNCHANGED <<level, clean>>
    /\ UNCHANGED <<attached, file, calls, events, kept>>

\* Mutant: a save starts from an empty table.
ReadFileToRestore(c) ==
    /\ job[c].phase = "file"
    /\ job' = [job EXCEPT ![c].saved = IF job[c].op = "save" THEN <<>> ELSE file,
                          ![c].phase = IF job[c].op = "save" THEN "list" ELSE "restore"]
    /\ clean' = IF \E e \in Clients : job[e].phase = "flush" THEN clean \ {c} ELSE clean \union {c}
    /\ UNCHANGED <<level, attached, file, calls, events, kept>>

\* readSavedBrightness
ReadFile(c) ==
    /\ job[c].phase = "file"
    /\ job' = [job EXCEPT ![c].saved = file, ![c].phase = IF job[c].op = "save" THEN "list" ELSE "restore"]
    /\ clean' = IF \E e \in Clients : job[e].phase = "flush" THEN clean \ {c} ELSE clean \union {c}
    /\ UNCHANGED <<level, attached, file, calls, events, kept>>

\* SaveBrightness reads the devices it can, the others keep what was saved.
Save(c) ==
    /\ Working(c, "save")
    /\ \E d \in First(job[c].todo) :
         LET reading == [e \in {d} \intersect attached |-> level[d]]
         IN  job' = [job EXCEPT ![c].todo = @ \ {d}, ![c].saved = Over(reading, @), ![c].took = Over(reading, @)]
    /\ UNCHANGED <<level, attached, file, calls, events, kept, clean>>

\* writeSavedBrightness
Create(c) ==
    /\ job[c].phase = "save" /\ job[c].todo = {}
    /\ file' = <<>>
    /\ Goes(c, "flush", {})
    /\ UNCHANGED <<level, attached, calls, events, kept, clean>>

Flush(c) ==
    /\ job[c].phase = "flush"
    /\ file' = job[c].saved
    /\ kept' = IF c \in clean THEN Over(job[c].took, kept) ELSE file'
    /\ Disturbs(c, {"save", "restore"})
    /\ Return(c)
    /\ UNCHANGED <<level, attached, calls, events>>

\* RestoreBrightness sets the devices by name, in the order of a map, and
\* gives up at the first it cannot set.
Restore(c) ==
    /\ job[c].phase = "restore"
    /\ LET left == DOMAIN job[c].saved \ job[c].todo
           all  == job[c].name = All
       IN  IF ~all /\ job[c].name \notin DOMAIN job[c].saved THEN Return(c) /\ UNCHANGED <<level, clean>>
           ELSE \E d \in IF all THEN left ELSE {job[c].name} :
                  IF d \in attached
                    THEN /\ applyTo(c, d, job[c].saved[d])
                         /\ Goes(c, IF all /\ left # {d} THEN "restore" ELSE "restored", job[c].todo \union {d})
                    ELSE Return(c) /\ UNCHANGED <<level, clean>>
    /\ UNCHANGED <<attached, file, calls, events, kept>>

\* The requests that are through.
Reply(c) ==
    /\ \/ job[c].phase = "restored"
       \/ job[c].phase \in {"apply", "read"} /\ job[c].todo = {}
       \/ job[c].phase = "restore" /\ job[c].name = All /\ job[c].saved = <<>>
    /\ Return(c)
    /\ UNCHANGED <<level, attached, file, calls, events, kept, clean>>

\* A monitor is plugged in or out; the panel stays.
Plug(d) ==
    /\ d # Panel /\ events < MaxEvents /\ events' = events + 1
    /\ attached' = IF d \in attached THEN attached \ {d} ELSE attached \union {d}
    /\ UNCHANGED <<level, file, job, calls, kept, clean>>

Request(c) ==
    \/ Call(c) \/ List(c) \/ Apply(c) \/ Read(c) \/ Adjust(c)
    \/ ReadFile(c) \/ Save(c) \/ Create(c) \/ Flush(c) \/ Restore(c) \/ Reply(c)

Next == (\E c \in Clients : Request(c)) \/ \E d \in Names : Plug(d)

Spec == Init /\ [][Next]_vars

----------------------------------------------------------------------------
(* A restore that succeeds brings every device that was ever saved, or the *)
(* one it was asked for, back to the level it had when it was last saved,  *)
(* whatever was saved, set, plugged and unplugged in between, unless       *)
(* another request wrote a level or the file while it ran.  A panel saved  *)
(* at 0 comes back at 1 percent.                                           *)
RestoreBringsBack ==
    \A c \in clean : job[c].op = "restore" /\ job[c].phase = "restored" =>
      \A d \in DOMAIN kept : job[c].name \in {All, d} => level[d] = Clamp(IF d = Panel THEN 1 ELSE 0, kept[d])
=============================================================================
