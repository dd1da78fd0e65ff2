--------------------------- MODULE ConfigPipeline ---------------------------
(***************************************************************************)
(* The configuration of a daemon that runs under niri.  niri has no calls  *)
(* that change one setting, so a partial update (Config.Set, Config.Batch, *)
(* Config.KeybindsBatch) changes the cached payload, writes the whole      *)
(* generated file, makes niri reload it and hands the modifier-alone binds *)
(* to the keymon monitor.  Config.Apply and the reload of the TOML file    *)
(* start with the file and set the cached payload at the end.  BindKey and *)
(* UnbindKey of a modifier leave the file alone.                           *)
(*                                                                         *)
(* Each connection runs its requests in a goroutine of its own, and so     *)
(* does each reload; ConfigState and the monitor have a mutex each, and    *)
(* nothing else protects the sequence.  Each step here is one section of   *)
(* a mutex, one system call or one request to niri.                        *)
(*                                                                         *)
(* A bind of a modifier alone has modifiers and a key, Super_L or Super_R  *)
(* say, by which it is replaced and removed, and the group they belong to, *)
(* by which the monitor knows it.  A payload may hold many binds of a      *)
(* group, in two maps and a list; the monitor gets one of them.            *)
(*                                                                         *)
(* There is one generated file: no [target] section names another one.    *)
(***************************************************************************)
EXTENDS Naturals, Sequences

CONSTANTS
    Clients,      \* goroutines of connections
    Reloaders,    \* goroutines that apply the TOML file
    Settings,     \* what the generated file holds: appearance, keybinds, rules
    Groups,       \* modifier groups of the monitor
    Keys,         \* modifiers and key of a bind of a modifier alone
    Group,        \* the group of each of them
    Values,       \* of settings, and commands
    Unset,        \* a setting or command that is not there; of a bind: disabled
    NoKey,        \* the key of a gap in the list of binds
    Removed,      \* what a request to unbind a key asks of it
    Emptied,      \* content of a file that was truncated, or does not exist
    Garbled,      \* content that is a mixture, or a part, of rendered payloads
    Requested,    \* the payloads that are applied as a whole
    Changes,      \* the partial updates that are asked for
    MaxRequests,  \* bound on the requests and reloads
    MaxFailures   \* bound on failing writes and reloads

Threads  == Clients \cup Reloaders
Fields   == Settings \cup Keys
Binds    == [key: Keys, command: Values]

\* A bind that is removed from the list leaves a gap: what counts is the order
\* of the others.
Gap == [key |-> NoKey, command |-> Unset]

\* ConfigUniversal: the settings, the binds of Ambxst.System and Ambxst.Binds,
\* which are maps and have no order, and the list Custom.
Payloads == [settings: [Settings -> Values], system: SUBSET Binds,
             ambxst: SUBSET Binds, custom: Seq(Binds \cup {Gap})]

\* A partial update: settings and their values, keys to unbind, and at most
\* one bind.
Updates == [settings: UNION {[fs -> Values] : fs \in SUBSET Settings},
            unbinds: SUBSET Keys, bind: Binds \cup {Gap}]

Contents == [Settings -> Values] \cup {Emptied, Garbled}

ASSUME PipelineAssumption ==
    /\ Clients \cap Reloaders = {}
    /\ Settings \cap Keys = {}
    /\ Group \in [Keys -> Groups]
    /\ Unset \in Values
    /\ Removed \notin Values
    /\ NoKey \notin Keys
    /\ Requested \subseteq Payloads
    /\ Changes \subseteq Updates
    /\ Emptied # Garbled
    /\ {Emptied, Garbled} \cap [Settings -> Values] = {}
    /\ MaxRequests \in Nat /\ MaxFailures \in Nat

VARIABLES
    applied,   \* ConfigState.applied
    last,      \* ConfigState.last
    file,      \* content of the generated file
    loaded,    \* the configuration niri runs
    binds,     \* Monitor.binds
    pc,        \* where each goroutine is
    kind,      \* what it does: update, apply or bind
    payload,   \* the payload it applies, then the one it read to sync from
    requests,  \* number of requests and reloads so far
    failures,  \* number of failures so far
    asked,     \* history: the settings and keys its request sets
    wish,      \* history: what its request sets them to
    over,      \* history: the fields others set since it set its own
    calm       \* history: no other goroutine was busy since it began

state == <<applied, last, file, loaded, binds>>
work  == <<pc, kind, payload>>
history == <<asked, wish, over, calm>>
vars == <<state, work, requests, failures, history>>

Steps == {"idle", "create", "write", "reload", "seed", "current", "bind"}

Wishes == [Fields -> Values \cup {Removed}]

TypeOK ==
    /\ applied \in BOOLEAN
    /\ last \in Payloads
    /\ file \in Contents
    /\ loaded \in Contents
    /\ binds \in [Groups -> Values]
    /\ pc \in [Threads -> Steps]
    /\ kind \in [Threads -> {"update", "apply", "bind"}]
    /\ payload \in [Threads -> Payloads]
    /\ requests \in 0..MaxRequests
    /\ failures \in 0..MaxFailures
    /\ asked \in [Threads -> SUBSET Fields]
    /\ wish \in [Threads -> Wishes]
    /\ over \in [Threads -> SUBSET Fields]
    /\ calm \in [Threads -> BOOLEAN]

Nothing == [settings |-> [s \in Settings |-> Unset], system |-> {},
            ambxst |-> {}, custom |-> <<>>]
NoWish  == [f \in Fields |-> Unset]

Init ==
    /\ applied = FALSE
    /\ last = Nothing
    /\ file = Emptied
    /\ loaded = Emptied
    /\ binds = [g \in Groups |-> Unset]
    /\ pc = [t \in Threads |-> "idle"]
    /\ kind = [t \in Threads |-> "update"]
    /\ payload = [t \in Threads |-> Nothing]
    /\ requests = 0
    /\ failures = 0
    /\ asked = [t \in Threads |-> {}]
    /\ wish = [t \in Threads |-> NoWish]
    /\ over = [t \in Threads |-> {}]
    /\ calm = [t \in Threads |-> FALSE]

Busy(t) == pc[t] # "idle"
Quiet == \A t \in Threads : ~Busy(t)
GoTo(t, step) == pc' = [pc EXCEPT ![t] = step]

\* History: t set the fields fs; whoever is under way was overtaken there.
Overtaken(t, fs) ==
    [s \in Threads |-> IF s # t /\ Busy(s) THEN over[s] \cup fs ELSE over[s]]

\* A goroutine takes up a request that sets the fields fs as w says.
Begin(t, k, p, fs, w, step) ==
    /\ ~Busy(t)
    /\ requests < MaxRequests
    /\ requests' = requests + 1
    /\ GoTo(t, step)
    /\ kind' = [kind EXCEPT ![t] = k]
    /\ payload' = [payload EXCEPT ![t] = p]
    /\ asked' = [asked EXCEPT ![t] = fs]
    /\ wish' = [wish EXCEPT ![t] = w]
    /\ calm' = [s \in Threads |-> s = t /\ Quiet]

\* A goroutine has answered its request.
End(t) ==
    /\ GoTo(t, "idle")
    /\ kind' = [kind EXCEPT ![t] = "update"]
    /\ payload' = [payload EXCEPT ![t] = Nothing]
    /\ asked' = [asked EXCEPT ![t] = {}]
    /\ wish' = [wish EXCEPT ![t] = NoWish]
    /\ over' = [over EXCEPT ![t] = {}]
    /\ calm' = [calm EXCEPT ![t] = FALSE]

----------------------------------------------------------------------------
(* The binds of a payload *)

\* The first bind of a list with the key k, the one that a bind replaces.
IsFirst(list, k, i) == list[i].key = k /\ \A j \in 1..(i - 1) : list[j].key # k
Listed(list, k) == \E i \in DOMAIN list : list[i].key = k

\* A bind of the group g that is enabled.
Fires(b, g) == b.key \in Keys /\ Group[b.key] = g /\ b.command # Unset

\* keymonBindsFromPayload: what it may find for the group g.  The last bind
\* wins, Custom comes after Ambxst.Binds, which comes after Ambxst.System.
CommandsFor(p, g) ==
    LET inCustom == {i \in DOMAIN p.custom : Fires(p.custom[i], g)}
        inAmbxst == {b \in p.ambxst : Fires(b, g)}
        inSystem == {b \in p.system : Fires(b, g)}
    IN IF inCustom # {}
       THEN {p.custom[i].command : i \in {i \in inCustom : \A j \in inCustom : j <= i}}
       ELSE IF inAmbxst # {} THEN {b.command : b \in inAmbxst}
       ELSE IF inSystem # {} THEN {b.command : b \in inSystem}
       ELSE {Unset}

BindsOf(p) ==
    {b \in [Groups -> Values] : \A g \in Groups : b[g] \in CommandsFor(p, g)}

\* applyKeybindsPayload: an unbind removes every bind of its keys, a bind
\* replaces the first of its key in Custom or is appended.
Unbound(bs, ks) == {b \in bs : b.key \notin ks}
Unlisted(list, ks) ==
    [i \in DOMAIN list |-> IF list[i].key \in ks THEN Gap ELSE list[i]]
Upserted(list, b) ==
    IF b = Gap THEN list
    ELSE IF ~Listed(list, b.key) THEN Append(list, b)
    ELSE [i \in DOMAIN list |-> IF IsFirst(list, b.key, i) THEN b ELSE list[i]]

----------------------------------------------------------------------------
(* ConfigState *)

\* Mutant of Changed: a new payload instead of a copy of the cached one.
ChangedFromNothing(u) ==
    [settings |-> u.settings, system |-> {}, ambxst |-> {},
     custom |-> Upserted(<<>>, u.bind)]

\* SetKeys and ApplyKeybinds, inside the mutex: the cached payload, changed.
Changed(u) ==
    [settings |-> [s \in Settings |-> IF s \in DOMAIN u.settings THEN u.settings[s]
                                     ELSE last.settings[s]],
     system |-> Unbound(last.system, u.unbinds),
     ambxst |-> Unbound(last.ambxst, u.unbinds),
     custom |-> Upserted(Unlisted(last.custom, u.unbinds), u.bind)]

\* What a partial update sets, and to what.
AskedBy(u) == DOMAIN u.settings \cup u.unbinds \cup ({u.bind.key} \cap Keys)
WishOf(u) ==
    [f \in Fields |-> IF f \in DOMAIN u.settings THEN u.settings[f]
                      ELSE IF f = u.bind.key THEN u.bind.command ELSE Removed]

Mutate(c, k, u, step) ==
    /\ applied
    /\ Begin(c, k, Changed(u), AskedBy(u), WishOf(u), step)
    /\ last' = Changed(u)
    /\ over' = Overtaken(c, AskedBy(u))
    /\ UNCHANGED <<applied, file, loaded, binds, failures>>

\* Config.Set and Config.Batch of known keys, and Config.KeybindsBatch.  The
\* binds of the batch that are not of a modifier alone are among the settings.
Update(c, u) == Mutate(c, "update", u, "create")

\* Config.BindKey and Config.UnbindKey of a modifier alone.
BindKey(c, u) ==
    /\ DOMAIN u.settings = {}
    /\ \/ u.unbinds = {} /\ u.bind.command # Unset
       \/ u.bind = Gap /\ \E k \in Keys : u.unbinds = {k}
    /\ Mutate(c, "bind", u, "current")

\* A partial update that names an unknown key, or that comes before any
\* payload was applied, and a BindKey or UnbindKey before that, change nothing.
\* The client of a BindKey or UnbindKey is not told.
Refused(c) ==
    /\ ~Busy(c)
    /\ requests < MaxRequests
    /\ requests' = requests + 1
    /\ UNCHANGED <<state, work, failures, history>>

\* What applying p sets: all settings, and the keys that are in Custom or that
\* nothing is bound to.
BoundIn(p, k) ==
    \/ \E b \in p.system \cup p.ambxst : b.key = k
    \/ Listed(p.custom, k)
AskedWhole(p) == Settings \cup {k \in Keys : Listed(p.custom, k) \/ ~BoundIn(p, k)}
WishWhole(p) ==
    [f \in Fields |-> IF f \in Settings THEN p.settings[f]
                      ELSE IF Listed(p.custom, f)
                           THEN p.custom[CHOOSE i \in DOMAIN p.custom :
                                             IsFirst(p.custom, f, i)].command
                           ELSE Removed]

\* Config.Apply, or the TOML file at startup and whenever it changes.
Apply(t, p) ==
    /\ Begin(t, "apply", p, AskedWhole(p), WishWhole(p), "create")
    /\ over' = over
    /\ UNCHANGED <<state, failures>>

----------------------------------------------------------------------------
(* ConfigHandler.ApplyConfig *)

\* Mutant of Create: the file is opened and not truncated.
CreateKeeps(t) ==
    /\ pc[t] = "create"
    /\ GoTo(t, "write")
    /\ UNCHANGED <<state, kind, payload, requests, failures, history>>

\* os.WriteFile opens the file and truncates it.
Create(t) ==
    /\ pc[t] = "create"
    /\ GoTo(t, "write")
    /\ file' = Emptied
    /\ UNCHANGED <<applied, last, loaded, binds, kind, payload, requests,
                   failures, history>>

\* What another goroutine wrote since is overwritten from the start; if it was
\* longer, its end stays.
Write(t) ==
    LET text == payload[t].settings IN
    /\ pc[t] = "write"
    /\ GoTo(t, "reload")
    /\ file' \in IF file \in {Emptied, text} THEN {text} ELSE {text, Garbled}
    /\ UNCHANGED <<applied, last, loaded, binds, kind, payload, requests,
                   failures, history>>

\* niri reads the file; a mixture may be a configuration or be refused, and
\* then niri keeps what it runs.
ReloadConfig == loaded' \in IF file = Garbled THEN {loaded, file} ELSE {file}

Reload(t) ==
    /\ pc[t] = "reload"
    /\ GoTo(t, IF kind[t] = "apply" THEN "seed" ELSE "current")
    /\ ReloadConfig
    /\ UNCHANGED <<applied, last, file, binds, kind, payload, requests,
                   failures, history>>

\* Config.Reload.
ReloadRequest(c) ==
    /\ ~Busy(c)
    /\ requests < MaxRequests
    /\ requests' = requests + 1
    /\ ReloadConfig
    /\ UNCHANGED <<applied, last, file, binds, work, failures, history>>

\* The directory or the file cannot be written, the disk fills up, niri does
\* not answer: the request fails there.
Fail(t) ==
    /\ pc[t] \in {"create", "write", "reload"}
    /\ failures < MaxFailures
    /\ failures' = failures + 1
    /\ file' \in IF pc[t] = "write" THEN {file, Garbled} ELSE {file}
    /\ End(t)
    /\ UNCHANGED <<applied, last, loaded, binds, requests>>

----------------------------------------------------------------------------
(* Seeding and syncKeyMonitor *)

\* Seed.
Seed(t) ==
    /\ pc[t] = "seed"
    /\ GoTo(t, "current")
    /\ applied' = TRUE
    /\ last' = payload[t]
    /\ over' = [Overtaken(t, Fields) EXCEPT ![t] = {}]
    /\ UNCHANGED <<file, loaded, binds, kind, payload, requests, failures,
                   asked, wish, calm>>

\* Mutant of Current: a partial update caches what it has applied once it has
\* succeeded, as Config.Apply does.
CurrentReseeds(t) ==
    /\ pc[t] = "current"
    /\ GoTo(t, "bind")
    /\ last' = IF kind[t] = "update" THEN payload[t] ELSE last
    /\ payload' = [payload EXCEPT ![t] = last']
    /\ UNCHANGED <<applied, file, loaded, binds, kind, requests, failures,
                   history>>

\* syncKeyMonitor reads the cached payload.
Current(t) ==
    /\ pc[t] = "current"
    /\ GoTo(t, "bind")
    /\ payload' = [payload EXCEPT ![t] = last]
    /\ UNCHANGED <<state, kind, requests, failures, history>>

\* SetBinds, and the request is answered.
SetBinds(t) ==
    /\ pc[t] = "bind"
    /\ binds' \in BindsOf(payload[t])
    /\ End(t)
    /\ UNCHANGED <<applied, last, file, loaded, requests, failures>>

----------------------------------------------------------------------------
Request(c) ==
    \/ \E u \in Changes : Update(c, u) \/ BindKey(c, u)
    \/ Refused(c)
    \/ ReloadRequest(c)
    \/ \E p \in Requested : Apply(c, p)

Proceed(t) ==
    \/ Create(t)
    \/ Write(t)
    \/ Reload(t)
    \/ Fail(t)
    \/ Seed(t)
    \/ Current(t)
    \/ SetBinds(t)

Next ==
    \/ \E c \in Clients : Request(c)
    \/ \E r \in Reloaders, p \in Requested : Apply(r, p)
    \/ \E t \in Threads : Proceed(t)

Spec == Init /\ [][Next]_vars

----------------------------------------------------------------------------
(* Properties *)

\* The payload p has what was asked for the field f: the value of a setting,
\* the command of the first bind of a key in Custom, or no bind of it at all.
Has(p, f, w) ==
    IF f \in Settings THEN p.settings[f] = w
    ELSE IF w = Removed THEN ~BoundIn(p, f)
    ELSE /\ Listed(p.custom, f)
         /\ \A i \in DOMAIN p.custom : IsFirst(p.custom, f, i) => p.custom[i].command = w

\* No bind of its group comes after the first bind of k.
Prevails(p, k) ==
    \E i \in DOMAIN p.custom :
        /\ IsFirst(p.custom, k, i)
        /\ \A j \in DOMAIN p.custom : j > i => ~Fires(p.custom[j], Group[k])

\* The commands of the binds of its group that have another key.
Others(p, k) ==
    {b.command : b \in {b \in p.system \cup p.ambxst \cup {p.custom[i] : i \in DOMAIN p.custom} :
                           b.key # k /\ Fires(b, Group[k])}}

\* However requests and reloads meet and fail, what an acknowledged request
\* set is in the cached payload unless somebody else has set it since: no
\* update is computed from a payload that another goroutine has replaced.
\* The command it bound is the monitor's, unless a bind of the same group
\* comes later in the list (Super_R after Super_L, or the same key twice):
\* then the later one is, and the request is acknowledged all the same.  When
\* it unbound a key the monitor has no command of that key left, but it may
\* have one of another key of the group.
AcknowledgedIsKept ==
    [][\A t \in Threads : SetBinds(t) =>
          \A f \in asked[t] \ over[t] :
              /\ Has(last, f, wish[t][f])
              /\ f \in Keys /\ wish[t][f] = Removed =>
                    binds'[Group[f]] \in Others(payload[t], f) \cup {Unset}
              /\ f \in Keys /\ wish[t][f] \notin {Removed, Unset} /\ Prevails(payload[t], f) =>
                    binds'[Group[f]] = wish[t][f]]_vars

\* Whatever earlier failures and races left behind, a garbled or truncated
\* file included, one request that runs undisturbed to the end brings the
\* monitor, the file and niri in line with the cached payload; a BindKey only
\* the monitor.
SettlesAlone ==
    [][\A t \in Threads : SetBinds(t) /\ calm[t] =>
          /\ binds' \in BindsOf(last)
          /\ kind[t] # "bind" => file = last.settings /\ loaded = file]_vars

\* The comment of ConfigState: it caches the last applied payload.  When no
\* request is under way the generated file is that of the cached payload.
CacheIsLastApplied ==
    Quiet /\ applied => file = last.settings
=============================================================================
