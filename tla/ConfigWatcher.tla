--------------------------- MODULE ConfigWatcher ---------------------------
(***************************************************************************)
(* The daemon follows its TOML files: main.go loads and applies them and   *)
(* then starts pkg/config/watcher.go, which watches every file the main    *)
(* one reaches and reloads 200 ms after the last event.  A reload runs in  *)
(* the goroutine of its timer, which Stop cannot call back once it runs,   *)
(* so two may overlap.  The kernel watches a file, not its name: a file    *)
(* that is replaced or deleted leaves no watch behind, and reports it.     *)
(*                                                                         *)
(* LoadConfig, and ResolveIncludePaths with the Adds that follow it, take  *)
(* one step each.                                                          *)
(***************************************************************************)
EXTENDS ConfigFiles

CONSTANTS
    Timers,      \* goroutines of timers
    Writes,      \* file -> the imports and sections it may have
    MaxEdits,    \* bound: changes of the files
    MaxFailures  \* bound: failures of ApplyConfig

Daemon == "main"

WatcherAssumption ==
    /\ Daemon \notin Timers
    /\ Main \in DOMAIN Writes
    /\ MaxEdits \in Nat /\ MaxFailures \in Nat

VARIABLES
    disk,     \* the files
    watches,  \* those the kernel watches
    watched,  \* ConfigWatcher.watched
    inbox,    \* watcher.Events
    armed,    \* the debounce timer runs
    stopped,  \* done is closed
    pc,       \* main and the timer goroutines: what each does next
    loaded,   \* the configuration each has loaded
    applied,  \* what the compositor was configured with
    seeded,   \* what SeedConfigState was given
    edits, failures,
    excused   \* history: why the daemon may lag behind, see Lags

fileVars == <<disk, edits>>
vars == <<fileVars, watches, watched, inbox, armed, stopped, pc, loaded, applied, seeded, failures, excused>>

Files   == DOMAIN Writes
Threads == {Daemon} \union Timers
Lags    == {"absent", "unwatched", "overlap", "failed"}
Busy(t) == pc[t] # "idle"

TypeOK ==
    /\ watches \subseteq Files /\ watched \subseteq Files
    /\ \A f \in watches : disk[f].there
    /\ inbox \in Seq({"change", "remove"})
    /\ pc \in [Threads -> {"idle", "load", "watch", "apply", "seed", "start"}]
    /\ excused \subseteq Lags
    /\ edits \in 0..MaxEdits /\ failures \in 0..MaxFailures

Init ==
    /\ \E disk0 \in [Files -> {Toml(w.imports, w.sets, 0) : w \in UNION {Writes[f] : f \in Files}}] :
         /\ \A f \in Files : \E w \in Writes[f] : disk0[f] = Toml(w.imports, w.sets, 0)
         /\ disk = disk0
    /\ watches = {} /\ watched = {} /\ inbox = <<>>
    /\ armed = FALSE /\ stopped = FALSE
    /\ pc = [t \in Threads |-> IF t = Daemon THEN "load" ELSE "idle"]
    /\ loaded = [t \in Threads |-> Empty]
    /\ applied = Empty /\ seeded = Empty
    /\ edits = 0 /\ failures = 0 /\ excused = {}

----------------------------------------------------------------------------
(* The user and the kernel. *)

Contents(f) == {Toml(w.imports, w.sets, edits + 1) : w \in Writes[f]} \union {Unparsable}
Report(f, op) == inbox' = IF f \in watches THEN Append(inbox, op) ELSE inbox
Loaded(t) == pc[t] \in IF t = Daemon THEN {"apply", "seed", "start"} ELSE {"watch"}
Excuse(f, content) ==
    excused' = excused \union (IF content = Absent THEN {"absent"} ELSE {})
                       \union (IF f \notin watches /\ \E t \in Threads : Loaded(t) THEN {"unwatched"} ELSE {})

Edit(f, content) ==
    /\ edits < MaxEdits /\ edits' = edits + 1
    /\ disk' = [disk EXCEPT ![f] = content]
    /\ Excuse(f, content)
    /\ UNCHANGED <<watched, armed, stopped, pc, loaded, applied, seeded, failures>>

\* The file is written in place, or appears: a directory is not watched.
Write(f) ==
    /\ \E c \in Contents(f) : Edit(f, c)
    /\ Report(f, "change")
    /\ UNCHANGED watches

\* Another file is renamed to it, as editors do, or it is deleted or, "change", renamed.
Unlink(f) ==
    /\ disk[f].there
    /\ \E c \in Contents(f) \union {Absent} : Edit(f, c)
    /\ \E op \in {"remove", "change"} : Report(f, op) /\ (op = "change" => disk'[f] = Absent)
    /\ watches' = watches \ {f}

----------------------------------------------------------------------------
(* The watcher. *)

\* Mutant: only what is new is added.
updateWatchedFilesOnce ==
    LET paths == ResolveIncludePaths(disk)
    IN  /\ watches' = (watches \ (watched \ paths)) \union {p \in paths \ watched : disk[p].there}
        /\ watched' = paths

updateWatchedFiles ==
    LET paths == ResolveIncludePaths(disk)
    IN  /\ watches' = (watches \ (watched \ paths)) \union {p \in paths : disk[p].there}
        /\ watched' = paths

\* loop: the next event.  Adding the watches does not wait for the timer.
Receive ==
    /\ ~stopped /\ inbox # <<>> /\ ~Busy(Daemon)
    /\ inbox' = Tail(inbox)
    /\ armed' = TRUE
    /\ IF Head(inbox) = "remove" THEN updateWatchedFiles ELSE UNCHANGED <<watches, watched>>
    /\ UNCHANGED <<fileVars, stopped, pc, loaded, applied, seeded, failures, excused>>

Stop ==
    /\ ~stopped /\ ~Busy(Daemon)
    /\ stopped' = TRUE /\ armed' = FALSE
    /\ UNCHANGED <<fileVars, watches, watched, inbox, pc, loaded, applied, seeded, failures, excused>>

\* The timer fires: its goroutine starts reload.
Fire(t) ==
    /\ armed /\ ~Busy(t)
    /\ armed' = FALSE
    /\ pc' = [pc EXCEPT ![t] = "load"]
    /\ excused' = excused \union (IF \E u \in Timers : Busy(u) THEN {"overlap"} ELSE {})
    /\ UNCHANGED <<fileVars, watches, watched, inbox, stopped, loaded, applied, seeded, failures>>

\* LoadConfig, of main and of reload.
Load(t) ==
    /\ pc[t] = "load"
    /\ LET result == LoadConfig(disk)
       IN  /\ loaded' = [loaded EXCEPT ![t] = result.cfg]
           /\ pc' = [pc EXCEPT ![t] = IF t = Daemon THEN (IF result.ok THEN "apply" ELSE "start")
                                      ELSE IF result.ok THEN "watch" ELSE "idle"]
    /\ UNCHANGED <<fileVars, watches, watched, inbox, armed, stopped, applied, seeded, failures, excused>>

\* reload watches what it loaded, main's Start what is there by now.
Watch(t) ==
    /\ pc[t] \in {"watch", "start"}
    /\ updateWatchedFiles
    /\ pc' = [pc EXCEPT ![t] = IF t = Daemon THEN "idle" ELSE "apply"]
    /\ UNCHANGED <<fileVars, inbox, armed, stopped, loaded, applied, seeded, failures, excused>>

\* ApplyConfig of pkg/config/apply.go, whose steps ConfigPipeline models.
ApplyConfig(t) ==
    /\ pc[t] = "apply"
    /\ \/ /\ applied' = loaded[t]
          /\ pc' = [pc EXCEPT ![t] = "seed"]
          /\ UNCHANGED <<failures, excused>>
       \/ /\ failures < MaxFailures /\ failures' = failures + 1
          /\ pc' = [pc EXCEPT ![t] = IF t = Daemon THEN "start" ELSE "idle"]
          /\ excused' = excused \union {"failed"}
          /\ UNCHANGED applied
    /\ UNCHANGED <<fileVars, watches, watched, inbox, armed, stopped, loaded, seeded>>

SeedConfigState(t) ==
    /\ pc[t] = "seed"
    /\ seeded' = loaded[t]
    /\ pc' = [pc EXCEPT ![t] = IF t = Daemon THEN "start" ELSE "idle"]
    /\ UNCHANGED <<fileVars, watches, watched, inbox, armed, stopped, loaded, applied, failures, excused>>

Reload(t) == Load(t) \/ Watch(t) \/ ApplyConfig(t) \/ SeedConfigState(t)

Next ==
    \/ \E f \in Files : Write(f) \/ Unlink(f)
    \/ Receive \/ Stop
    \/ \E t \in Timers : Fire(t)
    \/ \E t \in Threads : Reload(t)

Spec == Init /\ [][Next]_vars

----------------------------------------------------------------------------
(* Once every event has been read, the timer has fired and the reloads are *)
(* through, the compositor and Config.Get have what the files say, however *)
(* they were written, replaced, broken and mended in the meantime, unless  *)
(* a file of the configuration was gone for a time, one changed between    *)
(* the reload that found it imported and the watch it put on it, two       *)
(* reloads overlapped, or the compositor refused a configuration.          *)
Quiet == ~stopped /\ inbox = <<>> /\ ~armed /\ \A t \in Threads : ~Busy(t)

NoChangeLost ==
    Quiet /\ excused = {} /\ LoadConfig(disk).ok =>
      applied = LoadConfig(disk).cfg /\ seeded = applied

(* What is loaded from files that import each other as a tree is layered   *)
(* as the example configuration says, except for the target and the        *)
(* workspace style, which a file with imports loses, and for the options   *)
(* of the keyboard, which all come from the last file that sets one.       *)
ImportsOverride == LoadConfig(disk).ok /\ Tree(disk) => Layered(disk)

----------------------------------------------------------------------------
(* What loading and watching have to do with each other, for every state   *)
(* of the files: the main file is watched, alone if it cannot be loaded,   *)
(* and what is not watched can change and nothing else is loaded or        *)
(* watched.  It is a fact about loadRecursive and collectIncludePaths.     *)
Lasting(f) == {Toml(w.imports, w.sets, v) : w \in Writes[f], v \in 0..MaxEdits} \union {Unparsable}
Disks == {d \in [Files -> (UNION {Lasting(f) : f \in Files}) \union {Absent}] :
            \A f \in Files : d[f] \in Lasting(f) \union {Absent}}

LoadsWhatItWatches ==
    \A d \in Disks :
      LET paths == ResolveIncludePaths(d)
      IN  /\ Main \in paths /\ paths \subseteq Files
          /\ LoadConfig(d).ok \/ paths = {Main}
          /\ \A f \in Files \ paths : d[f].there =>
               \A c \in Lasting(f) :
                 LET e == [d EXCEPT ![f] = c]
                 IN  LoadConfig(e) = LoadConfig(d) /\ ResolveIncludePaths(e) = paths
=============================================================================
