---------------------------- MODULE PartsProofs ----------------------------
(***************************************************************************)
(* One part of Parts runs at a time (OnePartSteps), so an invariant of a   *)
(* part is one of the whole.  Here: brightness, the monitor of modifiers,  *)
(* the requests to the backends and the config watcher, each for any       *)
(* values of its constants.  WaylandProofs has the fifth.                  *)
(*                                                                         *)
(* BrightnessInv.  That a restore brings back what was saved is not        *)
(* inductive.  Added is what the requests hold in between: the file is     *)
(* what was last saved unless it is being written (FileIsKept), an         *)
(* undisturbed save has read what was kept and puts its own readings over  *)
(* it (SavesExtend), and an undisturbed restore has read what was kept and *)
(* has set the displays it has been through (RestoresFollow).              *)
(*                                                                         *)
(* MonitorInv.  A device is opened by one caller and read by one goroutine *)
(* (OneOpens, ReadOnce), the machine holds no key of a device nobody reads *)
(* (HeldAreRead), and a tap that is clean so far is known to the machine   *)
(* or lies ahead of it in the queue of its device (CleanTaps).             *)
(*                                                                         *)
(* JobOK, of one request and the compositor:                               *)
(*   - which requests wait for which answer (Stage), and that a request    *)
(*     has touched nothing before it sends;                                *)
(*   - what the client saw is still so, unless somebody changed the        *)
(*     compositor (Accurate);                                              *)
(*   - the commands that are left name the window of the request and are   *)
(*     in its dialect (Meant), and they are enough to make it effective    *)
(*     (Shape): one command that toggles a state known to differ, the      *)
(*     options that are not set yet, the focus and then the move;          *)
(*   - what the request has touched, and that it is effective once it is   *)
(*     acknowledged, as the properties say.                                *)
(* The properties alone are not inductive: that a toggle sets the state    *)
(* rests on what the client saw before it, and that a move of niri moves   *)
(* the named window on the command before it.  The proof follows the code: *)
(* the commands of each client (the lemmas HyprlandDrafted, NiriDrafted    *)
(* and MangoDrafted), the stages of a request, the arrival of a command,   *)
(* and the requests of the others (BystanderOK).                           *)
(*                                                                         *)
(* WatcherInv.  While nothing has excused the daemon, what it loaded,      *)
(* applied and seeded is what the files say, as far as each goroutine has  *)
(* come, and the files it reads are watched, unless an event, the timer or *)
(* a reload that is about to load is still on its way (Pending).           *)
(***************************************************************************)
EXTENDS Parts, SequenceTheorems, TLAPS

----------------------------------------------------------------------------
(* One part runs, and it is the same one in every step. *)

\* A step is one of the part that runs, or a stutter of it.
LEMMA OnePartSteps ==
    ASSUME [Next]_allVars
    PROVE  /\ part' = part
           /\ part = "wayland" => [W!Next]_(W!vars)
           /\ part = "requests" => [R!Next]_(R!vars)
           /\ part = "monitor" => [K!Next]_(K!vars)
           /\ part = "watcher" => [F!Next]_(F!vars)
           /\ part = "brightness" => [B!Next]_(B!vars)
<1>1. CASE UNCHANGED allVars
  BY <1>1 DEF allVars, waylandVars, requestsVars, monitorVars, watcherVars, brightnessVars,
              W!vars, W!ctxVars, W!netVars, R!vars, K!vars, K!bindVars, K!historyVars, F!vars, F!fileVars, B!vars
<1>2. CASE WaylandNext
  BY <1>2 DEF WaylandNext
<1>3. CASE RequestsNext
  BY <1>3 DEF RequestsNext
<1>4. CASE MonitorNext
  BY <1>4 DEF MonitorNext
<1>5. CASE WatcherNext
  BY <1>5 DEF WatcherNext
<1>6. CASE BrightnessNext
  BY <1>6 DEF BrightnessNext
<1> QED
  BY <1>1, <1>2, <1>3, <1>4, <1>5, <1>6 DEF Next

----------------------------------------------------------------------------
(* Brightness *)

\* The types: TypeOK with sets of levels and of requests.
Levels == UNION {[S -> 0..100] : S \in SUBSET B!Names}
Settings == [op : B!Operations, name : B!Names \union {B!All}, value : -100..100, phase : B!Phases,
             todo : SUBSET B!Names, saved : Levels, took : Levels]

BrightnessTyped ==
    /\ level \in [B!Names -> 0..100]
    /\ attached \subseteq B!Names
    /\ file \in Levels /\ kept \in Levels
    /\ clean \subseteq Clients
    /\ job \in [Clients -> Settings]

\* In each phase the request is one that has it.
PhasesFit ==
    \A c \in Clients :
      /\ job[c].phase \in {"save", "flush"} => job[c].op = "save"
      /\ job[c].phase \in {"restore", "restored"} => job[c].op = "restore"
      /\ job[c].phase = "file" => job[c].op \in {"save", "restore"} /\ job[c].took = <<>> /\ job[c].todo = {}
      /\ job[c].phase = "list" => job[c].op \in {"set", "adjust", "save"}
      /\ job[c].phase = "restore" /\ job[c].name # B!All => job[c].todo = {}
      /\ job[c].phase = "restored" =>
           IF job[c].name = B!All THEN DOMAIN job[c].saved \subseteq job[c].todo
                                  ELSE job[c].name \in job[c].todo

\* What was last saved is in the file, except while it is being written.
FileIsKept == (\A c \in Clients : job[c].phase # "flush") => file = kept

\* An undisturbed save has read what was kept, and its own readings.
SavesExtend ==
    \A c \in clean : job[c].op = "save" /\ job[c].phase \in {"list", "save", "flush"} =>
      job[c].saved = B!Over(job[c].took, kept)

\* The level a display has once v was restored to it: the panel never 0.
Restored(d, v) == level[d] = B!Clamp(IF d = B!Panel THEN 1 ELSE 0, v)

\* An undisturbed restore has read what was kept, and set some of it.
RestoresFollow ==
    \A c \in clean : job[c].phase \in {"restore", "restored"} =>
      /\ job[c].saved = kept
      /\ \A d \in job[c].todo : d \in DOMAIN kept /\ Restored(d, kept[d])

BrightnessInv == BrightnessTyped /\ PhasesFit /\ FileIsKept /\ SavesExtend /\ RestoresFollow

\* Clamp keeps a level between its bounds.
LEMMA ClampRange ==
    ASSUME NEW low \in 0..100, NEW v \in Int PROVE B!Clamp(low, v) \in 0..100
BY DEF B!Clamp

\* Levels are functions from displays to values.
LEMMA LevelsAre ==
    ASSUME NEW f PROVE f \in Levels <=> /\ f = [d \in DOMAIN f |-> f[d]] /\ DOMAIN f \subseteq B!Names
                                         /\ \A d \in DOMAIN f : f[d] \in 0..100
<1>1. ASSUME f \in Levels PROVE /\ f = [d \in DOMAIN f |-> f[d]] /\ DOMAIN f \subseteq B!Names
                                  /\ \A d \in DOMAIN f : f[d] \in 0..100
  BY <1>1 DEF Levels
<1>2. ASSUME f = [d \in DOMAIN f |-> f[d]], DOMAIN f \subseteq B!Names, \A d \in DOMAIN f : f[d] \in 0..100
      PROVE  f \in Levels
  <2>1. f \in [DOMAIN f -> 0..100]
    BY <1>2
  <2> QED
    BY <2>1, <1>2 DEF Levels
<1> QED
  BY <1>1, <1>2

\* No levels at all are levels.
LEMMA NoLevels == <<>> \in Levels
<1>1. DOMAIN <<>> = {} /\ <<>> = [d \in DOMAIN <<>> |-> <<>>[d]]
  OBVIOUS
<1> QED
  BY <1>1, LevelsAre

\* Levels over levels are levels.
LEMMA OverLevels ==
    ASSUME NEW f \in Levels, NEW g \in Levels PROVE B!Over(f, g) \in Levels
<1> DEFINE h == B!Over(f, g)
<1>1. /\ DOMAIN h = DOMAIN f \union DOMAIN g
      /\ \A d \in DOMAIN h : h[d] = IF d \in DOMAIN f THEN f[d] ELSE g[d]
      /\ h = [d \in DOMAIN h |-> h[d]]
  BY DEF B!Over
<1> HIDE DEF h
<1>2. h \in Levels
  BY <1>1, LevelsAre
<1> QED
  BY <1>2 DEF h

\* Over is associative.
LEMMA OverAssociates ==
    ASSUME NEW f, NEW g, NEW h PROVE B!Over(f, B!Over(g, h)) = B!Over(B!Over(f, g), h)
BY DEF B!Over

\* Nothing over levels leaves them.
LEMMA OverNothing ==
    ASSUME NEW g \in Levels PROVE B!Over(<<>>, g) = g
<1>1. g = [d \in DOMAIN g |-> g[d]]
  BY LevelsAre
<1> QED
  BY <1>1 DEF B!Over

\* The first of a set of displays is one of them.
LEMMA FirstIsOne ==
    ASSUME NEW D, NEW d \in B!First(D) PROVE d \in D
BY DEF B!First
----------------------------------------------------------------------------
\* The request that sets a display.
LEMMA JobSet ==
    ASSUME NEW j \in Settings, NEW phase \in B!Phases, NEW todo \in SUBSET B!Names
    PROVE  [j EXCEPT !.phase = phase, !.todo = todo] \in Settings
BY DEF Settings

\* The request that has read the file.
LEMMA JobRead ==
    ASSUME NEW j \in Settings, NEW todo \in SUBSET B!Names, NEW saved \in Levels, NEW took \in Levels
    PROVE  [j EXCEPT !.todo = todo, !.saved = saved, !.took = took] \in Settings
BY DEF Settings

\* The request that goes on.
LEMMA JobGoes ==
    ASSUME BrightnessTyped, NEW c \in Clients, NEW phase \in B!Phases, NEW todo \in SUBSET B!Names,
           B!Goes(c, phase, todo)
    PROVE  job' \in [Clients -> Settings]
<1>1. job \in [Clients -> Settings]
  BY DEF BrightnessTyped
<1> DEFINE j == [job[c] EXCEPT !.phase = phase, !.todo = todo]
<1>2. j \in Settings
  BY <1>1, JobSet
<1>3. job' = [job EXCEPT ![c] = j]
  BY <1>1 DEF B!Goes
<1> HIDE DEF j
<1> QED
  BY <1>1, <1>2, <1>3

\* The request that returns.
LEMMA JobReturns ==
    ASSUME BrightnessTyped, NEW c \in Clients, B!Return(c)
    PROVE  job' \in [Clients -> Settings]
<1>1. B!Idle \in Settings
  BY NoLevels DEF B!Idle, Settings, B!Phases, B!Operations
<1> QED
  BY <1>1 DEF BrightnessTyped, B!Return

\* A level is applied to one display.
LEMMA LevelApplied ==
    ASSUME BrightnessTyped, NEW c \in Clients, NEW d, NEW v \in Int, B!applyTo(c, d, v)
    PROVE  level' \in [B!Names -> 0..100] /\ clean' \subseteq Clients
<1>1. B!Clamp(IF d = B!Panel THEN 1 ELSE 0, v) \in 0..100
  BY ClampRange
<1> QED
  BY <1>1 DEF BrightnessTyped, B!applyTo, B!Disturbs

\* Every step keeps the types.
LEMMA BrightnessTypes ==
    ASSUME PartsAssumption, BrightnessTyped, B!Next PROVE BrightnessTyped'
<1> USE DEF BrightnessTyped
<1>1. Values \subseteq 0..100 /\ Deltas \subseteq -100..100
  BY DEF PartsAssumption, B!BrightnessAssumption
<1>3. ASSUME NEW c \in Clients, B!Call(c) PROVE BrightnessTyped'
  <2>1. PICK name \in B!Names \union {B!All},
             r \in {[op |-> "set", value |-> v] : v \in Values}
                    \union {[op |-> "adjust", value |-> v] : v \in Deltas}
                    \union {[op |-> op, value |-> 0] : op \in {"save", "restore"}} :
          job' = [job EXCEPT ![c] = [op |-> r.op, name |-> name, value |-> r.value, todo |-> {}, saved |-> <<>>,
                                     took |-> <<>>,
                                     phase |-> IF r.op \in {"save", "restore"} THEN "file" ELSE "list"]]
    BY <1>3 DEF B!Call
  <2>2. r.op \in {"set", "adjust", "save", "restore"} /\ r.value \in -100..100
    BY <1>1
  <2> DEFINE phase == IF r.op \in {"save", "restore"} THEN "file" ELSE "list"
  <2>3. phase \in B!Phases
    BY DEF B!Phases
  <2>4. job' = [job EXCEPT ![c] = [op |-> r.op, name |-> name, value |-> r.value, todo |-> {}, saved |-> <<>>,
                                   took |-> <<>>, phase |-> phase]]
    BY <2>1
  <2> HIDE DEF phase
  <2>5. [op |-> r.op, name |-> name, value |-> r.value, todo |-> {}, saved |-> <<>>, took |-> <<>>, phase |-> phase]
          \in Settings
    BY <2>2, <2>3, NoLevels DEF Settings, B!Operations, B!Phases
  <2> QED
    BY <1>3, <2>4, <2>5 DEF B!Call
<1>4. ASSUME NEW c \in Clients, B!List(c) PROVE BrightnessTyped'
  BY <1>4, JobGoes, JobReturns DEF B!List, B!resolveTargets, B!Phases
<1>5. ASSUME NEW c \in Clients, B!Apply(c) PROVE BrightnessTyped'
  <2>1. PICK d \in B!First(job[c].todo) :
          IF d \in attached
            THEN B!applyTo(c, d, job[c].value) /\ B!Goes(c, "apply", job[c].todo \ {d})
            ELSE /\ IF job[c].name = B!All THEN B!Goes(c, "apply", job[c].todo \ {d}) ELSE B!Return(c)
                 /\ UNCHANGED <<level, clean>>
    BY <1>5 DEF B!Apply
  <2>2. job[c].value \in Int /\ job[c].todo \ {d} \in SUBSET B!Names
    BY DEF Settings
  <2>3. job' \in [Clients -> Settings]
    BY <2>1, <2>2, JobGoes, JobReturns DEF B!Phases
  <2> QED
    BY <1>5, <2>1, <2>2, <2>3, LevelApplied DEF B!Apply
<1>6. ASSUME NEW c \in Clients, B!Read(c) PROVE BrightnessTyped'
  <2>1. PICK d \in B!First(job[c].todo) :
          IF d \in attached
            THEN job' = [job EXCEPT ![c].phase = "adjust",
                                    ![c].saved = [e \in {d} |-> B!Clamp(5, level[d] + job[c].value)]]
            ELSE B!Goes(c, "read", job[c].todo \ {d})
    BY <1>6 DEF B!Read
  <2>2. job[c] \in Settings
    OBVIOUS
  <2>3. job[c].todo \ {d} \in SUBSET B!Names /\ d \in B!Names /\ job[c].value \in Int
    BY <2>2, FirstIsOne DEF Settings
  <2>4. [e \in {d} |-> B!Clamp(5, level[d] + job[c].value)] \in Levels
    <3>1. B!Clamp(5, level[d] + job[c].value) \in 0..100
      <4>1. level[d] + job[c].value \in Int
        BY <2>3
      <4> QED
        BY <4>1, ClampRange
    <3> QED
      BY <2>3, <3>1, LevelsAre
  <2>5. job' \in [Clients -> Settings]
    <3>1. CASE d \in attached
      BY <2>1, <2>4, <3>1 DEF Settings, B!Phases
    <3>2. CASE d \notin attached
      BY <2>1, <2>3, <3>2, JobGoes DEF B!Phases
    <3> QED
      BY <3>1, <3>2
  <2> QED
    BY <1>6, <2>5 DEF B!Read
<1>7. ASSUME NEW c \in Clients, B!Adjust(c) PROVE BrightnessTyped'
  <2>1. PICK d \in DOMAIN job[c].saved :
          IF d \in attached
            THEN B!applyTo(c, d, job[c].saved[d]) /\ B!Goes(c, "read", job[c].todo \ {d})
            ELSE B!Return(c) /\ UNCHANGED <<level, clean>>
    BY <1>7 DEF B!Adjust
  <2>2. job[c].todo \ {d} \in SUBSET B!Names /\ job[c].saved \in Levels
    BY DEF Settings
  <2>3. job[c].saved[d] \in Int
    BY <2>2, LevelsAre
  <2>4. job' \in [Clients -> Settings]
    BY <2>1, <2>2, JobGoes, JobReturns DEF B!Phases
  <2> QED
    BY <1>7, <2>1, <2>3, <2>4, LevelApplied DEF B!Adjust
<1>8. ASSUME NEW c \in Clients, B!ReadFile(c) PROVE BrightnessTyped'
  BY <1>8 DEF B!ReadFile, Settings, B!Phases
<1>9. ASSUME NEW c \in Clients, B!Save(c) PROVE BrightnessTyped'
  <2>1. PICK d \in B!First(job[c].todo) :
          LET reading == [e \in {d} \intersect attached |-> level[d]]
          IN  job' = [job EXCEPT ![c].todo = @ \ {d}, ![c].saved = B!Over(reading, @),
                                 ![c].took = B!Over(reading, @)]
    BY <1>9 DEF B!Save
  <2> DEFINE reading == [e \in {d} \intersect attached |-> level[d]]
  <2>2. job[c].todo \ {d} \in SUBSET B!Names /\ job[c].saved \in Levels /\ job[c].took \in Levels
    BY DEF Settings
  <2>3. reading \in Levels
    BY LevelsAre
  <2>4. B!Over(reading, job[c].saved) \in Levels /\ B!Over(reading, job[c].took) \in Levels
    BY <2>2, <2>3, OverLevels
  <2>5. job' = [job EXCEPT ![c].todo = @ \ {d}, ![c].saved = B!Over(reading, @),
                           ![c].took = B!Over(reading, @)]
    BY <2>1
  <2> HIDE DEF reading
  <2> DEFINE j == [job[c] EXCEPT !.todo = job[c].todo \ {d}, !.saved = B!Over(reading, job[c].saved),
                                 !.took = B!Over(reading, job[c].took)]
  <2>6. j \in Settings /\ job' = [job EXCEPT ![c] = j]
    BY <2>2, <2>4, <2>5, JobRead
  <2> HIDE DEF j
  <2>7. job' \in [Clients -> Settings]
    BY <2>6
  <2> QED
    BY <1>9, <2>7 DEF B!Save
<1>10. ASSUME NEW c \in Clients, B!Create(c) PROVE BrightnessTyped'
  BY <1>10, NoLevels, JobGoes DEF B!Create, B!Phases
<1>11. ASSUME NEW c \in Clients, B!Flush(c) PROVE BrightnessTyped'
  <2>1. job[c].saved \in Levels /\ job[c].took \in Levels
    BY DEF Settings
  <2>2. B!Over(job[c].took, kept) \in Levels
    BY <2>1, OverLevels
  <2> QED
    BY <1>11, <2>1, <2>2, JobReturns DEF B!Flush, B!Disturbs
<1>12. ASSUME NEW c \in Clients, B!Restore(c) PROVE BrightnessTyped'
  <2> DEFINE left == DOMAIN job[c].saved \ job[c].todo
             all  == job[c].name = B!All
             next(d) == IF all /\ left # {d} THEN "restore" ELSE "restored"
  <2>1. job[c].todo \in SUBSET B!Names /\ job[c].saved \in Levels
    BY DEF Settings
  <2>2. CASE B!Return(c) /\ UNCHANGED <<level, clean>>
    BY <1>12, <2>2, JobReturns DEF B!Restore
  <2>3. ASSUME NEW d \in DOMAIN job[c].saved, B!applyTo(c, d, job[c].saved[d]),
               B!Goes(c, next(d), job[c].todo \union {d})
        PROVE  BrightnessTyped'
    <3>1. job[c].saved[d] \in Int /\ job[c].todo \union {d} \in SUBSET B!Names
      BY <2>1, LevelsAre
    <3>2. next(d) \in B!Phases
      BY DEF B!Phases
    <3>3. job' \in [Clients -> Settings]
      BY <2>3, <3>1, <3>2, JobGoes
    <3> QED
      BY <1>12, <2>3, <3>1, <3>3, LevelApplied DEF B!Restore
  <2> QED
    BY <1>12, <2>2, <2>3 DEF B!Restore
<1>13. ASSUME NEW c \in Clients, B!Reply(c) PROVE BrightnessTyped'
  BY <1>13, JobReturns DEF B!Reply
<1>14. ASSUME NEW d \in B!Names, B!Plug(d) PROVE BrightnessTyped'
  BY <1>14 DEF B!Plug
<1> QED
  BY <1>3, <1>4, <1>5, <1>6, <1>7, <1>8, <1>9, <1>10, <1>11, <1>12, <1>13, <1>14
     DEF B!Next, B!Request

\* A step of one request leaves the others as they are.
LEMMA OneRequest ==
    ASSUME BrightnessTyped, NEW c \in Clients, B!Request(c)
    PROVE  \A e \in Clients \ {c} : job'[e] = job[e]
BY DEF BrightnessTyped, B!Request, B!Call, B!List, B!Apply, B!Read, B!Adjust, B!ReadFile, B!Save, B!Create, B!Flush,
       B!Restore, B!Reply, B!Goes, B!Return

\* Every step keeps the phases and the requests together.
LEMMA PhasesStayFit ==
    ASSUME BrightnessTyped, PhasesFit, B!Next PROVE PhasesFit'
<1> DEFINE Fit(j) ==
      /\ j.phase \in {"save", "flush"} => j.op = "save"
      /\ j.phase \in {"restore", "restored"} => j.op = "restore"
      /\ j.phase = "file" => j.op \in {"save", "restore"} /\ j.took = <<>> /\ j.todo = {}
      /\ j.phase = "list" => j.op \in {"set", "adjust", "save"}
      /\ j.phase = "restore" /\ j.name # B!All => j.todo = {}
      /\ j.phase = "restored" => IF j.name = B!All THEN DOMAIN j.saved \subseteq j.todo ELSE j.name \in j.todo
<1>1. PhasesFit <=> \A c \in Clients : Fit(job[c])
  BY DEF PhasesFit
<1>2. PhasesFit' <=> \A c \in Clients : Fit(job'[c])
  BY DEF PhasesFit
<1>3. job \in [Clients -> Settings]
  BY DEF BrightnessTyped
<1>4. ASSUME NEW c \in Clients, B!Request(c) PROVE Fit(job'[c])
  <2> USE <1>1, <1>3 DEF Settings
  <2>0. Fit(B!Idle)
    BY DEF B!Idle
  <2>1. ASSUME B!Return(c) PROVE Fit(job'[c])
    BY <2>0, <2>1 DEF B!Return
  <2>2. ASSUME NEW phase \in {"apply", "read", "adjust", "idle"}, NEW todo, B!Goes(c, phase, todo)
        PROVE  Fit(job'[c])
    BY <2>2 DEF B!Goes
  <2>3. CASE B!Call(c)
    BY <2>3 DEF B!Call
  <2>4. CASE B!List(c)
    <3>1. CASE job[c].op \in {"set", "adjust"} \/ B!Unknown(job[c].name)
      BY <2>1, <2>2, <2>4, <3>1 DEF B!List
    <3>2. CASE ~(job[c].op \in {"set", "adjust"} \/ B!Unknown(job[c].name))
      <4>1. job[c].op = "save"
        BY <2>4, <3>2 DEF B!List, PhasesFit
      <4> QED
        BY <2>4, <3>2, <4>1 DEF B!List, B!Goes
    <3> QED
      BY <3>1, <3>2
  <2>5. CASE B!Apply(c)
    BY <2>1, <2>2, <2>5 DEF B!Apply
  <2>6. CASE B!Read(c)
    BY <2>2, <2>6 DEF B!Read
  <2>7. CASE B!Adjust(c)
    BY <2>1, <2>2, <2>7 DEF B!Adjust
  <2>8. CASE B!ReadFile(c)
    BY <2>8 DEF B!ReadFile, PhasesFit
  <2>9. CASE B!Save(c)
    BY <2>9 DEF B!Save, B!Working, PhasesFit
  <2>10. CASE B!Create(c)
    BY <2>10 DEF B!Create, B!Goes, PhasesFit
  <2>11. CASE B!Flush(c)
    BY <2>1, <2>11 DEF B!Flush
  <2>12. CASE B!Restore(c)
    BY <2>1, <2>12 DEF B!Restore, B!Goes, PhasesFit
  <2>13. CASE B!Reply(c)
    BY <2>1, <2>13 DEF B!Reply
  <2> QED
    BY <1>4, <2>3, <2>4, <2>5, <2>6, <2>7, <2>8, <2>9, <2>10, <2>11, <2>12, <2>13 DEF B!Request
<1>5. ASSUME NEW d \in B!Names, B!Plug(d) PROVE \A c \in Clients : Fit(job'[c])
  BY <1>1, <1>5 DEF PhasesFit, B!Plug
<1> QED
  BY <1>1, <1>2, <1>4, <1>5, OneRequest DEF PhasesFit, B!Next

\* While one request applies a level no other undisturbed restore runs.
LEMMA OthersAreDisturbed ==
    ASSUME NEW c, NEW ops, B!Disturbs(c, ops)
    PROVE  clean' \subseteq clean /\ \A e \in clean' : e = c \/ job[e].op \notin ops
BY DEF B!Disturbs

\* Every step keeps the invariant.
LEMMA BrightnessStays ==
    ASSUME PartsAssumption, BrightnessInv, B!Next
    PROVE  BrightnessInv'
<1> USE DEF BrightnessInv
<1>1. BrightnessTyped' /\ PhasesFit'
  BY BrightnessTypes, PhasesStayFit
<1>2. job \in [Clients -> Settings] /\ clean \subseteq Clients /\ kept \in Levels /\ file \in Levels
  BY DEF BrightnessTyped
<1>3. job' \in [Clients -> Settings] /\ clean' \subseteq Clients
  BY <1>1 DEF BrightnessTyped
<1> DEFINE Quiet == UNCHANGED <<level, file, kept, clean>>
\* A request that is not about the file, or starts or ends.
<1>4. ASSUME NEW c \in Clients, UNCHANGED <<file, kept>>, clean' \subseteq clean,
             \A e \in Clients \ {c} : job'[e] = job[e], job[c].phase # "flush", job'[c].phase # "flush",
             job'[c].op # "save" \/ job'[c].phase \notin {"list", "save", "flush"},
             job'[c].phase \notin {"restore", "restored"},
             \A e \in clean' \ {c} : job[e].phase \in {"restore", "restored"} => UNCHANGED level
      PROVE  FileIsKept' /\ SavesExtend' /\ RestoresFollow'
  BY <1>2, <1>3, <1>4 DEF FileIsKept, SavesExtend, RestoresFollow, Restored
<1>5. ASSUME NEW c \in Clients, B!Request(c) PROVE FileIsKept' /\ SavesExtend' /\ RestoresFollow'
  <2>1. \A e \in Clients \ {c} : job'[e] = job[e]
    BY <1>5, OneRequest
  <2>2. ASSUME B!Return(c) PROVE job'[c].phase = "idle"
    BY <1>2, <2>2 DEF B!Return, B!Idle
  <2>3. ASSUME NEW phase, NEW todo, B!Goes(c, phase, todo)
        PROVE  /\ job'[c].phase = phase /\ job'[c].op = job[c].op
               /\ job'[c].saved = job[c].saved /\ job'[c].took = job[c].took
    <3>1. job'[c] = [job[c] EXCEPT !.phase = phase, !.todo = todo]
      BY <1>2, <2>3 DEF B!Goes
    <3>2. job[c] \in Settings
      BY <1>2
    <3> QED
      BY <3>1, <3>2 DEF Settings
  <2>4. ASSUME NEW d, NEW v, B!applyTo(c, d, v)
        PROVE  /\ clean' \subseteq clean
               /\ \A e \in clean' \ {c} : job[e].phase \notin {"restore", "restored"}
    BY <1>2, <2>4, OthersAreDisturbed DEF B!applyTo, PhasesFit
  <2>5. CASE B!Call(c)
    <3>1. job'[c].phase \in {"file", "list"} /\ (job'[c].phase = "list" => job'[c].op # "save")
      BY <1>2, <2>5 DEF B!Call
    <3> QED
      BY <1>4, <2>1, <2>5, <3>1 DEF B!Call
  <2>6. CASE B!List(c)
    <3>1. CASE job[c].op = "save" /\ ~B!Unknown(job[c].name)
      <4>1. /\ job'[c].saved = job[c].saved /\ job'[c].took = job[c].took /\ job'[c].phase = "save"
            /\ job[c].phase = "list" /\ job'[c].op = "save" /\ UNCHANGED <<file, kept, level, clean>>
        BY <2>3, <2>6, <3>1 DEF B!List
      <4> QED
        BY <1>2, <2>1, <3>1, <4>1 DEF FileIsKept, SavesExtend, RestoresFollow, Restored
    <3>2. CASE ~(job[c].op = "save" /\ ~B!Unknown(job[c].name))
      <4>1. job[c].op \in {"set", "adjust", "save"}
        BY <2>6 DEF B!List, PhasesFit
      <4>2. job'[c].phase \in {"idle", "apply", "read"}
        BY <2>2, <2>3, <2>6, <3>2, <4>1 DEF B!List
      <4> QED
        BY <1>4, <2>1, <2>6, <4>2 DEF B!List
    <3> QED
      BY <3>1, <3>2
  <2>7. CASE B!Apply(c)
    <3>1. job'[c].phase \in {"apply", "idle"} /\ job[c].phase = "apply"
      BY <2>2, <2>3, <2>7 DEF B!Apply, B!Working
    <3>2. clean' \subseteq clean /\ \A e \in clean' \ {c} : job[e].phase \in {"restore", "restored"} => UNCHANGED level
      BY <2>4, <2>7 DEF B!Apply
    <3> QED
      BY <1>4, <2>1, <2>7, <3>1, <3>2 DEF B!Apply
  <2>8. CASE B!Read(c)
    <3>1. job'[c].phase \in {"read", "adjust"} /\ job[c].phase = "read"
      <4>1. PICK d \in B!First(job[c].todo) :
              IF d \in attached
                THEN job' = [job EXCEPT ![c].phase = "adjust",
                                        ![c].saved = [e \in {d} |-> B!Clamp(5, level[d] + job[c].value)]]
                ELSE B!Goes(c, "read", job[c].todo \ {d})
        BY <2>8 DEF B!Read
      <4>2. CASE d \in attached
        <5>1. job' = [job EXCEPT ![c] = [job[c] EXCEPT !.phase = "adjust", !.saved = job'[c].saved]]
          BY <1>2, <4>1, <4>2
        <5> QED
          BY <1>2, <2>8, <5>1 DEF B!Read, B!Working, Settings
      <4>3. CASE d \notin attached
        BY <2>3, <2>8, <4>1, <4>3 DEF B!Read, B!Working
      <4> QED
        BY <4>2, <4>3
    <3> QED
      BY <1>4, <2>1, <2>8, <3>1 DEF B!Read
  <2>9. CASE B!Adjust(c)
    <3>1. job'[c].phase \in {"read", "idle"} /\ job[c].phase = "adjust"
      BY <2>2, <2>3, <2>9 DEF B!Adjust
    <3>2. clean' \subseteq clean /\ \A e \in clean' \ {c} : job[e].phase \in {"restore", "restored"} => UNCHANGED level
      BY <2>4, <2>9 DEF B!Adjust
    <3> QED
      BY <1>4, <2>1, <2>9, <3>1, <3>2 DEF B!Adjust
  <2>10. CASE B!ReadFile(c)
    <3>1. /\ job'[c].saved = file /\ job'[c].took = <<>> /\ job'[c].todo = {}
          /\ UNCHANGED <<file, kept, level>>
          /\ job[c].phase = "file" /\ job'[c].phase \in {"list", "restore"}
      BY <1>2, <2>10 DEF B!ReadFile, PhasesFit
    <3>2. c \in clean' => file = kept
      BY <2>10 DEF B!ReadFile, FileIsKept
    <3>3. B!Over(<<>>, kept) = kept
      BY <1>2, OverNothing
    <3>4. \A e \in clean' : e # c => e \in clean
      BY <2>10 DEF B!ReadFile
    <3>5. FileIsKept'
      BY <2>1, <3>1 DEF FileIsKept
    <3>6. SavesExtend'
      BY <1>3, <2>1, <3>1, <3>2, <3>3, <3>4 DEF SavesExtend
    <3>7. RestoresFollow'
      BY <1>3, <2>1, <3>1, <3>2, <3>4 DEF RestoresFollow, Restored
    <3> QED
      BY <3>5, <3>6, <3>7
  <2>11. CASE B!Save(c)
    <3>1. PICK r :
            /\ job'[c] = [job[c] EXCEPT !.todo = job'[c].todo, !.saved = B!Over(r, job[c].saved),
                                        !.took = B!Over(r, job[c].took)]
            /\ job[c].phase = "save" /\ UNCHANGED <<level, file, kept, clean>>
      <4>1. PICK d \in B!First(job[c].todo) :
              LET reading == [e \in {d} \intersect attached |-> level[d]]
              IN  job' = [job EXCEPT ![c].todo = @ \ {d}, ![c].saved = B!Over(reading, @),
                                     ![c].took = B!Over(reading, @)]
        BY <2>11 DEF B!Save
      <4> DEFINE r == [e \in {d} \intersect attached |-> level[d]]
      <4>2. job' = [job EXCEPT ![c].todo = @ \ {d}, ![c].saved = B!Over(r, @), ![c].took = B!Over(r, @)]
        BY <4>1
      <4> HIDE DEF r
      <4>3. job'[c] = [job[c] EXCEPT !.todo = job[c].todo \ {d}, !.saved = B!Over(r, job[c].saved),
                                     !.took = B!Over(r, job[c].took)]
        BY <1>2, <4>2
      <4>4. job'[c].todo = job[c].todo \ {d}
        BY <1>2, <4>3 DEF Settings
      <4> QED
        BY <2>11, <4>3, <4>4 DEF B!Save, B!Working
    <3>2. /\ job'[c].phase = "save" /\ job'[c].op = job[c].op
          /\ job'[c].saved = B!Over(r, job[c].saved) /\ job'[c].took = B!Over(r, job[c].took)
      BY <1>2, <3>1 DEF Settings
    <3>3. SavesExtend'
      <4>1. job[c].saved = B!Over(job[c].took, kept) => job'[c].saved = B!Over(job'[c].took, kept)
        BY <3>2, OverAssociates
      <4> QED
        BY <2>1, <3>1, <3>2, <4>1, <1>2 DEF SavesExtend
    <3> QED
      BY <1>2, <2>1, <3>1, <3>2, <3>3 DEF FileIsKept, RestoresFollow, Restored
  <2>12. CASE B!Create(c)
    <3>1. /\ job'[c].saved = job[c].saved /\ job'[c].took = job[c].took /\ job'[c].phase = "flush"
          /\ job'[c].op = job[c].op /\ job[c].phase = "save" /\ UNCHANGED <<level, kept, clean>>
      BY <1>2, <2>12 DEF B!Create, B!Goes
    <3> QED
      BY <1>2, <2>1, <3>1 DEF FileIsKept, SavesExtend, RestoresFollow, Restored
  <2>13. CASE B!Flush(c)
    <3>1. /\ job[c].phase = "flush" /\ job'[c].phase = "idle" /\ file' = job[c].saved
          /\ kept' = IF c \in clean THEN B!Over(job[c].took, kept) ELSE file'
      BY <2>2, <2>13 DEF B!Flush
    <3>2. job[c].op = "save"
      BY <3>1 DEF PhasesFit
    <3>3. file' = kept'
      BY <3>1, <3>2 DEF SavesExtend
    <3>4. clean' \subseteq clean /\ \A e \in clean' : e = c \/ job[e].op \notin {"save", "restore"}
      BY <2>13, OthersAreDisturbed DEF B!Flush
    <3>5. \A e \in clean' : job'[e].phase \notin {"save", "flush", "restore", "restored"}
                           /\ (job'[e].op = "save" => job'[e].phase # "list")
      BY <1>2, <2>1, <3>1, <3>4 DEF PhasesFit
    <3> QED
      BY <3>3, <3>5 DEF FileIsKept, SavesExtend, RestoresFollow
  <2>14. CASE B!Restore(c)
    <3>1. CASE B!Return(c) /\ UNCHANGED <<level, clean>>
      BY <1>4, <2>1, <2>2, <2>14, <3>1 DEF B!Restore
    <3>2. ASSUME NEW d \in DOMAIN job[c].saved, d \in attached, B!applyTo(c, d, job[c].saved[d]),
                 NEW phase \in {"restore", "restored"}, B!Goes(c, phase, job[c].todo \union {d})
          PROVE  FileIsKept' /\ SavesExtend' /\ RestoresFollow'
      <4>1. /\ job'[c].phase \in {"restore", "restored"} /\ job'[c].todo = job[c].todo \union {d}
            /\ job'[c].saved = job[c].saved
        BY <1>2, <3>2 DEF B!Goes
      <4>2. UNCHANGED <<file, kept>> /\ job[c].phase = "restore"
        BY <2>14 DEF B!Restore
      <4>3. clean' \subseteq clean /\ \A e \in clean' \ {c} : job[e].phase \notin {"restore", "restored"}
        BY <2>4, <3>2
      <4>4. FileIsKept' /\ SavesExtend'
        BY <1>2, <2>1, <4>1, <4>2, <4>3 DEF FileIsKept, SavesExtend
      <4>5. c \in clean => job[c].saved = kept /\ \A e \in job[c].todo : e \in DOMAIN kept /\ Restored(e, kept[e])
        BY <4>2 DEF RestoresFollow
      <4>6. level' = [level EXCEPT ![d] = B!Clamp(IF d = B!Panel THEN 1 ELSE 0, job[c].saved[d])]
        BY <3>2 DEF B!applyTo
      <4>7. level \in [B!Names -> 0..100] /\ d \in B!Names
        BY <3>2 DEF BrightnessTyped
      <4>8. c \in clean => \A e \in job'[c].todo : e \in DOMAIN kept /\ Restored(e, kept[e])'
        <5>1. SUFFICES ASSUME c \in clean, NEW e \in job'[c].todo
                       PROVE  e \in DOMAIN kept /\ level'[e] = B!Clamp(IF e = B!Panel THEN 1 ELSE 0, kept[e])
          BY <4>2 DEF Restored
        <5>2. CASE e = d
          BY <3>2, <4>5, <4>6, <4>7, <5>1, <5>2
        <5>3. CASE e # d
          <6>1. e \in job[c].todo
            BY <4>1, <5>3
          <6>2. level'[e] = level[e]
            BY <4>6, <4>7, <5>3
          <6> QED
            BY <4>5, <5>1, <6>1, <6>2 DEF Restored
        <5> QED
          BY <5>2, <5>3
      <4>9. RestoresFollow'
        BY <1>3, <2>1, <4>1, <4>2, <4>3, <4>5, <4>8 DEF RestoresFollow
      <4> QED
        BY <4>4, <4>9
    <3> QED
      BY <2>14, <3>1, <3>2 DEF B!Restore
  <2>15. CASE B!Reply(c)
    BY <1>4, <2>1, <2>2, <2>15 DEF B!Reply
  <2> QED
    BY <1>5, <2>5, <2>6, <2>7, <2>8, <2>9, <2>10, <2>11, <2>12, <2>13, <2>14, <2>15 DEF B!Request
<1>6. ASSUME NEW d \in B!Names, B!Plug(d) PROVE FileIsKept' /\ SavesExtend' /\ RestoresFollow'
  BY <1>6 DEF B!Plug, FileIsKept, SavesExtend, RestoresFollow, Restored
<1> QED
  BY <1>1, <1>5, <1>6 DEF B!Next

\* The invariant holds at the start.
LEMMA BrightnessStarts == ASSUME PartsAssumption, B!Init PROVE BrightnessInv
<1>1. BrightnessTyped
  <2>1. Values \subseteq 0..100
    BY DEF PartsAssumption, B!BrightnessAssumption
  <2>2. file \in Levels /\ kept \in Levels
    <3>1. \A v \in Values : [d \in B!Names |-> v] \in Levels
      BY <2>1, LevelsAre
    <3> QED
      BY <3>1, NoLevels DEF B!Init
  <2>3. B!Idle \in Settings
    BY NoLevels DEF B!Idle, Settings, B!Phases, B!Operations
  <2> QED
    BY <2>1, <2>2, <2>3 DEF B!Init, BrightnessTyped
<1>2. \A c \in Clients : job[c] = B!Idle
  BY DEF B!Init
<1> QED
  BY <1>1, <1>2 DEF B!Init, B!Idle, BrightnessInv, PhasesFit, FileIsKept, SavesExtend, RestoresFollow

\* The invariant implies the property.
LEMMA BrightnessKeepsItsWord == ASSUME BrightnessInv PROVE B!RestoreBringsBack
<1> SUFFICES ASSUME NEW c \in clean, job[c].op = "restore", job[c].phase = "restored",
                    NEW d \in DOMAIN kept, job[c].name \in {B!All, d}
             PROVE  Restored(d, kept[d])
  BY DEF B!RestoreBringsBack, Restored
<1>1. job[c].saved = kept /\ \A e \in job[c].todo : Restored(e, kept[e])
  BY DEF BrightnessInv, RestoresFollow
<1>2. c \in Clients
  BY DEF BrightnessInv, BrightnessTyped
<1>3. d \in job[c].todo
  BY <1>1, <1>2 DEF BrightnessInv, PhasesFit
<1> QED
  BY <1>1, <1>3

\* The invariant of the brightness requests holds in every state.
LEMMA BrightnessHolds == Spec => [](part = "brightness" => BrightnessInv)
<1> DEFINE Inv == part = "brightness" => BrightnessInv
<1>1. Init => Inv
  BY PartsAssumption, BrightnessStarts DEF Init
<1>2. Inv /\ [Next]_allVars => Inv'
  <2>1. ASSUME BrightnessInv, [B!Next]_(B!vars) PROVE BrightnessInv'
    <3>1. CASE B!Next
      BY <2>1, <3>1, PartsAssumption, BrightnessStays
    <3>2. CASE UNCHANGED B!vars
      BY <2>1, <3>2 DEF B!vars, BrightnessInv, BrightnessTyped, PhasesFit, FileIsKept, SavesExtend, RestoresFollow, Restored
    <3> QED
      BY <2>1, <3>1, <3>2
  <2> QED
    BY <2>1, OnePartSteps
<1> QED
  BY <1>1, <1>2, PTL DEF Spec

\* For any displays, values and connections: when a restore that nobody has
\* disturbed is done, every display it is about has the level that was saved
\* last, within the bounds the display allows.
THEOREM RestoreIsFaithful == Spec => []RestoreBringsBack
<1>1. (part = "brightness" => BrightnessInv) => RestoreBringsBack
  BY BrightnessKeepsItsWord DEF RestoreBringsBack
<1> QED
  BY <1>1, BrightnessHolds, PTL

----------------------------------------------------------------------------
(* KeymonMonitor *)

\* What the readers take, and the callers of SetBinds.
Taken == [key : K!AllKeys, press : BOOLEAN, at : Nat, clean : BOOLEAN]
Openers == [phase : {"idle", "opening"}, left : SUBSET Inputs, opened : SUBSET Inputs, failed : SUBSET Inputs]

MonitorTyped ==
    /\ K!TypeOK
    /\ caller \in [Clients -> Openers]
    /\ inbox \in [Clients \X Inputs -> Seq(Taken)]
    /\ running \in Seq(Nat) /\ events \in Nat
    /\ tap \in [Modifiers -> BOOLEAN]
    /\ mistaken \in BOOLEAN /\ overlap \in BOOLEAN

\* One caller opens the devices, once: a device has one reader.
OneOpens ==
    /\ \A c \in Clients, b \in Clients :
         caller[c].phase = "opening" /\ caller[b].phase = "opening" => c = b
    /\ \A c \in Clients : caller[c].phase = "opening" =>
         /\ ~open /\ caller[c].left \cap caller[c].opened = {}
         /\ \A r \in readers : r[2] \in caller[c].opened
    /\ ~open /\ (\A c \in Clients : caller[c].phase # "opening") => readers = {}
    /\ \A r \in readers, s \in readers : r[2] = s[2] => r = s

\* An event is in one place: in one inbox, at one position, or taken.
ReadOnce ==
    /\ \A i \in DOMAIN running : running[i] < events
    /\ \A r \in readers : \A i \in DOMAIN inbox[r] :
         /\ inbox[r][i].key \in KeysOf[r[2]] /\ inbox[r][i].at < events
         /\ \A j \in DOMAIN running : running[j] # inbox[r][i].at
    /\ \A r \in readers, s \in readers : \A i \in DOMAIN inbox[r], j \in DOMAIN inbox[s] :
         inbox[r][i].at = inbox[s][j].at => r = s /\ i = j

\* A modifier is down by the word of a reader that still runs.
HeldAreRead ==
    /\ machine.candidate => machine.modifiers # {}
    /\ \A k \in machine.modifiers : \A d \in Inputs : k \in KeysOf[d] => \E r \in readers : r[2] = d

\* No press, and nothing of key k, from m to n in q.
Quiet(q, k, m, n) == \A l \in m..n : ~q[l].press /\ q[l].key # k

\* For the machine k, pressed last, is down alone.
Unsullied(k) == machine.candidate /\ k \in machine.modifiers /\ k \in latest

\* When the reader of q comes to position i, k will be down alone as far as
\* its device is concerned; now is whether it is down alone now.
Alone(now, q, k, i) ==
    \/ \E j \in 1..(i - 1) : q[j].press /\ q[j].key = k /\ Quiet(q, k, j + 1, i - 1)
    \/ now /\ Quiet(q, k, 1, i - 1)

\* The machine and the events it has not taken agree with the keyboard.
CleanTaps ==
    \A r \in readers : \A k \in Modifiers \cap KeysOf[r[2]] :
      /\ \A i \in DOMAIN inbox[r] :
           inbox[r][i].key = k /\ ~inbox[r][i].press /\ Alone(Unsullied(k), inbox[r], k, i)
             => inbox[r][i].clean
      /\ Alone(Unsullied(k), inbox[r], k, Len(inbox[r]) + 1) => tap[k]

MonitorInv ==
    /\ MonitorTyped
    /\ overlap \/ (~mistaken /\ OneOpens /\ ReadOnce /\ HeldAreRead /\ CleanTaps)

\* A sequence with one more element.
LEMMA OneMore ==
    ASSUME NEW S, NEW q \in Seq(S), NEW e \in S
    PROVE  /\ Append(q, e) \in Seq(S) /\ Len(q) \in Nat /\ Len(Append(q, e)) = Len(q) + 1
           /\ DOMAIN q = 1..Len(q) /\ DOMAIN Append(q, e) = 1..(Len(q) + 1)
           /\ Append(q, e)[Len(q) + 1] = e
           /\ \A i \in 1..Len(q) : Append(q, e)[i] = q[i]
OBVIOUS

\* A function with one value replaced.
LEMMA OneReplaced ==
    ASSUME NEW D, NEW T, NEW f \in [D -> T], NEW x, NEW v \in T PROVE [f EXCEPT ![x] = v] \in [D -> T]
OBVIOUS

\* What taking the next event does to the inboxes.
LEMMA ReadTakes ==
    ASSUME MonitorTyped, NEW r \in Clients \X Inputs, K!Read(r)
    PROVE  LET q == inbox[r]
           IN  /\ r \in readers /\ q \in Seq(Taken) /\ Len(q) \in Nat /\ 1 \in DOMAIN q
               /\ DOMAIN q = 1..Len(q) /\ Head(q) = q[1]
               /\ inbox'[r] \in Seq(Taken) /\ Len(inbox'[r]) = Len(q) - 1
               /\ DOMAIN inbox'[r] = 1..(Len(q) - 1)
               /\ \A i \in 1..(Len(q) - 1) : inbox'[r][i] = q[i + 1]
               /\ \A s \in Clients \X Inputs : s # r => inbox'[s] = inbox[s]
<1> DEFINE q == inbox[r]
<1>1. q \in Seq(Taken) /\ q # << >> /\ r \in readers /\ inbox' = [inbox EXCEPT ![r] = Tail(q)]
  BY DEF MonitorTyped, K!Read
<1>2. inbox'[r] = Tail(q) /\ \A s \in Clients \X Inputs : s # r => inbox'[s] = inbox[s]
  BY <1>1 DEF MonitorTyped
<1> HIDE DEF q
<1>3. /\ Tail(q) \in Seq(Taken) /\ Len(q) \in Nat \ {0} /\ DOMAIN q = 1..Len(q) /\ Head(q) = q[1]
      /\ Len(Tail(q)) = Len(q) - 1 /\ DOMAIN Tail(q) = 1..(Len(q) - 1)
      /\ \A i \in 1..(Len(q) - 1) : Tail(q)[i] = q[i + 1]
  BY <1>1
<1>4. 1 \in 1..Len(q)
  BY <1>3
<1> QED
  BY <1>1, <1>2, <1>3, <1>4 DEF q

\* What an event of a device does to the inboxes.
LEMMA EventReaches ==
    ASSUME PartsAssumption, MonitorTyped, NEW d \in Inputs, K!Event(d)
    PROVE  \E e \in Taken :
             /\ e.key \in KeysOf[d] /\ e.at = events /\ events' = events + 1
             /\ e.clean = (e.key \in Modifiers /\ ~e.press /\ tap[e.key])
             /\ tap' = [m \in Modifiers |-> IF m = e.key THEN e.press
                                            ELSE tap[m] /\ ~(e.press /\ m \in KeysOf[d])]
             /\ \A r \in Clients \X Inputs :
                  inbox'[r] = IF r \in readers /\ r[2] = d THEN Append(inbox[r], e) ELSE inbox[r]
<1>1. PICK k \in KeysOf[d] :
        LET press == k \notin down
            e == [key |-> k, press |-> press, at |-> events, clean |-> k \in Modifiers /\ ~press /\ tap[k]]
        IN  /\ tap' = [m \in Modifiers |-> IF m = k THEN press ELSE tap[m] /\ ~(press /\ m \in KeysOf[d])]
            /\ inbox' = [r \in DOMAIN inbox |->
                           IF r \in readers /\ r[2] = d THEN Append(inbox[r], e) ELSE inbox[r]]
  BY DEF K!Event
<1> DEFINE press == k \notin down
           clean_ == k \in Modifiers /\ ~press /\ tap[k]
           e == [key |-> k, press |-> press, at |-> events, clean |-> clean_]
<1>2. k \in K!AllKeys /\ events \in Nat /\ press \in BOOLEAN /\ clean_ \in BOOLEAN
  BY DEF MonitorTyped, K!AllKeys
<1> HIDE DEF clean_, press
<1>3. e \in Taken /\ e.key = k /\ e.press = press /\ e.at = events /\ e.clean = clean_
  BY <1>2 DEF Taken
<1>4. /\ tap' = [m \in Modifiers |-> IF m = k THEN press ELSE tap[m] /\ ~(press /\ m \in KeysOf[d])]
      /\ inbox' = [r \in DOMAIN inbox |->
                           IF r \in readers /\ r[2] = d THEN Append(inbox[r], e) ELSE inbox[r]]
  BY <1>1 DEF press, clean_
<1>5. events' = events + 1 /\ DOMAIN inbox = Clients \X Inputs
  BY DEF K!Event, MonitorTyped
<1>6. e.clean = (e.key \in Modifiers /\ ~e.press /\ tap[e.key])
  BY <1>3 DEF clean_
<1> HIDE DEF e
<1> QED
  BY <1>3, <1>4, <1>5, <1>6

\* Taking an event keeps the machine's type.
LEMMA ProcessTyped ==
    ASSUME K!TypeOK, NEW k \in K!AllKeys, NEW press \in BOOLEAN
    PROVE  /\ K!Process(machine, k, press).fires \in BOOLEAN
           /\ K!Process(machine, k, press).machine \in
                [held : SUBSET (K!AllKeys \ Modifiers), modifiers : SUBSET Modifiers, candidate : BOOLEAN]
<1> DEFINE last == k \in Modifiers /\ ~press /\ machine.candidate /\ machine.modifiers \subseteq {k}
           mods == IF press THEN machine.modifiers \union {k} ELSE machine.modifiers \ {k}
           keys == IF press THEN machine.held \union {k} ELSE machine.held \ {k}
           armed_ == IF press THEN machine.candidate \/ machine.held = {} ELSE machine.candidate /\ ~last
           quiet == machine.candidate /\ ~press
<1>1. machine \in [held : SUBSET (K!AllKeys \ Modifiers), modifiers : SUBSET Modifiers, candidate : BOOLEAN]
  BY DEF K!TypeOK
<1>2. K!Process(machine, k, press).fires = last
  BY DEF K!Process
<1>3. K!Process(machine, k, press).machine =
        IF k \in Modifiers THEN [machine EXCEPT !.modifiers = mods, !.candidate = armed_]
                           ELSE [machine EXCEPT !.held = keys, !.candidate = quiet]
  BY DEF K!Process
<1>4. machine.candidate \in BOOLEAN /\ last \in BOOLEAN /\ armed_ \in BOOLEAN /\ quiet \in BOOLEAN
  BY <1>1
<1>5. k \in Modifiers => mods \in SUBSET Modifiers
  BY <1>1
<1>6. k \notin Modifiers => keys \in SUBSET (K!AllKeys \ Modifiers)
  BY <1>1
<1> HIDE DEF last, mods, keys, armed_, quiet
<1> QED
  BY <1>1, <1>2, <1>3, <1>4, <1>5, <1>6

\* Every step keeps the types.
LEMMA MonitorTypes ==
    ASSUME PartsAssumption, MonitorTyped, K!Next PROVE MonitorTyped'
<1> USE DEF MonitorTyped, K!bindVars, K!historyVars
<1>0. /\ binds \subseteq Modifiers /\ open \in BOOLEAN /\ listed \subseteq Inputs /\ failing \subseteq Inputs
      /\ machine \in [held : SUBSET (K!AllKeys \ Modifiers), modifiers : SUBSET Modifiers, candidate : BOOLEAN]
      /\ readers \subseteq Clients \X Inputs
      /\ \A c \in Clients : caller[c].phase = "idle" => caller[c] = K!Idle
      /\ down \subseteq K!AllKeys /\ latest \subseteq Modifiers
  BY DEF K!TypeOK
<1>1. K!Idle \in Openers
  BY DEF K!Idle, Openers
<1>2. ASSUME NEW c \in Clients, K!SetBinds(c) PROVE MonitorTyped'
  <2>1. PICK group \in SUBSET Modifiers :
          /\ binds' = group
          /\ caller' = [caller EXCEPT ![c] = IF ~open /\ group # {}
                          THEN [K!Idle EXCEPT !.phase = "opening", !.left = Inputs] ELSE K!Idle]
    BY <1>2 DEF K!SetBinds
  <2>2. [K!Idle EXCEPT !.phase = "opening", !.left = Inputs] \in Openers
        /\ [K!Idle EXCEPT !.phase = "opening", !.left = Inputs].phase = "opening"
    BY DEF K!Idle, Openers
  <2>3. caller' \in [Clients -> Openers] /\ \A b \in Clients : caller'[b].phase = "idle" => caller'[b] = K!Idle
    BY <1>0, <1>1, <2>1, <2>2
  <2>4. overlap' \in BOOLEAN
    BY <1>2 DEF K!SetBinds
  <2> QED
    BY <1>0, <1>2, <2>1, <2>3, <2>4 DEF K!SetBinds, K!TypeOK
<1>3. ASSUME NEW c \in Clients, K!NoteOpened(c) PROVE MonitorTyped'
  <2>1. caller[c] \in Openers
    OBVIOUS
  <2>2. caller' = [caller EXCEPT ![c] = K!Idle] /\ open' \in BOOLEAN
        /\ failing' \subseteq Inputs /\ listed' \subseteq Inputs
    BY <1>0, <1>3, <2>1 DEF K!NoteOpened, K!Opened, Openers
  <2>3. caller' \in [Clients -> Openers] /\ \A b \in Clients : caller'[b].phase = "idle" => caller'[b] = K!Idle
    BY <1>0, <1>1, <2>2
  <2> QED
    BY <1>0, <1>3, <2>2, <2>3 DEF K!NoteOpened, K!TypeOK
<1>4. ASSUME NEW c \in Clients, NEW d \in Inputs, K!OpenDevice(c, d) PROVE MonitorTyped'
  <2>1. PICK j : /\ caller' = [caller EXCEPT ![c] = j] /\ j \in Openers /\ j.phase = "opening"
    <3>1. caller[c] \in Openers /\ caller[c].phase = "opening"
      BY <1>4 DEF K!OpenDevice
    <3>2. \/ caller' = [caller EXCEPT ![c] = [caller[c] EXCEPT !.left = @ \ {d}, !.opened = @ \union {d}]]
          \/ caller' = [caller EXCEPT ![c] = [caller[c] EXCEPT !.left = @ \ {d}, !.failed = @ \union {d}]]
      BY <1>4 DEF K!OpenDevice
    <3>3. /\ [caller[c] EXCEPT !.left = @ \ {d}, !.opened = @ \union {d}] \in Openers
          /\ [caller[c] EXCEPT !.left = @ \ {d}, !.failed = @ \union {d}] \in Openers
          /\ [caller[c] EXCEPT !.left = @ \ {d}, !.opened = @ \union {d}].phase = "opening"
          /\ [caller[c] EXCEPT !.left = @ \ {d}, !.failed = @ \union {d}].phase = "opening"
      BY <3>1 DEF Openers
    <3> QED
      BY <3>2, <3>3
  <2>2. caller' \in [Clients -> Openers] /\ \A b \in Clients : caller'[b].phase = "idle" => caller'[b] = K!Idle
    BY <1>0, <2>1
  <2>3. inbox' \in [Clients \X Inputs -> Seq(Taken)] /\ readers' \subseteq Clients \X Inputs
    <3>1. << >> \in Seq(Taken)
      OBVIOUS
    <3>2. \/ UNCHANGED <<readers, inbox>>
          \/ readers' = readers \union {<<c, d>>} /\ inbox' = [inbox EXCEPT ![<<c, d>>] = << >>]
      BY <1>4 DEF K!OpenDevice
    <3>3. <<c, d>> \in Clients \X Inputs
      OBVIOUS
    <3>4. [inbox EXCEPT ![<<c, d>>] = << >>] \in [Clients \X Inputs -> Seq(Taken)]
      BY <3>1, OneReplaced
    <3> QED
      BY <1>0, <3>2, <3>3, <3>4
  <2> QED
    BY <1>0, <1>4, <2>2, <2>3 DEF K!OpenDevice, K!TypeOK
<1>5. ASSUME NEW r \in Clients \X Inputs, K!Read(r) PROVE MonitorTyped'
  <2> DEFINE e == inbox[r][1]
  <2>1. Head(inbox[r]) = e /\ e \in Taken /\ inbox[r] \in Seq(Taken) /\ inbox[r] # << >>
    BY <1>5, ReadTakes DEF K!Read
  <2>2. e.key \in K!AllKeys /\ e.press \in BOOLEAN /\ e.at \in Nat
    BY <2>1 DEF Taken
  <2>3. inbox' \in [Clients \X Inputs -> Seq(Taken)]
    BY <1>5, <2>1 DEF K!Read
  <2>4. machine' \in [held : SUBSET (K!AllKeys \ Modifiers), modifiers : SUBSET Modifiers, candidate : BOOLEAN]
    BY <1>5, <2>1, <2>2, ProcessTyped DEF K!Read
  <2>5. running' \in Seq(Nat)
    <3>1. running' \in {running, Append(running, e.at)}
      BY <1>5, <2>1 DEF K!Read
    <3>2. Append(running, e.at) \in Seq(Nat)
      BY <2>2, OneMore
    <3> QED
      BY <3>1, <3>2
  <2>6. mistaken' \in BOOLEAN
    BY <1>5 DEF K!Read
  <2>7. latest' \subseteq Modifiers
    BY <1>0, <1>5 DEF K!Read
  <2> QED
    BY <1>0, <1>5, <2>3, <2>4, <2>5, <2>6, <2>7 DEF K!Read, K!TypeOK
<1>6. ASSUME NEW r \in Clients \X Inputs, K!ReadFails(r) PROVE MonitorTyped'
  <2>1. K!Blank \in [held : SUBSET (K!AllKeys \ Modifiers), modifiers : SUBSET Modifiers, candidate : BOOLEAN]
    BY DEF K!Blank
  <2>2. r[2] \in Inputs
    OBVIOUS
  <2> QED
    BY <1>0, <1>6, <2>1, <2>2 DEF K!ReadFails, K!TypeOK
<1>7. ASSUME NEW d \in Inputs, K!Event(d) PROVE MonitorTyped'
  <2>1. PICK e \in Taken :
             /\ tap' = [m \in Modifiers |-> IF m = e.key THEN e.press
                                            ELSE tap[m] /\ ~(e.press /\ m \in KeysOf[d])]
             /\ \A r \in Clients \X Inputs :
                  inbox'[r] = IF r \in readers /\ r[2] = d THEN Append(inbox[r], e) ELSE inbox[r]
    BY <1>7, EventReaches
  <2>2. tap' \in [Modifiers -> BOOLEAN]
    BY <2>1 DEF Taken
  <2>3. \A r \in Clients \X Inputs : inbox'[r] \in Seq(Taken)
    <3>1. TAKE r \in Clients \X Inputs
    <3>2. inbox[r] \in Seq(Taken)
      OBVIOUS
    <3>3. Append(inbox[r], e) \in Seq(Taken)
      BY <3>2, OneMore
    <3> QED
      BY <2>1, <3>2, <3>3
  <2>4. DOMAIN inbox' = Clients \X Inputs /\ inbox' = [r \in DOMAIN inbox' |-> inbox'[r]]
    BY <1>7 DEF K!Event
  <2>5. inbox' \in [Clients \X Inputs -> Seq(Taken)]
    BY <2>3, <2>4
  <2>6. down' \subseteq K!AllKeys
    BY <1>0, <1>7 DEF K!Event, K!AllKeys
  <2> QED
    BY <1>0, <1>7, <2>2, <2>5, <2>6 DEF K!Event, K!TypeOK
<1>8. ASSUME NEW d \in Inputs, K!Unplug(d) PROVE MonitorTyped'
  BY <1>0, <1>8 DEF K!Unplug, K!TypeOK
<1> QED
  BY <1>2, <1>3, <1>4, <1>5, <1>6, <1>7, <1>8 DEF K!Next

\* What was overlapped stays so.
LEMMA OverlapStays == ASSUME K!Next, overlap PROVE overlap'
BY DEF K!Next, K!SetBinds, K!NoteOpened, K!OpenDevice, K!Read, K!ReadFails, K!Event, K!Unplug, K!historyVars

\* One caller at a time opens the devices.
LEMMA OneOpensStays ==
    ASSUME MonitorTyped, OneOpens, K!Next, ~overlap' PROVE OneOpens'
<1> USE DEF K!bindVars, K!historyVars
<1>0. /\ caller \in [Clients -> Openers] /\ readers \subseteq Clients \X Inputs /\ open \in BOOLEAN
      /\ K!Idle.phase = "idle"
  BY DEF MonitorTyped, K!TypeOK, K!Idle
<1>1. ASSUME NEW c \in Clients, K!SetBinds(c) PROVE OneOpens'
  <2>1. PICK group \in SUBSET Modifiers :
          caller' = [caller EXCEPT ![c] = IF ~open /\ group # {}
                          THEN [K!Idle EXCEPT !.phase = "opening", !.left = Inputs] ELSE K!Idle]
    BY <1>1 DEF K!SetBinds
  <2>2. caller[c].phase = "idle" /\ UNCHANGED <<open, readers>>
    BY <1>1 DEF K!SetBinds
  <2>3. CASE ~open /\ group # {}
    <3>1. /\ caller'[c].phase = "opening" /\ caller'[c].opened = {}
          /\ \A b \in Clients : b # c => caller'[b] = caller[b]
      BY <1>0, <2>1, <2>3 DEF K!Idle
    <3>2. \A b \in Clients : caller[b].phase # "opening"
      BY <1>1, <2>2, <3>1 DEF K!SetBinds
    <3>3. readers' = {}
      BY <2>2, <2>3, <3>2 DEF OneOpens
    <3> QED
      BY <2>2, <2>3, <3>1, <3>2, <3>3 DEF OneOpens
  <2>4. CASE ~(~open /\ group # {})
    <3>1. caller'[c].phase = "idle" /\ \A b \in Clients : b # c => caller'[b] = caller[b]
      BY <1>0, <2>1, <2>4
    <3> QED
      BY <2>2, <3>1 DEF OneOpens
  <2> QED
    BY <2>3, <2>4
<1>2. ASSUME NEW c \in Clients, K!NoteOpened(c) PROVE OneOpens'
  <2>1. /\ caller[c].phase = "opening" /\ open' = (open \/ caller[c].opened # {})
        /\ caller' = [caller EXCEPT ![c] = K!Idle] /\ UNCHANGED readers
    BY <1>2 DEF K!NoteOpened, K!Opened
  <2>2. \A b \in Clients : caller'[b].phase # "opening"
    BY <1>0, <2>1 DEF OneOpens
  <2>3. ~open' => readers' = {}
    BY <2>1 DEF OneOpens
  <2> QED
    BY <2>1, <2>2, <2>3 DEF OneOpens
<1>3. ASSUME NEW c \in Clients, NEW d \in Inputs, K!OpenDevice(c, d) PROVE OneOpens'
  <2>1. caller[c].phase = "opening" /\ d \in caller[c].left /\ UNCHANGED open /\ caller[c] \in Openers
    BY <1>0, <1>3 DEF K!OpenDevice
  <2>2. /\ caller'[c].phase = "opening" /\ caller'[c].left = caller[c].left \ {d}
        /\ caller[c].opened \subseteq caller'[c].opened
        /\ caller'[c].opened \subseteq caller[c].opened \union {d}
        /\ \A b \in Clients : b # c => caller'[b] = caller[b]
        /\ \/ UNCHANGED readers
           \/ readers' = readers \union {<<c, d>>} /\ d \in caller'[c].opened
    BY <1>0, <1>3, <2>1 DEF K!OpenDevice, Openers
  <2>3. \A r \in readers : r[2] \in caller[c].opened /\ r[2] # d
    BY <2>1 DEF OneOpens
  <2>4. \A b \in Clients : b # c => caller'[b].phase # "opening"
    BY <2>1, <2>2 DEF OneOpens
  <2>5. \A r \in readers', s \in readers' : r[2] = s[2] => r = s
    BY <2>2, <2>3 DEF OneOpens
  <2>6. \A r \in readers' : r[2] \in caller'[c].opened
    BY <2>2, <2>3
  <2>7. ~open' /\ caller'[c].left \cap caller'[c].opened = {}
    BY <2>1, <2>2 DEF OneOpens
  <2> QED
    BY <2>2, <2>4, <2>5, <2>6, <2>7 DEF OneOpens
<1>4. ASSUME UNCHANGED <<caller, open>>, readers' \subseteq readers PROVE OneOpens'
  BY <1>4 DEF OneOpens
<1>5. ASSUME NEW r \in Clients \X Inputs, K!Read(r) \/ K!ReadFails(r) PROVE OneOpens'
  BY <1>4, <1>5 DEF K!Read, K!ReadFails
<1>6. ASSUME NEW d \in Inputs, K!Event(d) \/ K!Unplug(d) PROVE OneOpens'
  BY <1>4, <1>6 DEF K!Event, K!Unplug
<1> QED
  BY <1>1, <1>2, <1>3, <1>5, <1>6 DEF K!Next

\* For a key of its own the machine takes k to be alone only when it reads
\* its press; for another key, only if it did before and nothing is pressed.
LEMMA UnsulliedStays ==
    ASSUME MonitorTyped, NEW r \in Clients \X Inputs, K!Read(r), NEW k \in Modifiers, Unsullied(k)'
    PROVE  LET e == inbox[r][1]
           IN  \/ e.key = k /\ e.press
               \/ e.key # k /\ ~e.press /\ Unsullied(k)
<1> DEFINE e == inbox[r][1]
<1>1. Head(inbox[r]) = e /\ e \in Taken
  BY ReadTakes
<1>2. /\ machine' = K!Process(machine, e.key, e.press).machine
      /\ latest' = IF e.press /\ e.key \in Modifiers THEN {e.key} ELSE latest
  BY <1>1 DEF K!Read
<1>3. machine \in [held : SUBSET (K!AllKeys \ Modifiers), modifiers : SUBSET Modifiers, candidate : BOOLEAN]
  BY DEF MonitorTyped, K!TypeOK
<1>4. e.press \in BOOLEAN
  BY <1>1 DEF Taken
<1> HIDE DEF e
<1>5. CASE e.key \in Modifiers
  <2>1. machine'.modifiers = IF e.press THEN machine.modifiers \union {e.key} ELSE machine.modifiers \ {e.key}
    BY <1>2, <1>3, <1>5 DEF K!Process
  <2>2. ~e.press /\ machine'.candidate => machine.candidate
    BY <1>2, <1>3, <1>4, <1>5 DEF K!Process
  <2> QED
    BY <1>2, <1>4, <1>5, <2>1, <2>2 DEF Unsullied, e
<1>6. CASE e.key \notin Modifiers
  <2>1. machine'.modifiers = machine.modifiers /\ (machine'.candidate => machine.candidate /\ ~e.press)
    BY <1>2, <1>3, <1>4, <1>6 DEF K!Process
  <2> QED
    BY <1>2, <1>4, <1>6, <2>1 DEF Unsullied, e
<1> QED
  BY <1>5, <1>6

\* What the machine and the list of runs are after an event was taken.
LEMMA ReadProcesses ==
    ASSUME MonitorTyped, NEW r \in Clients \X Inputs, K!Read(r)
    PROVE  LET e == inbox[r][1]
               runs == /\ e.key \in Modifiers /\ ~e.press /\ machine.candidate
                       /\ machine.modifiers \subseteq {e.key} /\ e.key \in binds
           IN  /\ e \in Taken
               /\ machine'.modifiers \subseteq machine.modifiers \union {e.key}
               /\ (machine.candidate => machine.modifiers # {}) =>
                    (machine'.candidate => machine'.modifiers # {})
               /\ running' = IF runs THEN Append(running, e.at) ELSE running
               /\ mistaken' => \/ mistaken
                               \/ runs /\ e.key \in latest /\ ~e.clean
                               \/ \E i \in DOMAIN running : running[i] = e.at
<1> DEFINE e == inbox[r][1]
           fires == /\ e.key \in Modifiers /\ ~e.press /\ machine.candidate
                    /\ machine.modifiers \subseteq {e.key}
           step == K!Process(machine, e.key, e.press)
<1>1. Head(inbox[r]) = e /\ e \in Taken
  BY ReadTakes
<1>2. /\ machine' = step.machine
      /\ running' = IF step.fires /\ e.key \in binds THEN Append(running, e.at) ELSE running
      /\ mistaken' => \/ mistaken
                      \/ step.fires /\ e.key \in binds /\ ((e.key \in latest /\ ~e.clean) \/ e.at \in K!Range(running))
  <2>1. Head(inbox[r]) = e
    BY <1>1
  <2> HIDE DEF e
  <2> QED
    BY <2>1 DEF K!Read
<1>3. machine \in [held : SUBSET (K!AllKeys \ Modifiers), modifiers : SUBSET Modifiers, candidate : BOOLEAN]
  BY DEF MonitorTyped, K!TypeOK
<1>4. e.press \in BOOLEAN
  BY <1>1 DEF Taken
<1> HIDE DEF e
<1>5. step.fires = fires
  BY DEF K!Process
<1>6. machine'.modifiers \subseteq machine.modifiers \union {e.key}
  BY <1>2, <1>3, <1>4 DEF K!Process
<1>7. ASSUME machine.candidate => machine.modifiers # {}, machine'.candidate PROVE machine'.modifiers # {}
  <2>1. CASE e.key \in Modifiers /\ e.press
    BY <1>2, <1>3, <2>1 DEF K!Process
  <2>2. CASE e.key \in Modifiers /\ ~e.press
    <3>1. machine'.modifiers = machine.modifiers \ {e.key} /\ machine'.candidate = (machine.candidate /\ ~fires)
      BY <1>2, <1>3, <2>2 DEF K!Process
    <3>2. machine.candidate /\ ~fires
      BY <1>7, <3>1
    <3>3. ~(machine.modifiers \subseteq {e.key})
      BY <2>2, <3>2
    <3> QED
      BY <3>1, <3>3
  <2>3. CASE e.key \notin Modifiers
    BY <1>2, <1>3, <1>4, <1>7, <2>3 DEF K!Process
  <2> QED
    BY <1>4, <2>1, <2>2, <2>3
<1>8. e.at \in K!Range(running) => \E i \in DOMAIN running : running[i] = e.at
  BY DEF K!Range
<1> HIDE DEF step
<1> QED
  BY <1>1, <1>2, <1>5, <1>6, <1>7, <1>8 DEF e

\* A key belongs to one device.
LEMMA OneDevice ==
    ASSUME PartsAssumption, NEW d \in Inputs, NEW b \in Inputs, NEW k \in KeysOf[d], k \in KeysOf[b]
    PROVE  d = b
BY DEF PartsAssumption, K!MonitorAssumption

\* The modifiers that are down are those of running readers.
LEMMA HeldAreReadStays ==
    ASSUME PartsAssumption, MonitorTyped, ReadOnce, HeldAreRead, K!Next PROVE HeldAreRead'
<1> USE DEF K!bindVars, K!historyVars
<1>1. ASSUME UNCHANGED machine, readers \subseteq readers' PROVE HeldAreRead'
  BY <1>1 DEF HeldAreRead
<1>2. ASSUME NEW c \in Clients, K!SetBinds(c) \/ K!NoteOpened(c) \/ \E d \in Inputs : K!OpenDevice(c, d)
      PROVE  HeldAreRead'
  BY <1>1, <1>2 DEF K!SetBinds, K!NoteOpened, K!OpenDevice
<1>3. ASSUME NEW d \in Inputs, K!Event(d) \/ K!Unplug(d) PROVE HeldAreRead'
  BY <1>1, <1>3 DEF K!Event, K!Unplug
<1>4. ASSUME NEW r \in Clients \X Inputs, K!ReadFails(r) PROVE HeldAreRead'
  BY <1>4 DEF K!ReadFails, K!Blank, HeldAreRead
<1>5. ASSUME NEW r \in Clients \X Inputs, K!Read(r) PROVE HeldAreRead'
  <2> DEFINE e == inbox[r][1]
  <2>1. /\ machine'.modifiers \subseteq machine.modifiers \union {e.key}
        /\ machine'.candidate => machine'.modifiers # {}
    BY <1>5, ReadProcesses DEF HeldAreRead
  <2>2. r \in readers /\ e.key \in KeysOf[r[2]] /\ UNCHANGED readers /\ r[2] \in Inputs
    BY <1>5, ReadTakes DEF ReadOnce, K!Read
  <2> HIDE DEF e
  <2>3. ASSUME NEW k \in machine'.modifiers, NEW d \in Inputs, k \in KeysOf[d]
        PROVE  \E s \in readers' : s[2] = d
    <3>1. CASE k = e.key
      <4>1. r[2] = d
        BY <2>2, <2>3, <3>1, OneDevice
      <4> QED
        BY <2>2, <4>1
    <3>2. CASE k # e.key
      BY <2>1, <2>2, <2>3, <3>2 DEF HeldAreRead
    <3> QED
      BY <3>1, <3>2
  <2> QED
    BY <2>1, <2>3 DEF HeldAreRead
<1> QED
  BY <1>2, <1>3, <1>4, <1>5 DEF K!Next

\* No event is in two places.
LEMMA ReadOnceStays ==
    ASSUME PartsAssumption, MonitorTyped, OneOpens, ReadOnce, K!Next PROVE ReadOnce'
<1> USE DEF K!bindVars, K!historyVars
<1>0. /\ events \in Nat /\ running \in Seq(Nat) /\ readers \subseteq Clients \X Inputs
      /\ inbox \in [Clients \X Inputs -> Seq(Taken)]
      /\ \A r \in readers : \A i \in DOMAIN inbox[r] : inbox[r][i].at \in Nat
      /\ \A i \in DOMAIN running : running[i] \in Nat
  <2>1. ASSUME NEW r \in readers, NEW i \in DOMAIN inbox[r] PROVE inbox[r][i].at \in Nat
    <3>1. inbox[r] \in Seq(Taken)
      BY DEF MonitorTyped, K!TypeOK
    <3>2. inbox[r][i] \in Taken
      BY <3>1
    <3> QED
      BY <3>2 DEF Taken
  <2> QED
    BY <2>1 DEF MonitorTyped, K!TypeOK
<1>1. ASSUME UNCHANGED running, events' \in {events, events + 1}, readers' \subseteq readers, UNCHANGED inbox
      PROVE  ReadOnce'
  BY <1>0, <1>1 DEF ReadOnce
<1>2. ASSUME NEW c \in Clients, K!SetBinds(c) \/ K!NoteOpened(c) PROVE ReadOnce'
  BY <1>1, <1>2 DEF K!SetBinds, K!NoteOpened
<1>3. ASSUME NEW d \in Inputs, K!Unplug(d) PROVE ReadOnce'
  BY <1>1, <1>3 DEF K!Unplug
<1>4. ASSUME NEW r \in Clients \X Inputs, K!ReadFails(r) PROVE ReadOnce'
  BY <1>1, <1>4 DEF K!ReadFails
<1>5. ASSUME NEW c \in Clients, NEW d \in Inputs, K!OpenDevice(c, d) PROVE ReadOnce'
  <2>1. CASE UNCHANGED <<readers, inbox>>
    BY <1>1, <1>5, <2>1 DEF K!OpenDevice
  <2>2. CASE readers' = readers \union {<<c, d>>} /\ inbox' = [inbox EXCEPT ![<<c, d>>] = << >>]
    <3>1. UNCHANGED <<running, events>> /\ <<c, d>> \in Clients \X Inputs
      BY <1>5 DEF K!OpenDevice
    <3>2. <<c, d>> \notin readers
      BY <1>5 DEF K!OpenDevice, OneOpens
    <3>3. DOMAIN inbox'[<<c, d>>] = {} /\ \A r \in readers : inbox'[r] = inbox[r]
      <4>1. inbox'[<<c, d>>] = << >>
        BY <1>0, <2>2, <3>1
      <4>2. DOMAIN << >> = {}
        OBVIOUS
      <4>3. \A r \in readers : inbox'[r] = inbox[r]
        BY <1>0, <2>2, <3>1, <3>2
      <4> QED
        BY <4>1, <4>2, <4>3
    <3> QED
      BY <2>2, <3>1, <3>3 DEF ReadOnce
  <2> QED
    BY <1>5, <2>1, <2>2 DEF K!OpenDevice
<1>6. ASSUME NEW r \in Clients \X Inputs, K!Read(r) PROVE ReadOnce'
  <2> DEFINE q == inbox[r]
             n == Len(q)
  <2>1. /\ r \in readers /\ UNCHANGED <<readers, events>> /\ n \in Nat /\ DOMAIN q = 1..n /\ 1 \in 1..n
        /\ DOMAIN inbox'[r] = 1..(n - 1)
        /\ \A i \in 1..(n - 1) : inbox'[r][i] = q[i + 1]
        /\ \A s \in Clients \X Inputs : s # r => inbox'[s] = inbox[s]
    BY <1>6, ReadTakes DEF K!Read
  <2>2. \A i \in 1..(n - 1) : i + 1 \in DOMAIN q /\ i + 1 # 1
    BY <2>1
  <2>3. \A i \in DOMAIN running' : \/ i \in DOMAIN running /\ running'[i] = running[i]
                                   \/ running'[i] = q[1].at
    <3>1. running' = running \/ running' = Append(running, q[1].at)
      BY <1>6, ReadProcesses
    <3>2. q[1].at \in Nat
      BY <1>0, <2>1
    <3>3. CASE running' = Append(running, q[1].at)
      BY <1>0, <3>2, <3>3, OneMore
    <3> QED
      BY <3>1, <3>3
  <2> HIDE DEF q, n
  <2>4. q = inbox[r]
    BY DEF q
  <2>5. \A i \in DOMAIN running' : running'[i] < events'
    BY <2>1, <2>3, <2>4 DEF ReadOnce
  <2>6. ASSUME NEW s \in readers', NEW i \in DOMAIN inbox'[s]
        PROVE  \E j \in DOMAIN inbox[s] : /\ inbox'[s][i] = inbox[s][j]
                                          /\ s = r => j = i + 1 /\ j # 1
                                          /\ s # r => j = i
    <3>1. CASE s = r
      <4>1. i \in 1..(n - 1) /\ i + 1 \in DOMAIN inbox[s] /\ i + 1 # 1
        BY <2>1, <2>2, <2>4, <2>6, <3>1
      <4> QED
        BY <2>1, <2>4, <3>1, <4>1
    <3>2. CASE s # r
      BY <1>0, <2>1, <2>6, <3>2
    <3> QED
      BY <3>1, <3>2
  <2>7. ASSUME NEW s \in readers', NEW i \in DOMAIN inbox'[s]
        PROVE  /\ inbox'[s][i].key \in KeysOf[s[2]] /\ inbox'[s][i].at < events'
               /\ \A j \in DOMAIN running' : running'[j] # inbox'[s][i].at
    <3>1. PICK l \in DOMAIN inbox[s] : inbox'[s][i] = inbox[s][l] /\ (s = r => l # 1)
      BY <2>6
    <3>2. inbox[s][l].at # q[1].at
      BY <2>1, <2>4, <3>1 DEF ReadOnce
    <3> QED
      BY <2>1, <2>3, <3>1, <3>2 DEF ReadOnce
  <2>8. ASSUME NEW s \in readers', NEW b \in readers', NEW i \in DOMAIN inbox'[s], NEW j \in DOMAIN inbox'[b],
               inbox'[s][i].at = inbox'[b][j].at
        PROVE  s = b /\ i = j
    <3>1. PICK l \in DOMAIN inbox[s] : /\ inbox'[s][i] = inbox[s][l] /\ (s = r => l = i + 1) /\ (s # r => l = i)
      BY <2>6
    <3>2. PICK m \in DOMAIN inbox[b] : /\ inbox'[b][j] = inbox[b][m] /\ (b = r => m = j + 1) /\ (b # r => m = j)
      BY <2>6
    <3>3. s = b /\ l = m
      BY <2>1, <2>8, <3>1, <3>2 DEF ReadOnce
    <3>4. s = r => i \in Int /\ j \in Int
      BY <2>1, <2>8, <3>3
    <3> QED
      BY <3>1, <3>2, <3>3, <3>4
  <2> QED
    BY <2>5, <2>7, <2>8 DEF ReadOnce
<1>7. ASSUME NEW d \in Inputs, K!Event(d) PROVE ReadOnce'
  <2>1. PICK e \in Taken :
             /\ e.key \in KeysOf[d] /\ e.at = events /\ events' = events + 1
             /\ \A r \in Clients \X Inputs :
                  inbox'[r] = IF r \in readers /\ r[2] = d THEN Append(inbox[r], e) ELSE inbox[r]
    BY <1>7, EventReaches
  <2>2. UNCHANGED <<readers, running>>
    BY <1>7 DEF K!Event
  <2>3. ASSUME NEW s \in readers, NEW i \in DOMAIN inbox'[s]
        PROVE  \/ i \in DOMAIN inbox[s] /\ inbox'[s][i] = inbox[s][i]
               \/ s[2] = d /\ i = Len(inbox[s]) + 1 /\ inbox'[s][i] = e
    <3>1. inbox[s] \in Seq(Taken) /\ s \in Clients \X Inputs
      BY <1>0
    <3>2. CASE s[2] = d
      <4>1. inbox'[s] = Append(inbox[s], e)
        BY <2>1, <3>1, <3>2
      <4>2. /\ Len(inbox[s]) \in Nat /\ DOMAIN inbox[s] = 1..Len(inbox[s])
            /\ DOMAIN Append(inbox[s], e) = 1..(Len(inbox[s]) + 1)
            /\ Append(inbox[s], e)[Len(inbox[s]) + 1] = e
            /\ \A j \in 1..Len(inbox[s]) : Append(inbox[s], e)[j] = inbox[s][j]
        BY <3>1, OneMore
      <4>3. i \in 1..Len(inbox[s]) \/ i = Len(inbox[s]) + 1
        BY <2>3, <4>1, <4>2
      <4> QED
        BY <3>2, <4>1, <4>2, <4>3
    <3>3. CASE s[2] # d
      BY <2>1, <2>3, <3>1, <3>3
    <3> QED
      BY <3>2, <3>3
  <2>4. ASSUME NEW s \in readers, NEW i \in DOMAIN inbox'[s]
        PROVE  /\ inbox'[s][i].key \in KeysOf[s[2]] /\ inbox'[s][i].at < events'
               /\ \A j \in DOMAIN running : running[j] # inbox'[s][i].at
    <3>1. CASE i \in DOMAIN inbox[s] /\ inbox'[s][i] = inbox[s][i]
      BY <1>0, <2>1, <3>1 DEF ReadOnce
    <3>2. CASE s[2] = d /\ inbox'[s][i] = e
      BY <1>0, <2>1, <3>2 DEF ReadOnce
    <3> QED
      BY <2>3, <2>4, <3>1, <3>2
  <2>5. ASSUME NEW s \in readers, NEW b \in readers, NEW i \in DOMAIN inbox'[s], NEW j \in DOMAIN inbox'[b],
               inbox'[s][i].at = inbox'[b][j].at
        PROVE  s = b /\ i = j
    <3>1. CASE i \in DOMAIN inbox[s] /\ inbox'[s][i] = inbox[s][i]
      <4>1. inbox'[s][i].at < events
        BY <3>1 DEF ReadOnce
      <4>2. j \in DOMAIN inbox[b] /\ inbox'[b][j] = inbox[b][j]
        BY <1>0, <2>1, <2>3, <2>5, <4>1
      <4> QED
        BY <2>5, <3>1, <4>2 DEF ReadOnce
    <3>2. CASE s[2] = d /\ i = Len(inbox[s]) + 1 /\ inbox'[s][i] = e
      <4>1. ~(j \in DOMAIN inbox[b] /\ inbox'[b][j] = inbox[b][j])
        BY <1>0, <2>1, <2>5, <3>2 DEF ReadOnce
      <4>2. b[2] = d /\ j = Len(inbox[b]) + 1
        BY <2>3, <2>5, <4>1
      <4>3. s = b
        BY <3>2, <4>2 DEF OneOpens
      <4> QED
        BY <3>2, <4>2, <4>3
    <3> QED
      BY <2>3, <2>5, <3>1, <3>2
  <2>6. \A i \in DOMAIN running' : running'[i] < events'
    BY <1>0, <2>1, <2>2 DEF ReadOnce
  <2> QED
    BY <2>2, <2>4, <2>5, <2>6 DEF ReadOnce
<1> QED
  BY <1>2, <1>3, <1>4, <1>5, <1>6, <1>7 DEF K!Next

\* Alone looks at the events before a position.
LEMMA AloneLooksBack ==
    ASSUME NEW now, NEW q, NEW p, NEW k, NEW i \in Int, \A l \in 1..(i - 1) : p[l] = q[l], Alone(now, p, k, i)
    PROVE  Alone(now, q, k, i)
<1>1. \A l \in 1..(i - 1), m \in 1..(i - 1) : l \in m + 1 .. i - 1 => l \in 1..(i - 1)
  OBVIOUS
<1>2. ASSUME NEW j \in 1..(i - 1), p[j].press, p[j].key = k, Quiet(p, k, j + 1, i - 1)
      PROVE  q[j].press /\ q[j].key = k /\ Quiet(q, k, j + 1, i - 1)
  <2>1. \A l \in (j + 1)..(i - 1) : l \in 1..(i - 1)
    OBVIOUS
  <2> QED
    BY <1>2, <2>1 DEF Quiet
<1>3. Quiet(p, k, 1, i - 1) => Quiet(q, k, 1, i - 1)
  BY DEF Quiet
<1> QED
  BY <1>2, <1>3 DEF Alone

\* Nothing but a press of k puts it down alone, and every press and every
\* event of k puts an end to it.
LEMMA AloneGoesOn ==
    ASSUME NEW now, NEW q, NEW k, NEW n \in Nat, Alone(now, q, k, n + 2)
    PROVE  \/ q[n + 1].press /\ q[n + 1].key = k
           \/ ~q[n + 1].press /\ q[n + 1].key # k /\ Alone(now, q, k, n + 1)
<1>1. ASSUME NEW j \in 1..(n + 1), q[j].press, q[j].key = k, Quiet(q, k, j + 1, n + 1), j # n + 1
      PROVE  ~q[n + 1].press /\ q[n + 1].key # k /\ Alone(now, q, k, n + 1)
  <2>1. j \in 1..n /\ n + 1 \in (j + 1)..(n + 1) /\ \A l \in (j + 1)..n : l \in (j + 1)..(n + 1)
    BY <1>1
  <2>2. ~q[n + 1].press /\ q[n + 1].key # k /\ Quiet(q, k, j + 1, n)
    BY <1>1, <2>1 DEF Quiet
  <2> QED
    BY <1>1, <2>1, <2>2 DEF Alone
<1>2. ASSUME now, Quiet(q, k, 1, n + 1)
      PROVE  ~q[n + 1].press /\ q[n + 1].key # k /\ Alone(now, q, k, n + 1)
  <2>1. n + 1 \in 1..(n + 1) /\ \A l \in 1..n : l \in 1..(n + 1)
    OBVIOUS
  <2> QED
    BY <1>2, <2>1 DEF Quiet, Alone
<1>3. n + 2 - 1 = n + 1
  OBVIOUS
<1> QED
  BY <1>1, <1>2, <1>3 DEF Alone

\* Taking the first event of q leaves p: k is alone at a position of p only
\* if it was at that event's position in q.
LEMMA AloneIsTaken ==
    ASSUME NEW now, NEW then, NEW q, NEW p, NEW k, NEW n \in Nat, NEW i \in 1..n,
           \A l \in 1..(n - 1) : p[l] = q[l + 1],
           then => \/ q[1].key = k /\ q[1].press
                   \/ q[1].key # k /\ ~q[1].press /\ now,
           Alone(then, p, k, i)
    PROVE  Alone(now, q, k, i + 1)
<1>1. ASSUME NEW j \in Int, NEW l \in (j + 1)..i, j >= 1, Quiet(p, k, j, i - 1)
      PROVE  ~q[l].press /\ q[l].key # k
  <2>1. l - 1 \in j..(i - 1) /\ l - 1 \in 1..(n - 1) /\ (l - 1) + 1 = l
    BY <1>1
  <2>2. p[l - 1] = q[l]
    BY <2>1
  <2> QED
    BY <1>1, <2>1, <2>2 DEF Quiet
<1>2. ASSUME NEW j \in 1..(i - 1), p[j].press, p[j].key = k, Quiet(p, k, j + 1, i - 1)
      PROVE  Alone(now, q, k, i + 1)
  <2>1. j + 1 \in 1..i /\ j \in 1..(n - 1) /\ j + 1 >= 1 /\ j + 1 \in Int
    OBVIOUS
  <2>2. q[j + 1].press /\ q[j + 1].key = k
    BY <1>2, <2>1
  <2>3. Quiet(q, k, (j + 1) + 1, i)
    BY <1>1, <1>2, <2>1 DEF Quiet
  <2>4. (i + 1) - 1 = i
    OBVIOUS
  <2> QED
    BY <2>1, <2>2, <2>3, <2>4 DEF Alone
<1>3. ASSUME then, Quiet(p, k, 1, i - 1) PROVE Alone(now, q, k, i + 1)
  <2>1. Quiet(q, k, 2, i)
    BY <1>1, <1>3 DEF Quiet
  <2>2. (i + 1) - 1 = i /\ 1 \in 1..i /\ 1 + 1 = 2
    OBVIOUS
  <2>3. CASE q[1].key = k /\ q[1].press
    BY <2>1, <2>2, <2>3 DEF Alone
  <2>4. CASE q[1].key # k /\ ~q[1].press /\ now
    <3>1. \A l \in 1..i : l = 1 \/ l \in 2..i
      OBVIOUS
    <3>2. Quiet(q, k, 1, i)
      BY <2>1, <2>4, <3>1 DEF Quiet
    <3> QED
      BY <2>2, <2>4, <3>2 DEF Alone
  <2> QED
    BY <1>3, <2>3, <2>4
<1> QED
  BY <1>2, <1>3 DEF Alone

\* The machine agrees with the keyboard after every step.
LEMMA CleanTapsStay ==
    ASSUME PartsAssumption, MonitorTyped, OneOpens, ReadOnce, HeldAreRead, CleanTaps, K!Next
    PROVE  CleanTaps'
<1> USE DEF K!bindVars, K!historyVars
<1>0. /\ readers \subseteq Clients \X Inputs /\ inbox \in [Clients \X Inputs -> Seq(Taken)]
      /\ tap \in [Modifiers -> BOOLEAN]
  BY DEF MonitorTyped, K!TypeOK
<1>1. ASSUME UNCHANGED <<machine, latest, tap, inbox>>, readers' \subseteq readers PROVE CleanTaps'
  BY <1>1 DEF CleanTaps, Unsullied
<1>2. ASSUME NEW c \in Clients, K!SetBinds(c) \/ K!NoteOpened(c) PROVE CleanTaps'
  BY <1>1, <1>2 DEF K!SetBinds, K!NoteOpened
<1>3. ASSUME NEW d \in Inputs, K!Unplug(d) PROVE CleanTaps'
  BY <1>1, <1>3 DEF K!Unplug
<1>4. ASSUME NEW r \in Clients \X Inputs, K!ReadFails(r) PROVE CleanTaps'
  <2>1. /\ machine'.candidate = FALSE /\ UNCHANGED <<inbox, tap>> /\ readers' \subseteq readers
    BY <1>4 DEF K!ReadFails, K!Blank
  <2>2. \A k : ~Unsullied(k)'
    BY <2>1 DEF Unsullied
  <2>3. ASSUME NEW q, NEW k, NEW i, Alone(Unsullied(k)', q, k, i) PROVE Alone(Unsullied(k), q, k, i)
    BY <2>2, <2>3 DEF Alone
  <2> QED
    BY <2>1, <2>3 DEF CleanTaps
<1>5. ASSUME NEW c \in Clients, NEW d \in Inputs, K!OpenDevice(c, d) PROVE CleanTaps'
  <2>1. CASE UNCHANGED <<readers, inbox>>
    BY <1>1, <1>5, <2>1 DEF K!OpenDevice
  <2>2. CASE readers' = readers \union {<<c, d>>} /\ inbox' = [inbox EXCEPT ![<<c, d>>] = << >>]
    <3>1. UNCHANGED <<machine, latest, tap>> /\ <<c, d>> \in Clients \X Inputs
      BY <1>5 DEF K!OpenDevice
    <3>2. \A r \in readers : r[2] # d
      BY <1>5 DEF K!OpenDevice, OneOpens
    <3>3. /\ inbox'[<<c, d>>] = << >> /\ DOMAIN << >> = {} /\ Len(<< >>) = 0
          /\ \A r \in readers : inbox'[r] = inbox[r]
      BY <1>0, <2>2, <3>1, <3>2
    <3>4. ASSUME NEW k \in Modifiers \intersect KeysOf[d] PROVE ~Alone(Unsullied(k)', << >>, k, 1)
      <4>1. k \notin machine.modifiers
        BY <3>2 DEF HeldAreRead
      <4>2. ~Unsullied(k)'
        BY <3>1, <4>1 DEF Unsullied
      <4>3. 1..(1 - 1) = {}
        OBVIOUS
      <4> QED
        BY <4>2, <4>3 DEF Alone
    <3>5. \A k : Unsullied(k)' = Unsullied(k)
      BY <3>1 DEF Unsullied
    <3>6. ASSUME NEW r \in readers', NEW k \in Modifiers \intersect KeysOf[r[2]]
          PROVE  /\ \A i \in DOMAIN inbox'[r] :
                      inbox'[r][i].key = k /\ ~inbox'[r][i].press /\ Alone(Unsullied(k)', inbox'[r], k, i)
                        => inbox'[r][i].clean
                 /\ Alone(Unsullied(k)', inbox'[r], k, Len(inbox'[r]) + 1) => tap'[k]
      <4>1. CASE r \in readers
        BY <3>1, <3>3, <3>5, <4>1 DEF CleanTaps
      <4>2. CASE r = <<c, d>>
        <5>1. k \in Modifiers \intersect KeysOf[d]
          BY <4>2
        <5>2. ~Alone(Unsullied(k)', << >>, k, 1)
          BY <3>4, <5>1
        <5>3. Len(inbox'[r]) + 1 = 1 /\ inbox'[r] = << >> /\ DOMAIN inbox'[r] = {}
          BY <3>3, <4>2
        <5> HIDE DEF Alone
        <5> QED
          BY <5>2, <5>3
      <4> QED
        BY <2>2, <4>1, <4>2
    <3> QED
      BY <3>6 DEF CleanTaps
  <2> QED
    BY <1>5, <2>1, <2>2 DEF K!OpenDevice
<1>6. ASSUME NEW r \in Clients \X Inputs, K!Read(r) PROVE CleanTaps'
  <2> DEFINE q == inbox[r]
             n == Len(q)
  <2>1. /\ r \in readers /\ UNCHANGED <<readers, tap>> /\ n \in Nat /\ DOMAIN q = 1..n /\ 1 \in 1..n
        /\ Len(inbox'[r]) = n - 1 /\ DOMAIN inbox'[r] = 1..(n - 1)
        /\ \A i \in 1..(n - 1) : inbox'[r][i] = q[i + 1]
        /\ \A s \in Clients \X Inputs : s # r => inbox'[s] = inbox[s]
    BY <1>6, ReadTakes DEF K!Read
  <2>2. q[1].key \in KeysOf[r[2]] /\ r[2] \in Inputs
    BY <1>0, <2>1 DEF ReadOnce
  <2>3. ASSUME NEW k \in Modifiers, Unsullied(k)'
        PROVE  \/ q[1].key = k /\ q[1].press
               \/ q[1].key # k /\ ~q[1].press /\ Unsullied(k)
    BY <1>6, <2>3, UnsulliedStays
  <2> HIDE DEF q, n
  <2>4. q = inbox[r] /\ n = Len(inbox[r])
    BY DEF q, n
  <2>5. ASSUME NEW s \in readers', NEW k \in Modifiers \intersect KeysOf[s[2]]
        PROVE  /\ \A i \in DOMAIN inbox'[s] :
                    inbox'[s][i].key = k /\ ~inbox'[s][i].press /\ Alone(Unsullied(k)', inbox'[s], k, i)
                      => inbox'[s][i].clean
               /\ Alone(Unsullied(k)', inbox'[s], k, Len(inbox'[s]) + 1) => tap'[k]
    <3>1. CASE s = r
      <4>1. ASSUME NEW i \in 1..n, Alone(Unsullied(k)', inbox'[r], k, i)
            PROVE  Alone(Unsullied(k), q, k, i + 1)
        BY <2>1, <2>3, <4>1, AloneIsTaken
      <4>2. ASSUME NEW i \in DOMAIN inbox'[s], inbox'[s][i].key = k, ~inbox'[s][i].press,
                   Alone(Unsullied(k)', inbox'[s], k, i)
            PROVE  inbox'[s][i].clean
        <5>1. i \in 1..(n - 1) /\ i \in 1..n /\ i + 1 \in 1..n
          BY <2>1, <3>1, <4>2
        <5>2. inbox'[s][i] = q[i + 1] /\ Alone(Unsullied(k), q, k, i + 1)
          BY <2>1, <3>1, <4>1, <4>2, <5>1
        <5> QED
          BY <2>1, <2>4, <2>5, <3>1, <4>2, <5>1, <5>2 DEF CleanTaps
      <4>3. ASSUME Alone(Unsullied(k)', inbox'[s], k, Len(inbox'[s]) + 1) PROVE tap'[k]
        <5>1. Len(inbox'[s]) + 1 = n /\ n \in 1..n
          BY <2>1, <3>1
        <5>2. Alone(Unsullied(k), q, k, n + 1)
          BY <3>1, <4>1, <4>3, <5>1
        <5> QED
          BY <2>1, <2>4, <2>5, <3>1, <5>2 DEF CleanTaps
      <4> QED
        BY <4>2, <4>3
    <3>2. CASE s # r
      <4>1. s \in readers /\ s \in Clients \X Inputs /\ inbox'[s] = inbox[s] /\ s[2] \in Inputs
        BY <1>0, <2>1, <2>5, <3>2
      <4>2. s[2] # r[2]
        BY <2>1, <3>2, <4>1 DEF OneOpens
      <4>3. q[1].key # k
        BY <2>2, <2>5, <4>1, <4>2, OneDevice
      <4>4. Unsullied(k)' => Unsullied(k)
        BY <2>3, <4>3
      <4>5. ASSUME NEW i, Alone(Unsullied(k)', inbox[s], k, i) PROVE Alone(Unsullied(k), inbox[s], k, i)
        BY <4>4, <4>5 DEF Alone
      <4> QED
        BY <2>1, <2>5, <4>1, <4>5 DEF CleanTaps
    <3> QED
      BY <3>1, <3>2
  <2> QED
    BY <2>5 DEF CleanTaps
<1>7. ASSUME NEW d \in Inputs, K!Event(d) PROVE CleanTaps'
  <2>1. PICK e \in Taken :
             /\ e.key \in KeysOf[d]
             /\ e.clean = (e.key \in Modifiers /\ ~e.press /\ tap[e.key])
             /\ tap' = [m \in Modifiers |-> IF m = e.key THEN e.press
                                            ELSE tap[m] /\ ~(e.press /\ m \in KeysOf[d])]
             /\ \A r \in Clients \X Inputs :
                  inbox'[r] = IF r \in readers /\ r[2] = d THEN Append(inbox[r], e) ELSE inbox[r]
    BY <1>7, EventReaches
  <2>2. UNCHANGED <<readers, machine, latest>>
    BY <1>7 DEF K!Event
  <2>3. \A k : Unsullied(k)' = Unsullied(k)
    BY <2>2 DEF Unsullied
  <2>4. ASSUME NEW r \in readers', NEW k \in Modifiers \intersect KeysOf[r[2]]
        PROVE  /\ \A i \in DOMAIN inbox'[r] :
                    inbox'[r][i].key = k /\ ~inbox'[r][i].press /\ Alone(Unsullied(k)', inbox'[r], k, i)
                      => inbox'[r][i].clean
               /\ Alone(Unsullied(k)', inbox'[r], k, Len(inbox'[r]) + 1) => tap'[k]
    <3> DEFINE q == inbox[r]
               p == inbox'[r]
               n == Len(q)
               now == Unsullied(k)
    <3>1. r \in readers /\ r \in Clients \X Inputs /\ r[2] \in Inputs /\ q \in Seq(Taken)
      BY <1>0, <2>2, <2>4
    <3>2. /\ \A i \in DOMAIN q : q[i].key = k /\ ~q[i].press /\ Alone(now, q, k, i) => q[i].clean
          /\ Alone(now, q, k, n + 1) => tap[k]
      BY <2>4, <3>1 DEF CleanTaps
    <3>3. CASE r[2] # d
      <4>1. p = q /\ k # e.key
        BY <2>1, <2>4, <3>1, <3>3, OneDevice
      <4>2. k \notin KeysOf[d]
        BY <2>4, <3>1, <3>3, OneDevice
      <4>3. tap'[k] = tap[k]
        BY <1>0, <2>1, <2>4, <4>1, <4>2
      <4> QED
        BY <2>3, <3>2, <4>1, <4>3
    <3>4. CASE r[2] = d
      <4>1. p = Append(q, e)
        BY <2>1, <3>1, <3>4
      <4>2. /\ n \in Nat /\ DOMAIN q = 1..n /\ DOMAIN p = 1..(n + 1) /\ Len(p) = n + 1 /\ p[n + 1] = e
            /\ \A i \in 1..n : p[i] = q[i]
        BY <3>1, <4>1, OneMore
      <4>3. Unsullied(k)' = now
        BY <2>3
      <4>4. e.press \in BOOLEAN /\ tap[k] \in BOOLEAN /\ k \in KeysOf[d] /\ k \in Modifiers
        BY <1>0, <2>4, <3>4 DEF Taken
      <4>5. tap'[k] = IF k = e.key THEN e.press ELSE tap[k] /\ ~e.press
        BY <2>1, <4>4
      <4> HIDE DEF q, p, n, now
      <4>6. ASSUME NEW i \in 1..(n + 1), Alone(now, p, k, i) PROVE Alone(now, q, k, i)
        <5>1. \A l \in 1..(i - 1) : p[l] = q[l]
          BY <4>2
        <5> QED
          BY <4>6, <5>1, AloneLooksBack
      <4>7. ASSUME NEW i \in 1..(n + 1), p[i].key = k, ~p[i].press, Alone(now, p, k, i) PROVE p[i].clean
        <5>1. Alone(now, q, k, i)
          BY <4>6, <4>7
        <5>2. CASE i \in 1..n
          BY <3>2, <4>2, <4>7, <5>1, <5>2
        <5>3. CASE i = n + 1
          BY <2>1, <3>2, <4>2, <4>4, <4>7, <5>1, <5>3
        <5> QED
          BY <4>2, <5>2, <5>3
      <4>8. ASSUME Alone(now, p, k, (n + 1) + 1) PROVE tap'[k]
        <5>1. (n + 1) + 1 = n + 2 /\ n + 1 \in 1..(n + 1)
          BY <4>2
        <5>2. \/ e.press /\ e.key = k
              \/ ~e.press /\ e.key # k /\ Alone(now, p, k, n + 1)
          BY <4>2, <4>8, <5>1, AloneGoesOn
        <5>3. CASE e.press /\ e.key = k
          BY <4>5, <5>3
        <5>4. CASE ~e.press /\ e.key # k /\ Alone(now, p, k, n + 1)
          <6>1. tap[k]
            BY <3>2, <4>6, <5>1, <5>4
          <6> QED
            BY <4>5, <5>4, <6>1
        <5> QED
          BY <5>2, <5>3, <5>4
      <4>9. Len(p) + 1 = (n + 1) + 1
        BY <4>2
      <4> QED
        BY <4>2, <4>3, <4>7, <4>8, <4>9 DEF p
    <3> QED
      BY <3>3, <3>4
  <2> QED
    BY <2>4 DEF CleanTaps
<1> QED
  BY <1>2, <1>3, <1>4, <1>5, <1>6, <1>7 DEF K!Next

\* No command is run twice for an event, or for a tap that was not clean.
LEMMA NothingMistaken ==
    ASSUME MonitorTyped, ReadOnce, HeldAreRead, CleanTaps, ~mistaken, K!Next PROVE ~mistaken'
<1>1. ASSUME NEW r \in Clients \X Inputs, K!Read(r), mistaken' PROVE FALSE
  <2> DEFINE e == inbox[r][1]
  <2>1. /\ r \in readers /\ 1 \in DOMAIN inbox[r]
    BY <1>1, ReadTakes
  <2>2. \/ /\ e.key \in Modifiers /\ ~e.press /\ machine.candidate /\ machine.modifiers \subseteq {e.key}
           /\ e.key \in latest /\ ~e.clean
        \/ \E i \in DOMAIN running : running[i] = e.at
    BY <1>1, ReadProcesses
  <2>3. e.key \in KeysOf[r[2]] /\ \A i \in DOMAIN running : running[i] # e.at
    BY <2>1 DEF ReadOnce
  <2>4. machine.modifiers # {} /\ machine.modifiers \subseteq {e.key}
    BY <2>2, <2>3 DEF HeldAreRead
  <2>5. Unsullied(e.key)
    BY <2>2, <2>3, <2>4 DEF Unsullied
  <2>6. 1..(1 - 1) = {}
    OBVIOUS
  <2>7. Alone(Unsullied(e.key), inbox[r], e.key, 1)
    BY <2>5, <2>6 DEF Alone, Quiet
  <2> QED
    BY <2>1, <2>2, <2>3, <2>7 DEF CleanTaps
<1> QED
  BY <1>1 DEF K!Next, K!SetBinds, K!NoteOpened, K!OpenDevice, K!ReadFails, K!Event, K!Unplug, K!historyVars

\* Every step keeps the invariant.
LEMMA MonitorStays ==
    ASSUME PartsAssumption, MonitorInv, K!Next PROVE MonitorInv'
<1>1. MonitorTyped'
  BY MonitorTypes DEF MonitorInv
<1>2. CASE overlap'
  BY <1>1, <1>2 DEF MonitorInv
<1>3. CASE ~overlap'
  <2>1. ~overlap
    BY <1>3, OverlapStays
  <2>2. MonitorTyped /\ ~mistaken /\ OneOpens /\ ReadOnce /\ HeldAreRead /\ CleanTaps
    BY <2>1 DEF MonitorInv
  <2>3. ~mistaken' /\ OneOpens' /\ ReadOnce' /\ HeldAreRead' /\ CleanTaps'
    BY <1>3, <2>2, NothingMistaken, OneOpensStays, ReadOnceStays, HeldAreReadStays, CleanTapsStay
  <2> QED
    BY <1>1, <2>3 DEF MonitorInv
<1> QED
  BY <1>2, <1>3

\* The invariant holds at the start.
LEMMA MonitorStarts == ASSUME K!Init PROVE MonitorInv
<1> USE DEF K!Init
<1>1. K!Idle \in Openers /\ K!Idle.phase = "idle"
  BY DEF K!Idle, Openers
<1>2. << >> \in Seq(Taken) /\ << >> \in Seq(Nat) /\ DOMAIN << >> = {}
  OBVIOUS
<1>3. K!Blank.candidate = FALSE /\ K!Blank.modifiers = {}
      /\ K!Blank \in [held : SUBSET (K!AllKeys \ Modifiers), modifiers : SUBSET Modifiers, candidate : BOOLEAN]
  BY DEF K!Blank
<1>4. MonitorTyped
  BY <1>1, <1>2, <1>3 DEF MonitorTyped, K!TypeOK
<1>5. OneOpens
  BY <1>1 DEF OneOpens
<1>6. ReadOnce /\ CleanTaps
  BY <1>2 DEF ReadOnce, CleanTaps
<1>7. HeldAreRead
  BY <1>3 DEF HeldAreRead
<1> QED
  BY <1>4, <1>5, <1>6, <1>7 DEF MonitorInv

\* The invariant of the monitor holds in every state.
LEMMA MonitorHolds == Spec => [](part = "monitor" => MonitorInv)
<1> DEFINE Inv == part = "monitor" => MonitorInv
<1>1. Init => Inv
  BY MonitorStarts DEF Init
<1>2. Inv /\ [Next]_allVars => Inv'
  <2>1. ASSUME MonitorInv, [K!Next]_(K!vars) PROVE MonitorInv'
    <3>1. CASE K!Next
      BY <2>1, <3>1, PartsAssumption, MonitorStays
    <3>2. CASE UNCHANGED K!vars
      BY <2>1, <3>2 DEF K!vars, K!bindVars, K!historyVars, MonitorInv, MonitorTyped, K!TypeOK, OneOpens, ReadOnce,
                        HeldAreRead, CleanTaps, Unsullied
    <3> QED
      BY <2>1, <3>1, <3>2
  <2> QED
    BY <2>1, OnePartSteps
<1> QED
  BY <1>1, <1>2, PTL DEF Spec

\* For any devices, keys, modifiers and callers: unless two calls have opened
\* the devices at the same time, no command is run twice for one release, and
\* none for the modifier pressed last if another key of its device was
\* pressed while it was down.
THEOREM TapsFireOnce == Spec => []FiresOncePerCleanTap
<1>1. (part = "monitor" => MonitorInv) => FiresOncePerCleanTap
  BY DEF MonitorInv, FiresOncePerCleanTap, K!FiresOncePerCleanTap
<1> QED
  BY <1>1, MonitorHolds, PTL

----------------------------------------------------------------------------
(* Commands, and what they do to the compositor. *)

\* The states of the compositor, as TypeOK has them.
Compositor == [wins : UNION {[S -> R!Window] : S \in SUBSET Win}, focus : Win \union {None},
               layout : R!Layouts, opts : SUBSET R!Options, bound : BOOLEAN]

\* Commands about the desktop.
Desks == {"wander", "layout", "option", "bind", "other"}
\* What the clients may send.
Commands ==
    LET Ws == Win \union {None}
        D == {"any", "legacy", "lua", "unknown"}
    IN  [verb : {"toggle", "set", "unset"}, w : Ws, arg : R!States, in : D]
        \union [verb : {"place"}, w : Ws, arg : {"move", "resize", "width", "height"}, in : D]
        \union [verb : {"focus"}, w : Ws, arg : {""}, in : D]
        \union [verb : {"close"}, w : Ws, arg : {""}, in : D]
        \union [verb : {"wander", "other"}, w : {None}, arg : {""}, in : D]
        \union [verb : {"layout"}, w : {None}, arg : R!Layouts, in : D]
        \union [verb : {"option"}, w : {None}, arg : SUBSET R!Options, in : D]
        \union [verb : {"bind"}, w : {None}, arg : BOOLEAN, in : D]

\* The window a command reaches.
Target(cmd) == IF cmd.w = None THEN comp.focus ELSE cmd.w

\* What a command of each verb carries.
LEMMA CommandKinds ==
    ASSUME NEW cmd \in Commands
    PROVE  /\ cmd.verb \in Desks \union {"toggle", "set", "unset", "place", "focus", "close"}
           /\ cmd.w \in Win \union {None}
           /\ cmd.verb \in {"toggle", "set", "unset"} => cmd.arg \in R!States
           /\ cmd.verb = "place" => cmd.arg \in {"move", "resize", "width", "height"}
           /\ cmd.verb = "layout" => cmd.arg \in R!Layouts
           /\ cmd.verb = "option" => cmd.arg \subseteq R!Options
           /\ cmd.verb = "bind" => cmd.arg \in BOOLEAN
           /\ cmd.verb \in Desks => cmd.w = None
<1> DEFINE Ws == Win \union {None}
           D == {"any", "legacy", "lua", "unknown"}
<1>1. CASE cmd \in [verb : {"toggle", "set", "unset"}, w : Ws, arg : R!States, in : D]
  BY <1>1 DEF Desks
<1>2. CASE cmd \in [verb : {"place"}, w : Ws, arg : {"move", "resize", "width", "height"}, in : D]
  BY <1>2 DEF Desks
<1>3. CASE cmd \in [verb : {"focus"}, w : Ws, arg : {""}, in : D]
  BY <1>3 DEF Desks
<1>4. CASE cmd \in [verb : {"close"}, w : Ws, arg : {""}, in : D]
  BY <1>4 DEF Desks
<1>5. CASE cmd \in [verb : {"wander", "other"}, w : {None}, arg : {""}, in : D]
  BY <1>5 DEF Desks
<1>6. CASE cmd \in [verb : {"layout"}, w : {None}, arg : R!Layouts, in : D]
  BY <1>6 DEF Desks
<1>7. CASE cmd \in [verb : {"option"}, w : {None}, arg : SUBSET R!Options, in : D]
  BY <1>7 DEF Desks
<1>8. CASE cmd \in [verb : {"bind"}, w : {None}, arg : BOOLEAN, in : D]
  BY <1>8 DEF Desks
<1> QED
  BY <1>1, <1>2, <1>3, <1>4, <1>5, <1>6, <1>7, <1>8 DEF Commands

\* A command leaves a compositor, drops windows at most, and touches at most the
\* window it is meant for: none if it is about the desktop or the focus.
LEMMA CompositorStays ==
    ASSUME comp \in Compositor, comp.focus \in DOMAIN comp.wins \union {None}, None \notin Win,
           NEW cmd \in Commands, cmd.w \in DOMAIN comp.wins \union {None},
           NEW C \in R!Effects(cmd)
    PROVE  /\ C \in Compositor /\ C.focus \in DOMAIN C.wins \union {None}
           /\ DOMAIN C.wins \subseteq DOMAIN comp.wins
           /\ R!Touched(C) \subseteq {Target(cmd)}
           /\ cmd.verb \in Desks \union {"focus"} => R!Touched(C) = {}
<1> USE CommandKinds
<1>1. CASE cmd.verb = "wander"
  BY <1>1 DEF R!Effects, Compositor, R!Touched, Desks
<1>2. CASE cmd.verb = "layout"
  BY <1>2 DEF R!Effects, Compositor, R!Touched, Desks
<1>3. CASE cmd.verb = "option"
  <2>1. C = [comp EXCEPT !.opts = @ \union cmd.arg]
    BY <1>3 DEF R!Effects
  <2> QED
    BY <1>3, <2>1 DEF Compositor, R!Touched
<1>4. CASE cmd.verb = "bind"
  BY <1>4 DEF R!Effects, Compositor, R!Touched, Desks
<1>5. CASE cmd.verb = "other"
  BY <1>5 DEF R!Effects, R!Touched, Desks
<1>6. CASE cmd.verb \notin Desks
  <2> DEFINE t == Target(cmd)
  <2>1. CASE t = None
    BY <1>6, <2>1 DEF R!Effects, R!Touched, Target, Desks
  <2>2. CASE t # None
    <3>1. C = R!OnWindow(cmd, t) /\ t \in DOMAIN comp.wins
      BY <1>6, <2>2 DEF R!Effects, Target, Desks
    <3>2. PICK S \in SUBSET Win : comp.wins \in [S -> R!Window]
      BY DEF Compositor
    <3> HIDE DEF t
    <3>3. CASE cmd.verb = "focus"
      BY <3>1, <3>2, <3>3 DEF R!OnWindow, Compositor, R!Touched
    <3>4. CASE cmd.verb = "close"
      <4> DEFINE wins  == [x \in DOMAIN comp.wins \ {t} |-> comp.wins[x]]
                 heir  == CHOOSE x \in (DOMAIN comp.wins \ {t}) \union {None} : x = None => DOMAIN comp.wins = {t}
                 focus == IF comp.focus # t THEN comp.focus ELSE heir
      <4>1. C = [comp EXCEPT !.wins = wins, !.focus = focus]
        BY <3>1, <3>4 DEF R!OnWindow, R!Closed
      <4>2. heir \in (DOMAIN comp.wins \ {t}) \union {None}
        <5>1. \E x \in (DOMAIN comp.wins \ {t}) \union {None} : x = None => DOMAIN comp.wins = {t}
          BY <3>1, <3>2
        <5> QED
          BY <5>1
      <4>3. wins \in [S \ {t} -> R!Window] /\ focus \in (S \ {t}) \union {None}
        BY <3>2, <4>2
      <4> HIDE DEF wins, focus
      <4>4. C.wins = wins /\ C.focus = focus /\ C \in Compositor
        <5>1. /\ wins \in UNION {[T -> R!Window] : T \in SUBSET Win} /\ focus \in Win \union {None}
              /\ \A X \in Compositor : [X EXCEPT !.wins = wins, !.focus = focus].wins = wins
              /\ \A X \in Compositor : [X EXCEPT !.wins = wins, !.focus = focus].focus = focus
          BY <3>2, <4>3 DEF Compositor
        <5> QED
          BY <4>1, <5>1 DEF Compositor
      <4>5. R!Touched(C) \subseteq {t}
        BY <3>2, <4>4 DEF R!Touched, wins
      <4> QED
        BY <3>2, <3>4, <4>3, <4>4, <4>5 DEF Desks, t
    <3>5. CASE cmd.verb \in {"toggle", "set", "unset", "place"}
      <4>1. PICK x \in R!Window : C = [comp EXCEPT !.wins = [comp.wins EXCEPT ![t] = x]]
        <5>1. comp.wins[t] \in R!Window
          BY <3>1, <3>2
        <5>2. CASE cmd.verb = "toggle"
          <6> DEFINE x == [comp.wins[t] EXCEPT !.is = R!Flip(@, cmd.arg)]
          <6>1. x \in R!Window
            BY <5>1, <5>2 DEF R!Window, R!Flip
          <6>2. C = [comp EXCEPT !.wins = [comp.wins EXCEPT ![t] = x]]
            BY <3>1, <3>2, <5>2 DEF R!OnWindow
          <6> QED
            BY <6>1, <6>2
        <5>3. CASE cmd.verb = "set"
          <6> DEFINE x == [comp.wins[t] EXCEPT !.is = @ \union {cmd.arg}]
          <6>1. x \in R!Window
            BY <5>1, <5>3 DEF R!Window
          <6>2. C = [comp EXCEPT !.wins = [comp.wins EXCEPT ![t] = x]]
            BY <3>1, <3>2, <5>3 DEF R!OnWindow
          <6> QED
            BY <6>1, <6>2
        <5>4. CASE cmd.verb = "unset"
          <6> DEFINE x == [comp.wins[t] EXCEPT !.is = @ \ {cmd.arg}]
          <6>1. x \in R!Window
            BY <5>1, <5>4 DEF R!Window
          <6>2. C = [comp EXCEPT !.wins = [comp.wins EXCEPT ![t] = x]]
            BY <3>1, <3>2, <5>4 DEF R!OnWindow
          <6> QED
            BY <6>1, <6>2
        <5>5. CASE cmd.verb = "place"
          <6> DEFINE x == [comp.wins[t] EXCEPT !.had = @ \union {cmd.arg}]
          <6>1. x \in R!Window
            BY <5>1, <5>5 DEF R!Window
          <6>2. C = [comp EXCEPT !.wins = [comp.wins EXCEPT ![t] = x]]
            BY <3>1, <3>2, <5>5 DEF R!OnWindow
          <6> QED
            BY <6>1, <6>2
        <5> QED
          BY <3>5, <5>2, <5>3, <5>4, <5>5
      <4> DEFINE wins == [comp.wins EXCEPT ![t] = x]
      <4>2. wins \in [S -> R!Window] /\ \A w \in S : w # t => wins[w] = comp.wins[w]
        BY <3>1, <3>2
      <4>3. C.wins = wins /\ C.focus = comp.focus /\ C \in Compositor
        <5> HIDE DEF wins
        <5> QED
          BY <4>1, <4>2 DEF Compositor, wins
      <4> QED
        BY <3>2, <3>5, <4>2, <4>3 DEF R!Touched, Desks, t
    <3> QED
      BY <1>6, <3>3, <3>4, <3>5 DEF Desks, t
  <2> QED
    BY <2>1, <2>2
<1> QED
  BY <1>1, <1>2, <1>3, <1>4, <1>5, <1>6 DEF Desks

----------------------------------------------------------------------------
(* Requests, and what their commands have to look like. *)

Phases == {"idle", "resolve", "active", "look", "spaces", "outputs", "version", "send", "done"}
Jobs ==
    [phase : Phases, op : R!Operations \union {""}, w : Win \union {None}, on : BOOLEAN, seen : SUBSET Win,
     current : 0..3, goal : 0..3, cmds : Seq(Commands), result : {"", "ok", "error", "panic"}, guessed : BOOLEAN,
     touched : SUBSET Win, disturbed : BOOLEAN]

\* Requests whose window is not named in the command.
Blind(j) == \/ kind \in R!Hyprland /\ j.op \in {"SetFullscreen", "SetMaximized", "ToggleGroup"}
            \/ kind = "niri" /\ j.op = "MoveWindow"

\* Requests for which the client looks at the state first.
Sees(j) == j.op = "SetFullscreen" \/ (kind = "mango" /\ j.op \in {"SetMaximized", "PinWindow"})

Bound(j) == j.op = "BindKey" \/ (j.op = "BatchKeybinds" /\ j.on)
Steady == {"gaps_h", "gaps_v", "border"}

\* A command of the request that is written in the dialect in.
Meant(j, cmd) ==
    /\ j.w # None => cmd.w = j.w \/ cmd.verb \in Desks \/ Blind(j)
    /\ cmd.in \in {"any", kind} \/ j.guessed \/ j.op \in R!LayoutOps

\* The commands that are left, for the requests whose effect is claimed.
SetsState(j, cmds) ==
    j.op \in R!Settable /\ j.w # None /\ ~j.guessed =>
      /\ Len(cmds) = 1 /\ cmds[1].w = IF kind \in R!Hyprland THEN None ELSE j.w
      /\ IF kind = "lua" /\ j.op = "SetMaximized"
         THEN cmds[1].verb = (IF j.on THEN "set" ELSE "unset") /\ cmds[1].arg = "max"
         ELSE cmds[1].verb = "toggle" /\ cmds[1].arg = R!StateOf[j.op] /\ R!Differs(j)
SetsOptions(j, cmds, X) ==
    j.op = "BatchConfig" /\ ~j.disturbed =>
      /\ \A i \in 1..Len(cmds) : cmds[i].verb = "option" /\ cmds[i].in = "any"
      /\ \A o \in Steady : o \in X.opts \/ \E i \in 1..Len(cmds) : o \in cmds[i].arg
SetsKey(j, cmds) ==
    j.op \in R!KeyOps => Len(cmds) = 1 /\ cmds[1].verb = "bind" /\ cmds[1].in = "any" /\ cmds[1].arg = Bound(j)
SetsLayout(j, cmds) ==
    j.op \in R!LayoutOps => Len(cmds) = 1 /\ cmds[1].verb = "layout" /\ cmds[1].arg = j.goal
MovesFocused(j, cmds, X) ==
    kind = "niri" /\ j.op = "MoveWindow" /\ j.w # None /\ ~j.disturbed /\ j.w \in DOMAIN X.wins =>
      /\ \A i \in 1..Len(cmds) : cmds[i].in = "any"
      /\ \/ /\ Len(cmds) = 2 /\ cmds[1].verb = "focus" /\ cmds[1].w = j.w
            /\ cmds[2].verb = "place" /\ cmds[2].w = None
         \/ Len(cmds) = 1 /\ cmds[1].verb = "place" /\ cmds[1].w = None /\ X.focus = j.w

Shape(j, cmds, X) ==
    SetsState(j, cmds) /\ SetsOptions(j, cmds, X) /\ SetsKey(j, cmds) /\ SetsLayout(j, cmds) /\ MovesFocused(j, cmds, X)

\* What a client makes of a request, before the dialect is noted.
Drafted(j, cmds, X) ==
    /\ cmds \in Seq(Commands)
    /\ \A i \in 1..Len(cmds) : cmds[i].in = "any" /\ (j.w # None => cmds[i].w = j.w \/ cmds[i].verb \in Desks \/ Blind(j))
    /\ IF cmds = <<>> THEN Sees(j) /\ ~R!Differs(j) ELSE Shape(j, cmds, X)

Sendable(j) ==
    /\ j \in Jobs /\ j.op \in R!Operations /\ ~R!Refused(j)
    /\ j.op \in R!LayoutOps => j.goal \in R!Layouts

USE DEF R!Cmd, R!Toggle, R!Place, R!Desk

\* The commands the clients are built from.
LEMMA ToggleIs == ASSUME NEW s \in R!States, NEW w \in Win \union {None} PROVE R!Toggle(s, w) \in Commands
BY DEF Commands
\* A geometry command.
LEMMA PlaceIs == ASSUME NEW h \in {"move", "resize", "width", "height"}, NEW w \in Win \union {None} PROVE R!Place(h, w) \in Commands
BY DEF Commands
\* A command that focuses or closes a window.
LEMMA FocusIs == ASSUME NEW w \in Win \union {None} PROVE R!Cmd("focus", w, "") \in Commands /\ R!Cmd("close", w, "") \in Commands
BY DEF Commands
\* A command that sets a state, or unsets it.
LEMMA SetIs == ASSUME NEW s \in R!States, NEW w \in Win \union {None} PROVE R!Cmd("set", w, s) \in Commands /\ R!Cmd("unset", w, s) \in Commands
BY DEF Commands
\* The commands about the desktop.
LEMMA DeskIs == /\ R!Desk("wander", "") \in Commands /\ R!Desk("other", "") \in Commands
                /\ \A l \in R!Layouts : R!Desk("layout", l) \in Commands
                /\ \A o \in SUBSET R!Options : R!Desk("option", o) \in Commands
                /\ \A b \in BOOLEAN : R!Desk("bind", b) \in Commands
BY DEF Commands

\* What all clients send alike names the window of the request.
LEMMA WindowCommandIs ==
    ASSUME NEW j \in Jobs, j.op \in R!WindowOps
    PROVE  LET cmd == R!WindowCommand(j) IN cmd \in Commands /\ cmd.w = j.w /\ cmd.in = "any"
<1> USE DEF Jobs, R!WindowOps, R!Moves
<1>1. CASE j.op = "FocusWindow"
  BY <1>1, FocusIs DEF R!WindowCommand
<1>2. CASE j.op = "CloseWindow"
  BY <1>2, FocusIs DEF R!WindowCommand
<1>3. CASE j.op = "ToggleFloating"
  BY <1>3, ToggleIs DEF R!WindowCommand, R!States
<1>4. CASE j.op = "ResizeWindow"
  BY <1>4, PlaceIs DEF R!WindowCommand
<1>5. CASE j.op \in R!Moves
  BY <1>5, PlaceIs DEF R!WindowCommand
<1> QED
  BY <1>1, <1>2, <1>3, <1>4, <1>5

\* A sequence of one command.
LEMMA OneCommand ==
    ASSUME NEW cmd \in Commands
    PROVE  <<cmd>> \in Seq(Commands) /\ Len(<<cmd>>) = 1 /\ <<cmd>>[1] = cmd /\ <<cmd>> # <<>>
OBVIOUS

Kinds == R!Hyprland \union {"niri", "mango"}

\* Which states a client sets, spelled out.
LEMMA SettableIs ==
    ASSUME kind \in Kinds, NEW op
    PROVE  op \in R!Settable <=>
             \/ op = "SetFullscreen"
             \/ op = "SetMaximized" /\ kind \in {"lua", "mango"}
             \/ op = "PinWindow" /\ kind = "mango"
BY DEF R!Settable, R!StateOps, R!StateOf

\* Requests about a state have one.
LEMMA StatesAre == ASSUME NEW op \in R!StateOps PROVE R!StateOf[op] \in R!States
BY DEF R!StateOps, R!StateOf, R!States

\* The requests about a state.
LEMMA StateOpsAre == R!StateOps = {"SetFullscreen", "SetMaximized", "SetFakeFullscreen", "PinWindow"}
BY DEF R!StateOps, R!StateOf

\* For most requests nothing is claimed of the commands' effect.
LEMMA NothingClaimed ==
    ASSUME kind \in Kinds, NEW j, NEW cmds, NEW X, j.op \notin R!StateOps \union R!KeyOps \union R!LayoutOps,
           j.op \notin {"MoveWindow", "BatchConfig"}
    PROVE  Shape(j, cmds, X)
<1>1. j.op \notin R!Settable
  BY SettableIs, StateOpsAre
<1> QED
  BY <1>1 DEF Shape, SetsState, SetsOptions, SetsKey, SetsLayout, MovesFocused

\* A single command is a draft if it is meant so and has the shape.
LEMMA OneDrafted ==
    ASSUME NEW j, NEW cmd \in Commands, NEW X, cmd.in = "any",
           j.w # None => cmd.w = j.w \/ cmd.verb \in Desks \/ Blind(j),
           Shape(j, <<cmd>>, X)
    PROVE  Drafted(j, <<cmd>>, X)
BY OneCommand DEF Drafted

\* The drafts all clients share.
LEMMA DesktopDrafted ==
    ASSUME kind \in Kinds, NEW j \in Jobs, Sendable(j), NEW X,
           j.op \in R!Wandering \union R!Plain \union R!LayoutOps \union {"SetKeyboardLayouts"}
    PROVE  Drafted(j, R!DesktopCommands(j), X)
<1> USE DEF R!Wandering, R!Plain, R!LayoutOps
<1>1. ASSUME j.op \notin R!LayoutOps, NEW cmds PROVE Shape(j, cmds, X)
  BY <1>1, NothingClaimed, StateOpsAre DEF R!KeyOps
<1>2. CASE j.op \in R!Wandering
  <2>1. R!DesktopCommands(j) = <<R!Desk("wander", "")>>
    BY <1>2 DEF R!DesktopCommands
  <2> QED
    BY <1>1, <1>2, <2>1, DeskIs, OneDrafted DEF Desks
<1>3. CASE j.op \in R!Plain
  <2>1. R!DesktopCommands(j) = <<R!Desk("other", "")>>
    BY <1>3 DEF R!DesktopCommands
  <2> QED
    BY <1>1, <1>3, <2>1, DeskIs, OneDrafted DEF Desks
<1>4. CASE j.op \in R!LayoutOps
  <2> DEFINE cmd == R!Desk("layout", j.goal)
  <2>1. R!DesktopCommands(j) = <<cmd>>
    BY <1>4 DEF R!DesktopCommands
  <2>2. cmd \in Commands /\ cmd.verb = "layout" /\ cmd.arg = j.goal /\ cmd.in = "any"
    BY <1>4, DeskIs DEF Sendable
  <2> HIDE DEF cmd
  <2>3. j.op \notin R!Settable /\ j.op \notin R!KeyOps /\ j.op \notin {"BatchConfig", "MoveWindow"}
    BY <1>4, SettableIs DEF R!KeyOps
  <2>4. Shape(j, <<cmd>>, X)
    BY <2>2, <2>3, OneCommand DEF Shape, SetsState, SetsOptions, SetsKey, SetsLayout, MovesFocused
  <2> QED
    BY <1>4, <2>1, <2>2, <2>4, OneDrafted DEF Desks
<1>5. CASE j.op = "SetKeyboardLayouts"
  <2> DEFINE cmd == R!Desk("other", "")
  <2>1. R!DesktopCommands(j) = <<cmd, cmd>>
    BY <1>5 DEF R!DesktopCommands
  <2>2. cmd \in Commands /\ cmd.verb = "other" /\ cmd.in = "any"
    BY DeskIs
  <2> HIDE DEF cmd
  <2> QED
    BY <1>1, <1>5, <2>1, <2>2 DEF Drafted, Desks
<1> QED
  BY <1>2, <1>3, <1>4, <1>5

\* The state requests, which name no window or j's.
LEMMA StateDrafted ==
    ASSUME kind \in Kinds, NEW j \in Jobs, NEW X, j.op \in R!StateOps,
           NEW cmd \in Commands, cmd.in = "any", cmd.w = j.w \/ Blind(j),
           SetsState(j, <<cmd>>)
    PROVE  Drafted(j, <<cmd>>, X)
<1>1. j.op \notin R!KeyOps \union R!LayoutOps \union {"MoveWindow", "BatchConfig"}
  BY StateOpsAre DEF R!KeyOps, R!LayoutOps
<1>2. Shape(j, <<cmd>>, X)
  BY <1>1 DEF Shape, SetsOptions, SetsKey, SetsLayout, MovesFocused
<1> QED
  BY <1>2, OneDrafted

\* The drafts of one window command.
LEMMA WindowDrafted ==
    ASSUME kind \in Kinds, NEW j \in Jobs, NEW X, j.op \in R!WindowOps, kind = "niri" => j.op # "MoveWindow"
    PROVE  Drafted(j, <<R!WindowCommand(j)>>, X)
<1> DEFINE cmd == R!WindowCommand(j)
<1>1. cmd \in Commands /\ cmd.w = j.w /\ cmd.in = "any"
  BY WindowCommandIs
<1>2. Shape(j, <<cmd>>, X)
  <2>1. j.op \notin R!Settable /\ j.op \notin R!KeyOps \union R!LayoutOps \union {"BatchConfig"}
    BY SettableIs DEF R!KeyOps, R!LayoutOps, R!WindowOps, R!Moves
  <2> HIDE DEF cmd
  <2> QED
    BY <2>1 DEF Shape, SetsState, SetsOptions, SetsKey, SetsLayout, MovesFocused
<1> HIDE DEF cmd
<1>3. Drafted(j, <<cmd>>, X)
  BY <1>1, <1>2, OneDrafted
<1> QED
  BY <1>3 DEF cmd

\* The drafts of one option command.
LEMMA OptionDrafted ==
    ASSUME kind \in Kinds, NEW j \in Jobs, NEW X, j.op \in R!OptionOps, NEW o \in SUBSET R!Options,
           j.op = "BatchConfig" => Steady \subseteq o
    PROVE  Drafted(j, <<R!Desk("option", o)>>, X)
<1> DEFINE cmd == R!Desk("option", o)
<1>1. cmd \in Commands /\ cmd.in = "any" /\ cmd.verb = "option" /\ cmd.arg = o
  BY DeskIs
<1> HIDE DEF cmd
<1>2. j.op \notin R!Settable /\ j.op \notin R!KeyOps \union R!LayoutOps \union {"MoveWindow"}
  BY SettableIs DEF R!KeyOps, R!LayoutOps, R!OptionOps
<1>3. SetsOptions(j, <<cmd>>, X)
  BY <1>1, OneCommand DEF SetsOptions
<1>4. Shape(j, <<cmd>>, X)
  BY <1>2, <1>3 DEF Shape, SetsState, SetsKey, SetsLayout, MovesFocused
<1>5. Drafted(j, <<cmd>>, X)
  BY <1>1, <1>4, OneDrafted DEF Desks
<1> QED
  BY <1>5 DEF cmd

\* The drafts that bind a key.
LEMMA KeyDrafted ==
    ASSUME kind \in Kinds, NEW j \in Jobs, NEW X, j.op \in R!KeyOps, NEW b \in BOOLEAN, b = Bound(j)
    PROVE  Drafted(j, <<R!Desk("bind", b)>>, X)
<1> DEFINE cmd == R!Desk("bind", b)
<1>1. cmd \in Commands /\ cmd.in = "any" /\ cmd.verb = "bind" /\ cmd.arg = b
  BY DeskIs
<1> HIDE DEF cmd
<1>2. j.op \notin R!Settable /\ j.op \notin R!LayoutOps \union {"MoveWindow", "BatchConfig"}
  BY SettableIs DEF R!KeyOps, R!LayoutOps
<1>3. SetsKey(j, <<cmd>>)
  BY <1>1, OneCommand DEF SetsKey
<1>4. Shape(j, <<cmd>>, X)
  BY <1>2, <1>3 DEF Shape, SetsState, SetsOptions, SetsLayout, MovesFocused
<1>5. Drafted(j, <<cmd>>, X)
  BY <1>1, <1>4, OneDrafted DEF Desks
<1> QED
  BY <1>5 DEF cmd

\* HyprlandCommands is a draft, in the dialect that SetMaximized needs.
LEMMA HyprlandDrafted ==
    ASSUME kind \in R!Hyprland, NEW j \in Jobs, Sendable(j), NEW X, NEW lua \in BOOLEAN,
           kind = "lua" /\ ~j.guessed /\ j.op = "SetMaximized" => lua
    PROVE  Drafted(j, R!HyprlandCommands(j, lua), X)
<1> USE DEF Kinds
<1> DEFINE draft == R!HyprlandCommands(j, lua)
<1>0. j.op \in R!Operations /\ j.op # "SetLayoutProperty" /\ kind \in {"legacy", "lua"}
  BY DEF Sendable, R!Refused, R!Hyprland
<1>1. CASE j.op = "SetFullscreen"
  <2>1. draft = IF R!Differs(j) THEN <<R!Toggle("full", None)>> ELSE <<>>
    BY <1>1 DEF R!HyprlandCommands, R!WindowOps, R!Moves
  <2>2. CASE ~R!Differs(j)
    BY <1>1, <2>1, <2>2 DEF Drafted, Sees
  <2>3. CASE R!Differs(j)
    <3> DEFINE cmd == R!Toggle("full", None)
    <3>1. cmd \in Commands /\ cmd.in = "any" /\ cmd.w = None /\ cmd.verb = "toggle" /\ cmd.arg = R!StateOf[j.op]
      BY <1>1, ToggleIs DEF R!States, R!StateOf
    <3> HIDE DEF cmd
    <3>2. SetsState(j, <<cmd>>)
      BY <1>1, <2>3, <3>1, OneCommand DEF SetsState
    <3>3. Drafted(j, <<cmd>>, X)
      BY <1>1, <3>1, <3>2, StateDrafted, StateOpsAre DEF Blind
    <3> QED
      BY <2>1, <2>3, <3>3 DEF cmd
  <2> QED
    BY <2>2, <2>3
<1>2. CASE j.op = "SetMaximized" /\ lua
  <2> DEFINE cmd == R!Cmd(IF j.on THEN "set" ELSE "unset", None, "max")
  <2>1. draft = <<cmd>>
    BY <1>2 DEF R!HyprlandCommands, R!WindowOps, R!Moves
  <2>2. /\ cmd \in Commands /\ cmd.in = "any" /\ cmd.w = None
        /\ cmd.verb = (IF j.on THEN "set" ELSE "unset") /\ cmd.arg = "max"
    BY SetIs DEF R!States
  <2> HIDE DEF cmd
  <2>3. SetsState(j, <<cmd>>)
    <3>1. j.op \in R!Settable => kind = "lua"
      BY <1>0, <1>2, SettableIs
    <3> QED
      BY <1>2, <2>2, <3>1, OneCommand DEF SetsState
  <2>4. Drafted(j, <<cmd>>, X)
    BY <1>2, <2>2, <2>3, StateDrafted, StateOpsAre DEF Blind
  <2> QED
    BY <2>1, <2>4
<1>3. CASE j.op = "SetMaximized" /\ ~lua
  <2> DEFINE cmd == R!Toggle(IF j.on THEN "max" ELSE "full", None)
  <2>1. draft = <<cmd>>
    BY <1>3 DEF R!HyprlandCommands, R!WindowOps, R!Moves
  <2>2. cmd \in Commands /\ cmd.in = "any" /\ cmd.w = None
    BY ToggleIs DEF R!States
  <2> HIDE DEF cmd
  <2>3. SetsState(j, <<cmd>>)
    <3>1. j.op \in R!Settable => kind = "lua"
      BY <1>0, <1>3, SettableIs
    <3> QED
      BY <1>3, <3>1 DEF SetsState
  <2>4. Drafted(j, <<cmd>>, X)
    BY <1>3, <2>2, <2>3, StateDrafted, StateOpsAre DEF Blind
  <2> QED
    BY <2>1, <2>4
<1>4. CASE j.op \in {"SetFakeFullscreen", "PinWindow"}
  <2> DEFINE cmd == R!Toggle(R!StateOf[j.op], j.w)
  <2>1. draft = <<cmd>>
    BY <1>4 DEF R!HyprlandCommands, R!WindowOps, R!Moves
  <2>2. cmd \in Commands /\ cmd.in = "any" /\ cmd.w = j.w
    BY <1>4, ToggleIs, StatesAre, StateOpsAre DEF Jobs
  <2> HIDE DEF cmd
  <2>3. SetsState(j, <<cmd>>)
    BY <1>0, <1>4, SettableIs DEF SetsState
  <2>4. Drafted(j, <<cmd>>, X)
    BY <1>4, <2>2, <2>3, StateDrafted, StateOpsAre
  <2> QED
    BY <2>1, <2>4
<1>9. CASE j.op = "ToggleGroup"
  <2> DEFINE cmd == R!Toggle("group", None)
  <2>1. draft = <<cmd>>
    BY <1>9 DEF R!HyprlandCommands, R!WindowOps, R!Moves
  <2>2. cmd \in Commands /\ cmd.in = "any"
    BY ToggleIs DEF R!States
  <2> HIDE DEF cmd
  <2>3. Shape(j, <<cmd>>, X) /\ Blind(j)
    BY <1>9, NothingClaimed, StateOpsAre DEF R!KeyOps, R!LayoutOps, Blind
  <2>4. Drafted(j, <<cmd>>, X)
    BY <2>2, <2>3, OneDrafted
  <2> QED
    BY <2>1, <2>4
<1>5. CASE j.op \in R!WindowOps
  <2>1. draft = <<R!WindowCommand(j)>>
    BY <1>5 DEF R!HyprlandCommands, R!WindowOps, R!Moves
  <2> QED
    BY <1>0, <1>5, <2>1, WindowDrafted
<1>6. CASE j.op \in R!OptionOps
  <2>1. draft = <<R!Desk("option", IF j.op = "SetConfig" THEN {"border"} ELSE IF j.op = "SetOtherOption" THEN {"other"}
                                   ELSE R!Options \ {"other"})>>
    BY <1>6 DEF R!HyprlandCommands, R!WindowOps, R!Moves, R!OptionOps
  <2> QED
    BY <1>6, <2>1, OptionDrafted DEF R!OptionOps, R!Options, Steady
<1>7. CASE j.op \in R!KeyOps
  <2>1. draft = <<R!Desk("bind", IF j.op = "BatchKeybinds" THEN j.on ELSE j.op = "BindKey")>>
    BY <1>7 DEF R!HyprlandCommands, R!WindowOps, R!Moves, R!KeyOps
  <2>2. (IF j.op = "BatchKeybinds" THEN j.on ELSE j.op = "BindKey") \in BOOLEAN
    BY DEF Jobs
  <2>3. (IF j.op = "BatchKeybinds" THEN j.on ELSE j.op = "BindKey") = Bound(j)
    BY <1>7 DEF Jobs, Bound, R!KeyOps
  <2> QED
    BY <1>7, <2>1, <2>2, <2>3, KeyDrafted
<1>8. CASE j.op \in R!Wandering \union R!Plain \union R!LayoutOps \union {"SetKeyboardLayouts"}
  <2>1. draft = R!DesktopCommands(j)
    BY <1>8 DEF R!HyprlandCommands, R!WindowOps, R!Moves, R!Wandering, R!Plain, R!LayoutOps
  <2> QED
    BY <1>8, <2>1, DesktopDrafted
<1> QED
  BY <1>0, <1>1, <1>2, <1>3, <1>4, <1>5, <1>6, <1>7, <1>8, <1>9, StateOpsAre DEF R!Operations

\* NiriCommands is a draft.
LEMMA NiriDrafted ==
    ASSUME kind = "niri", NEW j \in Jobs, Sendable(j), j.op \notin R!LayoutOps, NEW X, R!Looks(j) => R!Differs(j)
    PROVE  Drafted(j, R!NiriCommands(j), X)
<1> USE DEF Kinds
<1> DEFINE draft == R!NiriCommands(j)
<1>0. /\ j.op \in R!StateOps \union R!WindowOps \union R!Wandering \union R!Plain \union {"SetKeyboardLayouts"}
      /\ j.op # "PinWindow"
  BY StateOpsAre DEF Sendable, R!Refused, R!Operations, R!OptionOps, R!KeyOps, R!Hyprland
<1>1. CASE j.op = "SetFullscreen"
  <2> DEFINE cmd == R!Toggle("full", j.w)
  <2>1. R!Differs(j) /\ draft = <<cmd>>
    BY <1>1 DEF R!NiriCommands, R!WindowOps, R!Moves, R!Looks
  <2>2. cmd \in Commands /\ cmd.in = "any" /\ cmd.w = j.w /\ cmd.verb = "toggle" /\ cmd.arg = R!StateOf[j.op]
    <3>1. "full" \in R!States /\ "full" = R!StateOf[j.op]
      BY <1>1 DEF R!States, R!StateOf
    <3>2. j.w \in Win \union {None}
      BY DEF Jobs
    <3> QED
      BY <3>1, <3>2, ToggleIs
  <2> HIDE DEF cmd
  <2>3. SetsState(j, <<cmd>>)
    BY <1>1, <2>1, <2>2, OneCommand DEF SetsState, R!Hyprland
  <2>4. Drafted(j, <<cmd>>, X)
    BY <1>1, <2>2, <2>3, StateDrafted, StateOpsAre
  <2> QED
    BY <2>1, <2>4
<1>2. CASE j.op \in {"SetMaximized", "SetFakeFullscreen"}
  <2> DEFINE cmd == R!Toggle(R!StateOf[j.op], j.w)
  <2>1. draft = <<cmd>>
    BY <1>2 DEF R!NiriCommands, R!WindowOps, R!Moves
  <2>2. cmd \in Commands /\ cmd.in = "any" /\ cmd.w = j.w
    BY <1>2, ToggleIs, StatesAre, StateOpsAre DEF Jobs
  <2> HIDE DEF cmd
  <2>3. SetsState(j, <<cmd>>)
    BY <1>2, SettableIs DEF SetsState
  <2>4. Drafted(j, <<cmd>>, X)
    BY <1>2, <2>2, <2>3, StateDrafted, StateOpsAre
  <2> QED
    BY <2>1, <2>4
<1>3. CASE j.op = "MoveWindow"
  <2> DEFINE focus == R!Cmd("focus", j.w, "")
             place == R!Place("move", None)
  <2>1. draft = IF j.w = None THEN <<place>> ELSE <<focus, place>>
    BY <1>3 DEF R!NiriCommands, R!WindowOps, R!Moves
  <2>2. /\ focus \in Commands /\ focus.in = "any" /\ focus.verb = "focus" /\ focus.w = j.w
        /\ place \in Commands /\ place.in = "any" /\ place.verb = "place" /\ place.w = None
    BY FocusIs, PlaceIs DEF Jobs
  <2> HIDE DEF focus, place
  <2>3. j.op \notin R!Settable /\ j.op \notin R!KeyOps \union R!LayoutOps \union {"BatchConfig"}
    BY <1>3, SettableIs DEF R!KeyOps, R!LayoutOps
  <2>4. CASE j.w = None
    <3>1. Shape(j, <<place>>, X)
      BY <2>3, <2>4 DEF Shape, SetsState, SetsOptions, SetsKey, SetsLayout, MovesFocused
    <3> QED
      BY <2>1, <2>2, <2>4, <3>1, OneDrafted
  <2>5. CASE j.w # None
    <3>1. <<focus, place>> \in Seq(Commands) /\ Len(<<focus, place>>) = 2 /\ <<focus, place>> # <<>>
          /\ <<focus, place>>[1] = focus /\ <<focus, place>>[2] = place
      BY <2>2
    <3>2. Shape(j, <<focus, place>>, X)
      BY <2>2, <2>3, <3>1 DEF Shape, SetsState, SetsOptions, SetsKey, SetsLayout, MovesFocused
    <3>3. Blind(j)
      BY <1>3 DEF Blind
    <3> QED
      BY <2>1, <2>2, <2>5, <3>1, <3>2, <3>3 DEF Drafted
  <2> QED
    BY <2>4, <2>5
<1>4. CASE j.op = "ResizeWindow"
  <2> DEFINE width == R!Place("width", j.w)
             height == R!Place("height", j.w)
  <2>1. draft = <<width, height>>
    BY <1>4 DEF R!NiriCommands, R!WindowOps, R!Moves
  <2>2. /\ width \in Commands /\ width.in = "any" /\ width.w = j.w
        /\ height \in Commands /\ height.in = "any" /\ height.w = j.w
    BY PlaceIs DEF Jobs
  <2> HIDE DEF width, height
  <2>3. Shape(j, <<width, height>>, X)
    BY <1>4, NothingClaimed, StateOpsAre DEF R!KeyOps, R!LayoutOps
  <2> QED
    BY <2>1, <2>2, <2>3 DEF Drafted
<1>5. CASE j.op \in R!WindowOps \ {"MoveWindow", "ResizeWindow"}
  <2>1. draft = <<R!WindowCommand(j)>>
    BY <1>5 DEF R!NiriCommands, R!WindowOps, R!Moves
  <2> QED
    BY <1>5, <2>1, WindowDrafted
<1>6. CASE j.op \in R!Wandering \union R!Plain \union {"SetKeyboardLayouts"}
  <2>1. draft = R!DesktopCommands(j)
    BY <1>6 DEF R!NiriCommands, R!WindowOps, R!Moves, R!Wandering, R!Plain
  <2> QED
    BY <1>6, <2>1, DesktopDrafted
<1> QED
  BY <1>0, <1>1, <1>2, <1>3, <1>4, <1>5, <1>6, StateOpsAre

\* MangoCommands is a draft.
LEMMA MangoDrafted ==
    ASSUME kind = "mango", NEW j \in Jobs, Sendable(j), NEW X
    PROVE  Drafted(j, R!MangoCommands(j), X)
<1> USE DEF Kinds
<1> DEFINE draft == R!MangoCommands(j)
<1>0. /\ j.op \in R!StateOps \union R!WindowOps \union R!Wandering \union R!Plain \union R!LayoutOps
                   \union {"SetKeyboardLayouts", "SetConfig", "BatchConfig"}
  BY StateOpsAre DEF Sendable, R!Refused, R!Operations, R!OptionOps, R!KeyOps, R!Hyprland
<1>1. CASE j.op \in {"SetFullscreen", "SetMaximized", "PinWindow"}
  <2> DEFINE cmd == R!Toggle(R!StateOf[j.op], j.w)
  <2>1. draft = IF R!Differs(j) THEN <<cmd>> ELSE <<>>
    BY <1>1 DEF R!MangoCommands, R!WindowOps, R!Moves
  <2>2. cmd \in Commands /\ cmd.in = "any" /\ cmd.w = j.w /\ cmd.verb = "toggle" /\ cmd.arg = R!StateOf[j.op]
    BY <1>1, ToggleIs, StatesAre, StateOpsAre DEF Jobs
  <2> HIDE DEF cmd
  <2>3. CASE R!Differs(j)
    <3>1. SetsState(j, <<cmd>>)
      BY <1>1, <2>2, <2>3, OneCommand DEF SetsState, R!Hyprland
    <3> QED
      BY <1>1, <2>1, <2>2, <2>3, <3>1, StateDrafted, StateOpsAre
  <2>4. CASE ~R!Differs(j)
    BY <1>1, <2>1, <2>4 DEF Drafted, Sees
  <2> QED
    BY <2>3, <2>4
<1>2. CASE j.op = "SetFakeFullscreen"
  <2> DEFINE cmd == R!Toggle("fake", j.w)
  <2>1. draft = <<cmd>>
    BY <1>2 DEF R!MangoCommands, R!WindowOps, R!Moves
  <2>2. cmd \in Commands /\ cmd.in = "any" /\ cmd.w = j.w
    BY ToggleIs DEF Jobs, R!States
  <2> HIDE DEF cmd
  <2>3. SetsState(j, <<cmd>>)
    BY <1>2, SettableIs DEF SetsState
  <2> QED
    BY <1>2, <2>1, <2>2, <2>3, StateDrafted, StateOpsAre
<1>3. CASE j.op \in R!WindowOps
  <2>1. draft = <<R!WindowCommand(j)>>
    BY <1>3 DEF R!MangoCommands, R!WindowOps, R!Moves
  <2> QED
    BY <1>3, <2>1, WindowDrafted
<1>4. CASE j.op = "SetConfig"
  <2>1. draft = <<R!Desk("option", {"border"})>>
    BY <1>4 DEF R!MangoCommands, R!WindowOps, R!Moves
  <2> QED
    BY <1>4, <2>1, OptionDrafted DEF R!OptionOps, R!Options
<1>5. CASE j.op = "BatchConfig"
  <2> DEFINE o(x) == R!Desk("option", {x})
             h == o("gaps_h")
             v == o("gaps_v")
             b == o("border")
  <2>1. draft = IF j.on THEN <<h, v, b>> ELSE <<b, h, v>>
    BY <1>5 DEF R!MangoCommands, R!WindowOps, R!Moves
  <2>2. /\ h \in Commands /\ h.in = "any" /\ h.verb = "option" /\ h.arg = {"gaps_h"}
        /\ v \in Commands /\ v.in = "any" /\ v.verb = "option" /\ v.arg = {"gaps_v"}
        /\ b \in Commands /\ b.in = "any" /\ b.verb = "option" /\ b.arg = {"border"}
    BY DeskIs DEF R!Options
  <2> HIDE DEF h, v, b
  <2>3. ASSUME NEW x \in Commands, NEW y \in Commands, NEW z \in Commands, {x, y, z} = {h, v, b}
        PROVE  Drafted(j, <<x, y, z>>, X)
    <3>1. /\ <<x, y, z>> \in Seq(Commands) /\ Len(<<x, y, z>>) = 3 /\ <<x, y, z>> # <<>>
          /\ <<x, y, z>>[1] = x /\ <<x, y, z>>[2] = y /\ <<x, y, z>>[3] = z
      OBVIOUS
    <3>2. \A c \in {x, y, z} : c.in = "any" /\ c.verb = "option"
      BY <2>2, <2>3
    <3>3. \A q \in Steady : \E c \in {x, y, z} : q \in c.arg
      BY <2>2, <2>3 DEF Steady
    <3> DEFINE s == <<x, y, z>>
    <3>4. \A i \in 1..3 : s[i] \in {x, y, z}
      BY <3>1
    <3>5. \A c \in {x, y, z} : \E i \in 1..3 : s[i] = c
      BY <3>1
    <3>6. s \in Seq(Commands) /\ Len(s) = 3 /\ s # <<>>
      BY <3>1
    <3> HIDE DEF s
    <3>7. SetsOptions(j, s, X)
      BY <3>2, <3>3, <3>4, <3>5, <3>6 DEF SetsOptions
    <3>8. j.op \notin R!Settable /\ j.op \notin R!KeyOps \union R!LayoutOps \union {"MoveWindow"}
      BY <1>5, SettableIs DEF R!KeyOps, R!LayoutOps
    <3>9. Shape(j, s, X)
      BY <3>7, <3>8 DEF Shape, SetsState, SetsKey, SetsLayout, MovesFocused
    <3>10. Drafted(j, s, X)
      BY <3>2, <3>4, <3>6, <3>9 DEF Drafted, Desks
    <3> QED
      BY <3>10 DEF s
  <2>4. {b, h, v} = {h, v, b}
    OBVIOUS
  <2> QED
    BY <2>1, <2>2, <2>3, <2>4
<1>6. CASE j.op \in R!Wandering \union R!Plain \union R!LayoutOps \union {"SetKeyboardLayouts"}
  <2>1. draft = R!DesktopCommands(j)
    BY <1>6 DEF R!MangoCommands, R!WindowOps, R!Moves, R!Wandering, R!Plain, R!LayoutOps
  <2> QED
    BY <1>6, <2>1, DesktopDrafted
<1> QED
  BY <1>0, <1>1, <1>2, <1>3, <1>4, <1>5, <1>6, StateOpsAre

----------------------------------------------------------------------------
(* The invariant of one request. *)

Waiting == {"resolve", "active", "look", "spaces", "outputs", "version"}

\* The windows that are in the state the request is about.
Found(j, X) == {w \in DOMAIN X.wins : R!StateOf[j.op] \in X.wins[w].is}

\* The client saw them, unless on niri the window may cover its output anyway.
Known(j, X) == j.seen = Found(j, X) \/ (kind = "niri" /\ R!Covers(X, j.w))

\* Which requests wait for which answer.
Stage(j) ==
    /\ j.phase # "idle" => j.op \in R!Operations
    /\ j.phase \in {"idle"} \union Waiting =>
         j.touched = {} /\ j.cmds = << >> /\ j.result = "" /\ (j.phase # "outputs" => ~j.guessed)
    /\ j.phase \in {"active", "look", "spaces", "outputs", "version", "send"} => ~R!Refused(j)
    /\ j.phase = "active" => j.w = None /\
         IF kind \in R!Hyprland THEN j.op = "SetFullscreen" ELSE kind = "niri" /\ j.op \in R!StateOps
    /\ j.phase = "look" => R!Looks(j)
    /\ j.phase \in {"spaces", "outputs"} => kind = "niri" /\ j.op = "SetFullscreen"
    /\ j.phase = "version" =>
         kind \in R!Hyprland /\ j.op \in R!Versioned /\ (j.op = "SetFullscreen" => R!Differs(j))
    /\ (j.phase = "send") = (j.cmds # << >>)
    /\ (j.phase = "done") = (j.result # "")

\* What the client saw is still so.
Accurate(j, X) ==
    ~j.disturbed =>
      /\ j.phase = "active" /\ kind \in R!Hyprland => j.seen = Found(j, X)
      /\ j.phase \in {"spaces", "outputs", "version", "send"} /\ Sees(j) /\ j.w # None /\ ~j.guessed =>
           Known(j, X) /\ (kind \notin R!Hyprland => j.w \in DOMAIN X.wins)

\* The goal of a cycling request is the neighbour of the layout it found.
LayoutFits(j) ==
    /\ j.op \in {"NextLayout", "PrevLayout"} /\ j.current # 0 /\ j.on =>
         j.goal % 3 = (j.current + IF j.op = "NextLayout" THEN 1 ELSE 2) % 3
    /\ j.op = "SetLayout" => j.goal \in R!Layouts

Sends(j, X) ==
    j.phase = "send" => (\A i \in 1..Len(j.cmds) : Meant(j, j.cmds[i])) /\ Shape(j, j.cmds, X)

ActsOn(j, X) ==
    \/ j.touched \subseteq {j.w}
    \/ j.w = None
    \/ kind \in R!Hyprland /\ j.op \in {"SetFullscreen", "SetMaximized", "ToggleGroup"}
    \/ kind = "niri" /\ j.op = "MoveWindow" /\ (j.disturbed \/ j.w \notin DOMAIN X.wins)

Effective(j, X) ==
    /\ j.op \in R!Settable /\ j.w # None /\ (kind \in R!Hyprland => j.w = X.focus)
         /\ (kind = "niri" => ~R!Covers(X, j.w)) =>
         (R!StateOf[j.op] \in X.wins[j.w].is) = j.on
    /\ j.op = "BatchConfig" => Steady \subseteq X.opts
    /\ j.op \in R!KeyOps => X.bound = Bound(j)
    /\ j.op \in {"NextLayout", "PrevLayout"} /\ j.current # 0 /\ j.on =>
         X.layout % 3 = (j.current + IF j.op = "NextLayout" THEN 1 ELSE 2) % 3

TakesEffect(j, X) ==
    j.phase = "done" /\ j.result = "ok" /\ ~j.disturbed /\ ~j.guessed => Effective(j, X)

JobOK(j, X) ==
    j \in Jobs /\ Stage(j) /\ Accurate(j, X) /\ LayoutFits(j) /\ Sends(j, X) /\ ActsOn(j, X) /\ TakesEffect(j, X)

RequestsInv ==
    /\ kind \in Kinds
    /\ comp \in Compositor /\ comp.focus \in DOMAIN comp.wins \union {None}
    /\ dialect \in {"unknown", kind}
    /\ job \in [Clients -> Jobs]
    /\ \A c \in Clients : JobOK(job[c], comp)

\* The invariant of a request mentions the kind of compositor, which never changes.
LEMMA KindStays ==
    ASSUME kind' = kind, NEW j, NEW X
    PROVE  JobOK(j, X)' <=> JobOK(j, X)
<1> USE DEF R!Hyprland
<1>1. Stage(j)' <=> Stage(j)
  BY DEF Stage, R!Refused, R!Looks, R!Differs, R!Versioned
<1>2. Sees(j)' <=> Sees(j)
  BY DEF Sees
<1>3. Accurate(j, X)' <=> Accurate(j, X)
  BY <1>2 DEF Accurate, Known, Found, Sees, R!Covers
<1>4. ActsOn(j, X)' <=> ActsOn(j, X)
  BY DEF ActsOn
<1>5. (j.op \in R!Settable)' <=> j.op \in R!Settable
  BY DEF R!Settable
<1>6. TakesEffect(j, X)' <=> TakesEffect(j, X)
  BY <1>5 DEF TakesEffect, Effective, Bound, R!Covers
<1>7. Blind(j)' <=> Blind(j)
  BY DEF Blind
<1>8. ASSUME NEW cmd PROVE Meant(j, cmd)' <=> Meant(j, cmd)
  BY <1>7 DEF Meant
<1>9. SetsState(j, j.cmds)' <=> SetsState(j, j.cmds)
  BY <1>5 DEF SetsState, R!Differs
<1>10. MovesFocused(j, j.cmds, X)' <=> MovesFocused(j, j.cmds, X)
  BY DEF MovesFocused
<1>11. Shape(j, j.cmds, X)' <=> Shape(j, j.cmds, X)
  BY <1>9, <1>10 DEF Shape, SetsOptions, SetsKey, SetsLayout, Bound
<1>12. Sends(j, X)' <=> Sends(j, X)
  BY <1>8, <1>11 DEF Sends
<1>13. (j \in Jobs)' <=> j \in Jobs
  BY DEF Jobs, Commands
<1>14. LayoutFits(j)' <=> LayoutFits(j)
  BY DEF LayoutFits
<1> QED
  BY <1>1, <1>3, <1>4, <1>6, <1>12, <1>13, <1>14 DEF JobOK

----------------------------------------------------------------------------
(* The stages of a request keep its invariant. *)

\* The same request, at another stage.
Same(j, k) ==
    /\ k.op = j.op /\ k.w = j.w /\ k.on = j.on /\ k.seen = j.seen /\ k.current = j.current /\ k.goal = j.goal
    /\ k.guessed = j.guessed /\ k.touched = j.touched /\ k.disturbed = j.disturbed

\* Done changes the phase, the result and the commands.
LEMMA DoneIs ==
    ASSUME NEW j \in Jobs, NEW result \in {"ok", "error", "panic"}
    PROVE  LET k == R!Done(j, result) IN
           k \in Jobs /\ Same(j, k) /\ k.phase = "done" /\ k.result = result /\ k.cmds = << >>
<1>1. << >> \in Seq(Commands)
  OBVIOUS
<1> QED
  BY <1>1 DEF Jobs, Phases, Same, R!Done

\* At changes the phase.
LEMMA AtIs ==
    ASSUME NEW j \in Jobs, NEW phase \in Phases
    PROVE  LET k == R!At(j, phase) IN
           k \in Jobs /\ Same(j, k) /\ k.phase = phase /\ k.result = j.result /\ k.cmds = j.cmds
BY DEF Jobs, Same, R!At

\* What Sending changes.
LEMMA SendIs ==
    ASSUME NEW j \in Jobs, NEW cmds \in Seq(Commands)
    PROVE  LET k == [R!At(j, "send") EXCEPT !.cmds = cmds] IN
           k \in Jobs /\ Same(j, k) /\ k.phase = "send" /\ k.result = j.result /\ k.cmds = cmds
BY DEF Jobs, Phases, Same, R!At

\* A request may end with an error at any time, and with success once it is
\* effective.
LEMMA DoneOK ==
    ASSUME NEW j \in Jobs, j.op \in R!Operations, NEW X, ActsOn(j, X), LayoutFits(j),
           NEW result \in {"ok", "error", "panic"},
           result = "ok" /\ ~j.disturbed /\ ~j.guessed => Effective(j, X)
    PROVE  JobOK(R!Done(j, result), X)
<1> DEFINE k == R!Done(j, result)
<1>1. k \in Jobs /\ Same(j, k) /\ k.phase = "done" /\ k.result = result /\ k.cmds = << >>
  BY DoneIs
<1> HIDE DEF k
<1>2. Stage(k) /\ Accurate(k, X) /\ Sends(k, X)
  BY <1>1 DEF Same, Stage, Accurate, Sends, Waiting
<1>3. LayoutFits(k) /\ ActsOn(k, X)
  BY <1>1 DEF Same, LayoutFits, ActsOn
<1>4. Effective(j, X) => Effective(k, X)
  BY <1>1 DEF Same, Effective, Bound
<1>5. TakesEffect(k, X)
  BY <1>1, <1>4 DEF Same, TakesEffect
<1>6. JobOK(k, X)
  BY <1>1, <1>2, <1>3, <1>5 DEF JobOK
<1> QED
  BY <1>6 DEF k

\* A request that has not sent anything yet.
Ready(j) ==
    /\ j \in Jobs /\ j.op \in R!Operations /\ LayoutFits(j)
    /\ j.touched = {} /\ j.cmds = << >> /\ j.result = ""

Looked(j, X) ==
    ~j.disturbed /\ ~j.guessed /\ Sees(j) /\ j.w # None =>
      Known(j, X) /\ (kind \notin R!Hyprland => j.w \in DOMAIN X.wins)

\* A request may wait for an answer when it is one that waits for it.
LEMMA AtOK ==
    ASSUME NEW j, Ready(j), NEW phase \in Waiting, NEW X,
           phase # "outputs" => ~j.guessed,
           phase # "resolve" => ~R!Refused(j),
           phase = "active" => /\ j.w = None
                               /\ IF kind \in R!Hyprland THEN j.op = "SetFullscreen"
                                  ELSE kind = "niri" /\ j.op \in R!StateOps,
           phase = "active" /\ kind \in R!Hyprland /\ ~j.disturbed => j.seen = Found(j, X),
           phase = "look" => R!Looks(j),
           phase \in {"spaces", "outputs"} => kind = "niri" /\ j.op = "SetFullscreen" /\ Looked(j, X),
           phase = "version" => kind \in R!Hyprland /\ j.op \in R!Versioned /\ (j.op = "SetFullscreen" => R!Differs(j))
                                /\ Looked(j, X)
    PROVE  JobOK(R!At(j, phase), X)
<1> DEFINE k == R!At(j, phase)
<1>1. k \in Jobs /\ Same(j, k) /\ k.phase = phase /\ k.result = "" /\ k.cmds = << >>
  <2>1. j \in Jobs /\ j.result = "" /\ j.cmds = << >> /\ phase \in Phases
    BY DEF Ready, Waiting, Phases
  <2> QED
    BY <2>1, AtIs
<1> HIDE DEF k
<1>2. /\ R!Refused(k) <=> R!Refused(j)
      /\ R!Looks(k) <=> R!Looks(j)
      /\ R!Differs(k) <=> R!Differs(j)
      /\ Sees(k) <=> Sees(j)
  BY <1>1 DEF Same, R!Refused, R!Looks, R!Differs, Sees
<1>3. Stage(k)
  BY <1>1, <1>2 DEF Same, Stage, Waiting, Ready
<1>4. Found(k, X) = Found(j, X) /\ (Known(k, X) <=> Known(j, X))
  BY <1>1 DEF Same, Found, Known
<1>5. Accurate(k, X)
  BY <1>1, <1>2, <1>4 DEF Same, Accurate, Looked, Waiting
<1>6. LayoutFits(k)
  BY <1>1 DEF Same, LayoutFits, Ready
<1>7. ActsOn(k, X)
  BY <1>1 DEF Same, ActsOn, Ready
<1>8. Sends(k, X) /\ TakesEffect(k, X)
  BY <1>1 DEF Sends, TakesEffect, Waiting
<1>9. JobOK(k, X)
  BY <1>1, <1>3, <1>5, <1>6, <1>7, <1>8 DEF JobOK
<1> QED
  BY <1>9 DEF k

\* The dialects a request may be sent in: the right one, the old one when the
\* version could not be read, none for a request that is not versioned.
Fitting(j, d) ==
    \/ d = kind
    \/ j.guessed
    \/ j.op \notin R!Versioned
    \/ j.op = "SetFullscreen" /\ ~R!Differs(j)

\* What is drafted in a fitting dialect.
LEMMA DraftedIs ==
    ASSUME kind \in Kinds, NEW j, Ready(j), ~R!Refused(j), NEW d \in {"unknown", "legacy", "lua"} \union {kind},
           Fitting(j, d), j.op \in R!LayoutOps => j.goal \in R!Layouts /\ kind # "niri",
           kind = "niri" /\ R!Looks(j) => R!Differs(j), NEW X
    PROVE  Drafted(j, R!Drafts(j, d), X)
<1>1. Sendable(j) /\ j \in Jobs
  BY DEF Sendable, Ready
<1>2. CASE kind \in R!Hyprland
  <2>1. kind = "lua" /\ ~j.guessed /\ j.op = "SetMaximized" => d = "lua"
    BY DEF Fitting, R!Versioned, R!StateOps, R!StateOf
  <2> DEFINE lua == d = "lua"
  <2>2. R!Drafts(j, d) = R!HyprlandCommands(j, lua)
    BY <1>2 DEF R!Drafts, R!Hyprland
  <2>3. lua \in BOOLEAN /\ (kind = "lua" /\ ~j.guessed /\ j.op = "SetMaximized" => lua)
    BY <2>1
  <2> HIDE DEF lua
  <2> QED
    BY <1>1, <1>2, <2>2, <2>3, HyprlandDrafted
<1>3. CASE kind = "niri"
  <2>1. R!Drafts(j, d) = R!NiriCommands(j)
    BY <1>3 DEF R!Drafts, R!Hyprland
  <2> QED
    BY <1>1, <1>3, <2>1, NiriDrafted
<1>4. CASE kind = "mango"
  <2>1. R!Drafts(j, d) = R!MangoCommands(j)
    BY <1>4 DEF R!Drafts, R!Hyprland
  <2> QED
    BY <1>1, <1>4, <2>1, MangoDrafted
<1> QED
  BY <1>2, <1>3, <1>4 DEF Kinds

\* Noting the dialect changes nothing else of a command.
LEMMA Noted ==
    ASSUME NEW cmd \in Commands, NEW in \in {"any", "legacy", "lua", "unknown"}
    PROVE  LET c == [cmd EXCEPT !.in = in] IN
           c \in Commands /\ c.verb = cmd.verb /\ c.w = cmd.w /\ c.arg = cmd.arg /\ c.in = in
BY DEF Commands

\* The shape of the commands does not depend on the dialect, when it fits.
LEMMA ShapeNoted ==
    ASSUME NEW j, NEW X, NEW s \in Seq(Commands), NEW t \in Seq(Commands), Shape(j, s, X), Len(t) = Len(s),
           \A i \in 1..Len(s) : t[i].verb = s[i].verb /\ t[i].w = s[i].w /\ t[i].arg = s[i].arg,
           j.op \in R!KeyOps \union {"BatchConfig"} \/ (kind = "niri" /\ j.op = "MoveWindow") =>
             \A i \in 1..Len(s) : t[i].in = "any"
    PROVE  Shape(j, t, X)
<1>1. SetsState(j, t)
  BY DEF Shape, SetsState
<1>2. SetsOptions(j, t, X)
  BY DEF Shape, SetsOptions
<1>3. SetsKey(j, t) /\ SetsLayout(j, t)
  BY DEF Shape, SetsKey, SetsLayout
<1>4. MovesFocused(j, t, X)
  BY DEF Shape, MovesFocused
<1> QED
  BY <1>1, <1>2, <1>3, <1>4 DEF Shape

\* A request whose state was already right is effective.
LEMMA NothingToSend ==
    ASSUME comp.focus \in DOMAIN comp.wins \union {None},
           NEW j \in Jobs, Sees(j), ~R!Differs(j), Looked(j, comp), ~j.disturbed, ~j.guessed
    PROVE  Effective(j, comp)
<1>1. j.op \in {"SetFullscreen", "SetMaximized", "PinWindow"}
  BY DEF Sees
<1>2. ASSUME j.w # None, kind \in R!Hyprland => j.w = comp.focus, kind = "niri" => ~R!Covers(comp, j.w)
      PROVE  (R!StateOf[j.op] \in comp.wins[j.w].is) = j.on
  <2>1. j.seen = Found(j, comp) /\ j.w \in DOMAIN comp.wins
    BY <1>2 DEF Looked, Known
  <2>2. j.w \in j.seen <=> R!StateOf[j.op] \in comp.wins[j.w].is
    BY <2>1 DEF Found
  <2>3. (j.w \in j.seen) = j.on
    BY DEF R!Differs
  <2> QED
    BY <2>2, <2>3
<1> QED
  BY <1>1, <1>2 DEF Effective, R!KeyOps

\* A request that is ready becomes one that sends, or ends.
LEMMA SendingOK ==
    ASSUME kind \in Kinds, comp.focus \in DOMAIN comp.wins \union {None},
           NEW j, Ready(j), ~R!Refused(j), NEW d \in {"unknown", "legacy", "lua"} \union {kind},
           Fitting(j, d), j.op \in R!LayoutOps => j.goal \in R!Layouts /\ kind # "niri",
           kind = "niri" /\ R!Looks(j) => R!Differs(j), Looked(j, comp)
    PROVE  JobOK(R!Sending(j, d), comp)
<1> DEFINE draft == R!Drafts(j, d)
           in == R!WrittenIn(j, d)
           cmds == [i \in DOMAIN draft |-> [draft[i] EXCEPT !.in = in]]
           k == [R!At(j, "send") EXCEPT !.cmds = cmds]
<1>1. Drafted(j, draft, comp)
  BY DraftedIs
<1>2. in \in {"any", "legacy", "lua", "unknown"}
  BY DEF Kinds, R!Hyprland, R!WrittenIn
<1>3. R!Sending(j, d) = IF kind \in R!Hyprland /\ j.op = "SetFakeFullscreen" /\ d = "legacy" THEN R!Done(j, "error")
                        ELSE IF draft = << >> THEN R!Done(j, "ok") ELSE k
  BY DEF R!Sending
<1>4. in \in {"any", kind} \/ j.guessed \/ j.op \in R!LayoutOps \/ (j.op = "SetFullscreen" /\ ~R!Differs(j) /\ kind \in R!Hyprland)
  BY DEF Fitting, R!WrittenIn
<1>5. j.op \in R!KeyOps \union {"BatchConfig"} \/ (kind = "niri" /\ j.op = "MoveWindow") => in = "any"
  BY DEF R!KeyOps, R!Versioned, R!WindowOps, R!Moves, R!StateOps, R!StateOf, R!Wandering, R!LayoutOps, R!Hyprland, R!WrittenIn
<1>6. j.op = "SetFullscreen" /\ ~R!Differs(j) /\ kind \in R!Hyprland => draft = << >>
  <2> SUFFICES ASSUME j.op = "SetFullscreen", ~R!Differs(j), kind \in R!Hyprland PROVE draft = << >>
    OBVIOUS
  <2>1. draft = R!HyprlandCommands(j, d = "lua")
    BY DEF R!Hyprland, R!Drafts
  <2>2. R!HyprlandCommands(j, d = "lua") = << >>
    BY DEF R!HyprlandCommands, R!WindowOps, R!Moves
  <2> QED
    BY <2>1, <2>2
<1> HIDE DEF draft, in
<1>7. /\ j \in Jobs /\ j.op \in R!Operations /\ ActsOn(j, comp) /\ LayoutFits(j)
      /\ j.touched = {} /\ j.cmds = << >> /\ j.result = ""
  BY DEF Ready, ActsOn
<1>8. \A result \in {"error"} : JobOK(R!Done(j, result), comp)
  BY <1>7, DoneOK
<1>9. ASSUME draft = << >> PROVE JobOK(R!Done(j, "ok"), comp)
  <2>1. Sees(j) /\ ~R!Differs(j)
    BY <1>1, <1>9 DEF Drafted
  <2>2. ~j.disturbed /\ ~j.guessed => Effective(j, comp)
    BY <1>7, <2>1, NothingToSend
  <2> QED
    BY <1>7, <2>2, DoneOK
<1>10. ASSUME draft # << >> PROVE JobOK(k, comp)
  <2>1. draft \in Seq(Commands) /\ Shape(j, draft, comp)
        /\ \A i \in 1..Len(draft) : j.w # None => draft[i].w = j.w \/ draft[i].verb \in Desks \/ Blind(j)
    BY <1>1, <1>10 DEF Drafted
  <2>2. /\ cmds \in Seq(Commands) /\ Len(cmds) = Len(draft) /\ cmds # << >>
        /\ \A i \in 1..Len(draft) : /\ cmds[i].verb = draft[i].verb /\ cmds[i].w = draft[i].w
                                   /\ cmds[i].arg = draft[i].arg /\ cmds[i].in = in
    <3>1. \A i \in 1..Len(draft) : draft[i] \in Commands
      BY <2>1
    <3>2. \A i \in 1..Len(draft) :
            LET c == [draft[i] EXCEPT !.in = in] IN
            c \in Commands /\ c.verb = draft[i].verb /\ c.w = draft[i].w /\ c.arg = draft[i].arg /\ c.in = in
      BY <1>2, <3>1, Noted
    <3>3. DOMAIN draft = 1..Len(draft) /\ Len(draft) \in Nat /\ Len(draft) # 0
      BY <1>10, <2>1
    <3> DEFINE note(i) == [draft[i] EXCEPT !.in = in]
    <3>4. cmds = [i \in 1..Len(draft) |-> note(i)]
      BY <3>3
    <3>5. \A i \in 1..Len(draft) : note(i) \in Commands
      BY <3>2
    <3>6. \A i \in 1..Len(draft) : cmds[i] = note(i)
      BY <3>4
    <3>7. cmds \in Seq(Commands) /\ Len(cmds) = Len(draft)
      <4> HIDE DEF note, cmds
      <4> QED
        BY <3>3, <3>4, <3>5
    <3>8. cmds # << >>
      <4> HIDE DEF cmds
      <4> QED
        BY <3>3, <3>7
    <3> QED
      BY <3>2, <3>6, <3>7, <3>8
  <2> HIDE DEF cmds
  <2>3. k \in Jobs /\ Same(j, k) /\ k.phase = "send" /\ k.result = "" /\ k.cmds = cmds
    BY <1>7, <2>2, SendIs
  <2> HIDE DEF k
  <2>4. R!Refused(k) <=> R!Refused(j)
    BY <2>3 DEF Same, R!Refused
  <2>5. Stage(k)
    BY <1>7, <2>2, <2>3, <2>4 DEF Same, Stage, Waiting
  <2>6. (Known(k, comp) <=> Known(j, comp)) /\ (Sees(k) <=> Sees(j))
    BY <2>3 DEF Same, Known, Found, Sees
  <2>7. Accurate(k, comp)
    BY <2>3, <2>6 DEF Same, Accurate, Looked
  <2>8. LayoutFits(k) /\ ActsOn(k, comp) /\ TakesEffect(k, comp)
    BY <1>7, <2>3 DEF Same, LayoutFits, ActsOn, TakesEffect
  <2>9. Shape(j, cmds, comp)
    BY <1>5, <2>1, <2>2, ShapeNoted
  <2>10. Shape(k, cmds, comp)
    <3>1. R!Differs(k) <=> R!Differs(j)
      BY <2>3 DEF Same, R!Differs
    <3>2. SetsState(k, cmds)
      BY <2>3, <2>9, <3>1 DEF Same, Shape, SetsState
    <3>3. SetsOptions(k, cmds, comp) /\ SetsLayout(k, cmds)
      BY <2>3, <2>9 DEF Same, Shape, SetsOptions, SetsLayout
    <3>5. Bound(k) = Bound(j)
      BY <2>3 DEF Same, Bound
    <3>6. SetsKey(k, cmds)
      BY <2>3, <2>9, <3>5 DEF Same, Shape, SetsKey
    <3>4. MovesFocused(k, cmds, comp)
      BY <2>3, <2>9 DEF Same, Shape, MovesFocused
    <3> QED
      BY <3>2, <3>3, <3>4, <3>6 DEF Shape
  <2>11. \A i \in 1..Len(cmds) : Meant(k, cmds[i])
    BY <1>4, <1>6, <1>10, <2>1, <2>2, <2>3 DEF Same, Meant, Blind
  <2>12. Sends(k, comp)
    BY <2>3, <2>10, <2>11 DEF Sends
  <2> QED
    BY <2>3, <2>5, <2>7, <2>8, <2>12 DEF JobOK
<1> QED
  BY <1>3, <1>8, <1>9, <1>10

\* What the answers of the compositor are stored in.
Kept(j, k) ==
    /\ k \in Jobs /\ k.op = j.op /\ k.on = j.on /\ k.phase = j.phase
    /\ k.cmds = j.cmds /\ k.result = j.result /\ k.touched = j.touched /\ k.disturbed = j.disturbed

\* The window is stored.
LEMMA WindowIs ==
    ASSUME NEW j \in Jobs, NEW w \in Win \union {None}
    PROVE  LET k == [j EXCEPT !.w = w] IN
           Kept(j, k) /\ k.w = w /\ k.seen = j.seen /\ k.current = j.current /\ k.goal = j.goal /\ k.guessed = j.guessed
BY DEF Jobs, Kept

\* What was seen is stored.
LEMMA SeenIs ==
    ASSUME NEW j \in Jobs, NEW seen \in SUBSET Win
    PROVE  LET k == [j EXCEPT !.seen = seen] IN
           Kept(j, k) /\ k.w = j.w /\ k.seen = seen /\ k.current = j.current /\ k.goal = j.goal /\ k.guessed = j.guessed
BY DEF Jobs, Kept

\* The guess is noted.
LEMMA GuessIs ==
    ASSUME NEW j \in Jobs
    PROVE  LET k == [j EXCEPT !.guessed = TRUE] IN
           Kept(j, k) /\ k.w = j.w /\ k.seen = j.seen /\ k.current = j.current /\ k.goal = j.goal /\ k.guessed = TRUE
BY DEF Jobs, Kept

\* The compositor and the client's knowledge of the dialect.
Context ==
    /\ kind \in Kinds
    /\ comp \in Compositor /\ comp.focus \in DOMAIN comp.wins \union {None}
    /\ dialect \in {"unknown", kind}

\* Prepared keeps the invariant of the request.
LEMMA PreparedOK ==
    ASSUME Context, NEW j, Ready(j), kind \in R!Hyprland => ~j.guessed, ~R!Refused(j),
           j.op \in R!LayoutOps => j.goal \in R!Layouts /\ kind # "niri",
           kind = "niri" /\ R!Looks(j) => R!Differs(j), Looked(j, comp)
    PROVE  JobOK(R!Prepared(j), comp)
<1>1. CASE kind \in R!Hyprland /\ dialect = "unknown" /\ j.op \in R!Versioned /\ (j.op = "SetFullscreen" => R!Differs(j))
  <2>1. R!Prepared(j) = R!At(j, "version")
    BY <1>1 DEF R!Prepared
  <2> QED
    BY <1>1, <2>1, AtOK DEF Waiting, R!Hyprland
<1>2. CASE ~(kind \in R!Hyprland /\ dialect = "unknown" /\ j.op \in R!Versioned /\ (j.op = "SetFullscreen" => R!Differs(j)))
  <2>1. R!Prepared(j) = R!Sending(j, dialect)
    BY <1>2 DEF R!Prepared
  <2>2. Fitting(j, dialect) \/ kind \notin R!Hyprland
    BY <1>2 DEF Fitting, Context
  <2>3. CASE kind \in R!Hyprland
    BY <2>1, <2>2, <2>3, SendingOK DEF Context
  <2>4. CASE kind \notin R!Hyprland
    <3>1. R!Sending(j, dialect) = R!Sending(j, kind)
      <4>1. R!Drafts(j, dialect) = R!Drafts(j, kind)
        BY <2>4 DEF Context, Kinds, R!Hyprland, R!Drafts
      <4>2. R!WrittenIn(j, dialect) = "any" /\ R!WrittenIn(j, kind) = "any"
        BY <2>4 DEF R!WrittenIn
      <4> QED
        BY <2>4, <4>1, <4>2 DEF R!Sending
    <3>2. Fitting(j, kind)
      BY DEF Fitting
    <3> QED
      BY <2>1, <3>1, <3>2, SendingOK DEF Context
  <2> QED
    BY <2>3, <2>4
<1> QED
  BY <1>1, <1>2

\* What a client sees it has looked at.
LEMMA LooksFirst == ASSUME NEW j, Sees(j) PROVE R!Looks(j)
BY DEF Sees, R!Looks

\* Started keeps the invariant of the request.
LEMMA StartedOK ==
    ASSUME Context, NEW j, Ready(j), ~j.guessed
    PROVE  JobOK(R!Started(j), comp)
<1>1. CASE R!Refused(j)
  BY <1>1, DoneOK DEF R!Started, Ready, ActsOn
<1>2. CASE ~R!Refused(j) /\ kind = "niri" /\ j.op \in R!StateOps /\ j.w = None
  <2>1. R!Started(j) = R!At(j, "active")
    BY <1>2 DEF R!Started
  <2> QED
    BY <1>2, <2>1, AtOK DEF Waiting, R!Hyprland
<1>3. CASE ~R!Refused(j) /\ ~(kind = "niri" /\ j.op \in R!StateOps /\ j.w = None)
  <2>1. CASE R!Looks(j)
    <3>1. R!Started(j) = R!At(j, "look")
      BY <1>3, <2>1 DEF R!Started
    <3> QED
      BY <1>3, <2>1, <3>1, AtOK DEF Waiting
  <2>2. CASE ~R!Looks(j)
    <3>1. R!Started(j) = R!Prepared(j)
      BY <1>3, <2>2 DEF R!Started
    <3>2. j.op \notin R!LayoutOps /\ Looked(j, comp)
      BY <2>2, LooksFirst DEF R!Looks, Looked
    <3> QED
      BY <1>3, <2>2, <3>1, <3>2, PreparedOK
  <2> QED
    BY <2>1, <2>2
<1> QED
  BY <1>1, <1>2, <1>3

\* The answer to ActiveWindow keeps the invariant of the request.
LEMMA ActivatedOK ==
    ASSUME Context, NEW j, JobOK(j, comp), j.phase = "active", NEW w \in Win \union {None}
    PROVE  JobOK(R!Activated(j, w), comp)
<1> DEFINE k == [j EXCEPT !.w = w]
<1>1. j \in Jobs /\ Stage(j) /\ Accurate(j, comp) /\ LayoutFits(j)
  BY DEF JobOK
<1>2. Kept(j, k) /\ k.w = w /\ k.seen = j.seen /\ k.current = j.current /\ k.goal = j.goal /\ k.guessed = j.guessed
  BY <1>1, WindowIs
<1>3. R!Activated(j, w) = IF kind \in R!Hyprland THEN R!Prepared(k)
                          ELSE IF w = None THEN R!Done(j, "ok")
                          ELSE IF R!Looks(k) THEN R!At(k, "look") ELSE R!Prepared(k)
  BY DEF R!Activated
<1> HIDE DEF k
<1>4. j.op \in R!StateOps /\ j.touched = {} /\ j.cmds = << >> /\ j.result = "" /\ ~j.guessed /\ ~R!Refused(j)
  BY <1>1, StateOpsAre DEF Stage, Waiting
<1>5. j.op \in R!Operations
  BY <1>1 DEF Stage
<1>6. LayoutFits(k) /\ Ready(k)
  BY <1>1, <1>2, <1>4, <1>5 DEF LayoutFits, Kept, Ready
<1>7. k.op \notin R!LayoutOps
  BY <1>2, <1>4, StateOpsAre DEF Kept, R!LayoutOps
<1>8. CASE kind \in R!Hyprland
  <2>1. j.op = "SetFullscreen" /\ (~j.disturbed => j.seen = Found(j, comp))
    BY <1>1, <1>8 DEF Stage, Accurate
  <2>2. Looked(k, comp)
    BY <1>2, <1>8, <2>1 DEF Kept, Looked, Known, Found
  <2>3. ~R!Refused(k)
    BY <1>2, <1>8, <2>1 DEF Kept, R!Refused, R!Hyprland, R!StateOps, R!StateOf, R!WindowOps, R!Moves
  <2> QED
    BY <1>2, <1>3, <1>4, <1>6, <1>7, <1>8, <2>2, <2>3, PreparedOK DEF R!Hyprland
<1>9. CASE kind \notin R!Hyprland /\ w = None
  <2>1. JobOK(R!Done(j, "ok"), comp)
    <3>1. kind = "niri"
      BY <1>1, <1>9 DEF Stage
    <3>2. R!Refused(k) <=> R!Refused(j)
      BY <1>2, <1>4, <3>1, StateOpsAre DEF Kept, R!Refused
    <3>3. ActsOn(j, comp) /\ j.w = None
      BY <1>1, <1>4 DEF ActsOn, Stage
    <3>4. Effective(j, comp)
      BY <1>4, <3>3, StateOpsAre DEF Effective, R!KeyOps
    <3> QED
      BY <1>1, <1>5, <3>3, <3>4, DoneOK
  <2> QED
    BY <1>3, <1>9, <2>1
<1>10. CASE kind \notin R!Hyprland /\ w # None
  <2>1. kind = "niri"
    BY <1>1, <1>10 DEF Stage
  <2>2. ~R!Refused(k)
    BY <1>2, <1>4, <2>1, StateOpsAre DEF Kept, R!Refused
  <2>3. CASE R!Looks(k)
    <3>1. JobOK(R!At(k, "look"), comp)
      BY <1>2, <1>4, <1>6, <2>2, <2>3, AtOK DEF Waiting
    <3> QED
      BY <1>3, <1>10, <2>3, <3>1
  <2>4. CASE ~R!Looks(k)
    <3>1. Looked(k, comp)
      BY <2>4, LooksFirst DEF Looked
    <3> QED
      BY <1>2, <1>3, <1>4, <1>6, <1>7, <1>10, <2>2, <2>4, <3>1, PreparedOK
  <2> QED
    BY <2>3, <2>4
<1> QED
  BY <1>8, <1>9, <1>10

\* The answer to a query of the layouts keeps the invariant of the request:
\* cycling from a layout that was found leads to its neighbour.
LEMMA LayoutsListedOK ==
    ASSUME Context, NEW j, JobOK(j, comp), j.phase = "look", j.op \in R!LayoutOps,
           NEW current \in 0..3
    PROVE  JobOK(R!LayoutsListed(j, current), comp)
<1> DEFINE next == IF j.op = "SetLayout" THEN j.goal ELSE R!Cycled(current, j.op = "NextLayout", j.on)
           k == [j EXCEPT !.goal = next, !.current = current]
<1>1. /\ j \in Jobs /\ LayoutFits(j) /\ j.op \in R!Operations /\ ~R!Refused(j) /\ ~j.guessed
      /\ j.touched = {} /\ j.cmds = << >> /\ j.result = ""
  BY DEF JobOK, Stage, Waiting
<1>2. /\ next \in 0..3
      /\ j.op \in {"NextLayout", "PrevLayout"} /\ current # 0 /\ j.on =>
           /\ next % 3 = (current + IF j.op = "NextLayout" THEN 1 ELSE 2) % 3
           /\ next # current
  <2>1. CASE j.op = "SetLayout"
    <3>1. next = j.goal /\ j.goal \in 1..3
      BY <1>1, <2>1 DEF LayoutFits, R!Layouts
    <3> HIDE DEF next
    <3> QED
      BY <2>1, <3>1
  <2>2. CASE j.op # "SetLayout"
    <3> DEFINE c == R!Cycled(current, j.op = "NextLayout", j.on)
    <3>1. next = c
      BY <2>2
    <3>2. current \in {0, 1, 2, 3} /\ j.op \in {"NextLayout", "PrevLayout"} /\ j.on \in BOOLEAN
      <4>1. j.on \in BOOLEAN
        BY <1>1 DEF Jobs
      <4>2. current \in {0, 1, 2, 3}
        OBVIOUS
      <4> QED
        BY <2>2, <4>1, <4>2 DEF R!LayoutOps
    <3>3. c \in 0..3
      BY <3>2 DEF R!Cycled
    <3>4. current # 0 /\ j.on => c = IF j.op = "NextLayout" THEN (IF current = 3 THEN 1 ELSE current + 1)
                                     ELSE (IF current = 1 THEN 3 ELSE current - 1)
      BY <3>2 DEF R!Cycled
    <3> HIDE DEF c
    <3>5. current # 0 /\ j.on => /\ c % 3 = (current + IF j.op = "NextLayout" THEN 1 ELSE 2) % 3
                                 /\ c # current
      BY <3>2, <3>4
    <3> QED
      BY <3>1, <3>2, <3>3, <3>5
  <2> QED
    BY <2>1, <2>2
<1>3. R!LayoutsListed(j, current) = IF next = 0 THEN R!Done(k, "panic")
                                    ELSE IF j.op # "SetLayout" /\ next = current THEN R!Done(k, "ok")
                                    ELSE IF kind = "niri" THEN R!Done(k, "error")
                                    ELSE R!Prepared(k)
  BY DEF R!LayoutsListed
<1> HIDE DEF next
<1>4. Kept(j, k) /\ k.w = j.w /\ k.seen = j.seen /\ k.current = current /\ k.goal = next /\ k.guessed = j.guessed
  <2>1. j \in Jobs /\ next \in 0..3 /\ current \in 0..3
    BY <1>1, <1>2
  <2>2. k = [j EXCEPT !.goal = next, !.current = current]
    OBVIOUS
  <2> HIDE DEF k
  <2> QED
    BY ONLY <2>1, <2>2 DEF Jobs, Kept
<1>5. j.op = "SetLayout" => next = j.goal /\ j.goal \in R!Layouts
  BY <1>1 DEF LayoutFits, next
<1> HIDE DEF k
<1>6. LayoutFits(k) /\ ActsOn(k, comp) /\ Ready(k)
  BY <1>1, <1>2, <1>4, <1>5 DEF LayoutFits, Kept, Ready, ActsOn
<1>7. k.op \in {"SetLayout", "NextLayout", "PrevLayout"}
  BY <1>4 DEF Kept, R!LayoutOps
<1>8. \A result \in {"error", "panic"} : JobOK(R!Done(k, result), comp)
  BY <1>6, DoneOK DEF Ready
<1>9. ASSUME j.op # "SetLayout", next = current PROVE JobOK(R!Done(k, "ok"), comp)
  <2>1. k.op \notin R!Settable /\ k.op \notin R!KeyOps
    BY <1>7, SettableIs DEF R!KeyOps, Context
  <2>2. ~(k.op \in {"NextLayout", "PrevLayout"} /\ k.current # 0 /\ k.on)
    BY <1>2, <1>4, <1>9 DEF Kept
  <2>3. Effective(k, comp)
    BY <1>7, <2>1, <2>2 DEF Effective
  <2> QED
    BY <1>6, <2>3, DoneOK DEF Ready
<1>10. ASSUME next # 0, kind # "niri" PROVE JobOK(R!Prepared(k), comp)
  <2>1. ~R!Refused(k)
    BY <1>1, <1>4 DEF Kept, R!Refused
  <2>2. ~Sees(k)
    BY <1>7 DEF Sees
  <2>3. k.goal \in R!Layouts
    BY <1>2, <1>4, <1>10 DEF R!Layouts
  <2> QED
    BY <1>1, <1>4, <1>6, <1>10, <2>1, <2>2, <2>3, PreparedOK DEF Looked
<1> QED
  BY <1>3, <1>8, <1>9, <1>10

\* A client that knows the state sends its command, or is done.
LEMMA SettledOK ==
    ASSUME Context, NEW j, Ready(j), kind \in R!Hyprland => ~j.guessed, ~R!Refused(j), Sees(j), Looked(j, comp)
    PROVE  JobOK(R!Settled(j), comp)
<1>1. j \in Jobs /\ j.op \in R!Operations /\ LayoutFits(j) /\ ActsOn(j, comp)
  BY DEF Ready, ActsOn
<1>2. CASE R!Differs(j)
  <2>1. j.op \notin R!LayoutOps
    BY DEF Sees, R!LayoutOps
  <2>2. JobOK(R!Prepared(j), comp)
    BY <1>2, <2>1, PreparedOK
  <2> QED
    BY <1>2, <2>2 DEF R!Settled
<1>3. CASE ~R!Differs(j)
  <2>1. ~j.disturbed /\ ~j.guessed => Effective(j, comp)
    BY <1>1, <1>3, NothingToSend DEF Context
  <2>2. JobOK(R!Done(j, "ok"), comp)
    BY <1>1, <2>1, DoneOK
  <2> QED
    BY <1>3, <2>2 DEF R!Settled
<1> QED
  BY <1>2, <1>3

\* The answer to a query of the windows keeps the invariant of the request.
LEMMA WindowsListedOK ==
    ASSUME Context, NEW j, JobOK(j, comp), j.phase = "look", j.op \notin R!LayoutOps, NEW seen \in R!Readings(j)
    PROVE  JobOK(R!WindowsListed(j, seen), comp)
<1> DEFINE k == [j EXCEPT !.seen = seen]
<1>1. /\ j \in Jobs /\ LayoutFits(j) /\ j.op \in R!Operations /\ ~R!Refused(j) /\ ~j.guessed /\ R!Looks(j)
      /\ j.touched = {} /\ j.cmds = << >> /\ j.result = ""
  BY DEF JobOK, Stage, Waiting
<1>2. /\ seen = Found(j, comp) \/ (kind = "niri" /\ R!Covers(comp, j.w) /\ seen = Found(j, comp) \union {j.w})
      /\ seen \in SUBSET Win
  <2>1. DOMAIN comp.wins \subseteq Win
    BY DEF Context, Compositor
  <2>2. seen = Found(j, comp) \/ (kind = "niri" /\ R!Covers(comp, j.w) /\ seen = Found(j, comp) \union {j.w})
    BY DEF R!Readings, Found
  <2>3. R!Covers(comp, j.w) => j.w \in DOMAIN comp.wins
    BY DEF R!Covers
  <2> QED
    BY <2>1, <2>2, <2>3 DEF Found
<1>3. R!WindowsListed(j, seen) = IF kind \in R!Hyprland THEN IF j.w = None THEN R!At(k, "active") ELSE R!Prepared(k)
                                 ELSE IF j.w \notin DOMAIN comp.wins THEN R!Done(k, "error")
                                 ELSE IF kind = "niri" THEN R!At(k, "spaces") ELSE R!Settled(k)
  BY DEF R!WindowsListed
<1>4. Kept(j, k) /\ k.w = j.w /\ k.seen = seen /\ k.current = j.current /\ k.goal = j.goal /\ k.guessed = j.guessed
  BY <1>1, <1>2, SeenIs
<1> HIDE DEF k
<1>5. LayoutFits(k) /\ ActsOn(k, comp) /\ Ready(k) /\ ~R!Refused(k) /\ (Sees(k) <=> Sees(j))
  BY <1>1, <1>4 DEF LayoutFits, Kept, Ready, ActsOn, R!Refused, Sees
<1>6. Sees(j) /\ j.op \in {"SetFullscreen", "SetMaximized", "PinWindow"}
  BY <1>1 DEF R!Looks, Sees
<1>7. Found(k, comp) = Found(j, comp)
  BY <1>4 DEF Kept, Found
<1>8. k.op \notin R!LayoutOps
  BY <1>4 DEF Kept
<1>9. Known(k, comp)
  BY <1>2, <1>4, <1>7 DEF Known
<1>10. CASE kind \in R!Hyprland
  <2>1. j.op = "SetFullscreen" /\ kind # "niri"
    BY <1>6, <1>10 DEF Sees, R!Hyprland
  <2>2. CASE j.w = None
    <3>1. k.seen = Found(k, comp)
      BY <1>2, <1>4, <1>7, <2>1
    <3>2. k.w = None /\ k.op = "SetFullscreen" /\ ~k.guessed
      BY <1>1, <1>4, <2>1, <2>2 DEF Kept
    <3>3. JobOK(R!At(k, "active"), comp)
      BY <1>5, <1>10, <3>1, <3>2, AtOK DEF Waiting
    <3> QED
      BY <1>3, <1>10, <2>2, <3>3
  <2>3. CASE j.w # None
    <3>1. Looked(k, comp)
      BY <1>9, <1>10 DEF Looked
    <3> QED
      BY <1>1, <1>3, <1>4, <1>5, <1>8, <1>10, <2>1, <2>3, <3>1, PreparedOK
  <2> QED
    BY <2>2, <2>3
<1>11. CASE kind \notin R!Hyprland /\ j.w \notin DOMAIN comp.wins
  <2>1. JobOK(R!Done(k, "error"), comp)
    BY <1>5, DoneOK DEF Ready
  <2> QED
    BY <1>3, <1>11, <2>1
<1>12. CASE kind \notin R!Hyprland /\ j.w \in DOMAIN comp.wins
  <2>1. Looked(k, comp) /\ ~k.guessed
    BY <1>1, <1>4, <1>9, <1>12 DEF Looked
  <2>2. CASE kind = "niri"
    <3>1. k.op = "SetFullscreen"
      BY <1>4, <1>6, <2>2 DEF Sees, Kept
    <3>2. JobOK(R!At(k, "spaces"), comp)
      BY <1>5, <2>1, <2>2, <3>1, AtOK DEF Waiting
    <3> QED
      BY <1>3, <1>12, <2>2, <3>2
  <2>3. CASE kind # "niri"
    <3>1. JobOK(R!Settled(k), comp)
      BY <1>5, <1>6, <2>1, SettledOK
    <3> QED
      BY <1>3, <1>12, <2>3, <3>1
  <2> QED
    BY <2>2, <2>3
<1> QED
  BY <1>10, <1>11, <1>12

\* What the niri client does with a failure it does not report.
LEMMA MissedIs ==
    ASSUME NEW j \in Jobs
    PROVE  LET k == R!Missed(j) IN
           Kept(j, k) /\ k.w = j.w /\ k.seen = {} /\ k.current = j.current /\ k.goal = j.goal /\ k.guessed = TRUE
BY DEF R!Missed, Jobs, Kept

\* The rest of the look of the niri client keeps the invariant of the request.
LEMMA SizesReadOK ==
    ASSUME Context, NEW j, JobOK(j, comp), j.phase \in {"spaces", "outputs"}
    PROVE  /\ j.phase = "spaces" => JobOK(R!At(j, "outputs"), comp) /\ JobOK(R!At(R!Missed(j), "outputs"), comp)
           /\ j.phase = "outputs" => JobOK(R!Settled(j), comp) /\ JobOK(R!Settled(R!Missed(j)), comp)
<1> DEFINE k == R!Missed(j)
<1>1. /\ j \in Jobs /\ LayoutFits(j) /\ j.op \in R!Operations /\ ~R!Refused(j)
      /\ j.touched = {} /\ j.cmds = << >> /\ j.result = "" /\ kind = "niri" /\ j.op = "SetFullscreen"
  BY DEF JobOK, Stage, Waiting
<1>2. Sees(j) /\ Looked(j, comp) /\ kind \notin R!Hyprland /\ Ready(j)
  <2>1. Accurate(j, comp)
    BY DEF JobOK
  <2> QED
    BY <1>1, <2>1 DEF Sees, Accurate, Looked, R!Hyprland, Ready
<1>3. Kept(j, k) /\ k.w = j.w /\ k.seen = {} /\ k.current = j.current /\ k.goal = j.goal /\ k.guessed = TRUE
  BY <1>1, MissedIs
<1> HIDE DEF k
<1>4. Ready(k) /\ Looked(k, comp) /\ Sees(k) /\ ~R!Refused(k) /\ k.op = "SetFullscreen"
  BY <1>1, <1>3 DEF Ready, Looked, Sees, Kept, LayoutFits, R!Refused
<1>5. JobOK(R!At(j, "outputs"), comp)
  BY <1>1, <1>2, AtOK DEF Waiting
<1>6. JobOK(R!At(k, "outputs"), comp)
  BY <1>1, <1>4, AtOK DEF Waiting
<1>7. JobOK(R!Settled(j), comp)
  BY <1>1, <1>2, SettledOK
<1>8. JobOK(R!Settled(k), comp)
  BY <1>2, <1>4, SettledOK
<1> QED
  BY <1>5, <1>6, <1>7, <1>8 DEF k

\* The version, or the failure to read it, keeps the invariant of the request.
LEMMA VersionReadOK ==
    ASSUME Context, NEW j, JobOK(j, comp), j.phase = "version"
    PROVE  /\ JobOK(R!Sending(j, kind), comp)
           /\ JobOK(R!Sending([j EXCEPT !.guessed = TRUE], "legacy"), comp)
<1>1. /\ j \in Jobs /\ LayoutFits(j) /\ j.op \in R!Operations /\ ~R!Refused(j) /\ ~j.guessed
      /\ j.touched = {} /\ j.cmds = << >> /\ j.result = ""
      /\ kind \in R!Hyprland /\ j.op \in R!Versioned /\ Looked(j, comp)
  BY DEF JobOK, Stage, Waiting, Accurate, Looked
<1>2. kind \in Kinds /\ kind # "niri" /\ comp.focus \in DOMAIN comp.wins \union {None}
  BY <1>1 DEF Context, R!Hyprland
<1>3. j.op \notin R!LayoutOps
  BY <1>1 DEF R!Versioned, R!WindowOps, R!Moves, R!StateOps, R!StateOf, R!Wandering, R!LayoutOps
<1>4. JobOK(R!Sending(j, kind), comp)
  <2>1. Fitting(j, kind) /\ Ready(j)
    BY <1>1 DEF Fitting, Ready
  <2> QED
    BY <1>1, <1>2, <1>3, <2>1, SendingOK
<1>5. JobOK(R!Sending([j EXCEPT !.guessed = TRUE], "legacy"), comp)
  <2> DEFINE k == [j EXCEPT !.guessed = TRUE]
  <2>1. Kept(j, k) /\ k.w = j.w /\ k.seen = j.seen /\ k.current = j.current /\ k.goal = j.goal /\ k.guessed = TRUE
    BY <1>1, GuessIs
  <2> HIDE DEF k
  <2>2. Fitting(k, "legacy") /\ Ready(k) /\ Looked(k, comp) /\ ~R!Refused(k) /\ k.op \notin R!LayoutOps
    BY <1>1, <1>3, <2>1 DEF Fitting, Ready, Looked, Kept, LayoutFits, R!Refused
  <2>3. JobOK(R!Sending(k, "legacy"), comp)
    BY <1>2, <2>2, SendingOK
  <2> QED
    BY <2>3 DEF k
<1> QED
  BY <1>4, <1>5

\* What the commands do whose effect is claimed.
LEMMA StateIsSet ==
    ASSUME Context, NEW cmd \in Commands, cmd.verb \in {"toggle", "set", "unset"},
           Target(cmd) \in DOMAIN comp.wins, NEW C \in R!Effects(cmd)
    PROVE  /\ C.focus = comp.focus
           /\ cmd.arg \in C.wins[Target(cmd)].is <=>
                \/ cmd.verb = "set"
                \/ cmd.verb = "toggle" /\ cmd.arg \notin comp.wins[Target(cmd)].is
<1> DEFINE t == Target(cmd)
<1>1. PICK S \in SUBSET Win : comp.wins \in [S -> R!Window]
  BY DEF Context, Compositor
<1>2. t \in S /\ comp.wins[t] \in R!Window
  BY <1>1
<1>3. C = R!OnWindow(cmd, t)
  <2>1. t # None \/ R!Effects(cmd) = {comp}
    BY DEF R!Effects, Target
  <2>2. t # None
    BY PartsAssumption, <1>2 DEF R!RequestsAssumption
  <2> QED
    BY <2>2 DEF R!Effects, Target
<1> HIDE DEF t
<1>4. CASE cmd.verb = "toggle"
  BY <1>1, <1>2, <1>3, <1>4 DEF R!OnWindow, R!Flip, Context, Compositor, R!Window, t
<1>5. CASE cmd.verb = "set"
  BY <1>1, <1>2, <1>3, <1>5 DEF R!OnWindow, Context, Compositor, R!Window, t
<1>6. CASE cmd.verb = "unset"
  BY <1>1, <1>2, <1>3, <1>6 DEF R!OnWindow, Context, Compositor, R!Window, t
<1> QED
  BY <1>4, <1>5, <1>6

\* A window that covered its output anyway still does when its fullscreen state
\* is toggled.
LEMMA CoversStays ==
    ASSUME Context, NEW cmd \in Commands, cmd.verb = "toggle", cmd.arg = "full",
           Target(cmd) \in DOMAIN comp.wins, NEW C \in R!Effects(cmd), R!Covers(comp, Target(cmd))
    PROVE  R!Covers(C, Target(cmd))
<1> DEFINE t == Target(cmd)
<1>1. PICK S \in SUBSET Win : comp.wins \in [S -> R!Window]
  BY DEF Context, Compositor
<1>2. t \in S /\ comp.wins[t] \in R!Window
  BY <1>1
<1>3. C = R!OnWindow(cmd, t)
  <2>1. t # None
    BY PartsAssumption, <1>2 DEF R!RequestsAssumption
  <2> QED
    BY <2>1 DEF R!Effects, Target
<1> HIDE DEF t
<1>4. DOMAIN C.wins = S /\ C.wins[t].had = comp.wins[t].had /\ ("max" \in comp.wins[t].is => "max" \in C.wins[t].is)
  BY <1>1, <1>2, <1>3 DEF R!OnWindow, R!Flip, Context, Compositor, R!Window, t
<1> QED
  BY <1>1, <1>2, <1>4 DEF R!Covers, t

\* What the commands about the desktop leave.
LEMMA DeskIsSet ==
    ASSUME Context, NEW cmd \in Commands, NEW C \in R!Effects(cmd)
    PROVE  /\ cmd.verb = "option" => C.opts = comp.opts \union cmd.arg
           /\ cmd.verb = "bind" => C.bound = cmd.arg
           /\ cmd.verb = "layout" => C.layout = cmd.arg
           /\ cmd.verb = "focus" /\ cmd.w \in DOMAIN comp.wins => C.focus = cmd.w
           /\ comp.opts \subseteq C.opts
<1>1. CASE cmd.verb = "option"
  BY <1>1 DEF Context, R!Effects, Compositor
<1>2. CASE cmd.verb = "bind"
  BY <1>2 DEF Context, R!Effects, Compositor
<1>3. CASE cmd.verb = "layout"
  BY <1>3 DEF Context, R!Effects, Compositor
<1>4. CASE cmd.verb \notin {"option", "bind", "layout"}
  <2>1. C.opts = comp.opts
    BY <1>4, CommandKinds DEF Context, R!Effects, R!OnWindow, R!Closed, Compositor, Desks
  <2>2. cmd.verb = "focus" /\ cmd.w \in DOMAIN comp.wins => C.focus = cmd.w
    <3>1. None \notin Win /\ DOMAIN comp.wins \subseteq Win
      BY PartsAssumption DEF R!RequestsAssumption, Context, Compositor
    <3> QED
      BY <3>1 DEF Context, R!Effects, R!OnWindow, Compositor
  <2> QED
    BY <1>4, <2>1, <2>2
<1> QED
  BY <1>1, <1>2, <1>3, <1>4

\* The commands that are left.
LEMMA TailIs ==
    ASSUME NEW s \in Seq(Commands), s # << >>
    PROVE  /\ Head(s) = s[1] /\ Head(s) \in Commands /\ Len(s) \in Nat /\ Len(s) >= 1
           /\ Tail(s) \in Seq(Commands) /\ Len(Tail(s)) = Len(s) - 1
           /\ \A i \in 1..Len(Tail(s)) : i + 1 \in 1..Len(s) /\ Tail(s)[i] = s[i + 1]
           /\ Len(s) # 1 => Tail(s) # << >>
<1>1. Head(s) = s[1] /\ Head(s) \in Commands /\ Len(s) \in Nat /\ Len(s) >= 1
  OBVIOUS
<1>2. Tail(s) \in Seq(Commands) /\ Len(Tail(s)) = Len(s) - 1
  BY HeadTailProperties
<1>3. \A i \in 1..Len(Tail(s)) : i + 1 \in 1..Len(s) /\ Tail(s)[i] = s[i + 1]
  BY <1>1, <1>2, HeadTailProperties
<1>4. Len(s) # 1 => Tail(s) # << >>
  BY <1>1, <1>2
<1> QED
  BY <1>1, <1>2, <1>3, <1>4

\* The request with fewer commands.
LEMMA TailJob ==
    ASSUME NEW j \in Jobs, j.phase = "send", NEW cmds \in Seq(Commands)
    PROVE  LET k == [j EXCEPT !.cmds = cmds] IN
           k \in Jobs /\ Same(j, k) /\ k.phase = "send" /\ k.result = j.result /\ k.cmds = cmds
BY DEF Jobs, Same

\* The request that has touched more windows.
LEMMA TouchedIs ==
    ASSUME NEW k \in Jobs, NEW T \in SUBSET Win
    PROVE  LET m == [k EXCEPT !.touched = @ \union T] IN
           /\ m \in Jobs /\ m.touched = k.touched \union T
           /\ m.phase = k.phase /\ m.cmds = k.cmds /\ m.result = k.result
           /\ m.op = k.op /\ m.w = k.w /\ m.on = k.on /\ m.seen = k.seen /\ m.current = k.current
           /\ m.goal = k.goal /\ m.guessed = k.guessed /\ m.disturbed = k.disturbed
BY DEF Jobs

\* The request after a reply, which has touched the windows T.
After(j, m, T) ==
    /\ m \in Jobs /\ m.op = j.op /\ m.w = j.w /\ m.on = j.on /\ m.seen = j.seen /\ m.current = j.current
    /\ m.goal = j.goal /\ m.guessed = j.guessed /\ m.disturbed = j.disturbed
    /\ m.touched = j.touched \union T

\* What has to be shown of the compositor C that a reply leaves.
LEMMA RepliedOK ==
    ASSUME Context, NEW j, JobOK(j, comp), j.phase = "send", NEW C, NEW T, NEW m, After(j, m, T),
           T # {} => ActsOn(m, C), DOMAIN C.wins \subseteq DOMAIN comp.wins,
           \/ /\ m.phase = "done" /\ m.result \in {"ok", "error"} /\ m.cmds = << >>
              /\ m.result = "ok" => Len(j.cmds) = 1 /\ (~j.disturbed /\ ~j.guessed => Effective(m, C))
           \/ /\ m.phase = "send" /\ m.result = "" /\ m.cmds = Tail(j.cmds) /\ Len(j.cmds) # 1
              /\ SetsOptions(m, m.cmds, C) /\ MovesFocused(m, m.cmds, C)
    PROVE  JobOK(m, C)
<1>1. /\ j \in Jobs /\ LayoutFits(j) /\ j.op \in R!Operations /\ ~R!Refused(j) /\ j.result = ""
      /\ Shape(j, j.cmds, comp) /\ j.cmds \in Seq(Commands) /\ j.cmds # << >> /\ ActsOn(j, comp)
      /\ \A i \in 1..Len(j.cmds) : Meant(j, j.cmds[i])
  BY DEF JobOK, Stage, Sends, Jobs
<1>2. LayoutFits(m) /\ ~R!Refused(m)
  BY <1>1 DEF After, LayoutFits, R!Refused
<1>3. Stage(m)
  BY <1>1, <1>2, TailIs DEF After, Stage, Waiting
<1>4. ActsOn(m, C)
  BY <1>1 DEF After, ActsOn
<1>5. TakesEffect(m, C)
  BY DEF After, TakesEffect
<1>6. CASE m.phase = "done"
  <2>1. Accurate(m, C) /\ Sends(m, C)
    BY <1>6 DEF Accurate, Sends
  <2> QED
    BY <1>2, <1>3, <1>4, <1>5, <2>1 DEF After, JobOK
<1>7. CASE m.phase # "done"
  <2>1. m.phase = "send" /\ m.cmds = Tail(j.cmds) /\ Len(j.cmds) # 1
    BY <1>7
  <2>2. SetsState(m, m.cmds) /\ (m.op \in R!Settable => m.w = None \/ m.guessed)
    BY <1>1, <2>1 DEF Shape, SetsState, After
  <2>3. SetsKey(m, m.cmds)
    BY <1>1, <2>1 DEF Shape, SetsKey, After
  <2>4. SetsLayout(m, m.cmds)
    BY <1>1, <2>1 DEF Shape, SetsLayout, After
  <2>5. Shape(m, m.cmds, C)
    BY <1>7, <2>2, <2>3, <2>4 DEF Shape
  <2>6. Sees(m) => m.op \in R!Settable
    BY SettableIs DEF Context, Sees
  <2>7. Accurate(m, C)
    BY <2>1, <2>2, <2>6 DEF Accurate
  <2>8. \A i \in 1..Len(m.cmds) : Meant(m, m.cmds[i])
    <3>1. \A i \in 1..Len(m.cmds) : Meant(j, m.cmds[i])
      <4>1. \A i \in 1..Len(Tail(j.cmds)) : i + 1 \in 1..Len(j.cmds) /\ Tail(j.cmds)[i] = j.cmds[i + 1]
        BY <1>1, TailIs
      <4> QED
        BY <1>1, <2>1, <4>1
    <3> QED
      BY <3>1 DEF After, Meant, Blind
  <2>9. Sends(m, C)
    BY <2>5, <2>8 DEF Sends
  <2> QED
    BY <1>2, <1>3, <1>4, <1>5, <2>7, <2>9 DEF After, JobOK
<1> QED
  BY <1>6, <1>7

\* A command that arrives has its effect.
LEMMA ArrivedOK ==
    ASSUME Context, NEW j, JobOK(j, comp), j.phase = "send",
           Head(j.cmds).in \in {"any", kind},
           Head(j.cmds).w = None \/ Head(j.cmds).w \in DOMAIN comp.wins,
           NEW C \in R!Effects(Head(j.cmds)), NEW k \in R!Replied(j, "ok")
    PROVE  /\ JobOK([k EXCEPT !.touched = @ \union R!Touched(C)], C)
           /\ C \in Compositor /\ C.focus \in DOMAIN C.wins \union {None}
<1> DEFINE cmd == Head(j.cmds)
           T == R!Touched(C)
           m == [k EXCEPT !.touched = @ \union T]
<1>1. /\ j \in Jobs /\ Stage(j) /\ LayoutFits(j) /\ ActsOn(j, comp) /\ Accurate(j, comp)
      /\ Shape(j, j.cmds, comp) /\ j.cmds \in Seq(Commands) /\ j.cmds # << >> /\ j.result = ""
      /\ \A i \in 1..Len(j.cmds) : Meant(j, j.cmds[i])
  BY DEF JobOK, Stage, Sends, Jobs
<1>2. cmd = j.cmds[1] /\ cmd \in Commands /\ Meant(j, cmd) /\ Len(j.cmds) \in Nat /\ Len(j.cmds) >= 1
  <2>1. Head(j.cmds) = j.cmds[1] /\ Head(j.cmds) \in Commands /\ Len(j.cmds) \in Nat /\ Len(j.cmds) >= 1
    BY <1>1, TailIs
  <2>2. Meant(j, j.cmds[1])
    <3>1. 1 \in 1..Len(j.cmds)
      BY <2>1
    <3>2. \A i \in 1..Len(j.cmds) : Meant(j, j.cmds[i])
      BY <1>1
    <3> HIDE DEF cmd
    <3> QED
      BY ONLY <3>1, <3>2
  <2> QED
    BY <2>1, <2>2
<1> HIDE DEF cmd
<1>3. None \notin Win /\ comp.focus \in DOMAIN comp.wins \union {None} /\ DOMAIN comp.wins \subseteq Win
  BY PartsAssumption DEF R!RequestsAssumption, Context, Compositor
<1>4. /\ cmd.w \in DOMAIN comp.wins \union {None} /\ C \in R!Effects(cmd)
      /\ Target(cmd) \in DOMAIN comp.wins \union {None}
  BY <1>3 DEF cmd, Target
<1>5. /\ C \in Compositor /\ C.focus \in DOMAIN C.wins \union {None}
      /\ DOMAIN C.wins \subseteq DOMAIN comp.wins /\ T \subseteq {Target(cmd)}
      /\ cmd.verb \in Desks \union {"focus"} => T = {}
  BY <1>2, <1>3, <1>4, CompositorStays DEF Context
<1>6. T \in SUBSET Win
  BY <1>3 DEF R!Touched
<1> HIDE DEF T
<1>7. /\ k \in Jobs /\ Same(j, k)
      /\ \/ Len(j.cmds) = 1 /\ k.phase = "done" /\ k.result = "ok" /\ k.cmds = << >>
         \/ Len(j.cmds) # 1 /\ k.phase = "send" /\ k.result = "" /\ k.cmds = Tail(j.cmds)
  <2>1. CASE Len(j.cmds) = 1
    <3>1. k = R!Done(j, "ok")
      BY <2>1 DEF R!Replied
    <3> QED
      BY <1>1, <2>1, <3>1, DoneIs
  <2>2. CASE Len(j.cmds) # 1
    <3>1. k = [j EXCEPT !.cmds = Tail(j.cmds)]
      BY <1>1, <2>2 DEF R!Replied, Jobs
    <3>2. Tail(j.cmds) \in Seq(Commands)
      BY <1>1, TailIs
    <3> QED
      BY <1>1, <2>2, <3>1, <3>2, TailJob
  <2> QED
    BY <2>1, <2>2
<1>8. After(j, m, T) /\ m.phase = k.phase /\ m.result = k.result /\ m.cmds = k.cmds
  <2>1. k \in Jobs /\ Same(j, k)
    BY <1>7
  <2>2. /\ m \in Jobs /\ m.touched = k.touched \union T
        /\ m.phase = k.phase /\ m.cmds = k.cmds /\ m.result = k.result
        /\ m.op = k.op /\ m.w = k.w /\ m.on = k.on /\ m.seen = k.seen /\ m.current = k.current
        /\ m.goal = k.goal /\ m.guessed = k.guessed /\ m.disturbed = k.disturbed
    BY <1>6, <2>1, TouchedIs
  <2> HIDE DEF m
  <2> QED
    BY <2>1, <2>2 DEF After, Same
<1> HIDE DEF m
<1>9. T # {} => ActsOn(m, C)
  <2> SUFFICES ASSUME j.w # None, kind \in R!Hyprland => j.op \notin {"SetFullscreen", "SetMaximized", "ToggleGroup"},
                      kind = "niri" /\ j.op = "MoveWindow" => ~j.disturbed /\ j.w \in DOMAIN C.wins
               PROVE  T \subseteq {j.w}
    <3>1. j.touched \subseteq {j.w} \/ j.w = None
          \/ (kind \in R!Hyprland /\ j.op \in {"SetFullscreen", "SetMaximized", "ToggleGroup"})
          \/ (kind = "niri" /\ j.op = "MoveWindow" /\ (j.disturbed \/ j.w \notin DOMAIN C.wins))
      BY <1>1, <1>5 DEF ActsOn
    <3> QED
      BY <1>8, <3>1 DEF After, ActsOn
  <2>1. CASE cmd.w = j.w
    BY <1>5, <2>1 DEF Target
  <2>2. CASE cmd.verb \in Desks
    BY <1>5, <2>2
  <2>3. CASE Blind(j)
    <3>1. kind = "niri" /\ j.op = "MoveWindow" /\ ~j.disturbed /\ j.w \in DOMAIN comp.wins
      BY <1>5, <2>3 DEF Blind
    <3>2. cmd.verb = "focus" \/ (cmd.w = None /\ comp.focus = j.w)
      BY <1>1, <1>2, <3>1 DEF Shape, MovesFocused
    <3> QED
      BY <1>5, <3>2 DEF Target
  <2> QED
    BY <1>2, <2>1, <2>2, <2>3 DEF Meant
<1>10. ASSUME Len(j.cmds) = 1, ~j.disturbed, ~j.guessed PROVE Effective(m, C)
  <2>1. ASSUME m.op \in R!Settable, m.w # None, kind \in R!Hyprland => m.w = C.focus, kind = "niri" => ~R!Covers(C, m.w)
        PROVE  (R!StateOf[m.op] \in C.wins[m.w].is) = m.on
    <3>1. /\ cmd.w = IF kind \in R!Hyprland THEN None ELSE j.w
          /\ IF kind = "lua" /\ j.op = "SetMaximized"
             THEN cmd.verb = (IF j.on THEN "set" ELSE "unset") /\ cmd.arg = "max"
             ELSE cmd.verb = "toggle" /\ cmd.arg = R!StateOf[j.op] /\ R!Differs(j)
      BY <1>1, <1>2, <1>8, <1>10, <2>1 DEF Shape, SetsState, After
    <3>2. cmd.verb \in {"toggle", "set", "unset"} /\ cmd.arg = R!StateOf[j.op]
      BY <3>1 DEF R!StateOf
    <3>3. Target(cmd) = IF kind \in R!Hyprland THEN comp.focus ELSE j.w
      BY <1>8, <2>1, <3>1 DEF Target, After
    <3>4. Target(cmd) \in DOMAIN comp.wins
      <4>1. CASE kind \notin R!Hyprland
        BY <1>4, <1>8, <2>1, <3>1, <4>1 DEF Target, After
      <4>2. CASE kind \in R!Hyprland
        <5>1. C.focus # None
          BY <1>8, <2>1, <4>2
        <5>2. comp.focus = None => C = comp
          BY <3>1, <3>2, <4>2, <1>4 DEF R!Effects
        <5> QED
          BY <1>3, <3>3, <4>2, <5>1, <5>2
      <4> QED
        BY <4>1, <4>2
    <3>5. /\ C.focus = comp.focus
          /\ cmd.arg \in C.wins[Target(cmd)].is <=>
               cmd.verb = "set" \/ (cmd.verb = "toggle" /\ cmd.arg \notin comp.wins[Target(cmd)].is)
      BY <1>2, <1>4, <3>2, <3>4, StateIsSet
    <3>6. Target(cmd) = m.w /\ m.w = j.w /\ m.op = j.op /\ m.on = j.on /\ j.on \in BOOLEAN
      BY <1>1, <1>8, <2>1, <3>3, <3>5 DEF After, Jobs
    <3>7. CASE kind = "lua" /\ j.op = "SetMaximized"
      BY <3>1, <3>2, <3>5, <3>6, <3>7
    <3>8. CASE ~(kind = "lua" /\ j.op = "SetMaximized")
      <4>1. Sees(j)
        BY <2>1, <3>6, <3>8, SettableIs DEF Context, Sees, Kinds, R!Hyprland
      <4>2. j.seen = Found(j, comp)
        <5>1. Known(j, comp)
          BY <1>1, <1>10, <2>1, <3>6, <4>1 DEF Accurate
        <5>2. kind = "niri" => ~R!Covers(comp, j.w)
          <6> SUFFICES ASSUME kind = "niri" PROVE ~R!Covers(comp, j.w)
            OBVIOUS
          <6>1. cmd.verb = "toggle" /\ cmd.arg = "full"
            BY <2>1, <3>1, <3>6, <3>8, SettableIs DEF Context, R!StateOf
          <6>2. R!Covers(comp, j.w) => R!Covers(C, j.w)
            BY <1>2, <1>4, <3>4, <3>6, <6>1, CoversStays
          <6> QED
            BY <2>1, <3>6, <6>2
        <5> QED
          BY <5>1, <5>2 DEF Known
      <4>3. j.w \in j.seen <=> R!StateOf[j.op] \in comp.wins[j.w].is
        BY <3>4, <3>6, <4>2 DEF Found
      <4>4. (j.w \in j.seen) # j.on
        BY <3>1, <3>8 DEF R!Differs
      <4> QED
        BY <3>1, <3>2, <3>5, <3>6, <3>8, <4>3, <4>4
    <3> QED
      BY <3>7, <3>8
  <2>2. m.op = "BatchConfig" => Steady \subseteq C.opts
    <3> SUFFICES ASSUME j.op = "BatchConfig" PROVE Steady \subseteq C.opts
      BY <1>8 DEF After
    <3>1. cmd.verb = "option" /\ \A o \in Steady : o \in comp.opts \/ o \in cmd.arg
      <4>1. /\ \A i \in 1..1 : j.cmds[i].verb = "option" /\ j.cmds[i].in = "any"
            /\ \A o \in Steady : o \in comp.opts \/ \E i \in 1..1 : o \in j.cmds[i].arg
        BY <1>1, <1>10 DEF Shape, SetsOptions
      <4>2. \A i \in 1..1 : j.cmds[i] = cmd
        BY <1>2
      <4> QED
        BY <4>1, <4>2
    <3>2. C.opts = comp.opts \union cmd.arg
      BY <1>2, <1>4, <3>1, DeskIsSet
    <3> QED
      BY <3>1, <3>2
  <2>3. m.op \in R!KeyOps => C.bound = Bound(m)
    <3> SUFFICES ASSUME j.op \in R!KeyOps PROVE C.bound = Bound(m)
      BY <1>8 DEF After
    <3>1. cmd.verb = "bind" /\ cmd.arg = Bound(j)
      BY <1>1, <1>2 DEF Shape, SetsKey
    <3>2. Bound(m) = Bound(j)
      BY <1>8 DEF After, Bound
    <3> QED
      BY <1>2, <1>4, <3>1, <3>2, DeskIsSet
  <2>4. m.op \in {"NextLayout", "PrevLayout"} /\ m.current # 0 /\ m.on =>
          C.layout % 3 = (m.current + IF m.op = "NextLayout" THEN 1 ELSE 2) % 3
    <3> SUFFICES ASSUME j.op \in {"NextLayout", "PrevLayout"}, j.current # 0, j.on
                 PROVE  C.layout % 3 = (j.current + IF j.op = "NextLayout" THEN 1 ELSE 2) % 3
      BY <1>8 DEF After
    <3>1. cmd.verb = "layout" /\ cmd.arg = j.goal
      BY <1>1, <1>2 DEF Shape, SetsLayout, R!LayoutOps
    <3>2. C.layout = j.goal
      BY <1>2, <1>4, <3>1, DeskIsSet
    <3> QED
      BY <1>1, <3>2 DEF LayoutFits
  <2> QED
    BY <2>1, <2>2, <2>3, <2>4 DEF Effective
<1>11. ASSUME Len(j.cmds) # 1 PROVE SetsOptions(m, m.cmds, C) /\ MovesFocused(m, m.cmds, C)
  <2>1. /\ m.cmds = Tail(j.cmds) /\ Len(m.cmds) = Len(j.cmds) - 1
        /\ \A i \in 1..Len(m.cmds) : i + 1 \in 1..Len(j.cmds) /\ m.cmds[i] = j.cmds[i + 1]
    <3>1. m.cmds = Tail(j.cmds)
      BY <1>7, <1>8, <1>11
    <3>2. /\ Len(Tail(j.cmds)) = Len(j.cmds) - 1
          /\ \A i \in 1..Len(Tail(j.cmds)) : i + 1 \in 1..Len(j.cmds) /\ Tail(j.cmds)[i] = j.cmds[i + 1]
      BY <1>1, TailIs
    <3> QED
      BY <3>1, <3>2
  <2>2. SetsOptions(m, m.cmds, C)
    <3> SUFFICES ASSUME j.op = "BatchConfig", ~j.disturbed
                 PROVE  /\ \A i \in 1..Len(m.cmds) : m.cmds[i].verb = "option" /\ m.cmds[i].in = "any"
                        /\ \A o \in Steady : o \in C.opts \/ \E i \in 1..Len(m.cmds) : o \in m.cmds[i].arg
      BY <1>8 DEF After, SetsOptions
    <3>1. /\ \A i \in 1..Len(j.cmds) : j.cmds[i].verb = "option" /\ j.cmds[i].in = "any"
          /\ \A o \in Steady : o \in comp.opts \/ \E i \in 1..Len(j.cmds) : o \in j.cmds[i].arg
      BY <1>1 DEF Shape, SetsOptions
    <3>2. C.opts = comp.opts \union cmd.arg
      BY <1>2, <1>4, <3>1, DeskIsSet
    <3>3. ASSUME NEW o \in Steady, o \notin C.opts PROVE \E i \in 1..Len(m.cmds) : o \in m.cmds[i].arg
      <4>1. PICK i \in 1..Len(j.cmds) : o \in j.cmds[i].arg
        BY <3>1, <3>2, <3>3
      <4>2. i # 1
        BY <1>2, <3>2, <3>3, <4>1
      <4>3. i - 1 \in 1..Len(m.cmds) /\ m.cmds[i - 1] = j.cmds[i]
        BY <1>2, <2>1, <4>2
      <4> QED
        BY <4>1, <4>3
    <3>4. \A i \in 1..Len(m.cmds) : m.cmds[i].verb = "option" /\ m.cmds[i].in = "any"
      BY <2>1, <3>1
    <3> QED
      BY <3>3, <3>4
  <2>3. MovesFocused(m, m.cmds, C)
    <3> SUFFICES ASSUME kind = "niri", j.op = "MoveWindow", j.w # None, ~j.disturbed, j.w \in DOMAIN C.wins
                 PROVE  /\ \A i \in 1..Len(m.cmds) : m.cmds[i].in = "any"
                        /\ Len(m.cmds) = 1 /\ m.cmds[1].verb = "place" /\ m.cmds[1].w = None /\ C.focus = j.w
      BY <1>8 DEF After, MovesFocused
    <3>1. /\ \A i \in 1..Len(j.cmds) : j.cmds[i].in = "any"
          /\ Len(j.cmds) = 2 /\ j.cmds[1].verb = "focus" /\ j.cmds[1].w = j.w
          /\ j.cmds[2].verb = "place" /\ j.cmds[2].w = None
      BY <1>1, <1>5, <1>11 DEF Shape, MovesFocused
    <3>2. C.focus = j.w
      BY <1>2, <1>4, <1>5, <3>1, DeskIsSet
    <3> QED
      BY <2>1, <3>1, <3>2
  <2> QED
    BY <2>2, <2>3
<1>12. JobOK(m, C)
  BY <1>5, <1>7, <1>8, <1>9, <1>10, <1>11, RepliedOK
<1> QED
  BY <1>5, <1>12 DEF m, T

\* A command that the compositor does not know, or whose window is gone, has no
\* effect whatever the reply.
LEMMA PassedOverOK ==
    ASSUME Context, NEW j, JobOK(j, comp), j.phase = "send",
           ~(Head(j.cmds).in \in {"any", kind} /\ (Head(j.cmds).w = None \/ Head(j.cmds).w \in DOMAIN comp.wins)),
           NEW result \in IF Head(j.cmds).verb = "layout" THEN {"error"} ELSE {"ok", "error"},
           NEW m \in R!Replied(j, result)
    PROVE  JobOK(m, comp)
<1> DEFINE cmd == Head(j.cmds)
<1>1. /\ j \in Jobs /\ Stage(j) /\ LayoutFits(j) /\ ActsOn(j, comp) /\ Accurate(j, comp)
      /\ Shape(j, j.cmds, comp) /\ j.cmds \in Seq(Commands) /\ j.cmds # << >> /\ j.result = ""
      /\ \A i \in 1..Len(j.cmds) : Meant(j, j.cmds[i])
  BY DEF JobOK, Stage, Sends, Jobs
<1>2. cmd = j.cmds[1] /\ cmd \in Commands /\ Meant(j, cmd) /\ Len(j.cmds) \in Nat /\ Len(j.cmds) >= 1
  <2>1. Head(j.cmds) = j.cmds[1] /\ Head(j.cmds) \in Commands /\ Len(j.cmds) \in Nat /\ Len(j.cmds) >= 1
    BY <1>1, TailIs
  <2>2. Meant(j, j.cmds[1])
    <3>1. 1 \in 1..Len(j.cmds)
      BY <2>1
    <3>2. \A i \in 1..Len(j.cmds) : Meant(j, j.cmds[i])
      BY <1>1
    <3> HIDE DEF cmd
    <3> QED
      BY ONLY <3>1, <3>2
  <2> QED
    BY <2>1, <2>2
<1>3. CASE result = "error"
  <2>1. m = R!Done(j, "error")
    BY <1>3 DEF R!Replied
  <2> QED
    BY <1>1, <2>1, DoneOK DEF Stage
<1>4. CASE result = "ok"
  <2>1. cmd.verb # "layout" /\ ~(cmd.in \in {"any", kind} /\ (cmd.w = None \/ cmd.w \in DOMAIN comp.wins))
    BY <1>4
  <2> HIDE DEF cmd
  <2>2. cmd.verb \in Desks => cmd.w = None
    BY <1>2, CommandKinds
  <2>3. cmd.verb \in Desks => cmd.in # "any"
    BY <2>1, <2>2
  <2>4. CASE Len(j.cmds) = 1
    <3>1. m = R!Done(j, "ok")
      BY <1>4, <2>4 DEF R!Replied
    <3>2. ASSUME ~j.disturbed, ~j.guessed PROVE Effective(j, comp)
      <4>1. j.op \notin R!LayoutOps
        BY <1>1, <1>2, <2>1 DEF Shape, SetsLayout
      <4>2. cmd.in \in {"any", kind}
        BY <1>2, <3>2, <4>1 DEF Meant
      <4>3. j.op \notin R!KeyOps
        BY <1>1, <1>2, <2>3 DEF Shape, SetsKey, Desks
      <4>4. j.op # "BatchConfig"
        <5> SUFFICES ASSUME j.op = "BatchConfig" PROVE FALSE
          OBVIOUS
        <5>1. \A i \in 1..1 : j.cmds[i].verb = "option" /\ j.cmds[i].in = "any"
          BY <1>1, <2>4, <3>2 DEF Shape, SetsOptions
        <5> QED
          BY <1>2, <2>3, <5>1 DEF Desks
      <4>5. j.op \in R!Settable /\ j.w # None => FALSE
        <5> SUFFICES ASSUME j.op \in R!Settable, j.w # None PROVE FALSE
          OBVIOUS
        <5>1. cmd.w = IF kind \in R!Hyprland THEN None ELSE j.w
          BY <1>1, <1>2, <3>2 DEF Shape, SetsState
        <5>2. kind \notin R!Hyprland /\ j.w \notin DOMAIN comp.wins
          BY <2>1, <4>2, <5>1
        <5>3. Sees(j)
          BY <5>2, SettableIs DEF Context, Sees, Kinds, R!Hyprland
        <5> QED
          BY <1>1, <3>2, <5>2, <5>3 DEF Accurate
      <4> QED
        BY <4>1, <4>3, <4>4, <4>5 DEF Effective, R!LayoutOps
    <3> QED
      BY <1>1, <3>1, <3>2, DoneOK DEF Stage
  <2>5. CASE Len(j.cmds) # 1
    <3>1. m = [j EXCEPT !.cmds = Tail(j.cmds)]
      BY <1>1, <1>4, <2>5 DEF R!Replied, Jobs
    <3>2. Tail(j.cmds) \in Seq(Commands)
      BY <1>1, TailIs
    <3>3. m \in Jobs /\ Same(j, m) /\ m.phase = "send" /\ m.result = "" /\ m.cmds = Tail(j.cmds)
      BY <1>1, <3>1, <3>2, TailJob
    <3>4. After(j, m, {})
      BY <3>3 DEF Same, After
    <3>5. j.op = "BatchConfig" => j.disturbed
      <4> SUFFICES ASSUME j.op = "BatchConfig", ~j.disturbed PROVE FALSE
        BY <1>1 DEF Jobs
      <4>1. \A i \in 1..Len(j.cmds) : j.cmds[i].verb = "option" /\ j.cmds[i].in = "any"
        BY <1>1 DEF Shape, SetsOptions
      <4> QED
        BY <1>2, <2>3, <4>1 DEF Desks
    <3>6. kind = "niri" /\ j.op = "MoveWindow" /\ j.w # None /\ ~j.disturbed => j.w \notin DOMAIN comp.wins
      <4> SUFFICES ASSUME kind = "niri", j.op = "MoveWindow", j.w # None, ~j.disturbed, j.w \in DOMAIN comp.wins
                   PROVE  FALSE
        OBVIOUS
      <4>1. /\ \A i \in 1..Len(j.cmds) : j.cmds[i].in = "any"
            /\ Len(j.cmds) = 2 /\ j.cmds[1].w = j.w
        BY <1>1, <2>5 DEF Shape, MovesFocused
      <4> QED
        BY <1>2, <2>1, <4>1
    <3>7. SetsOptions(m, m.cmds, comp) /\ MovesFocused(m, m.cmds, comp)
      BY <3>4, <3>5, <3>6 DEF After, SetsOptions, MovesFocused
    <3> QED
      BY <2>5, <3>3, <3>4, <3>7, RepliedOK
  <2> QED
    BY <2>4, <2>5
<1> QED
  BY <1>3, <1>4

\* A command may fail.
LEMMA FailedOK ==
    ASSUME Context, NEW j, JobOK(j, comp), j.phase = "send", NEW m \in R!Replied(j, "error")
    PROVE  JobOK(m, comp)
<1>1. j \in Jobs /\ Stage(j) /\ LayoutFits(j) /\ ActsOn(j, comp)
  BY DEF JobOK
<1>2. m = R!Done(j, "error")
  BY DEF R!Replied
<1> QED
  BY <1>1, <1>2, DoneOK DEF Stage

\* The requests of the others, when the compositor changes.
LEMMA BystanderOK ==
    ASSUME NEW j, JobOK(j, comp), NEW C
    PROVE  JobOK([j EXCEPT !.disturbed = @ \/ (C # comp /\ j.phase # "idle")], C)
<1> DEFINE k == [j EXCEPT !.disturbed = @ \/ (C # comp /\ j.phase # "idle")]
<1>1. /\ j \in Jobs /\ Stage(j) /\ Accurate(j, comp) /\ LayoutFits(j) /\ Sends(j, comp)
      /\ ActsOn(j, comp) /\ TakesEffect(j, comp)
  BY DEF JobOK
<1>2. CASE C = comp
  <2>1. k = j
    BY <1>1, <1>2 DEF Jobs
  <2> QED
    BY <1>2, <2>1
<1>3. CASE C # comp /\ j.phase = "idle"
  <2>1. k = j
    BY <1>1, <1>3 DEF Jobs
  <2>2. Accurate(j, C) /\ Sends(j, C) /\ TakesEffect(j, C) /\ ActsOn(j, C)
    BY <1>1, <1>3 DEF Accurate, Sends, TakesEffect, ActsOn, Stage
  <2>3. JobOK(j, C)
    BY <1>1, <2>2 DEF JobOK
  <2> QED
    BY <2>1, <2>3
<1>4. CASE C # comp /\ j.phase # "idle"
  <2>1. k = [j EXCEPT !.disturbed = TRUE]
    BY <1>1, <1>4 DEF Jobs
  <2>2. /\ k \in Jobs /\ k.disturbed /\ k.phase = j.phase /\ k.op = j.op /\ k.w = j.w /\ k.on = j.on
        /\ k.seen = j.seen /\ k.current = j.current /\ k.goal = j.goal /\ k.cmds = j.cmds
        /\ k.result = j.result /\ k.guessed = j.guessed /\ k.touched = j.touched
    BY <1>1, <2>1 DEF Jobs
  <2> HIDE DEF k
  <2>3. R!Refused(k) <=> R!Refused(j)
    BY <2>2 DEF R!Refused
  <2>4. R!Differs(k) <=> R!Differs(j)
    BY <2>2 DEF R!Differs
  <2>5. Stage(k)
    BY <1>1, <2>2, <2>3, <2>4 DEF Stage, R!Looks
  <2>6. Accurate(k, C) /\ TakesEffect(k, C)
    BY <2>2 DEF Accurate, TakesEffect
  <2>7. LayoutFits(k) /\ ActsOn(k, C)
    BY <1>1, <2>2 DEF LayoutFits, ActsOn
  <2>8. ASSUME k.phase = "send" PROVE (\A i \in 1..Len(k.cmds) : Meant(k, k.cmds[i])) /\ Shape(k, k.cmds, C)
    <3>1. (\A i \in 1..Len(j.cmds) : Meant(j, j.cmds[i])) /\ Shape(j, j.cmds, comp)
      BY <1>1, <2>2, <2>8 DEF Sends
    <3>2. SetsState(k, k.cmds)
      BY <2>2, <2>4, <3>1 DEF Shape, SetsState
    <3>3. SetsOptions(k, k.cmds, C) /\ MovesFocused(k, k.cmds, C)
      BY <2>2 DEF SetsOptions, MovesFocused
    <3>4. Bound(k) = Bound(j)
      BY <2>2 DEF Bound
    <3>5. SetsKey(k, k.cmds)
      BY <2>2, <3>1, <3>4 DEF Shape, SetsKey
    <3>6. SetsLayout(k, k.cmds)
      BY <2>2, <3>1 DEF Shape, SetsLayout
    <3>7. \A i \in 1..Len(k.cmds) : Meant(k, k.cmds[i])
      BY <2>2, <3>1 DEF Meant, Blind
    <3> QED
      BY <3>2, <3>3, <3>5, <3>6, <3>7 DEF Shape
  <2>9. JobOK(k, C)
    BY <2>2, <2>5, <2>6, <2>7, <2>8 DEF JobOK, Sends
  <2> QED
    BY <2>9 DEF k
<1> QED
  BY <1>2, <1>3, <1>4

----------------------------------------------------------------------------
(* Steps. *)

\* A handler's step: its own request and the compositor become j and C.
LEMMA StepKeeps ==
    ASSUME RequestsInv, kind' = kind, (dialect \in {"unknown", kind})',
           NEW c, NEW j, NEW C \in Compositor, c \in Clients => JobOK(j, C),
           C.focus \in DOMAIN C.wins \union {None}, R!Steps(c, j, C)
    PROVE  RequestsInv'
<1>1. ASSUME NEW d \in Clients PROVE job'[d] \in Jobs /\ JobOK(job'[d], comp')
  <2>1. comp' = C
    BY DEF R!Steps
  <2>2. CASE d = c
    <3>1. job'[d] = j
      BY <2>2 DEF R!Steps
    <3> QED
      BY <2>1, <2>2, <3>1 DEF JobOK
  <2>3. CASE d # c
    <3>1. job'[d] = [job[d] EXCEPT !.disturbed = @ \/ (C # comp /\ job[d].phase # "idle")]
      BY <2>3 DEF R!Steps
    <3>2. JobOK(job[d], comp)
      BY DEF RequestsInv
    <3>3. JobOK(job'[d], C)
      BY <3>1, <3>2, BystanderOK
    <3> QED
      BY <2>1, <3>3 DEF JobOK
  <2> QED
    BY <2>2, <2>3
<1>2. \A d \in Clients : JobOK(job[d], comp)'
  <2>1. \A k, X : JobOK(k, X)' <=> JobOK(k, X)
    BY KindStays
  <2> QED
    BY <1>1, <2>1
<1>3. job' \in [Clients -> Jobs]
  BY <1>1 DEF R!Steps
<1>4. (job \in [Clients -> Jobs])'
  BY <1>3 DEF Jobs, Commands
<1>5. comp' \in Compositor /\ comp'.focus \in DOMAIN comp'.wins \union {None}
  BY DEF R!Steps
<1> QED
  BY <1>2, <1>4, <1>5 DEF RequestsInv, Compositor, Kinds

\* A step that leaves the compositor as it is.
LEMMA QuietStep ==
    ASSUME RequestsInv, kind' = kind, (dialect \in {"unknown", kind})',
           NEW c \in Clients, NEW j, JobOK(j, comp), R!Steps(c, j, comp)
    PROVE  RequestsInv'
BY StepKeeps DEF RequestsInv

\* A request that is being resolved is ready.
LEMMA ReadyIs ==
    ASSUME NEW j, JobOK(j, comp), j.phase = "resolve"
    PROVE  Ready(j) /\ ~j.guessed
BY DEF JobOK, Stage, Waiting, Ready

\* No request.
LEMMA IdleIs == R!Idle \in Jobs
<1>1. << >> \in Seq(Commands)
  OBVIOUS
<1> QED
  BY <1>1 DEF R!Idle, Jobs, Phases

\* A new request.
LEMMA OpenedIs ==
    ASSUME NEW j \in Jobs, NEW op \in R!Operations, NEW w \in Win \union {None}, NEW on \in BOOLEAN, NEW goal \in 0..3
    PROVE  [j EXCEPT !.op = op, !.w = w, !.on = on, !.goal = goal] \in Jobs
BY DEF Jobs

\* A new request keeps the invariant.
LEMMA CallOK == ASSUME RequestsInv, NEW c \in Clients, R!Call(c) PROVE RequestsInv'
<1> USE DEF Context, RequestsInv
<1>1. PICK r \in Requests[c] :
        LET j == [R!Idle EXCEPT !.op = r.op, !.w = r.w, !.on = r.on, !.goal = r.goal] IN
        \/ R!Steps(c, R!At(j, "resolve"), comp)
        \/ R!Steps(c, R!Started(j), comp)
  BY DEF R!Call
<1>2. /\ r \in [op : R!Operations, w : Win \union {None}, on : BOOLEAN, goal : {0} \union R!Layouts]
      /\ r.op = "SetLayout" => r.goal \in R!Layouts
  BY PartsAssumption DEF R!RequestsAssumption
<1> DEFINE j == [R!Idle EXCEPT !.op = r.op, !.w = r.w, !.on = r.on, !.goal = r.goal]
<1>3. /\ j.op = r.op /\ j.w = r.w /\ j.on = r.on /\ j.goal = r.goal /\ j.current = 0
      /\ j.touched = {} /\ j.cmds = << >> /\ j.result = "" /\ j.guessed = FALSE
      /\ j.phase = "idle" /\ j.seen = {} /\ j.disturbed = FALSE
  BY DEF R!Idle
<1>4. j \in Jobs
  <2>1. r.op \in R!Operations /\ r.w \in Win \union {None} /\ r.on \in BOOLEAN /\ r.goal \in 0..3
    BY <1>2 DEF R!Layouts
  <2> QED
    BY <2>1, IdleIs, OpenedIs
<1> HIDE DEF j
<1>5. Ready(j)
  BY <1>2, <1>3, <1>4 DEF Ready, LayoutFits
<1>6. JobOK(R!Started(j), comp)
  BY <1>3, <1>5, StartedOK
<1>7. JobOK(R!At(j, "resolve"), comp)
  BY <1>3, <1>5, AtOK DEF Waiting
<1>8. kind' = kind /\ (dialect \in {"unknown", kind})'
  BY DEF R!Call
<1>9. R!Steps(c, R!At(j, "resolve"), comp) \/ R!Steps(c, R!Started(j), comp)
  BY <1>1 DEF j
<1> HIDE DEF RequestsInv
<1> QED
  BY <1>6, <1>7, <1>8, <1>9, QuietStep

\* The server resolves the window.
LEMMA ResolveOK == ASSUME RequestsInv, NEW c \in Clients, R!Resolve(c) PROVE RequestsInv'
<1> DEFINE j == job[c]
           k == [job[c] EXCEPT !.w = comp.focus]
<1>1. Context /\ JobOK(j, comp) /\ j.phase = "resolve" /\ comp.focus \in Win \union {None}
  BY DEF R!Resolve, RequestsInv, Context, Compositor
<1>2. Ready(j) /\ ~j.guessed /\ j \in Jobs
  BY <1>1, ReadyIs DEF Ready
<1>3. Kept(j, k) /\ k.current = j.current /\ k.goal = j.goal /\ k.guessed = j.guessed
  BY <1>1, <1>2, WindowIs
<1> HIDE DEF k
<1>4. Ready(k) /\ ~k.guessed
  BY <1>2, <1>3 DEF Ready, Kept, LayoutFits
<1>5. JobOK(R!Started(j), comp) /\ JobOK(R!Started(k), comp)
  BY <1>1, <1>2, <1>4, StartedOK
<1>6. kind' = kind /\ (dialect \in {"unknown", kind})'
  BY DEF R!Resolve, RequestsInv
<1>7. R!Steps(c, R!Started(j), comp) \/ R!Steps(c, R!Started(k), comp)
  BY DEF R!Resolve, k
<1> QED
  BY <1>5, <1>6, <1>7, QuietStep

\* The client asks for the active window.
LEMMA AskOK == ASSUME RequestsInv, NEW c \in Clients, R!Ask(c) PROVE RequestsInv'
<1> DEFINE j == job[c]
<1>1. Context /\ JobOK(j, comp) /\ j.phase = "active" /\ comp.focus \in Win \union {None}
  BY DEF R!Ask, RequestsInv, Context, Compositor
<1>2. JobOK(R!Activated(j, comp.focus), comp) /\ JobOK(R!Activated(j, None), comp)
  BY <1>1, ActivatedOK
<1>3. JobOK(R!Done(j, "error"), comp)
  BY <1>1, DoneOK DEF JobOK, Stage
<1>4. kind' = kind /\ (dialect \in {"unknown", kind})'
  BY DEF R!Ask, RequestsInv
<1>5. R!Steps(c, R!Activated(j, comp.focus), comp) \/ R!Steps(c, R!Activated(j, None), comp)
      \/ R!Steps(c, R!Done(j, "error"), comp)
  BY DEF R!Ask
<1> QED
  BY <1>2, <1>3, <1>4, <1>5, QuietStep

\* The client looks at the state.
LEMMA LookOK == ASSUME RequestsInv, NEW c \in Clients, R!Look(c) PROVE RequestsInv'
<1> DEFINE j == job[c]
<1>1. Context /\ JobOK(j, comp) /\ j.phase = "look" /\ comp.layout \in 0..3
  BY DEF R!Look, RequestsInv, Context, Compositor, R!Layouts
<1>2. j.op \in R!LayoutOps => JobOK(R!LayoutsListed(j, comp.layout), comp) /\ JobOK(R!LayoutsListed(j, 0), comp)
  BY <1>1, LayoutsListedOK
<1>3. ASSUME j.op \notin R!LayoutOps, NEW seen \in R!Readings(j) PROVE JobOK(R!WindowsListed(j, seen), comp)
  BY <1>1, <1>3, WindowsListedOK
<1>4. JobOK(R!Done(j, "error"), comp)
  BY <1>1, DoneOK DEF JobOK, Stage
<1>5. kind' = kind /\ (dialect \in {"unknown", kind})'
  BY DEF R!Look, RequestsInv
<1>6. \/ j.op \in R!LayoutOps /\ (R!Steps(c, R!LayoutsListed(j, comp.layout), comp) \/ R!Steps(c, R!LayoutsListed(j, 0), comp))
      \/ j.op \notin R!LayoutOps /\ \E seen \in R!Readings(j) : R!Steps(c, R!WindowsListed(j, seen), comp)
      \/ R!Steps(c, R!Done(j, "error"), comp)
  BY DEF R!Look
<1> QED
  BY <1>2, <1>3, <1>4, <1>5, <1>6, QuietStep

\* The niri client asks for the workspaces.
LEMMA SpacesOK == ASSUME RequestsInv, NEW c \in Clients, R!Spaces(c) PROVE RequestsInv'
<1> DEFINE j == job[c]
<1>1. Context /\ JobOK(j, comp) /\ j.phase = "spaces"
  BY DEF R!Spaces, RequestsInv, Context
<1>2. JobOK(R!At(j, "outputs"), comp) /\ JobOK(R!At(R!Missed(j), "outputs"), comp)
  BY <1>1, SizesReadOK
<1>3. kind' = kind /\ (dialect \in {"unknown", kind})'
  BY DEF R!Spaces, RequestsInv
<1>4. R!Steps(c, R!At(j, "outputs"), comp) \/ R!Steps(c, R!At(R!Missed(j), "outputs"), comp)
  BY DEF R!Spaces
<1> QED
  BY <1>2, <1>3, <1>4, QuietStep

\* It asks for the outputs.
LEMMA OutputsOK == ASSUME RequestsInv, NEW c \in Clients, R!Outputs(c) PROVE RequestsInv'
<1> DEFINE j == job[c]
<1>1. Context /\ JobOK(j, comp) /\ j.phase = "outputs"
  BY DEF R!Outputs, RequestsInv, Context
<1>2. JobOK(R!Settled(j), comp) /\ JobOK(R!Settled(R!Missed(j)), comp)
  BY <1>1, SizesReadOK
<1>3. kind' = kind /\ (dialect \in {"unknown", kind})'
  BY DEF R!Outputs, RequestsInv
<1>4. R!Steps(c, R!Settled(j), comp) \/ R!Steps(c, R!Settled(R!Missed(j)), comp)
  BY DEF R!Outputs
<1> QED
  BY <1>2, <1>3, <1>4, QuietStep

\* The client asks for the version.
LEMMA VersionOK == ASSUME RequestsInv, NEW c \in Clients, R!Version(c) PROVE RequestsInv'
<1> DEFINE j == job[c]
<1>1. Context /\ JobOK(j, comp) /\ j.phase = "version"
  BY DEF R!Version, RequestsInv, Context
<1>2. JobOK(R!Sending(j, kind), comp) /\ JobOK(R!Sending([j EXCEPT !.guessed = TRUE], "legacy"), comp)
  BY <1>1, VersionReadOK
<1>3. kind' = kind /\ (dialect \in {"unknown", kind})'
  BY DEF R!Version, R!NotRemembered, RequestsInv
<1>4. R!Steps(c, R!Sending(j, kind), comp) \/ R!Steps(c, R!Sending([j EXCEPT !.guessed = TRUE], "legacy"), comp)
  BY DEF R!Version
<1> QED
  BY <1>2, <1>3, <1>4, QuietStep

\* The client sends a command.
LEMMA SendOK == ASSUME RequestsInv, NEW c \in Clients, R!Send(c) PROVE RequestsInv'
<1> DEFINE j == job[c]
           cmd == Head(j.cmds)
           arrives == cmd.in \in {"any", kind} /\ (cmd.w = None \/ cmd.w \in DOMAIN comp.wins)
<1>1. Context /\ JobOK(j, comp) /\ j.phase = "send"
  BY DEF R!Send, RequestsInv, Context
<1>2. kind' = kind /\ (dialect \in {"unknown", kind})'
  BY DEF R!Send, RequestsInv
<1>3. \/ arrives /\ \E C \in R!Effects(cmd), k \in R!Replied(j, "ok") :
                      R!Steps(c, [k EXCEPT !.touched = @ \union R!Touched(C)], C)
      \/ /\ ~arrives
         /\ \E result \in IF cmd.verb = "layout" THEN {"error"} ELSE {"ok", "error"} :
              \E k \in R!Replied(j, result) : R!Steps(c, k, comp)
      \/ \E k \in R!Replied(j, "error") : R!Steps(c, k, comp)
  BY DEF R!Send
<1>4. CASE arrives /\ \E C \in R!Effects(cmd), k \in R!Replied(j, "ok") :
                        R!Steps(c, [k EXCEPT !.touched = @ \union R!Touched(C)], C)
  <2>1. PICK C \in R!Effects(cmd), k \in R!Replied(j, "ok") :
          R!Steps(c, [k EXCEPT !.touched = @ \union R!Touched(C)], C)
    BY <1>4
  <2>2. /\ JobOK([k EXCEPT !.touched = @ \union R!Touched(C)], C)
        /\ C \in Compositor /\ C.focus \in DOMAIN C.wins \union {None}
    BY <1>1, <1>4, ArrivedOK
  <2> QED
    BY <1>2, <2>1, <2>2, StepKeeps
<1>5. CASE /\ ~arrives
           /\ \E result \in IF cmd.verb = "layout" THEN {"error"} ELSE {"ok", "error"} :
                \E k \in R!Replied(j, result) : R!Steps(c, k, comp)
  BY <1>1, <1>2, <1>5, PassedOverOK, QuietStep
<1>6. CASE \E k \in R!Replied(j, "error") : R!Steps(c, k, comp)
  BY <1>1, <1>2, <1>6, FailedOK, QuietStep
<1> QED
  BY <1>3, <1>4, <1>5, <1>6

\* The user changes a window.
LEMMA UserOK == ASSUME RequestsInv, R!User PROVE RequestsInv'
<1>1. kind' = kind /\ (dialect \in {"unknown", kind})' /\ Context
  BY DEF R!User, RequestsInv, Context
<1>2. PICK w \in DOMAIN comp.wins :
        \E cmd \in {R!Cmd("focus", w, ""), R!Cmd("close", w, ""), R!Toggle("full", w), R!Toggle("max", w), R!Toggle("pin", w)} :
          \E C \in R!Effects(cmd) : R!Steps(None, job, C)
  BY DEF R!User
<1>3. PICK cmd \in {R!Cmd("focus", w, ""), R!Cmd("close", w, ""), R!Toggle("full", w), R!Toggle("max", w), R!Toggle("pin", w)} :
        \E C \in R!Effects(cmd) : R!Steps(None, job, C)
  BY <1>2
<1>4. PICK C \in R!Effects(cmd) : R!Steps(None, job, C)
  BY <1>3
<1>5. w \in Win /\ None \notin Win /\ None \notin Clients
  BY <1>1, PartsAssumption DEF R!RequestsAssumption, Context, Compositor
<1>6. cmd \in Commands /\ cmd.w = w
  <2>1. /\ R!Cmd("focus", w, "") \in Commands /\ R!Cmd("focus", w, "").w = w
        /\ R!Cmd("close", w, "") \in Commands /\ R!Cmd("close", w, "").w = w
    BY <1>5, FocusIs
  <2>2. \A s \in R!States : R!Toggle(s, w) \in Commands /\ R!Toggle(s, w).w = w
    BY <1>5, ToggleIs
  <2>3. {"full", "max", "pin"} \subseteq R!States
    BY DEF R!States
  <2> QED
    BY <1>3, <2>1, <2>2, <2>3
<1>7. C \in Compositor /\ C.focus \in DOMAIN C.wins \union {None}
  BY <1>1, <1>5, <1>6, CompositorStays DEF Context
<1> QED
  BY <1>1, <1>4, <1>5, <1>7, StepKeeps

\* The invariant holds at the start.
LEMMA RequestsStart == ASSUME R!Init PROVE RequestsInv
<1>1. kind \in Kinds /\ dialect = "unknown" /\ job = [c \in Clients |-> R!Idle]
  BY DEF R!Init, Kinds
<1>2. comp \in Compositor /\ comp.focus \in DOMAIN comp.wins \union {None}
  <2>1. (CHOOSE w \in Win : TRUE) \in Win
    BY PartsAssumption DEF R!RequestsAssumption
  <2>2. [w \in Win |-> [is |-> {}, had |-> {}]] \in [Win -> R!Window]
    BY DEF R!Window
  <2> DEFINE wins == [w \in Win |-> [is |-> {}, had |-> {}]]
  <2>3. comp \in [wins : {wins}, focus : {CHOOSE w \in Win : TRUE}, layout : {1}, opts : {{}}, bound : {FALSE}]
    BY DEF R!Init
  <2>4. DOMAIN wins = Win
    OBVIOUS
  <2>5. wins \in UNION {[S -> R!Window] : S \in SUBSET Win}
    BY <2>2
  <2> HIDE DEF wins
  <2>6. /\ comp = [wins |-> comp.wins, focus |-> comp.focus, layout |-> comp.layout, opts |-> comp.opts, bound |-> comp.bound]
        /\ comp.wins = wins /\ comp.focus = (CHOOSE w \in Win : TRUE)
        /\ comp.layout = 1 /\ comp.opts = {} /\ comp.bound = FALSE
    BY <2>3
  <2>7. comp.focus \in DOMAIN comp.wins
    BY <2>1, <2>4, <2>6
  <2>8. comp.focus \in Win /\ comp.layout \in R!Layouts /\ comp.opts \in SUBSET R!Options /\ comp.bound \in BOOLEAN
    <3>1. comp.focus \in Win /\ comp.opts \in SUBSET R!Options
      BY <2>1, <2>6
    <3>2. comp.layout \in R!Layouts
      BY <2>6 DEF R!Layouts
    <3>3. comp.bound \in BOOLEAN
      BY <2>6
    <3> QED
      BY <3>1, <3>2, <3>3
  <2> QED
    BY <2>5, <2>6, <2>7, <2>8 DEF Compositor
<1>3. R!Idle \in Jobs
  BY IdleIs
<1>4. JobOK(R!Idle, comp)
  BY <1>3 DEF R!Idle, JobOK, Stage, Waiting, Accurate, LayoutFits, Sends, ActsOn, TakesEffect
<1> QED
  BY <1>1, <1>2, <1>3, <1>4 DEF RequestsInv

\* Every step keeps the invariant.
LEMMA RequestsStay == ASSUME RequestsInv, [R!Next]_(R!vars) PROVE RequestsInv'
<1>1. CASE R!Next
  <2>1. CASE R!User
    BY <2>1, UserOK
  <2>2. CASE \E c \in Clients : R!Call(c)
    BY <2>2, CallOK
  <2>3. CASE R!Handler
    BY <2>3, ResolveOK, AskOK, LookOK, SpacesOK, OutputsOK, VersionOK, SendOK DEF R!Handler
  <2> QED
    BY <1>1, <2>1, <2>2, <2>3 DEF R!Next
<1>2. CASE UNCHANGED R!vars
  <2>1. kind' = kind /\ comp' = comp /\ dialect' = dialect /\ job' = job
    BY <1>2 DEF R!vars
  <2>2. \A k, X : JobOK(k, X)' <=> JobOK(k, X)
    BY <2>1, KindStays
  <2>3. \A c \in Clients : JobOK(job[c], comp)'
    <3>1. \A c \in Clients : JobOK(job'[c], comp')
      BY <2>1 DEF RequestsInv
    <3> QED
      BY <2>2, <3>1
  <2>4. (job \in [Clients -> Jobs])'
    BY <2>1 DEF RequestsInv, Jobs, Commands
  <2> QED
    BY <2>1, <2>3, <2>4 DEF RequestsInv, Compositor, Kinds
<1> QED
  BY <1>1, <1>2

\* The invariant implies the three properties.
LEMMA RequestsKeepTheirWord ==
    ASSUME RequestsInv
    PROVE  R!ActsOnNamedWindow /\ R!SetTakesEffect /\ R!DialectMatches
<1>1. ASSUME NEW c \in Clients PROVE JobOK(job[c], comp)
  BY DEF RequestsInv
<1>2. R!ActsOnNamedWindow
  BY <1>1 DEF JobOK, ActsOn, R!ActsOnNamedWindow
<1>3. R!SetTakesEffect
  BY <1>1 DEF JobOK, TakesEffect, Effective, Steady, Bound, R!KeyOps, R!SetTakesEffect
<1>4. R!DialectMatches
  <2> SUFFICES ASSUME NEW c \in Clients, job[c].phase = "send"
               PROVE  Head(job[c].cmds).in \in {"any", kind} \/ job[c].guessed \/ job[c].op \in R!LayoutOps
    BY DEF R!DialectMatches
  <2>1. /\ job[c].cmds \in Seq(Commands) /\ job[c].cmds # << >>
        /\ \A i \in 1..Len(job[c].cmds) : Meant(job[c], job[c].cmds[i])
    BY <1>1 DEF JobOK, Stage, Sends, Jobs
  <2>2. Head(job[c].cmds) = job[c].cmds[1] /\ 1 \in 1..Len(job[c].cmds)
    BY <2>1, TailIs
  <2>3. Meant(job[c], job[c].cmds[1])
    BY ONLY <2>1, <2>2
  <2> QED
    BY <2>2, <2>3 DEF Meant
<1> QED
  BY <1>2, <1>3, <1>4

\* Whenever the requests are the part that runs, their invariant holds.
LEMMA RequestsAlways == Spec => [](part = "requests" => RequestsInv)
<1> DEFINE Inv == part = "requests" => RequestsInv
<1>1. Init => Inv
  BY RequestsStart DEF Init
<1>2. Inv /\ [Next]_allVars => Inv'
  <2> SUFFICES ASSUME Inv, [Next]_allVars, (part = "requests")' PROVE RequestsInv'
    OBVIOUS
  <2>1. RequestsInv /\ [R!Next]_(R!vars)
    BY OnePartSteps
  <2> QED
    BY <2>1, RequestsStay
<1> QED
  BY <1>1, <1>2, PTL DEF Spec

\* For any connections, windows and requests: a request that names a window, or
\* was resolved to one, touches no other window, whatever other connections
\* and the user do between its round trips; except the focus-dependent
\* requests that the property names.
THEOREM RequestsActOnTheirWindow == Spec => []ActsOnNamedWindow
<1>1. (part = "requests" => RequestsInv) => ActsOnNamedWindow
  BY RequestsKeepTheirWord DEF ActsOnNamedWindow
<1> QED
  BY <1>1, RequestsAlways, PTL

\* For any connections, windows and requests: an acknowledged request has had
\* its effect, if nobody changed the compositor meanwhile and the version was
\* not guessed: the state is as asked, all options of a batch are set, the key
\* is bound or not, the layout is the neighbour of the one that was found.
THEOREM AcknowledgedIsEffective == Spec => []SetTakesEffect
<1>1. (part = "requests" => RequestsInv) => SetTakesEffect
  BY RequestsKeepTheirWord DEF SetTakesEffect
<1> QED
  BY <1>1, RequestsAlways, PTL

\* For any connections, windows and requests: the command a client is about to
\* send is in the dialect of the compositor, unless the version could not be
\* read for that very request, or it sets the layout.
THEOREM HyprlandUnderstands == Spec => []DialectMatches
<1>1. (part = "requests" => RequestsInv) => DialectMatches
  BY RequestsKeepTheirWord DEF DialectMatches
<1> QED
  BY <1>1, RequestsAlways, PTL

----------------------------------------------------------------------------
(* The config watcher. *)

\* What is to be applied, and watched, as the files are.
Imported == F!LoadConfig(disk)
Reads    == F!ResolveIncludePaths(disk)

WatcherTyped ==
    /\ disk \in F!Disks
    /\ watches \subseteq F!Files /\ watched \subseteq F!Files
    /\ \A f \in watches : disk[f].there
    /\ inbox \in Seq({"change", "remove"})
    /\ pc \in [F!Threads -> {"idle", "load", "watch", "apply", "seed", "start"}]
    /\ DOMAIN loaded = F!Threads
    /\ excused \subseteq F!Lags
    /\ edits \in 0..MaxEdits /\ failures \in 0..MaxFailures
    /\ pc[F!Daemon] # "watch" /\ \A t \in Clients : pc[t] # "start"

\* An event, the timer or a reload will load the files again.
Reloads == inbox # << >> \/ armed \/ \E t \in Clients : pc[t] = "load"

InForce == Imported.ok => applied = Imported.cfg /\ seeded = Imported.cfg

\* Until main watches the files, nothing is watched and no timer runs.
Starting ==
    pc[F!Daemon] # "idle" =>
        /\ watches = {} /\ inbox = << >> /\ ~armed
        /\ \A t \in Clients : pc[t] = "idle"
        /\ pc[F!Daemon] \in {"apply", "seed"} => Imported.ok /\ loaded[F!Daemon] = Imported.cfg
        /\ pc[F!Daemon] = "seed" => applied = Imported.cfg
        /\ pc[F!Daemon] = "start" => InForce

\* Then, unless the files will be loaded again, a reload has what the files
\* say, and they are watched and in force when it is through.
UpToDate ==
    pc[F!Daemon] = "idle" /\ ~Reloads =>
        /\ \A t \in Clients :
             /\ pc[t] \in {"watch", "apply", "seed"} => Imported.ok /\ loaded[t] = Imported.cfg
             /\ pc[t] = "seed" => applied = Imported.cfg
        /\ (\A t \in Clients : pc[t] # "watch") /\ Imported.ok => Reads \subseteq watches
        /\ (\A t \in Clients : pc[t] = "idle") => InForce

MainIsWatched == pc[F!Daemon] = "idle" => Main \in watches \/ \E i \in DOMAIN inbox : inbox[i] = "remove"

Tracks ==
    /\ \A f \in F!Files : disk[f].there
    /\ \A t \in Clients, u \in Clients : pc[t] # "idle" /\ pc[u] # "idle" => t = u
    /\ Starting /\ UpToDate /\ MainIsWatched

WatcherInv == WatcherTyped /\ (excused = {} /\ ~stopped => Tracks)

\* A file that is written or replaced leaves the files as they may be.
LEMMA EditedDisk ==
    ASSUME disk \in F!Disks, edits \in 0..MaxEdits, edits < MaxEdits, MaxEdits \in Nat,
           NEW f \in F!Files, NEW c \in F!Contents(f) \union {F!Absent}
    PROVE  /\ [disk EXCEPT ![f] = c] \in F!Disks
           /\ c # F!Absent => c \in F!Lasting(f) /\ c.there
<1>1. edits + 1 \in 0..MaxEdits
  OBVIOUS
<1>2. F!Contents(f) \subseteq F!Lasting(f)
  BY <1>1 DEF F!Contents, F!Lasting
<1>3. \A d \in F!Lasting(f) : d.there
  BY DEF F!Lasting, F!Toml, F!Unparsable
<1>4. c \in F!Lasting(f) \union {F!Absent}
  BY <1>2
<1>5. [disk EXCEPT ![f] = c] \in [F!Files -> (UNION {F!Lasting(g) : g \in F!Files}) \union {F!Absent}]
  <2> DEFINE S == (UNION {F!Lasting(g) : g \in F!Files}) \union {F!Absent}
  <2>1. disk \in [F!Files -> S]
    BY DEF F!Disks
  <2>2. F!Lasting(f) \in {F!Lasting(g) : g \in F!Files}
    OBVIOUS
  <2>3. c \in S
    <3>1. CASE c \in F!Lasting(f)
      BY <2>2, <3>1 DEF S
    <3>2. CASE c = F!Absent
      BY <3>2 DEF S
    <3> QED
      BY <1>4, <3>1, <3>2
  <2> HIDE DEF S
  <2>4. [disk EXCEPT ![f] = c] \in [F!Files -> S]
    BY <2>1, <2>3
  <2> QED
    BY <2>4 DEF S
<1>6. \A g \in F!Files : [disk EXCEPT ![f] = c][g] \in F!Lasting(g) \union {F!Absent}
  BY <1>4 DEF F!Disks
<1> QED
  BY <1>3, <1>4, <1>5, <1>6 DEF F!Disks

\* What a change of a file does; it is the last but those that are excused.
LEMMA EditIs ==
    ASSUME PartsAssumption, WatcherTyped, NEW f \in F!Files, F!Write(f) \/ F!Unlink(f)
    PROVE  /\ \E c \in F!Contents(f) \union {F!Absent} :
                /\ disk' = [disk EXCEPT ![f] = c]
                /\ c = F!Absent => "absent" \in excused'
           /\ edits < MaxEdits /\ edits' = edits + 1
           /\ excused \subseteq excused' /\ excused' \subseteq excused \union F!Lags
           /\ f \notin watches /\ (\E t \in F!Threads : F!Loaded(t)) => "unwatched" \in excused'
           /\ UNCHANGED <<watched, armed, stopped, pc, loaded, applied, seeded, failures>>
           /\ IF f \in watches
              THEN \/ watches' = watches /\ inbox' = Append(inbox, "change") /\ disk'[f].there
                   \/ watches' = watches \ {f} /\ inbox' = Append(inbox, "remove")
                   \/ watches' = watches \ {f} /\ inbox' = Append(inbox, "change") /\ "absent" \in excused'
              ELSE watches' = watches /\ inbox' = inbox
<1>1. DOMAIN disk = F!Files
  BY DEF WatcherTyped, F!Disks
<1>2. PICK c \in F!Contents(f) \union {F!Absent} : F!Edit(f, c) /\ (F!Write(f) => c \in F!Contents(f))
  BY DEF F!Write, F!Unlink
<1>3. disk' = [disk EXCEPT ![f] = c] /\ disk'[f] = c
  BY <1>1, <1>2 DEF F!Edit
<1>4. c = F!Absent => "absent" \in excused'
  BY <1>2 DEF F!Edit, F!Excuse
<1>5. /\ edits < MaxEdits /\ edits' = edits + 1
      /\ UNCHANGED <<watched, armed, stopped, pc, loaded, applied, seeded, failures>>
  BY <1>2 DEF F!Edit
<1>6. /\ excused \subseteq excused' /\ excused' \subseteq excused \union F!Lags
      /\ f \notin watches /\ (\E t \in F!Threads : F!Loaded(t)) => "unwatched" \in excused'
  BY <1>2 DEF F!Edit, F!Excuse, F!Lags
<1>7. CASE F!Write(f)
  <2>1. watches' = watches /\ inbox' = (IF f \in watches THEN Append(inbox, "change") ELSE inbox)
    BY <1>7 DEF F!Write, F!Report
  <2>2. disk'[f].there
    BY <1>2, <1>3, <1>7 DEF F!Contents, F!Toml, F!Unparsable
  <2> QED
    BY <1>3, <1>4, <1>5, <1>6, <2>1, <2>2
<1>8. CASE F!Unlink(f)
  <2>1. PICK op \in {"remove", "change"} :
          /\ inbox' = (IF f \in watches THEN Append(inbox, op) ELSE inbox)
          /\ op = "change" => disk'[f] = F!Absent
    BY <1>8 DEF F!Unlink, F!Report
  <2>2. watches' = watches \ {f}
    BY <1>8 DEF F!Unlink
  <2>3. op = "change" => "absent" \in excused'
    BY <1>3, <1>4, <2>1
  <2> QED
    BY <1>3, <1>4, <1>5, <1>6, <2>1, <2>2, <2>3
<1> QED
  BY <1>7, <1>8

\* The files the watcher watches after it has looked through them.
LEMMA RewatchedIs ==
    ASSUME WatcherTyped, F!LoadsWhatItWatches, F!updateWatchedFiles
    PROVE  /\ watches' \subseteq F!Files /\ watched' \subseteq F!Files
           /\ \A f \in watches' : disk[f].there
           /\ (\A f \in F!Files : disk[f].there) => Reads \subseteq watches'
           /\ disk[Main].there => Main \in watches'
           /\ Main \in watches => Main \in watches'
<1>1. Main \in Reads /\ Reads \subseteq F!Files
  BY DEF WatcherTyped, Reads, F!LoadsWhatItWatches
<1>2. watches' = (watches \ (watched \ Reads)) \union {p \in Reads : disk[p].there} /\ watched' = Reads
  BY DEF F!updateWatchedFiles, Reads
<1> QED
  BY <1>1, <1>2 DEF WatcherTyped

\* Every step of the watcher keeps its types.
LEMMA WatcherTypes ==
    ASSUME PartsAssumption, F!LoadsWhatItWatches, WatcherTyped, F!Next PROVE WatcherTyped'
<1>1. /\ F!Daemon \notin Clients /\ F!Threads = {F!Daemon} \union Clients
      /\ MaxEdits \in Nat /\ MaxFailures \in Nat
  BY DEF PartsAssumption, F!WatcherAssumption, F!Threads
<1>2. ASSUME NEW f \in F!Files, F!Write(f) \/ F!Unlink(f) PROVE WatcherTyped'
  <2>1. PICK c \in F!Contents(f) \union {F!Absent} : disk' = [disk EXCEPT ![f] = c]
    BY <1>2, EditIs
  <2>2. /\ edits < MaxEdits /\ edits' = edits + 1
        /\ excused' \subseteq excused \union F!Lags
        /\ UNCHANGED <<watched, pc, loaded, failures>>
    BY <1>2, EditIs
  <2>3. disk' \in F!Disks
    BY <1>1, <2>1, <2>2, EditedDisk DEF WatcherTyped
  <2>4. edits' \in 0..MaxEdits
    BY <1>1, <2>2 DEF WatcherTyped
  <2>5. /\ watches' \subseteq watches /\ inbox' \in Seq({"change", "remove"})
        /\ f \in watches' => disk'[f].there
    <3>1. inbox \in Seq({"change", "remove"})
      BY DEF WatcherTyped
    <3>2. Append(inbox, "change") \in Seq({"change", "remove"}) /\ Append(inbox, "remove") \in Seq({"change", "remove"})
      BY <3>1
    <3> QED
      BY <1>2, <3>1, <3>2, EditIs
  <2>6. \A g \in watches' : disk'[g].there
    BY <2>1, <2>5 DEF WatcherTyped, F!Disks
  <2> QED
    BY <2>2, <2>3, <2>4, <2>5, <2>6 DEF WatcherTyped
<1>3. CASE F!Receive
  <2>1. /\ inbox # << >> /\ inbox' = Tail(inbox)
        /\ UNCHANGED <<disk, edits, pc, loaded, failures, excused>>
        /\ F!updateWatchedFiles \/ UNCHANGED <<watches, watched>>
    BY <1>3 DEF F!Receive, F!fileVars
  <2>2. inbox' \in Seq({"change", "remove"})
    BY <2>1 DEF WatcherTyped
  <2>3. watches' \subseteq F!Files /\ watched' \subseteq F!Files /\ \A f \in watches' : disk'[f].there
    BY <2>1, RewatchedIs DEF WatcherTyped
  <2> QED
    BY <2>1, <2>2, <2>3 DEF WatcherTyped
<1>4. CASE F!Stop
  BY <1>4 DEF F!Stop, F!fileVars, WatcherTyped
<1>5. ASSUME NEW t \in Clients, F!Fire(t) PROVE WatcherTyped'
  BY <1>1, <1>5 DEF F!Fire, F!fileVars, WatcherTyped, F!Lags
<1>6. ASSUME NEW t \in F!Threads, F!Load(t) PROVE WatcherTyped'
  BY <1>1, <1>6 DEF F!Load, F!fileVars, WatcherTyped
<1>7. ASSUME NEW t \in F!Threads, F!Watch(t) PROVE WatcherTyped'
  <2>1. /\ pc' = [pc EXCEPT ![t] = IF t = F!Daemon THEN "idle" ELSE "apply"]
        /\ UNCHANGED <<disk, edits, inbox, loaded, failures, excused>>
        /\ F!updateWatchedFiles
    BY <1>7 DEF F!Watch, F!fileVars
  <2>2. watches' \subseteq F!Files /\ watched' \subseteq F!Files /\ \A f \in watches' : disk'[f].there
    BY <2>1, RewatchedIs
  <2>3. /\ pc' \in [F!Threads -> {"idle", "load", "watch", "apply", "seed", "start"}]
        /\ pc'[F!Daemon] # "watch" /\ \A u \in Clients : pc'[u] # "start"
    BY <1>1, <2>1 DEF WatcherTyped
  <2> QED
    BY <2>1, <2>2, <2>3 DEF WatcherTyped
<1>8. ASSUME NEW t \in F!Threads, F!ApplyConfig(t) PROVE WatcherTyped'
  <2>1. /\ UNCHANGED <<disk, edits, watches, watched, inbox, loaded>>
        /\ excused' \in {excused, excused \union {"failed"}}
        /\ failures' = failures \/ (failures < MaxFailures /\ failures' = failures + 1)
    BY <1>8 DEF F!ApplyConfig, F!fileVars
  <2>2. pc' = [pc EXCEPT ![t] = "seed"] \/ pc' = [pc EXCEPT ![t] = IF t = F!Daemon THEN "start" ELSE "idle"]
    BY <1>8 DEF F!ApplyConfig
  <2>3. /\ pc' \in [F!Threads -> {"idle", "load", "watch", "apply", "seed", "start"}]
        /\ pc'[F!Daemon] # "watch" /\ \A u \in Clients : pc'[u] # "start"
    BY <1>1, <2>2 DEF WatcherTyped
  <2>4. failures' \in 0..MaxFailures
    BY <1>1, <2>1 DEF WatcherTyped
  <2>5. excused' \subseteq F!Lags
    BY <2>1 DEF WatcherTyped, F!Lags
  <2> QED
    BY <2>1, <2>3, <2>4, <2>5 DEF WatcherTyped
<1>9. ASSUME NEW t \in F!Threads, F!SeedConfigState(t) PROVE WatcherTyped'
  BY <1>1, <1>9 DEF F!SeedConfigState, F!fileVars, WatcherTyped
<1> QED
  BY <1>2, <1>3, <1>4, <1>5, <1>6, <1>7, <1>8, <1>9 DEF F!Next, F!Reload

\* A file that is not read may change.
LEMMA UnreadEdit ==
    ASSUME F!LoadsWhatItWatches, disk \in F!Disks, NEW f \in F!Files \ Reads, disk[f].there,
           NEW c \in F!Lasting(f), disk' = [disk EXCEPT ![f] = c]
    PROVE  Imported' = Imported /\ Reads' = Reads
BY DEF F!LoadsWhatItWatches, Imported, Reads

\* A change of a file is reported, or the file is not read, or it is excused.
LEMMA EditsTracked ==
    ASSUME PartsAssumption, F!LoadsWhatItWatches, WatcherTyped, Tracks, excused' = {},
           NEW f \in F!Files, F!Write(f) \/ F!Unlink(f)
    PROVE  Tracks'
<1>1. /\ F!Daemon \notin Clients /\ F!Threads = {F!Daemon} \union Clients /\ MaxEdits \in Nat
  BY DEF PartsAssumption, F!WatcherAssumption, F!Threads
<1>2. PICK c \in F!Contents(f) \union {F!Absent} :
        /\ disk' = [disk EXCEPT ![f] = c]
        /\ c # F!Absent
  BY EditIs
<1>3. UNCHANGED <<armed, stopped, pc, loaded, applied, seeded>> /\ edits < MaxEdits
  BY EditIs
<1>4. c \in F!Lasting(f) /\ c.there
  BY <1>1, <1>2, <1>3, EditedDisk DEF WatcherTyped
<1>5. \A g \in F!Files : disk'[g].there
  BY <1>2, <1>4 DEF Tracks, WatcherTyped, F!Disks
<1>6. \A t \in Clients, u \in Clients : pc'[t] # "idle" /\ pc'[u] # "idle" => t = u
  BY <1>3 DEF Tracks
<1>7. inbox \in Seq({"change", "remove"})
  BY DEF WatcherTyped
<1>8. CASE f \in watches
  <2>1. \/ watches' = watches /\ inbox' = Append(inbox, "change")
        \/ watches' = watches \ {f} /\ inbox' = Append(inbox, "remove")
    BY <1>8, EditIs
  <2>2. pc[F!Daemon] = "idle"
    BY <1>8 DEF Tracks, Starting
  <2>3. inbox' # << >>
    BY <1>7, <2>1
  <2>4. Starting' /\ UpToDate'
    BY <1>3, <2>2, <2>3 DEF Starting, UpToDate, Reloads
  <2>5. Main \in watches' \/ \E i \in DOMAIN inbox' : inbox'[i] = "remove"
    <3>1. CASE watches' = watches /\ inbox' = Append(inbox, "change")
      <4>1. \A i \in DOMAIN inbox : i \in DOMAIN inbox' /\ inbox'[i] = inbox[i]
        BY <1>7, <3>1
      <4> QED
        BY <2>2, <3>1, <4>1 DEF Tracks, MainIsWatched
    <3>2. CASE watches' = watches \ {f} /\ inbox' = Append(inbox, "remove")
      <4>1. Len(inbox) + 1 \in DOMAIN inbox' /\ inbox'[Len(inbox) + 1] = "remove"
        BY <1>7, <3>2
      <4> QED
        BY <4>1
    <3> QED
      BY <2>1, <3>1, <3>2
  <2> QED
    BY <1>5, <1>6, <2>4, <2>5 DEF Tracks, MainIsWatched
<1>9. CASE f \notin watches
  <2>1. watches' = watches /\ inbox' = inbox /\ \A t \in F!Threads : ~F!Loaded(t)
    BY <1>9, EditIs
  <2>2. pc[F!Daemon] \notin {"apply", "seed", "start"} /\ \A t \in Clients : pc[t] # "watch"
    BY <1>1, <2>1 DEF F!Loaded
  <2>3. Starting'
    BY <1>3, <2>1, <2>2 DEF Tracks, Starting
  <2>4. ASSUME pc[F!Daemon] = "idle", ~Reloads PROVE f \notin Reads
    <3>1. inbox = << >> /\ DOMAIN inbox = {}
      BY <2>4 DEF Reloads
    <3>2. Main \in watches
      BY <2>4, <3>1 DEF Tracks, MainIsWatched
    <3>3. Imported.ok \/ Reads = {Main}
      BY DEF F!LoadsWhatItWatches, Imported, Reads, WatcherTyped
    <3>4. Imported.ok => Reads \subseteq watches
      BY <2>2, <2>4 DEF Tracks, UpToDate
    <3> QED
      BY <1>9, <3>2, <3>3, <3>4
  <2>5. ASSUME pc[F!Daemon] = "idle", ~Reloads PROVE Imported' = Imported /\ Reads' = Reads
    BY <1>2, <1>4, <2>4, <2>5, UnreadEdit DEF Tracks, WatcherTyped
  <2>6. Reloads' = Reloads
    BY <1>3, <2>1 DEF Reloads
  <2>7. UpToDate'
    <3> SUFFICES ASSUME pc[F!Daemon] = "idle", ~Reloads PROVE UpToDate'
      BY <1>3, <2>6 DEF UpToDate
    <3>1. Imported' = Imported /\ Reads' = Reads
      BY <2>5
    <3> QED
      BY <1>3, <2>1, <2>6, <3>1 DEF Tracks, UpToDate, InForce
  <2>8. MainIsWatched'
    BY <1>3, <2>1 DEF Tracks, MainIsWatched
  <2> QED
    BY <1>5, <1>6, <2>3, <2>7, <2>8 DEF Tracks
<1> QED
  BY <1>8, <1>9

\* An event that is read sets the timer, and finds the main file again.
LEMMA ReceiptTracked ==
    ASSUME PartsAssumption, F!LoadsWhatItWatches, WatcherTyped, Tracks, F!Receive
    PROVE  Tracks'
<1>1. /\ inbox # << >> /\ inbox' = Tail(inbox) /\ armed' = TRUE
      /\ UNCHANGED <<disk, edits, pc, loaded, applied, seeded>>
      /\ IF Head(inbox) = "remove" THEN F!updateWatchedFiles ELSE UNCHANGED <<watches, watched>>
      /\ pc[F!Daemon] = "idle"
  BY DEF F!Receive, F!fileVars, F!Busy
<1>2. Starting' /\ UpToDate'
  BY <1>1 DEF Starting, UpToDate, Reloads
<1>3. MainIsWatched'
  <2>1. inbox \in Seq({"change", "remove"})
    BY DEF WatcherTyped
  <2>2. CASE Head(inbox) = "remove"
    <3>1. Main \in F!Files
      BY DEF PartsAssumption, F!WatcherAssumption, F!Files
    <3>2. Main \in watches'
      BY <1>1, <2>2, <3>1, RewatchedIs DEF Tracks
    <3> QED
      BY <3>2 DEF MainIsWatched
  <2>3. CASE Head(inbox) # "remove"
    <3>1. \A i \in DOMAIN inbox : inbox[i] = "remove" => i - 1 \in DOMAIN inbox' /\ inbox'[i - 1] = "remove"
      BY <1>1, <2>1, <2>3
    <3> QED
      BY <1>1, <2>3, <3>1 DEF Tracks, MainIsWatched
  <2> QED
    BY <2>2, <2>3
<1> QED
  BY <1>1, <1>2, <1>3 DEF Tracks

\* The timer starts a reload, when none runs.
LEMMA TimerTracked ==
    ASSUME PartsAssumption, WatcherTyped, Tracks, excused' = {}, NEW t \in Clients, F!Fire(t)
    PROVE  Tracks'
<1>1. /\ armed /\ pc' = [pc EXCEPT ![t] = "load"]
      /\ UNCHANGED <<disk, watches, inbox, loaded, applied, seeded>>
  BY DEF F!Fire, F!fileVars
<1>2. \A u \in Clients : pc[u] = "idle"
  BY DEF F!Fire, F!Busy
<1>3. F!Daemon \notin Clients /\ t \in F!Threads /\ F!Daemon \in F!Threads
  BY DEF PartsAssumption, F!WatcherAssumption, F!Threads
<1>4. pc'[t] = "load" /\ (\A u \in F!Threads : u # t => pc'[u] = pc[u]) /\ Clients \subseteq F!Threads
  BY <1>1, <1>3 DEF WatcherTyped, F!Threads
<1>5. pc[F!Daemon] = "idle" /\ pc'[F!Daemon] = "idle"
  BY <1>1, <1>3, <1>4 DEF Tracks, Starting
<1>6. Starting' /\ UpToDate'
  BY <1>4, <1>5 DEF Starting, UpToDate, Reloads
<1>7. MainIsWatched'
  BY <1>1, <1>5 DEF Tracks, MainIsWatched
<1>8. \A u \in Clients, v \in Clients : pc'[u] # "idle" /\ pc'[v] # "idle" => u = v
  BY <1>2, <1>4
<1> QED
  BY <1>1, <1>6, <1>7, <1>8 DEF Tracks

\* What a step of main or of a reload leaves to be shown.
LEMMA ReloadStep ==
    ASSUME PartsAssumption, WatcherTyped, Tracks, NEW t \in F!Threads, pc[t] # "idle",
           UNCHANGED <<disk, inbox, armed>>,
           \A u \in F!Threads : u # t => pc'[u] = pc[u]
    PROVE  /\ Imported' = Imported /\ Reads' = Reads
           /\ \A f \in F!Files : disk'[f].there
           /\ t = F!Daemon => \A u \in Clients : pc[u] = "idle" /\ pc'[u] = "idle"
           /\ t = F!Daemon => watches = {} /\ inbox' = << >> /\ ~armed'
           /\ t # F!Daemon => /\ t \in Clients /\ pc[F!Daemon] = "idle" /\ pc'[F!Daemon] = "idle"
                              /\ \A u \in Clients : u # t => pc[u] = "idle" /\ pc'[u] = "idle"
           /\ \A u \in Clients, v \in Clients : pc'[u] # "idle" /\ pc'[v] # "idle" => u = v
<1>1. /\ F!Daemon \notin Clients /\ F!Threads = {F!Daemon} \union Clients
  BY DEF PartsAssumption, F!WatcherAssumption, F!Threads
<1>2. Imported' = Imported /\ Reads' = Reads
  BY DEF Imported, Reads
<1>3. \A f \in F!Files : disk'[f].there
  BY DEF Tracks
<1>4. t = F!Daemon => watches = {} /\ inbox' = << >> /\ ~armed' /\ \A u \in Clients : pc[u] = "idle"
  BY DEF Tracks, Starting
<1>5. t # F!Daemon => t \in Clients /\ pc[F!Daemon] = "idle"
  BY <1>1 DEF Tracks, Starting
<1>6. \A u \in Clients : t \in Clients /\ u # t => pc[u] = "idle"
  BY DEF Tracks
<1> QED
  BY <1>1, <1>2, <1>3, <1>4, <1>5, <1>6

\* A step of main or of a reload keeps Tracks, if nothing excuses it.
LEMMA ReloadsTrack ==
    ASSUME PartsAssumption, F!LoadsWhatItWatches, WatcherTyped, Tracks, excused' = {},
           NEW t \in F!Threads, F!Reload(t)
    PROVE  Tracks'
<1>1. /\ F!Daemon \notin Clients /\ F!Threads = {F!Daemon} \union Clients /\ F!Daemon \in F!Threads
      /\ DOMAIN pc = F!Threads /\ DOMAIN loaded = F!Threads /\ Main \in F!Files
      /\ pc[F!Daemon] # "watch" /\ \A u \in Clients : pc[u] # "start"
  BY DEF PartsAssumption, F!WatcherAssumption, F!Threads, F!Files, WatcherTyped
<1>2. Imported.ok \/ Reads = {Main}
  BY DEF F!LoadsWhatItWatches, Imported, Reads, WatcherTyped
<1> DEFINE Framed == /\ UNCHANGED <<disk, inbox, armed>> /\ pc[t] # "idle"
                     /\ \A u \in F!Threads : u # t => pc'[u] = pc[u]
           Rest == /\ Imported' = Imported /\ Reads' = Reads
                   /\ \A f \in F!Files : disk'[f].there
                   /\ t = F!Daemon => \A u \in Clients : pc[u] = "idle" /\ pc'[u] = "idle"
                   /\ t = F!Daemon => watches = {} /\ inbox' = << >> /\ ~armed'
                   /\ t # F!Daemon => /\ t \in Clients /\ pc[F!Daemon] = "idle" /\ pc'[F!Daemon] = "idle"
                                      /\ \A u \in Clients : u # t => pc[u] = "idle" /\ pc'[u] = "idle"
                   /\ \A u \in Clients, v \in Clients : pc'[u] # "idle" /\ pc'[v] # "idle" => u = v
<1>3. ASSUME Framed PROVE Rest
  BY <1>3, ReloadStep
<1> HIDE DEF Rest
<1>4. ASSUME F!Load(t) PROVE Tracks'
  <2>1. /\ pc[t] = "load" /\ loaded' = [loaded EXCEPT ![t] = Imported.cfg]
        /\ pc' = [pc EXCEPT ![t] = IF t = F!Daemon THEN (IF Imported.ok THEN "apply" ELSE "start")
                                   ELSE IF Imported.ok THEN "watch" ELSE "idle"]
        /\ UNCHANGED <<disk, watches, inbox, armed, applied, seeded>>
    BY <1>4 DEF F!Load, F!fileVars, Imported
  <2>2. /\ \A u \in F!Threads : u # t => pc'[u] = pc[u]
        /\ pc'[t] = IF t = F!Daemon THEN (IF Imported.ok THEN "apply" ELSE "start")
                    ELSE IF Imported.ok THEN "watch" ELSE "idle"
        /\ loaded'[t] = Imported.cfg
    BY <1>1, <2>1
  <2>3. Rest
    BY <1>3, <2>1, <2>2
  <2>4. Starting'
    BY <1>1, <2>1, <2>2, <2>3 DEF Rest, Starting, InForce
  <2>5. UpToDate'
    <3> SUFFICES ASSUME t # F!Daemon, ~Reloads' PROVE UpToDate'
      BY <2>2, <2>3 DEF Rest, UpToDate
    <3>1. CASE Imported.ok
      BY <1>1, <2>2, <2>3, <3>1 DEF Rest, UpToDate
    <3>2. CASE ~Imported.ok
      BY <1>1, <2>2, <2>3, <3>2 DEF Rest, UpToDate, InForce
    <3> QED
      BY <3>1, <3>2
  <2>6. MainIsWatched'
    BY <2>1, <2>2, <2>3 DEF Rest, Tracks, MainIsWatched
  <2> QED
    BY <2>3, <2>4, <2>5, <2>6 DEF Rest, Tracks
<1>5. ASSUME F!Watch(t) PROVE Tracks'
  <2>1. /\ pc[t] \in {"watch", "start"} /\ F!updateWatchedFiles
        /\ pc' = [pc EXCEPT ![t] = IF t = F!Daemon THEN "idle" ELSE "apply"]
        /\ UNCHANGED <<disk, inbox, armed, loaded, applied, seeded>>
    BY <1>5 DEF F!Watch, F!fileVars
  <2>2. /\ \A u \in F!Threads : u # t => pc'[u] = pc[u]
        /\ pc'[t] = IF t = F!Daemon THEN "idle" ELSE "apply"
    BY <1>1, <2>1
  <2>3. Rest
    BY <1>3, <2>1, <2>2
  <2>4. Reads \subseteq watches' /\ Main \in watches'
    BY <1>1, <2>1, RewatchedIs DEF Tracks
  <2>5. Starting'
    BY <1>1, <2>2, <2>3 DEF Rest, Starting
  <2>6. UpToDate'
    <3>1. CASE t = F!Daemon
      <4>1. InForce /\ InForce' = InForce
        BY <1>1, <2>1, <2>3, <3>1 DEF Rest, Tracks, Starting, InForce
      <4> QED
        BY <2>2, <2>3, <2>4, <3>1, <4>1 DEF Rest, UpToDate
    <3>2. CASE t # F!Daemon
      <4>1. t \in Clients /\ pc[t] = "watch" /\ pc'[t] = "apply" /\ pc[F!Daemon] = "idle"
        BY <1>1, <2>1, <2>2, <2>3, <3>2 DEF Rest
      <4>2. Reloads => Reloads'
        BY <2>1, <2>3, <4>1, <3>2 DEF Rest, Reloads
      <4>3. ~Reloads' => Imported.ok /\ loaded[t] = Imported.cfg
        BY <4>1, <4>2 DEF Tracks, UpToDate
      <4> QED
        BY <2>1, <2>3, <2>4, <3>2, <4>1, <4>3 DEF Rest, UpToDate
    <3> QED
      BY <3>1, <3>2
  <2> QED
    BY <2>3, <2>4, <2>5, <2>6 DEF Rest, Tracks, MainIsWatched
<1>6. ASSUME F!ApplyConfig(t) PROVE Tracks'
  <2>1. /\ pc[t] = "apply" /\ applied' = loaded[t] /\ pc' = [pc EXCEPT ![t] = "seed"]
        /\ UNCHANGED <<disk, watches, inbox, armed, loaded, seeded>>
    BY <1>6 DEF F!ApplyConfig, F!fileVars
  <2>2. pc'[t] = "seed" /\ \A u \in F!Threads : u # t => pc'[u] = pc[u]
    BY <1>1, <2>1
  <2>3. Rest
    BY <1>3, <2>1, <2>2
  <2>4. Starting'
    BY <1>1, <2>1, <2>2, <2>3 DEF Rest, Tracks, Starting
  <2>5. UpToDate'
    <3> SUFFICES ASSUME t # F!Daemon, ~Reloads' PROVE UpToDate'
      BY <2>2, <2>3 DEF Rest, UpToDate
    <3>1. ~Reloads
      BY <2>1, <2>2, <2>3 DEF Rest, Reloads
    <3>2. Imported.ok /\ loaded[t] = Imported.cfg /\ Reads \subseteq watches
      BY <2>1, <2>3, <3>1 DEF Rest, Tracks, UpToDate
    <3> QED
      BY <2>1, <2>2, <2>3, <3>2 DEF Rest, UpToDate
  <2>6. MainIsWatched'
    BY <2>1, <2>2, <2>3 DEF Rest, Tracks, MainIsWatched
  <2> QED
    BY <2>3, <2>4, <2>5, <2>6 DEF Rest, Tracks
<1>7. ASSUME F!SeedConfigState(t) PROVE Tracks'
  <2>1. /\ pc[t] = "seed" /\ seeded' = loaded[t]
        /\ pc' = [pc EXCEPT ![t] = IF t = F!Daemon THEN "start" ELSE "idle"]
        /\ UNCHANGED <<disk, watches, inbox, armed, loaded, applied>>
    BY <1>7 DEF F!SeedConfigState, F!fileVars
  <2>2. /\ pc'[t] = IF t = F!Daemon THEN "start" ELSE "idle"
        /\ \A u \in F!Threads : u # t => pc'[u] = pc[u]
    BY <1>1, <2>1
  <2>3. Rest
    BY <1>3, <2>1, <2>2
  <2>4. Starting'
    BY <1>1, <2>1, <2>2, <2>3 DEF Rest, Tracks, Starting, InForce
  <2>5. UpToDate'
    <3> SUFFICES ASSUME t # F!Daemon, ~Reloads' PROVE UpToDate'
      BY <2>2, <2>3 DEF Rest, UpToDate
    <3>1. ~Reloads
      BY <2>1, <2>2, <2>3 DEF Rest, Reloads
    <3>2. Imported.ok /\ loaded[t] = Imported.cfg /\ applied = Imported.cfg /\ Reads \subseteq watches
      BY <2>1, <2>3, <3>1 DEF Rest, Tracks, UpToDate
    <3> QED
      BY <2>1, <2>2, <2>3, <3>2 DEF Rest, UpToDate, InForce
  <2>6. MainIsWatched'
    BY <2>1, <2>2, <2>3 DEF Rest, Tracks, MainIsWatched
  <2> QED
    BY <2>3, <2>4, <2>5, <2>6 DEF Rest, Tracks
<1> QED
  BY <1>4, <1>5, <1>6, <1>7 DEF F!Reload

\* Every step keeps the invariant, and it holds at the start.
LEMMA WatcherStays ==
    ASSUME PartsAssumption, F!LoadsWhatItWatches, WatcherInv, F!Next PROVE WatcherInv'
<1>1. WatcherTyped'
  BY WatcherTypes DEF WatcherInv
<1>2. ASSUME excused' = {}, ~stopped' PROVE Tracks'
  <2>1. ASSUME NEW f \in F!Files, F!Write(f) \/ F!Unlink(f) PROVE excused = {} /\ ~stopped
    BY <1>2, <2>1, EditIs DEF WatcherInv
  <2>2. ASSUME F!Receive \/ (\E t \in Clients : F!Fire(t)) \/ \E t \in F!Threads : F!Reload(t)
        PROVE  excused = {} /\ ~stopped
    BY <1>2, <2>2 DEF F!Receive, F!Fire, F!Reload, F!Load, F!Watch, F!ApplyConfig, F!SeedConfigState
  <2>3. ~F!Stop
    BY <1>2 DEF F!Stop
  <2> QED
    BY <1>2, <2>1, <2>2, <2>3, EditsTracked, ReceiptTracked, TimerTracked, ReloadsTrack
       DEF WatcherInv, F!Next
<1> QED
  BY <1>1, <1>2 DEF WatcherInv

LEMMA WatcherStarts == ASSUME PartsAssumption, F!Init PROVE WatcherInv
<1>1. /\ F!Daemon \notin Clients /\ F!Threads = {F!Daemon} \union Clients
      /\ MaxEdits \in Nat /\ MaxFailures \in Nat
  BY DEF PartsAssumption, F!WatcherAssumption, F!Threads
<1>2. \A f \in F!Files : disk[f] \in F!Lasting(f) /\ disk[f].there
  <2> SUFFICES ASSUME NEW f \in F!Files PROVE disk[f] \in F!Lasting(f) /\ disk[f].there
    OBVIOUS
  <2>1. PICK w \in Writes[f] : disk[f] = F!Toml(w.imports, w.sets, 0)
    BY DEF F!Init
  <2>2. 0 \in 0..MaxEdits
    BY <1>1
  <2>3. disk[f] \in F!Lasting(f)
    BY <2>1, <2>2 DEF F!Lasting
  <2>4. disk[f].there
    BY <2>1 DEF F!Toml
  <2> QED
    BY <2>3, <2>4
<1>3. DOMAIN disk = F!Files /\ disk = [f \in F!Files |-> disk[f]]
  BY DEF F!Init
<1>4. disk \in F!Disks
  <2> DEFINE S == (UNION {F!Lasting(g) : g \in F!Files}) \union {F!Absent}
  <2>1. ASSUME NEW f \in F!Files PROVE disk[f] \in S
    <3>1. F!Lasting(f) \in {F!Lasting(g) : g \in F!Files}
      OBVIOUS
    <3> QED
      BY <1>2, <3>1
  <2> HIDE DEF S
  <2>2. disk \in [F!Files -> S]
    BY <1>3, <2>1
  <2> QED
    BY <1>2, <2>2 DEF F!Disks, S
<1>5. << >> \in Seq({"change", "remove"}) /\ DOMAIN << >> = {}
  OBVIOUS
<1>6. WatcherTyped
  BY <1>1, <1>4, <1>5 DEF F!Init, WatcherTyped, F!Lags
<1>7. Tracks
  BY <1>1, <1>2 DEF F!Init, Tracks, Starting, UpToDate, MainIsWatched
<1> QED
  BY <1>6, <1>7 DEF WatcherInv

\* What the invariant says of a quiet watcher.
LEMMA QuietIsUpToDate == ASSUME PartsAssumption, WatcherInv PROVE F!NoChangeLost
<1> SUFFICES ASSUME F!Quiet, excused = {}, Imported.ok
             PROVE  applied = Imported.cfg /\ seeded = applied
  BY DEF F!NoChangeLost, Imported
<1>1. ~stopped /\ inbox = << >> /\ ~armed /\ pc[F!Daemon] = "idle" /\ \A t \in Clients : pc[t] = "idle"
  BY DEF F!Quiet, F!Busy, F!Threads
<1>2. ~Reloads
  BY <1>1 DEF Reloads
<1>3. InForce
  BY <1>1, <1>2 DEF WatcherInv, Tracks, UpToDate
<1> QED
  BY <1>3 DEF InForce

\* The types of the watcher, and its invariant, hold in every state, for
\* files that load what they watch.
LEMMA WatcherHolds == ASSUME F!LoadsWhatItWatches PROVE Spec => [](part = "watcher" => WatcherInv)
<1> DEFINE Inv == part = "watcher" => WatcherInv
<1>1. Init => Inv
  BY WatcherStarts, PartsAssumption DEF Init
<1>2. Inv /\ [Next]_allVars => Inv'
  <2>1. ASSUME WatcherInv, [F!Next]_(F!vars) PROVE WatcherInv'
    <3>1. CASE F!Next
      BY <2>1, <3>1, PartsAssumption, WatcherStays
    <3>2. CASE UNCHANGED F!vars
      BY <2>1, <3>2 DEF F!vars, F!fileVars, WatcherInv, WatcherTyped, Tracks, Starting, UpToDate, MainIsWatched,
                        InForce, Reloads, Imported, Reads
    <3> QED
      BY <2>1, <3>1, <3>2
  <2> QED
    BY <2>1, OnePartSteps
<1> QED
  BY <1>1, <1>2, PTL DEF Spec

\* For any files, imports, timers and bounds, if loading and watching follow
\* the same imports: once the watcher is quiet and nothing excuses it, the
\* compositor and the configuration state have what the files say.
THEOREM ChangesAreApplied == ASSUME F!LoadsWhatItWatches PROVE Spec => []NoChangeLost
<1>1. (part = "watcher" => WatcherInv) => NoChangeLost
  BY PartsAssumption, QuietIsUpToDate DEF NoChangeLost
<1> QED
  BY <1>1, WatcherHolds, PTL

----------------------------------------------------------------------------
(* The types of the four parts. *)

\* The invariants contain them.
LEMMA PartsAreTyped ==
    /\ BrightnessInv => B!TypeOK
    /\ MonitorInv => K!TypeOK
    /\ RequestsInv => R!TypeOK
    /\ WatcherInv => F!TypeOK
<1>1. ASSUME BrightnessInv PROVE B!TypeOK
  <2>1. \A v \in Levels : B!IsLevels(v)
    BY LevelsAre DEF B!IsLevels
  <2> QED
    BY <1>1, <2>1 DEF BrightnessInv, BrightnessTyped, Settings, B!TypeOK
<1>2. MonitorInv => K!TypeOK
  BY DEF MonitorInv, MonitorTyped
<1>3. ASSUME RequestsInv PROVE R!TypeOK
  <2>1. /\ kind \in R!Hyprland \union {"niri", "mango"} /\ dialect \in {"unknown", kind}
        /\ comp.focus \in DOMAIN comp.wins \union {None}
    BY <1>3 DEF RequestsInv, Kinds
  <2>2. /\ DOMAIN comp.wins \subseteq Win /\ comp.wins \in [DOMAIN comp.wins -> R!Window]
        /\ comp.layout \in R!Layouts /\ comp.opts \subseteq R!Options /\ comp.bound \in BOOLEAN
    BY <1>3 DEF RequestsInv, Compositor
  <2>3. ASSUME NEW c \in Clients
        PROVE  /\ job[c] \in Jobs
               /\ (job[c].phase = "send") = (job[c].cmds # << >>)
               /\ (job[c].phase = "done") = (job[c].result # "")
    BY <1>3, <2>3 DEF RequestsInv, JobOK, Stage
  <2>4. ASSUME NEW c \in Clients
        PROVE  /\ job[c].phase \in {"idle", "resolve", "active", "look", "spaces", "outputs", "version", "send", "done"}
               /\ job[c].op \in R!Operations \union {""} /\ job[c].w \in Win \union {None}
               /\ job[c].seen \subseteq Win /\ job[c].current \in 0..3 /\ job[c].touched \subseteq Win
    BY <2>3, <2>4 DEF Jobs, Phases
  <2>5. ASSUME NEW c \in Clients PROVE (job[c].phase = "done") = (job[c].result \in {"ok", "error", "panic"})
    <3>1. job[c].result \in {"", "ok", "error", "panic"}
      BY <2>3, <2>5 DEF Jobs
    <3>2. job[c].phase = "done" <=> job[c].result # ""
      BY <2>3, <2>5, Zenon
    <3>3. job[c].phase = "done" <=> job[c].result \in {"ok", "error", "panic"}
      BY <3>1, <3>2, Zenon
    <3> QED
      BY <3>3
  <2> QED
    BY <2>1, <2>2, <2>3, <2>4, <2>5 DEF R!TypeOK
<1>4. WatcherInv => F!TypeOK
  BY DEF WatcherInv, WatcherTyped, F!TypeOK
<1> QED
  BY <1>1, <1>2, <1>3, <1>4
============================================================================
