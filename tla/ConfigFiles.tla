---------------------------- MODULE ConfigFiles ----------------------------
(***************************************************************************)
(* The TOML files of pkg/config/loader.go: a file names files to import,   *)
(* and LoadConfig merges what they set, the imports first and the          *)
(* importing file last.  A file imported twice is merged where it is met   *)
(* first, and an import that cannot be loaded is skipped with a warning.   *)
(* What a file sets is cut down to one value of each way mergeConfig       *)
(* treats one: the layout is overridden (as are the options of the         *)
(* appearance and whether there are animations), the binds are appended    *)
(* (as are rules and commands), the options of the keyboard are replaced   *)
(* together, and the target and the workspace style of the animations are  *)
(* not merged at all.  A value is known by the file it is from.            *)
(***************************************************************************)
EXTENDS Naturals, Sequences, SequencesExt, Relation

CONSTANTS
    Main,           \* the configuration file
    MaxImportDepth  \* maxImportDepth

FilesAssumption == MaxImportDepth \in Nat

Keyboard == {"kb_layouts", "kb_variants"}
Sections == {"layout", "binds", "target", "style"} \union Keyboard

\* What is on the disk under a name.
Absent     == [there |-> FALSE, parses |-> FALSE]
Unparsable == [there |-> TRUE, parses |-> FALSE]
Toml(imports, sets, version) ==
    [there |-> TRUE, parses |-> TRUE, imports |-> imports, sets |-> sets, version |-> version]

Empty == [s \in Sections |-> <<>>]
Own(disk, f) ==
    [s \in Sections |-> IF s \in disk[f].sets THEN <<[file |-> f, version |-> disk[f].version]>> ELSE <<>>]

\* Mutant: the first file that sets the layout keeps it.
mergeConfigFirst(dst, src) ==
    [s \in Sections |-> CASE s = "layout" -> IF dst[s] = <<>> THEN src[s] ELSE dst[s]
                          [] s = "binds"  -> dst[s] \o src[s]
                          [] OTHER        -> dst[s]]

mergeConfig(dst, src) ==
    LET hasKeyboard == \E s \in Keyboard : src[s] # <<>> IN
    [s \in Sections |-> CASE s = "layout"    -> IF src[s] = <<>> THEN dst[s] ELSE src[s]
                          [] s = "binds"     -> dst[s] \o src[s]
                          [] s \in Keyboard  -> IF hasKeyboard THEN src[s] ELSE dst[s]
                          [] OTHER           -> dst[s]]

\* loadRecursive returns a configuration or an error, and marks the files it
\* visits for the rest of the load; n is how many imports deep it may still go.
loadRecursive(disk) ==
    LET load[n \in 0..(MaxImportDepth + 1), f \in DOMAIN disk, visited \in SUBSET DOMAIN disk] ==
          LET error(marked) == [ok |-> FALSE, cfg |-> Empty, visited |-> marked]
              import(acc, g) ==
                  IF ~disk[g].there THEN acc
                  ELSE LET sub == load[n - 1, g, acc.visited]
                       IN  [cfg |-> IF sub.ok THEN mergeConfig(acc.cfg, sub.cfg) ELSE acc.cfg, visited |-> sub.visited]
              all == FoldLeft(import, [cfg |-> Empty, visited |-> visited \union {f}], disk[f].imports)
          IN  IF n = 0 \/ f \in visited THEN error(visited)
              ELSE IF ~disk[f].parses THEN error(visited \union {f})
              ELSE [ok |-> TRUE, visited |-> all.visited,
                    cfg |-> IF disk[f].imports = <<>> THEN Own(disk, f) ELSE mergeConfig(all.cfg, Own(disk, f))]
    IN  load

LoadConfig(disk) == loadRecursive(disk)[MaxImportDepth + 1, Main, {}]

\* The files to watch: those collectIncludePaths meets, loaded or not.
collectIncludePaths(disk) ==
    LET collect[n \in 0..MaxImportDepth, f \in DOMAIN disk, visited \in SUBSET DOMAIN disk] ==
          LET visit(seen, g) ==
                  IF g \in seen \/ ~disk[g].there THEN seen
                  ELSE IF ~disk[g].parses THEN seen \union {g}
                  ELSE collect[n - 1, g, seen \union {g}]
          IN  IF n = 0 THEN visited ELSE FoldLeft(visit, visited, disk[f].imports)
    IN  collect

ResolveIncludePaths(disk) ==
    IF disk[Main].parses THEN collectIncludePaths(disk)[MaxImportDepth, Main, {Main}] ELSE {Main}

----------------------------------------------------------------------------
(* What the example configuration says of imports, for files that import   *)
(* each other in the shape of a tree: later imports override earlier ones, *)
(* and a file overrides all it imports.  It holds for the layout and the   *)
(* binds, and for the keyboard as a whole: the options the overriding file *)
(* leaves out are not taken from another.  It does not hold for the target *)
(* and the workspace style, which a file with imports loses.               *)

\* The files that are loaded, by their distance from the main file.
Reached(disk) ==
    LET imports(S) == {g \in DOMAIN disk : disk[g].parses /\ \E f \in S : g \in ToSet(disk[f].imports)}
        level[n \in 0..MaxImportDepth] == IF n = 0 THEN {Main} ELSE imports(level[n - 1])
    IN  UNION {level[n] : n \in 0..MaxImportDepth}

Tree(disk) ==
    LET places == {<<f, i>> : f \in Reached(disk), i \in 1..2}
        at(p)  == disk[p[1]].imports[p[2]]
        real   == {p \in places : p[2] <= Len(disk[p[1]].imports)}
    IN  \A p, q \in real : at(p) # Main /\ (at(p) = at(q) => p = q)

Overrides(disk, f, g) ==
    LET R == Reached(disk)
        imports == [p \in R \X R |-> p[2] \in ToSet(disk[p[1]].imports)]
        below(x) == {y \in R : x \in R /\ ReflexiveTransitiveClosure(imports, R)[<<x, y>>]}
    IN  \/ f # g /\ g \in below(f)
        \/ \E h \in R : \E i, j \in DOMAIN disk[h].imports :
             i < j /\ g \in below(disk[h].imports[i]) /\ f \in below(disk[h].imports[j])

Layered(disk) ==
    LET cfg == LoadConfig(disk).cfg
        setting(s) == {f \in Reached(disk) : s \in disk[f].sets}
        keyboards == UNION {setting(s) : s \in Keyboard}
        from(s) == [i \in DOMAIN cfg[s] |-> cfg[s][i].file]
    IN  /\ ToSet(from("binds")) = setting("binds") /\ Len(from("binds")) = Cardinality(setting("binds"))
        /\ \A i, j \in DOMAIN from("binds") : i < j => Overrides(disk, from("binds")[j], from("binds")[i])
        /\ \A f \in setting("layout") :
             \E w \in ToSet(from("layout")) : f = w \/ Overrides(disk, w, f)
        /\ \A f \in keyboards :
             \E w \in keyboards : /\ f = w \/ Overrides(disk, w, f)
                                 /\ \A s \in Keyboard : cfg[s] = Own(disk, w)[s]
=============================================================================
