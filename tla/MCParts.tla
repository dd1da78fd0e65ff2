------------------------------ MODULE MCParts ------------------------------
(* Instances of the five parts. *)
EXTENDS Parts

McAdvertised == <<"Compositor", "Seat", "IdleNotifier">>
McCreated    == {"Region", "IdleNotification"}

\* What a request names: a window or none, a state or boolean, a layout.
Req(op, w, on, goal) == [op |-> op, w |-> w, on |-> on, goal |-> goal]
StateOps == {"SetFullscreen", "SetMaximized", "SetFakeFullscreen", "PinWindow"}
McAll ==
    {Req(op, w, FALSE, 0) : w \in {"none", "w1"}, op \in
       {"FocusWindow", "CloseWindow", "MoveWindow", "ResizeWindow", "MoveToMonitor", "ToggleFloating",
        "ToggleGroup"}}
    \union {Req(op, w, on, 0) : op \in StateOps, w \in {"none", "w1"}, on \in BOOLEAN}
    \union {Req(op, "none", FALSE, 0) : op \in
       {"SetLayoutProperty", "GroupNav", "FocusDir", "ToggleOverview", "Execute", "SetKeyboardLayouts",
        "SetConfig", "SetOtherOption", "BindKey", "UnbindKey"}}
    \union {Req(op, "none", on, 0) : op \in {"NextLayout", "PrevLayout", "BatchConfig", "BatchKeybinds"}, on \in BOOLEAN}
    \union {Req("SetLayout", "none", FALSE, 2)}
McOther ==
    {Req(op, "w1", TRUE, 0) : op \in {"SetFullscreen", "FocusWindow", "CloseWindow"}}
    \union {Req(op, "none", TRUE, 0) : op \in {"FocusDir", "NextLayout", "SetMaximized"}}
McRequests == [c \in Clients |-> IF c = CHOOSE d \in Clients : TRUE THEN McAll ELSE McOther]

McKeysOf == [kbd |-> {"super", "a"}, mouse |-> {"b"}]

\* Imports in the shape of a tree, of a diamond and of a cycle.
Contents(imports, sections) == [imports |-> imports, sets |-> sections]
McWrites ==
    [main |-> {Contents(<<>>, {"layout", "target", "style"}), Contents(<<"a", "b">>, {"binds"})},
     a    |-> {Contents(<<"b", "main">>, {"layout", "binds", "kb_variants"}), Contents(<<>>, {"layout", "kb_layouts"})},
     b    |-> {Contents(<<>>, {"layout", "binds", "kb_variants"})}]

McDisplays == <<"panel", "ddc-3">>

\* What the proof about the watcher takes from loadRecursive, for the disks
\* these files can make.
ASSUME ImportsAssumption == F!LoadsWhatItWatches
=============================================================================
