-------------------------- MODULE WaylandProtocol --------------------------
(***************************************************************************)
(* The wire protocol of the Wayland bindings (pkg/ipc/wayland and the      *)
(* dwl-ipc binding of pkg/ipc/mango): for every interface the requests its *)
(* proxy writes and the events its Dispatch method reads, with their       *)
(* opcodes and the arguments in the order they are put in the buffer.      *)
(* Signed and unsigned integers are both one word.                         *)
(***************************************************************************)
EXTENDS Integers, Sequences, SequencesExt

Kind(k, i) == [kind |-> k, iface |-> i]
Uint       == Kind("uint", "")
Fixed      == Kind("fixed", "")
Str        == Kind("string", "")
Arr        == Kind("array", "")
Fd         == Kind("fd", "")
Obj(i)     == Kind("object", i)  \* a proxy of interface i
MayObj(i)  == Kind("null", i)    \* a proxy of interface i or 0
NewId(i)   == Kind("new", i)     \* the id of a new proxy

Req(op, name, args) == [op |-> op, name |-> name, args |-> args, ends |-> FALSE]
Ends(op, name)      == [op |-> op, name |-> name, args |-> << >>, ends |-> TRUE]
Ev(op, name, args)  == [op |-> op, name |-> name, args |-> args]

(***************************************************************************)
(* Lengths.  A string is preceded by its length and ends with a zero byte, *)
(* both it and an array are padded to a whole word.                        *)
(***************************************************************************)
PaddedLen(l) == IF l % 4 # 0 THEN l + (4 - (l % 4)) ELSE l

ArgLen(a, n) == \* bytes of an argument, n the length of its text or data
    CASE a.kind = "string" -> 4 + PaddedLen(n + 1)
      [] a.kind = "array"  -> 4 + PaddedLen(n)
      [] a.kind = "fd"     -> 0
      [] OTHER             -> 4

MsgLen(args, n) == FoldLeft(LAMBDA l, a : l + ArgLen(a, n), 8, args)

(***************************************************************************)
(* The interfaces.                                                         *)
(***************************************************************************)
DisplayRequests == {
    Req(0, "Sync", <<NewId("Callback")>>),
    Req(1, "GetRegistry", <<NewId("Registry")>>)}

DisplayEvents == {
    Ev(0, "Error", <<Obj("any"), Uint, Str>>),
    Ev(1, "DeleteId", <<Uint>>)}

RegistryRequests == {
    Req(0, "Bind", <<Uint, Str, Uint, NewId("any")>>)}

RegistryEvents == {
    Ev(0, "Global", <<Uint, Str, Uint>>),
    Ev(1, "GlobalRemove", <<Uint>>)}

CallbackEvents == {
    Ev(0, "Done", <<Uint>>)}

CompositorRequests == {
    Req(0, "CreateSurface", <<NewId("Surface")>>),
    Req(1, "CreateRegion", <<NewId("Region")>>)}

ShmPoolRequests == {
    Req(0, "CreateBuffer", <<NewId("Buffer"), Uint, Uint, Uint, Uint, Uint>>),
    Ends(1, "Destroy"),
    Req(2, "Resize", <<Uint>>)}

ShmRequests == {
    Req(0, "CreatePool", <<NewId("ShmPool"), Uint, Fd>>),
    Ends(1, "Release")}

ShmEvents == {
    Ev(0, "Format", <<Uint>>)}

BufferRequests == {
    Ends(0, "Destroy")}

BufferEvents == {
    Ev(0, "Release", << >>)}

DataOfferRequests == {
    Req(0, "Accept", <<Uint, Str>>),
    Req(1, "Receive", <<Str, Fd>>),
    Ends(2, "Destroy"),
    Req(3, "Finish", << >>)}

DataOfferActions == {
    Req(4, "SetActions", <<Uint, Uint>>)}

DataOfferEvents == {
    Ev(0, "Offer", <<Str>>),
    Ev(1, "SourceActions", <<Uint>>),
    Ev(2, "Action", <<Uint>>)}

DataSourceRequests == {
    Req(0, "Offer", <<Str>>),
    Ends(1, "Destroy"),
    Req(2, "SetActions", <<Uint>>)}

DataSourceEvents == {
    Ev(0, "Target", <<Str>>),
    Ev(1, "Send", <<Str, Fd>>),
    Ev(2, "Cancelled", << >>),
    Ev(3, "DndDropPerformed", << >>),
    Ev(4, "DndFinished", << >>),
    Ev(5, "Action", <<Uint>>)}

DataDeviceRequests == {
    Req(0, "StartDrag", <<MayObj("DataSource"), Obj("Surface"), MayObj("Surface"), Uint>>),
    Req(1, "SetSelection", <<MayObj("DataSource"), Uint>>),
    Ends(2, "Release")}

DataDeviceEvents == {
    Ev(0, "DataOffer", <<Obj("DataOffer")>>),
    Ev(1, "Enter", <<Uint, Obj("Surface"), Fixed, Fixed, Obj("DataOffer")>>),
    Ev(2, "Leave", << >>),
    Ev(3, "Motion", <<Uint, Fixed, Fixed>>),
    Ev(4, "Drop", << >>),
    Ev(5, "Selection", <<Obj("DataOffer")>>)}

DataDeviceManagerRequests == {
    Req(0, "CreateDataSource", <<NewId("DataSource")>>),
    Req(1, "GetDataDevice", <<NewId("DataDevice"), Obj("Seat")>>)}

ShellRequests == {
    Req(0, "GetShellSurface", <<NewId("ShellSurface"), Obj("Surface")>>)}

ShellSurfaceMoves == {
    Req(0, "Pong", <<Uint>>),
    Req(1, "Move", <<Obj("Seat"), Uint>>),
    Req(2, "Resize", <<Obj("Seat"), Uint, Uint>>),
    Req(3, "SetToplevel", << >>),
    Req(4, "SetTransient", <<Obj("Surface"), Uint, Uint, Uint>>)}

ShellSurfaceModes == {
    Req(5, "SetFullscreen", <<Uint, Uint, MayObj("Output")>>),
    Req(6, "SetPopup", <<Obj("Seat"), Uint, Obj("Surface"), Uint, Uint, Uint>>)}

ShellSurfaceNames == {
    Req(7, "SetMaximized", <<MayObj("Output")>>),
    Req(8, "SetTitle", <<Str>>),
    Req(9, "SetClass", <<Str>>)}

ShellSurfaceEvents == {
    Ev(0, "Ping", <<Uint>>),
    Ev(1, "Configure", <<Uint, Uint, Uint>>),
    Ev(2, "PopupDone", << >>)}

SurfaceBuffer == {
    Ends(0, "Destroy"),
    Req(1, "Attach", <<MayObj("Buffer"), Uint, Uint>>)}

SurfaceDamage == {
    Req(2, "Damage", <<Uint, Uint, Uint, Uint>>),
    Req(3, "Frame", <<NewId("Callback")>>),
    Req(4, "SetOpaqueRegion", <<MayObj("Region")>>)}

SurfaceCommit == {
    Req(5, "SetInputRegion", <<MayObj("Region")>>),
    Req(6, "Commit", << >>),
    Req(7, "SetBufferTransform", <<Uint>>)}

SurfaceScale == {
    Req(8, "SetBufferScale", <<Uint>>),
    Req(9, "DamageBuffer", <<Uint, Uint, Uint, Uint>>),
    Req(10, "Offset", <<Uint, Uint>>)}

SurfaceEvents == {
    Ev(0, "Enter", <<Obj("Output")>>),
    Ev(1, "Leave", <<Obj("Output")>>),
    Ev(2, "PreferredBufferScale", <<Uint>>),
    Ev(3, "PreferredBufferTransform", <<Uint>>)}

SeatRequests == {
    Req(0, "GetPointer", <<NewId("Pointer")>>),
    Req(1, "GetKeyboard", <<NewId("Keyboard")>>),
    Req(2, "GetTouch", <<NewId("Touch")>>),
    Ends(3, "Release")}

SeatEvents == {
    Ev(0, "Capabilities", <<Uint>>),
    Ev(1, "Name", <<Str>>)}

PointerRequests == {
    Req(0, "SetCursor", <<Uint, MayObj("Surface"), Uint, Uint>>),
    Ends(1, "Release")}

PointerEvents == {
    Ev(0, "Enter", <<Uint, Obj("Surface"), Fixed, Fixed>>),
    Ev(1, "Leave", <<Uint, Obj("Surface")>>),
    Ev(2, "Motion", <<Uint, Fixed, Fixed>>),
    Ev(3, "Button", <<Uint, Uint, Uint, Uint>>),
    Ev(4, "Axis", <<Uint, Uint, Fixed>>),
    Ev(5, "Frame", << >>),
    Ev(6, "AxisSource", <<Uint>>),
    Ev(7, "AxisStop", <<Uint, Uint>>),
    Ev(8, "AxisDiscrete", <<Uint, Uint>>),
    Ev(9, "AxisValue120", <<Uint, Uint>>),
    Ev(10, "AxisRelativeDirection", <<Uint, Uint>>)}

KeyboardRequests == {
    Ends(0, "Release")}

KeyboardEvents == {
    Ev(0, "Keymap", <<Uint, Fd, Uint>>),
    Ev(1, "Enter", <<Uint, Obj("Surface"), Arr>>),
    Ev(2, "Leave", <<Uint, Obj("Surface")>>),
    Ev(3, "Key", <<Uint, Uint, Uint, Uint>>),
    Ev(4, "Modifiers", <<Uint, Uint, Uint, Uint, Uint>>),
    Ev(5, "RepeatInfo", <<Uint, Uint>>)}

TouchRequests == {
    Ends(0, "Release")}

TouchEvents == {
    Ev(0, "Down", <<Uint, Uint, Obj("Surface"), Uint, Fixed, Fixed>>),
    Ev(1, "Up", <<Uint, Uint, Uint>>),
    Ev(2, "Motion", <<Uint, Uint, Fixed, Fixed>>),
    Ev(3, "Frame", << >>),
    Ev(4, "Cancel", << >>),
    Ev(5, "Shape", <<Uint, Fixed, Fixed>>),
    Ev(6, "Orientation", <<Uint, Fixed>>)}

OutputRequests == {
    Ends(0, "Release")}

OutputEvents == {
    Ev(0, "Geometry", <<Uint, Uint, Uint, Uint, Uint, Str, Str, Uint>>),
    Ev(1, "Mode", <<Uint, Uint, Uint, Uint>>),
    Ev(2, "Done", << >>),
    Ev(3, "Scale", <<Uint>>),
    Ev(4, "Name", <<Str>>),
    Ev(5, "Description", <<Str>>)}

RegionRequests == {
    Ends(0, "Destroy"),
    Req(1, "Add", <<Uint, Uint, Uint, Uint>>),
    Req(2, "Subtract", <<Uint, Uint, Uint, Uint>>)}

SubcompositorRequests == {
    Ends(0, "Destroy"),
    Req(1, "GetSubsurface", <<NewId("Subsurface"), Obj("Surface"), Obj("Surface")>>)}

SubsurfacePlace == {
    Ends(0, "Destroy"),
    Req(1, "SetPosition", <<Uint, Uint>>),
    Req(2, "PlaceAbove", <<Obj("Surface")>>),
    Req(3, "PlaceBelow", <<Obj("Surface")>>),
    Req(4, "SetSync", << >>)}

SubsurfaceMode == {
    Req(5, "SetDesync", << >>)}

FixesRequests == {
    Ends(0, "Destroy"),
    Req(1, "DestroyRegistry", <<Obj("Registry")>>)}

DwlManagerRequests == {
    Ends(0, "Release"),
    Req(1, "GetOutput", <<NewId("DwlOutput"), Obj("Output")>>)}

DwlManagerEvents == {
    Ev(0, "Tags", <<Uint>>),
    Ev(1, "Layout", <<Str>>)}

DwlOutputRequests == {
    Ends(0, "Release"),
    Req(1, "SetTags", <<Uint, Uint>>),
    Req(2, "SetClientTags", <<Uint, Uint>>),
    Req(3, "SetLayout", <<Uint>>),
    Req(4, "Quit", << >>),
    Req(5, "DispatchCmd", <<Str, Str, Str, Str, Str, Str>>)}

DwlOutputEvents == {
    Ev(0, "ToggleVisibility", << >>),
    Ev(1, "Active", <<Uint>>),
    Ev(2, "Tag", <<Uint, Uint, Uint, Uint>>),
    Ev(3, "Layout", <<Uint>>),
    Ev(4, "Title", <<Str>>),
    Ev(5, "Appid", <<Str>>),
    Ev(6, "LayoutSymbol", <<Str>>),
    Ev(7, "Frame", << >>),
    Ev(8, "Fullscreen", <<Uint>>),
    Ev(9, "Floating", <<Uint>>),
    Ev(10, "X", <<Uint>>),
    Ev(11, "Y", <<Uint>>),
    Ev(12, "Width", <<Uint>>),
    Ev(13, "Height", <<Uint>>),
    Ev(14, "LastLayer", <<Str>>),
    Ev(15, "KbLayout", <<Str>>),
    Ev(16, "Keymode", <<Str>>),
    Ev(17, "Scalefactor", <<Uint>>)}

LayerShellRequests == {
    Req(0, "GetLayerSurface", <<NewId("LayerSurface"), Obj("Surface"), MayObj("Output"), Uint, Str>>),
    Ends(1, "Destroy")}

LayerSurfacePlace == {
    Req(0, "SetSize", <<Uint, Uint>>),
    Req(1, "SetAnchor", <<Uint>>),
    Req(2, "SetExclusiveZone", <<Uint>>),
    Req(3, "SetMargin", <<Uint, Uint, Uint, Uint>>)}

LayerSurfaceStates == {
    Req(4, "SetKeyboardInteractivity", <<Uint>>),
    Req(6, "AckConfigure", <<Uint>>),
    Ends(7, "Destroy"),
    Req(8, "SetLayer", <<Uint>>),
    Req(9, "SetExclusiveEdge", <<Uint>>)}

LayerSurfaceEvents == {
    Ev(0, "Configure", <<Uint, Uint, Uint>>),
    Ev(1, "Closed", << >>)}

ToplevelManagerRequests == {
    Req(0, "Stop", << >>)}

ToplevelManagerEvents == {
    Ev(0, "Toplevel", <<NewId("ToplevelHandle")>>),
    Ev(1, "Finished", << >>)}

ToplevelHandleRequests == {
    Req(0, "SetMaximized", << >>),
    Req(1, "UnsetMaximized", << >>),
    Req(2, "SetMinimized", << >>),
    Req(3, "UnsetMinimized", << >>),
    Req(4, "Activate", <<Obj("Seat")>>),
    Req(5, "Close", << >>),
    Ends(7, "Destroy"),
    Req(8, "SetFullscreen", <<MayObj("Output")>>),
    Req(9, "UnsetFullscreen", << >>)}

ToplevelHandleEvents == {
    Ev(0, "Title", <<Str>>),
    Ev(1, "AppId", <<Str>>),
    Ev(2, "OutputEnter", <<MayObj("Output")>>),
    Ev(3, "OutputLeave", <<MayObj("Output")>>),
    Ev(4, "State", <<Arr>>),
    Ev(5, "Done", << >>),
    Ev(6, "Closed", << >>),
    Ev(7, "Parent", <<MayObj("ToplevelHandle")>>)}

IdleNotifierRequests == {
    Ends(0, "Destroy"),
    Req(1, "GetIdleNotification", <<NewId("IdleNotification"), Uint, Obj("Seat")>>),
    Req(2, "GetInputIdleNotification", <<NewId("IdleNotification"), Uint, Obj("Seat")>>)}

IdleNotificationRequests == {
    Ends(0, "Destroy")}

IdleNotificationEvents == {
    Ev(0, "Idled", << >>),
    Ev(1, "Resumed", << >>)}

IdleInhibitManagerRequests == {
    Ends(0, "Destroy"),
    Req(1, "CreateInhibitor", <<NewId("IdleInhibitor"), Obj("Surface")>>)}

IdleInhibitorRequests == {
    Ends(0, "Destroy")}

(***************************************************************************)
(* All of them.                                                            *)
(***************************************************************************)
RequestsOf == [
    Display |-> DisplayRequests,
    Registry |-> RegistryRequests,
    Callback |-> {},
    Compositor |-> CompositorRequests,
    ShmPool |-> ShmPoolRequests,
    Shm |-> ShmRequests,
    Buffer |-> BufferRequests,
    DataOffer |-> DataOfferRequests \union DataOfferActions,
    DataSource |-> DataSourceRequests,
    DataDevice |-> DataDeviceRequests,
    DataDeviceManager |-> DataDeviceManagerRequests,
    Shell |-> ShellRequests,
    ShellSurface |-> ShellSurfaceMoves \union ShellSurfaceModes \union ShellSurfaceNames,
    Surface |-> SurfaceBuffer \union SurfaceDamage \union SurfaceCommit \union SurfaceScale,
    Seat |-> SeatRequests,
    Pointer |-> PointerRequests,
    Keyboard |-> KeyboardRequests,
    Touch |-> TouchRequests,
    Output |-> OutputRequests,
    Region |-> RegionRequests,
    Subcompositor |-> SubcompositorRequests,
    Subsurface |-> SubsurfacePlace \union SubsurfaceMode,
    Fixes |-> FixesRequests,
    DwlManager |-> DwlManagerRequests,
    DwlOutput |-> DwlOutputRequests,
    LayerShell |-> LayerShellRequests,
    LayerSurface |-> LayerSurfacePlace \union LayerSurfaceStates,
    ToplevelManager |-> ToplevelManagerRequests,
    ToplevelHandle |-> ToplevelHandleRequests,
    IdleNotifier |-> IdleNotifierRequests,
    IdleNotification |-> IdleNotificationRequests,
    IdleInhibitManager |-> IdleInhibitManagerRequests,
    IdleInhibitor |-> IdleInhibitorRequests]

EventsOf(iface) ==
    CASE iface = "Display" -> DisplayEvents
      [] iface = "Registry" -> RegistryEvents
      [] iface = "Callback" -> CallbackEvents
      [] iface = "Shm" -> ShmEvents
      [] iface = "Buffer" -> BufferEvents
      [] iface = "DataOffer" -> DataOfferEvents
      [] iface = "DataSource" -> DataSourceEvents
      [] iface = "DataDevice" -> DataDeviceEvents
      [] iface = "ShellSurface" -> ShellSurfaceEvents
      [] iface = "Surface" -> SurfaceEvents
      [] iface = "Seat" -> SeatEvents
      [] iface = "Pointer" -> PointerEvents
      [] iface = "Keyboard" -> KeyboardEvents
      [] iface = "Touch" -> TouchEvents
      [] iface = "Output" -> OutputEvents
      [] iface = "DwlManager" -> DwlManagerEvents
      [] iface = "DwlOutput" -> DwlOutputEvents
      [] iface = "LayerSurface" -> LayerSurfaceEvents
      [] iface = "ToplevelManager" -> ToplevelManagerEvents
      [] iface = "ToplevelHandle" -> ToplevelHandleEvents
      [] iface = "IdleNotification" -> IdleNotificationEvents
      [] OTHER -> {}

(* Interfaces without a Dispatch method. *)
Silent == {i \in DOMAIN RequestsOf : EventsOf(i) = {}}

(* Destroy of the extensions' proxies forgets them at once; the others are *)
(* marked and wait for the compositor's delete_id, whether or not their    *)
(* Destroy writes a request.                                               *)
Unregisters == {
    "DwlManager", "DwlOutput", "LayerShell", "LayerSurface",
    "ToplevelHandle", "IdleNotifier", "IdleNotification",
    "IdleInhibitManager", "IdleInhibitor"}

Makes(r) == {a.iface : a \in {x \in Range(r.args) : x.kind = "new"}}
=============================================================================
