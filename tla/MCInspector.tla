---------------------------- MODULE MCInspector ----------------------------
(***************************************************************************)
(* A scene of three entities and what is edited in it, a hierarchy that is *)
(* browsed, the windows and the camera.  MCAlgorithms runs this with the   *)
(* other computations.                                                     *)
(***************************************************************************)
EXTENDS Inspector

VARIABLE task
-----------------------------------------------------------------------------
At(matrix) == [NewTransform EXCEPT !.shown = matrix, !.dirty = TRUE]

\* A part below its base, both drawn with one model, and a lamp.
Scene ==
    [entities    |-> {"base", "part", "lamp"},
     hierarchy   |-> [base |-> [parent |-> Nobody, children |-> <<"part">>], part |-> [parent |-> "base", children |-> <<>>]],
     transform   |-> [base |-> At([move |-> 2, turn |-> 1700, scale |-> 2]), part |-> At([move |-> 1, turn |-> 300, scale |-> 3]),
                      lamp |-> At([move |-> 4, turn |-> 900, scale |-> 1])],
     model       |-> [base |-> 1, part |-> 1],
     light       |-> [lamp |-> [NewLight EXCEPT !.type = Spot]],
     environment |-> [lamp |-> NewEnvironment],
     models      |-> <<[type |-> "Cube", meshes |-> <<[shape |-> "Cube", material |-> 1]>>]>>,
     materials   |-> (NoMaterial :> NewMaterial) @@ (1 :> [NewMaterial EXCEPT !.textures["albedo"] = "brick"]),
     selected    |-> Nobody, browser |-> [open |-> FALSE, material |-> NoMaterial, slot |-> "normal"], drawn |-> {}]

Edit(does, field, value) == [does |-> does, field |-> field, value |-> value, matrix |-> Unit]
Nothing == Edit("nothing", "", 0)
Select(e) == Edit("select", e, 0)

InPanel ==
    {Edit("transform", "move", 7), Edit("transform", "turn", 300), Edit("transform", "turn", 1200), Edit("transform", "scale", 5),
     Edit("light", "type", Point), Edit("light", "type", Directional), Edit("light", "intensity", 3),
     Edit("light", "position", 9), Edit("light", "angle", 2), Edit("environment", "width", 64), Edit("reload", "", 0),
     Edit("shape", "Sphere", 0), Edit("shape", "File", 0), Edit("material", "", 0), Edit("open", "albedo", 0),
     Edit("open", "normal", 0), Edit("factor", "albedo", 0), Edit("factor", "ao", 1), Edit("value", "roughness", 4),
     Edit("value", "normal", 4), Edit("workflow", "", 2), Edit("flag", "TWOSIDED", 1), Edit("flag", "DEPTHTEST", 0),
     Edit("add", "model", 0), Edit("add", "transform", 0), Edit("remove", "transform", 0), Edit("remove", "light", 0)}

Elsewhere ==
    {Edit("cube", "box", 0), Edit("lamp", "spot", 0), Edit("delete", "lamp", 0), Edit("delete", "box", 0), Edit("pick", "moss", 0)}

\* Where an entity is: below its parent, if that is somewhere.
World(s) ==
    LET world[e \in DOMAIN s.transform] ==
            IF Above(s, e) \in DOMAIN s.transform THEN Times(world[Above(s, e)], s.transform[e].shown)
            ELSE s.transform[e].shown
    IN  world

\* One more edit: something of an entity that is selected first, something of
\* what is selected already, or something in another panel; the gizmo moves an
\* entity to where a parent and a local matrix put it.
Gizmo(s) ==
    IF s.selected \notin DOMAIN s.transform THEN {}
    ELSE LET over == IF Above(s, s.selected) \in DOMAIN s.transform THEN World(s)[Above(s, s.selected)] ELSE Unit
         IN  {[Edit("gizmo", part, 0) EXCEPT !.matrix = Times(over, [move |-> 3, turn |-> 1100, scale |-> 2])] :
                part \in {"move", "scale"}}

Steps(s) ==
    {<<Select(e), edit>> : e \in s.entities, edit \in InPanel} \cup {<<edit>> : edit \in Elsewhere \cup Gizmo(s)}

Done(s, edits) == FoldLeft(Frame, s, edits)

Ready == Done(Scene, <<Nothing, Select("part"), Nothing>>)

\* The same with a cube from the menu, while the file browser is open.
Asked == Done(Ready, <<Edit("open", "normal", 0), Edit("cube", "box", 0), Select("box")>>)

TakeEdits ==
    \E start \in {Ready, Asked} :
      \E first \in Steps(start) :
        \E second \in {<<Nothing>>} \cup Steps(Done(start, first)) :
          task' = [kind |-> "edit", before |-> Done(start, first \o Front(second)), edit |-> Last(second)]
\* A hierarchy panel of two roots, the first with two children of which one
\* has a child.
Panel ==
    [hierarchy |-> [house |-> [parent |-> Nobody, children |-> <<"roof", "room">>], roof |-> [parent |-> "house", children |-> <<>>],
                    room |-> [parent |-> "house", children |-> <<"chair">>], chair |-> [parent |-> "room", children |-> <<>>]],
     order |-> <<"house", "roof", "room", "chair", "tree">>, previous |-> Nobody, up |-> FALSE, down |-> FALSE]

PanelNodes == ToSet(Panel.order)

Input(keys, mouse, row, text) == [keys |-> keys, mouse |-> mouse, row |-> row, text |-> text]
PanelInputs ==
    {Input(keys, "none", Nobody, "") : keys \in SUBSET {"up", "down"}} \cup {Input({}, "none", Nobody, "b")}
    \cup {Input({}, mouse, row, "") : mouse \in {"click", "double", "rename"}, row \in PanelNodes}

TakeRows ==
    \E open \in SUBSET {"house", "room"}, shut \in {"house", "room", "chair", "tree", Nobody},
       selected \in {"house", "room", "tree", Nobody}, dropped \in {"room", Nobody}, first, second \in PanelInputs :
        LET p == Panel @@ [open |-> open, names |-> [e \in PanelNodes |-> IF e = shut THEN "b" ELSE "a"], filter |-> {"a"},
                           selected |-> selected, renamed |-> Nobody, dropped |-> Nobody]
        IN  task' = [kind |-> "rows", panel |-> [DrawRows(p, first) EXCEPT !.dropped = dropped], input |-> second]

TakeWindows ==
    \E toggles \in [1 .. 3 -> BOOLEAN], closes \in [1 .. 3 -> ToSet(Panels) \cup {Nobody}] :
        task' = [kind |-> "windows", inputs |-> [k \in 1 .. 3 |-> [toggles |-> toggles[k], closes |-> closes[k]]]]

\* What is held, how far the cursor and the wheel are, and how wide the scene view is.
Motion(held, pressed, cursor, scroll, over, width) ==
    [held |-> held, pressed |-> pressed, cursor |-> cursor, scroll |-> scroll, over |-> over, width |-> width, click |-> cursor]

Motions ==
    {Motion({}, FALSE, 4, 0, TRUE, 8), Motion({}, FALSE, 9, 0, FALSE, 8), Motion({}, FALSE, 2, 3, TRUE, 12),
     Motion({"right"}, TRUE, 3, 0, TRUE, 8), Motion({"right"}, FALSE, 5, 0, TRUE, 8), Motion({"right"}, FALSE, 8, -1, TRUE, 12),
     Motion({"right", "W", "D"}, FALSE, 8, 0, TRUE, 8), Motion({"right", "W", "S", "LeftShift"}, FALSE, 6, 0, TRUE, 8),
     Motion({"right", "E", "LeftAlt"}, FALSE, 7, 0, FALSE, 10), Motion({"A"}, FALSE, 1, 0, TRUE, 8)}

NewController(orthographic) ==
    [camera |-> NewCamera(8, orthographic), position |-> [a \in Axes |-> 0], turn |-> 0, velocity |-> [a \in Axes |-> 0], zoom |-> 0,
     spin |-> 0, cursor |-> 0, viewActive |-> TRUE, seen |-> {}]

Moved(k, motions) == FoldLeft(CameraFrame, k, motions)

TakeMotion ==
    \E motions \in [1 .. 3 -> Motions], orthographic \in BOOLEAN :
        task' = [kind |-> "motion", motions |-> motions, orthographic |-> orthographic]
-----------------------------------------------------------------------------
\* What the panels show of everything in the scene; how much of a map is used
\* is of no interest where there is none.
Picture(m) ==
    [flags |-> m.flags, textures |-> m.textures,
     properties |-> [m.properties EXCEPT !.factor = Restrict(@, {slot \in Slots : m.textures[slot] # NoTexture})]]

Objects(s) ==
    [o \in UNION {{<<pool>> \o <<e>> : e \in DOMAIN s[pool]} : pool \in Registered \cup {"models", "materials"}} |->
        CASE o[1] = "transform" -> s.transform[o[2]].shown
          [] o[1] = "light"     -> Restrict(s.light[o[2]], {"type", "radius", "colour", "intensity", "angle"})
          [] o[1] = "materials" -> Picture(s.materials[o[2]])
          [] OTHER              -> s[o[1]][o[2]]]

\* The objects an edit is about.
About(s, edit) ==
    LET e == s.selected
        id == IF e \in DOMAIN s.model THEN s.model[e] ELSE NoModel
        material == IF HasMesh(s, e, 1) THEN MeshAt(s, e, 1).material ELSE NoMaterial
    IN  CASE edit.does \in {"transform", "gizmo"} -> {<<"transform", e>>}
          [] edit.does = "light" -> {<<"light", e>>}
          [] edit.does \in {"environment", "reload"} -> {<<"environment", e>>}
          [] edit.does = "shape" -> IF id = NoModel THEN {<<"model", e>>, <<"models", Len(s.models) + 1>>} ELSE {<<"models", id>>}
          [] edit.does = "material" -> {<<"models", id>>, <<"materials", NextMaterial(s)>>}
          [] edit.does \in {"factor", "value", "workflow", "flag"} -> {<<"materials", material>>}
          [] edit.does = "pick" -> IF s.browser.open THEN {<<"materials", s.browser.material>>} ELSE {}
          [] edit.does = "remove" -> {<<edit.field, e>>}
          [] edit.does = "add" -> {<<edit.field, e>>} \cup
                (IF edit.field \in Dependents /\ e \notin DOMAIN s.transform THEN {<<"transform", e>>} ELSE {})
          [] edit.does = "cube" -> {<<"model", edit.field>>, <<"light", edit.field>>, <<"transform", edit.field>>,
                                    <<"models", Len(s.models) + 1>>}
          [] edit.does = "lamp" -> {<<"light", edit.field>>, <<"transform", edit.field>>}
          [] edit.does = "delete" -> {<<pool, edit.field>> : pool \in Registered}
          [] OTHER -> {}

Lasting(old, new, about) ==
    \A o \in DOMAIN old \cup DOMAIN new :
        o \notin about => o \in DOMAIN old /\ o \in DOMAIN new /\ old[o] = new[o]

\* A value that was entered is what is there, save for a light's position and
\* direction, which are its transform's, and what the panel has no place for.
Entered(s, edit, after) ==
    CASE edit.does = "transform" /\ s.selected \in DOMAIN s.transform ->
            after.transform[s.selected].shown[edit.field] = IF edit.field = "turn" THEN Pitch(edit.value) ELSE edit.value
      [] edit.does = "gizmo" /\ edit.field = "move" -> after.transform[s.selected].world = edit.matrix
      [] edit.does = "gizmo" /\ edit.field = "scale" ->
            after.transform[s.selected].world = [World(s)[s.selected] EXCEPT !.scale = edit.matrix.scale]
      [] edit.does = "shape" /\ s.selected \in DOMAIN s.model /\ edit.field # "File" ->
            \A k \in DOMAIN MeshesOf(after, s.selected) : MeshesOf(after, s.selected)[k].shape = edit.field
      [] edit.does = "pick" /\ s.browser.open ->
            after.materials[s.browser.material].textures[s.browser.slot] = edit.field
      [] OTHER -> TRUE

\* What is drawn of a mesh with a material, of which nothing is out of date.
Showing(s, e, mesh) ==
    LET m == MaterialOf(s, mesh)
        textures == [slot \in Slots |-> IF m.textures[slot] = NoTexture THEN DefaultTexture ELSE m.textures[slot]]
    IN  [entity |-> e, shape |-> mesh.shape, world |-> World(s)[e],
         set |-> [made |-> TRUE, textures |-> textures, properties |-> m.properties],
         culled |-> "TWOSIDED" \notin m.flags, depth |-> "DEPTHTEST" \in m.flags]

ShownAsEdited(after) ==
    /\ \A e \in DOMAIN after.transform : ~after.transform[e].dirty /\ after.transform[e].world = World(after)[e]
    /\ \A e \in DOMAIN after.transform \cap DOMAIN after.light :
         after.light[e].position = World(after)[e].move /\ after.light[e].direction = World(after)[e].turn
    /\ after.drawn = UNION {{Showing(after, e, MeshesOf(after, e)[k]) : k \in DOMAIN MeshesOf(after, e)} : e \in Drawable(after)}

\* A frame after an edit the scene is drawn as the panels show it: what was
\* entered is there, nothing else changed but what entities share, every
\* entity is where its parents put it and every material is drawn with its
\* textures and its properties (the panels, the gizmo, SceneGraph::Update,
\* Material::Bind and BeginScene).
EditsKept ==
    task.kind = "edit" =>
        LET after == Done(task.before, <<task.edit, Nothing>>)
        IN  /\ Lasting(Objects(task.before), Objects(after), About(task.before, task.edit))
            /\ Entered(task.before, task.edit, after)
            /\ ShownAsEdited(after)
\* The keys go from row to row: up to the one drawn before the selected, down
\* to the one drawn after it, both nowhere, and back again where they can; a
\* click selects a row that is drawn, and a node has its name edited from the
\* second click on it until one elsewhere; what was dropped can be seen
\* (HierarchyPanel::DrawNode).
NodesSelected ==
    task.kind = "rows" =>
        LET p == task.panel
            u == task.input
            rows == Rows(p)
            next == DrawRows(p, u)
            at == IF p.selected \in ToSet(rows) THEN CHOOSE k \in DOMAIN rows : rows[k] = p.selected ELSE 0
            step == (IF "down" \in u.keys THEN 1 ELSE 0) - (IF "up" \in u.keys THEN 1 ELSE 0)
            back == DrawRows(next, [u EXCEPT !.keys = {"up", "down"} \ @])
        IN  /\ IsInjective(rows)
            /\ u.mouse = "none" /\ Cardinality(u.keys) < 2 =>
                 next.selected = IF at # 0 /\ at + step \in DOMAIN rows THEN rows[at + step] ELSE p.selected
            /\ Cardinality(u.keys) = 2 /\ at > 1 => next.selected = p.selected
            /\ Cardinality(u.keys) = 1 /\ next.selected # p.selected => back.selected = p.selected
            /\ u.row \in ToSet(rows) =>
                 /\ u.mouse = "click" => next.selected = u.row
                 /\ u.mouse = "double" => next.selected = u.row /\ next.renamed = u.row
                 /\ u.mouse = "click" /\ p.renamed \in ToSet(rows) \ {u.row} => next.renamed = Nobody
                 /\ u.mouse = "rename" => next.selected # u.row
            /\ \A e \in PanelNodes : next.names[e] # p.names[e] => e = p.renamed
            /\ p.dropped \in ToSet(rows) =>
                 {c \in ToSet(Children(p, p.dropped)) : p.names[c] \in p.filter} \subseteq ToSet(rows) /\ p.dropped \in next.open

\* A panel is shown unless the user closed it or full screen hides it, which
\* remembers what it hid; and every window is docked where nothing is split
\* further, beside no other part of the window (Editor::BeginDockSpace).
WindowsKept ==
    task.kind = "windows" =>
        LET start == [active |-> [panel \in ToSet(Panels) |-> TRUE], hidden |-> <<>>, full |-> FALSE, fullScreenOnPlay |-> FALSE]
            states == [k \in 0 .. 3 |-> FoldLeft(WindowsFrame, start, SubSeq(task.inputs, 1, k))]
            shown(k) == {panel \in ToSet(Panels) : states[k].active[panel]}
            leaves == DockLayout.nodes \ DockLayout.parents
        IN  /\ \A k \in 1 .. 3 :
                 /\ IsInjective(states[k].hidden) /\ shown(k) \cap ToSet(states[k].hidden) = {}
                 /\ ToSet(Panels) \subseteq shown(k) \cup ToSet(states[k].hidden) \cup {task.inputs[j].closes : j \in 1 .. k}
                 /\ ~states[k].full => states[k].hidden = <<>>
            /\ {DockLayout.named[DockWindows[w]] : w \in DOMAIN DockWindows} \subseteq leaves
            /\ {DockLayout.named[n] : n \in DOMAIN DockLayout.named} = leaves
            /\ Cardinality(DOMAIN DockLayout.named) = Cardinality(leaves)

\* Everything is seen through the lens the camera has and from where it is,
\* clicks too; while the button is held the camera turns as far as the cursor
\* goes, however the frames cut its way; and a frame in which the cursor was
\* not over the scene view leaves the camera at rest (Camera, EditorCameraController).
CameraSound ==
    task.kind = "motion" =>
        LET start == NewController(task.orthographic)
            states == [j \in 0 .. 3 |-> Moved(start, SubSeq(task.motions, 1, j))]
            u(j) == task.motions[j]
            idle == Motion({}, FALSE, u(3).cursor, 0, TRUE, 8)
            rest == Moved(states[3], [j \in 1 .. 20 |-> idle])
        IN  /\ \A j \in 1 .. 3 :
                 states[j].seen = {<<Projection(states[j].camera.lens), Place3D(states[j])>>}
            /\ \A j \in 1 .. 3 :
                 u(1).pressed /\ (\A i \in 2 .. j : "right" \in u(i).held /\ ~u(i).pressed /\ u(i - 1).over) =>
                     states[j].turn = u(1).cursor - u(j).cursor
            /\ \A j \in 1 .. 2 : ~u(j).over => Place3D(states[j + 1]) = Place3D(states[j])
            /\ ~u(1).over /\ u(3).held = {} /\ u(3).scroll = 0 => Place3D(states[3]) = Place3D(states[2])
            /\ Place3D(CameraFrame(rest, idle)) = Place3D(rest)

\* The panels beside the inspector do what they are asked to.
PanelsSound == NodesSelected /\ WindowsKept /\ CameraSound
=============================================================================
