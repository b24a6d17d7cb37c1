----------------------------- MODULE Inspector -----------------------------
(***************************************************************************)
(* What the editor does to a scene, frame by frame: the scene graph puts   *)
(* every entity in its place, the panels change components, and the render *)
(* graph reads them.  A matrix moves along one axis, turns about it (tenths*)
(* of a degree) and scales.                                                *)
(*                                                                         *)
(* A scene s has entities, a pool for each class of components (a function *)
(* from the entities that have one), the models and materials components   *)
(* share, the selected entity, what waits for the file browser, and what   *)
(* was drawn last.  Beside it are the rows of the hierarchy, the windows    *)
(* the editor makes and where they dock, and the camera it looks through.  *)
(***************************************************************************)
EXTENDS Integers, FiniteSets, Functions, SequencesExt, TLC

Nobody == "nobody"
NoTexture == "no texture"
DefaultTexture == "white"
NoModel == 0
NoMaterial == 0

-----------------------------------------------------------------------------
(* Matrices and transforms. *)

Unit == [move |-> 0, turn |-> 0, scale |-> 1]

\* An angle between -180 and 180 degrees.
Wrapped(angle) == ((angle + 1799) % 3600) - 1799

Times(a, b) == [move |-> a.move + a.scale * b.move, turn |-> Wrapped(a.turn + b.turn), scale |-> a.scale * b.scale]

\* The matrix that a makes into b; the numbers here divide exactly.
InverseTimes(a, b) ==
    [move |-> (b.move - a.move) \div a.scale, turn |-> Wrapped(b.turn - a.turn), scale |-> b.scale \div a.scale]

\* A transform: what the panels show, the matrices made of it, and whether
\* they are older than it.
NewTransform == [shown |-> Unit, local |-> Unit, parent |-> Unit, world |-> Unit, dirty |-> FALSE]

UpdateMatrices(t) == [t EXCEPT !.local = t.shown, !.world = Times(t.parent, t.shown), !.dirty = FALSE]

\* GetWorldMatrix and GetLocalMatrix do this first; the getters of the
\* position and of the orientation do not.
Current(t) == IF t.dirty THEN UpdateMatrices(t) ELSE t

SetWorldMatrix(t, matrix) == [Current(t) EXCEPT !.parent = matrix, !.world = Times(matrix, Current(t).local)]

SetLocalTransform(t, matrix) ==
    [t EXCEPT !.local = matrix, !.shown = matrix, !.dirty = FALSE, !.world = Times(t.parent, matrix)]

SetShown(t, part, value) == [t EXCEPT !.shown[part] = value, !.dirty = TRUE]

\* The scene graph: first what is not in the hierarchy, then every root and
\* all that is below it.
Above(s, e) == IF e \in DOMAIN s.hierarchy THEN s.hierarchy[e].parent ELSE Nobody

Place(s, e) ==
    IF e \notin DOMAIN s.transform THEN s
    ELSE IF Above(s, e) \in DOMAIN s.transform
         THEN LET over == Current(s.transform[Above(s, e)])
              IN  [s EXCEPT !.transform[Above(s, e)] = over, !.transform[e] = SetWorldMatrix(@, over.world)]
         ELSE [s EXCEPT !.transform[e] = SetWorldMatrix(@, Unit)]

\* An entity and all below it, as UpdateTransform visits them.
Below(s) ==
    LET below[e \in DOMAIN s.hierarchy] ==
            <<e>> \o FlattenSeq([k \in DOMAIN s.hierarchy[e].children |-> below[s.hierarchy[e].children[k]]])
    IN  below

UpdateGraph(s) ==
    FoldLeft(Place, s, SetToSeq(s.entities \ DOMAIN s.hierarchy) \o
                       FlattenSeq(SetToSeq({Below(s)[e] : e \in {r \in DOMAIN s.hierarchy : Above(s, r) = Nobody}})))

-----------------------------------------------------------------------------
(* Materials and models. *)

Slots == {"albedo", "normal", "metallic", "roughness", "ao", "emissive"}

Properties == [factor |-> [slot \in Slots |-> 1], value |-> [slot \in Slots \ {"normal", "ao"} |-> 0], workflow |-> 0]

NoSet == [made |-> FALSE]

NewMaterial ==
    [textures |-> [slot \in Slots |-> NoTexture], properties |-> Properties, flags |-> {"DEPTHTEST"},
     updated |-> FALSE, set |-> NoSet]

SetMaterialProperites(m, properties) ==
    [m EXCEPT !.properties = properties, !.set = IF @.made THEN [@ EXCEPT !.properties = properties] ELSE @]

\* What has no texture has the default one, of which nothing is used.
UpdateDescriptorSet(m) ==
    LET used == [m.properties EXCEPT !.factor =
                    [slot \in Slots |-> IF m.textures[slot] = NoTexture THEN 0 ELSE @[slot]]]
    IN  [m EXCEPT !.properties = used,
                  !.set = [made |-> TRUE, properties |-> used,
                           textures |-> [slot \in Slots |-> IF m.textures[slot] = NoTexture THEN DefaultTexture
                                                            ELSE m.textures[slot]]]]

Bind(m) == IF m.updated \/ ~m.set.made THEN [UpdateDescriptorSet(m) EXCEPT !.updated = FALSE] ELSE m

\* SetAlbedoTexture and its like.
SetTexture(m, slot, file) == [m EXCEPT !.textures[slot] = file, !.updated = TRUE]

SetFlag(m, flag, value) == [m EXCEPT !.flags = IF value THEN @ \cup {flag} ELSE @ \ {flag}]

Mesh(shape) == [shape |-> shape, material |-> NoMaterial]
NewModel(shape) == [type |-> shape, meshes |-> <<Mesh(shape)>>]

\* The default material of the render graph is drawn with where there is none.
MaterialOf(s, mesh) == s.materials[mesh.material]

-----------------------------------------------------------------------------
(* Lights and environments. *)

Directional == 0
Spot == 1
Point == 2
NewLight == [type |-> Directional, position |-> 0, direction |-> 0, radius |-> 1, colour |-> 1, intensity |-> 1, angle |-> 1]

\* The fields the panel has for a light of this type.
LightFields(light) ==
    {"colour", "intensity", "type"} \cup (IF light.type # Directional THEN {"position", "radius"} ELSE {})
    \cup (IF light.type # Point THEN {"direction"} ELSE {}) \cup (IF light.type = Spot THEN {"angle"} ELSE {})

\* The fields of an environment, and what of it is shown.
EnvironmentFields == {"path", "type", "width", "height", "mips"}
NewEnvironment == [fields |-> [f \in EnvironmentFields |-> 0], shown |-> <<>>]

-----------------------------------------------------------------------------
(* The inspector. *)

CreateEntity(s, e) == [s EXCEPT !.entities = @ \cup {e}]

Assign(s, pool, e, component) == [s EXCEPT ![pool] = (e :> component) @@ @]

\* What is drawn or shines is somewhere: the pools of such components make a
\* transform beside a component, if there is none yet.
Dependents == {"model", "light"}
AddDependency(s, pool, e) ==
    IF pool \in Dependents /\ e \notin DOMAIN s.transform THEN Assign(s, "transform", e, NewTransform) ELSE s

Construct(s, pool, e, component) == AddDependency(Assign(s, pool, e, component), pool, e)

RemoveComponent(s, pool, e) == [s EXCEPT ![pool] = Restrict(@, DOMAIN @ \ {e})]

Registered == {"transform", "model", "light", "environment"}

\* What a component is when it is added; a model is one without meshes yet.
Fresh == [transform |-> NewTransform, model |-> NoModel, light |-> NewLight, environment |-> NewEnvironment]

AddComponent(s, pool, e) == IF e \in DOMAIN s[pool] THEN s ELSE Construct(s, pool, e, Fresh[pool])

\* The pitch stays away from the poles whichever angle is edited.
Pitch(angle) == IF angle > 899 THEN 899 ELSE IF angle < -899 THEN -899 ELSE angle

EditTransform(s, e, part, value) ==
    [s EXCEPT !.transform[e] = SetShown(@, part, IF part = "turn" THEN Pitch(value) ELSE value)]

EditLight(s, e, field, value) ==
    IF field \in LightFields(s.light[e]) THEN [s EXCEPT !.light[e][field] = value] ELSE s

\* The shapes of the combo box have all a name GetPrimativeName knows.
Shapes == {"Sphere", "Cube", "Pyramid", "Capsule", "Cylinder", "Terrain", "File", "Quad"}

EditShape(s, e, shape) ==
    LET id == s.model[e]
        fresh == Len(s.models) + 1
    IN  IF id # NoModel
        THEN [s EXCEPT !.models[id] = [type |-> shape, meshes |-> IF shape = "File" THEN <<>> ELSE <<Mesh(shape)>>]]
        ELSE IF shape = "File" THEN s
        ELSE [s EXCEPT !.models = Append(@, NewModel(shape)), !.model[e] = fresh]

\* The meshes of a model as far as the panel lists them.
HasMesh(s, e, k) == e \in DOMAIN s.model /\ s.model[e] # NoModel /\ k \in DOMAIN s.models[s.model[e]].meshes
MeshAt(s, e, k) == s.models[s.model[e]].meshes[k]

NextMaterial(s) == Cardinality(DOMAIN s.materials)

AddMaterial(s, e, k) ==
    [s EXCEPT !.models[s.model[e]].meshes[k].material = NextMaterial(s),
              !.materials = (NextMaterial(s) :> NewMaterial) @@ @]

\* Every edit of a material ends with giving it its own properties again.
Refreshed(m) == SetMaterialProperites(m, m.properties)

\* The number beside the normal map and the occlusion map is nobody's.
EditMaterial(m, what, slot, value) ==
    CASE what = "flag"     -> Refreshed(SetFlag(m, slot, value = 1))
      [] what = "factor"   -> Refreshed([m EXCEPT !.properties.factor[slot] = value])
      [] what = "value"    -> Refreshed(IF slot \in {"normal", "ao"} THEN m ELSE [m EXCEPT !.properties.value[slot] = value])
      [] what = "workflow" -> Refreshed([m EXCEPT !.properties.workflow = value])

\* The button of a texture opens the file browser, except that of the albedo.
OpenBrowser(s, material, slot) ==
    IF slot = "albedo" THEN s ELSE [s EXCEPT !.browser = [open |-> TRUE, material |-> material, slot |-> slot]]

\* The file browser was given a file: whoever asked last gets it.
PickFile(s, file) ==
    IF ~s.browser.open THEN s
    ELSE [s EXCEPT !.materials[s.browser.material] = SetTexture(@, s.browser.slot, file), !.browser.open = FALSE]

Reload(environment) == [environment EXCEPT !.shown = <<environment.fields>>]

\* What is done in the panel of a component of the selected entity.
InWidget(s, e, edit) ==
    CASE edit.does = "transform"   -> EditTransform(s, e, edit.field, edit.value)
      [] edit.does = "light"       -> EditLight(s, e, edit.field, edit.value)
      [] edit.does = "environment" -> [s EXCEPT !.environment[e].fields[edit.field] = edit.value]
      [] edit.does = "reload"      -> [s EXCEPT !.environment[e] = Reload(@)]
      [] edit.does = "shape"       -> EditShape(s, e, edit.field)
      [] edit.does = "material"    -> IF HasMesh(s, e, 1) /\ MeshAt(s, e, 1).material = NoMaterial
                                      THEN AddMaterial(s, e, 1) ELSE s
      [] edit.does = "open"        -> IF HasMesh(s, e, 1) /\ MeshAt(s, e, 1).material # NoMaterial
                                      THEN OpenBrowser(s, MeshAt(s, e, 1).material, edit.field) ELSE s
      [] OTHER                     -> IF HasMesh(s, e, 1) /\ MeshAt(s, e, 1).material # NoMaterial
                                      THEN [s EXCEPT !.materials[MeshAt(s, e, 1).material] =
                                                EditMaterial(@, edit.does, edit.field, edit.value)]
                                      ELSE s

PoolOf(edit) ==
    CASE edit.does = "transform" -> "transform" [] edit.does = "light" -> "light"
      [] edit.does \in {"environment", "reload"} -> "environment" [] OTHER -> "model"

\* Only what the entity has is shown, and an entity that is gone is nobody.
Inspect(s, edit) ==
    CASE s.selected \notin s.entities -> [s EXCEPT !.selected = Nobody]
      [] edit.does = "nothing"   -> s
      [] edit.does = "add"       -> AddComponent(s, edit.field, s.selected)
      [] edit.does = "remove"    -> RemoveComponent(s, edit.field, s.selected)
      [] OTHER                   -> IF s.selected \in DOMAIN s[PoolOf(edit)] THEN InWidget(s, s.selected, edit) ELSE s

-----------------------------------------------------------------------------
(* The other panels. *)

\* A cube and a sphere of the menu shine.
MenuShape(s, e, shape) ==
    LET made == Construct(Construct(CreateEntity(s, e), "model", e, Len(s.models) + 1), "light", e, NewLight)
    IN  [made EXCEPT !.models = Append(@, NewModel(shape))]

MenuLight(s, e) == AddComponent(Construct(CreateEntity(s, e), "light", e, NewLight), "transform", e)

\* The gizmo moves the selected entity to a matrix, or scales it to that of it.
Manipulate(s, matrix, onlyScale) ==
    LET t == Current(s.transform[s.selected])
        local == InverseTimes(t.parent, matrix)
    IN  [s EXCEPT !.transform[s.selected] = IF onlyScale THEN SetShown(t, "scale", local.scale) ELSE SetLocalTransform(t, local)]

OnImGuizmo(s, edit) == IF s.selected \in DOMAIN s.transform THEN Manipulate(s, edit.matrix, edit.field = "scale") ELSE s

\* The popup of a node forgets the selection of it; what has no place in the
\* hierarchy is alone in being deleted.
Delete(s, e) ==
    FoldLeft(LAMBDA t, pool : RemoveComponent(t, pool, e),
             [s EXCEPT !.entities = @ \ {e}, !.selected = IF @ = e THEN Nobody ELSE @], SetToSeq(Registered))

\* One thing is done in a frame, by the panel that comes to it in their order.
OnImGui(s, edit) ==
    CASE edit.does = "cube"    -> MenuShape(s, edit.field, "Cube")
      [] edit.does = "lamp"    -> MenuLight(s, edit.field)
      [] edit.does = "gizmo"   -> OnImGuizmo(s, edit)
      [] edit.does = "select"  -> [s EXCEPT !.selected = edit.field]
      [] edit.does = "delete"  -> Delete(s, edit.field)
      [] edit.does = "pick"    -> PickFile(s, edit.field)
      [] OTHER                 -> Inspect(s, edit)

-----------------------------------------------------------------------------
(* The render graph. *)

Lit(s) ==
    [s EXCEPT !.light = [e \in DOMAIN @ |->
        IF e \in DOMAIN s.transform
        THEN [@[e] EXCEPT !.position = s.transform[e].world.move, !.direction = s.transform[e].world.turn] ELSE @[e]]]

Drawable(s) == {e \in DOMAIN s.model \cap DOMAIN s.transform : s.model[e] # NoModel}
MeshesOf(s, e) == s.models[s.model[e]].meshes

\* Every material that is drawn with is bound.
Bound(s) ==
    LET used == UNION {{MeshesOf(s, e)[k].material : k \in DOMAIN MeshesOf(s, e)} : e \in Drawable(s)}
    IN  [s EXCEPT !.materials = [id \in DOMAIN @ |-> IF id \in used THEN Bind(@[id]) ELSE @[id]],
                  !.transform = [e \in DOMAIN @ |-> IF e \in Drawable(s) /\ MeshesOf(s, e) # <<>> THEN Current(@[e]) ELSE @[e]]]

Command(s, e, mesh) ==
    [entity |-> e, shape |-> mesh.shape, world |-> s.transform[e].world, set |-> MaterialOf(s, mesh).set,
     culled |-> "TWOSIDED" \notin MaterialOf(s, mesh).flags, depth |-> "DEPTHTEST" \in MaterialOf(s, mesh).flags]

Queued(s) ==
    [s EXCEPT !.drawn = UNION {{Command(s, e, MeshesOf(s, e)[k]) : k \in DOMAIN MeshesOf(s, e)} : e \in Drawable(s)}]

BeginScene(s) == Queued(Bound(Lit(s)))

Frame(s, edit) == BeginScene(OnImGui(UpdateGraph(s), edit))
-----------------------------------------------------------------------------
(* The hierarchy panel p: a row for each root, in an order, and below one  *)
(* that is open a row for each child.  What the filter does not pass takes *)
(* all that is below it along.  In a frame the user has a key, a row the   *)
(* mouse is over, what is done with it, and what is typed.                 *)

Children(p, e) == IF e \in DOMAIN p.hierarchy THEN p.hierarchy[e].children ELSE <<>>
IsRoot(p, e) == e \in DOMAIN p.hierarchy => p.hierarchy[e].parent = Nobody

\* What something was dropped on is open from then on.
IsOpen(p, e) == e \in p.open \cup {p.dropped}

Rows(p) ==
    LET rows[e \in ToSet(p.order)] ==
            IF p.names[e] \notin p.filter THEN <<>>
            ELSE <<e>> \o IF IsOpen(p, e) THEN FlattenSeq([k \in DOMAIN Children(p, e) |-> rows[Children(p, e)[k]]])
                          ELSE <<>>
        roots == SelectSeq(p.order, LAMBDA e : IsRoot(p, e))
    IN  FlattenSeq([k \in DOMAIN roots |-> rows[roots[k]]])

Opened(p, e) == IF p.dropped = e THEN [p EXCEPT !.open = @ \cup {e}, !.dropped = Nobody] ELSE p

\* The name is edited in the row that was clicked twice.
Typed(p, e, u) == IF p.renamed = e /\ u.text # "" THEN [p EXCEPT !.names[e] = u.text] ELSE p

\* A click elsewhere ends that; the popup of a row forgets its selection.
Clicked(p, e, u) ==
    CASE u.mouse = "none" -> p
      [] u.row # e        -> [p EXCEPT !.renamed = IF @ = e /\ u.mouse \in {"click", "double"} THEN Nobody ELSE @]
      [] u.mouse = "click"  -> [p EXCEPT !.selected = e]
      [] u.mouse = "double" -> [p EXCEPT !.selected = e, !.renamed = e]
      [] u.mouse = "rename" -> [p EXCEPT !.selected = IF @ = e THEN Nobody ELSE @, !.renamed = e]

SelectUp(p, e) ==
    IF p.up /\ p.selected = e /\ p.previous # Nobody THEN [p EXCEPT !.up = FALSE, !.selected = p.previous] ELSE p

SelectDown(p, e) ==
    IF p.down /\ p.previous # Nobody /\ p.previous = p.selected THEN [p EXCEPT !.down = FALSE, !.selected = e] ELSE p

DrawNode(p, e, u) == [SelectDown(SelectUp(Clicked(Typed(Opened(p, e), e, u), e, u), e), e) EXCEPT !.previous = e]

DrawRows(p, u) ==
    FoldLeft(LAMBDA q, e : DrawNode(q, e, u),
             [p EXCEPT !.previous = Nobody, !.up = "up" \in u.keys, !.down = "down" \in u.keys], Rows(p))

-----------------------------------------------------------------------------
(* The windows of the editor. *)

Panels == <<"Scene", "Inspector", "Hierarchy", "Editor Settings">>

\* Full screen hides every panel but that of the game, until it ends.
FullScreen(w, wanted) ==
    LET hiding == SelectSeq(Panels, LAMBDA panel : panel # "Game" /\ w.active[panel])
    IN  IF w.full = wanted THEN w
        ELSE IF wanted
             THEN [w EXCEPT !.full = TRUE, !.hidden = @ \o hiding,
                            !.active = [panel \in DOMAIN @ |-> @[panel] /\ panel \notin ToSet(hiding)]]
             ELSE [w EXCEPT !.full = FALSE, !.hidden = <<>>,
                            !.active = [panel \in DOMAIN @ |-> @[panel] \/ panel \in ToSet(w.hidden)]]

\* The editor is always playing, so that the setting decides; only the panel of
\* the settings changes it.  A panel that is shown may be closed.
WindowsFrame(w, u) ==
    LET now == FullScreen(w, w.fullScreenOnPlay)
    IN  [now EXCEPT !.fullScreenOnPlay = IF now.active["Editor Settings"] /\ u.toggles THEN ~@ ELSE @,
                    !.active = [panel \in DOMAIN @ |-> @[panel] /\ panel # u.closes]]

\* Splitting a node makes two of it; each keeps the name the code has for it,
\* and the one that is opposite takes the name of the node over.
Splits ==
    <<<<"main", "DockBottom">>, <<"main", "DockLeft">>, <<"main", "DockRight">>,
      <<"DockLeft", "DockLeftChild">>, <<"DockRight", "DockRightChild">>,
      <<"DockLeftChild", "DockingLeftDownChild">>, <<"DockRightChild", "DockingRightDownChild">>,
      <<"DockBottom", "DockBottomChild">>, <<"DockLeft", "DockingBottomLeftChild">>,
      <<"DockRight", "DockingBottomRightChild">>, <<"main", "DockMiddle">>,
      <<"DockMiddle", "DockBottomMiddle">>, <<"DockMiddle", "DockMiddleLeft">>, <<"DockMiddle", "DockMiddleRight">>>>

DockWindows ==
    [game |-> "DockMiddleRight", scene |-> "DockMiddleLeft", inspector |-> "DockRight", console |-> "DockBottomMiddle",
     profiler |-> "DockingBottomLeftChild", resources |-> "DockingBottomLeftChild", hierarchy |-> "DockLeft",
     textEdit |-> "DockMiddle", scenesettings |-> "DockLeft"]

\* Nodes are numbers, the first is that of the whole window.
DockBuilderSplitNode(d, split) ==
    LET node == d.named[split[1]]
        at == Cardinality(d.nodes) + 1
    IN  [nodes |-> d.nodes \cup {at, at + 1}, parents |-> d.parents \cup {node},
         named |-> (split[1] :> at + 1) @@ (split[2] :> at) @@ d.named]

DockLayout == FoldLeft(DockBuilderSplitNode, [nodes |-> {1}, parents |-> {}, named |-> "main" :> 1], Splits)

-----------------------------------------------------------------------------
(* The camera of the scene view and what moves it.  A projection is the    *)
(* lens it was made with; a camera moves along its own axes, and turns     *)
(* about one.                                                              *)

Axes == {"forward", "right", "up"}
NoProjection == <<>>

NewCamera(aspect, orthographic) ==
    [lens |-> [aspect |-> aspect, scale |-> 1, fov |-> 60, orthographic |-> orthographic],
     projection |-> NoProjection, frustum |-> NoProjection, projectionDirty |-> TRUE]

SetLens(c, field, value) == [c EXCEPT !.lens[field] = value, !.projectionDirty = TRUE]

\* The scale is that of an orthographic lens, the angle that of the other.
Projection(lens) ==
    [shape |-> IF lens.orthographic THEN lens.scale ELSE lens.fov, orthographic |-> lens.orthographic, aspect |-> lens.aspect]

UpdateProjectionMatrix(c) == [c EXCEPT !.projection = Projection(c.lens)]

GetProjectionMatrix(c) == IF c.projectionDirty THEN [UpdateProjectionMatrix(c) EXCEPT !.projectionDirty = FALSE] ELSE c

\* The frustum is made each time, and the projection again as long as it is dirty.
GetFrustum(c, view) ==
    LET made == IF c.projectionDirty THEN UpdateProjectionMatrix(c) ELSE c
    IN  [made EXCEPT !.frustum = <<made.projection, view>>]

\* The ray goes through the projection there is: a camera that is const cannot
\* make it anew.  Twice a place is as far right and up of the middle as this.
GetScreenRay(c, view, x, y, width, height) ==
    [projection |-> c.projection, view |-> view, right |-> 2 * x - width, up |-> height - 2 * y]

\* What velocities lose in a frame; the numbers here come to rest.
Damped(v) == IF v < 0 THEN -((-v) \div 2) ELSE v \div 2

\* k has the place and the velocities of a controller.
StopMovement(k) == [k EXCEPT !.velocity = [a \in Axes |-> 0], !.zoom = 0, !.spin = 0]

UpdateScroll(k, offset) ==
    LET zoom == k.zoom - 10 * offset
    IN  [k EXCEPT !.position["forward"] = @ + zoom, !.zoom = Damped(zoom)]

\* The cursor counts from where the button went down, or was seen last.
HandleMouse(k, u) ==
    LET from == IF u.pressed THEN u.cursor ELSE k.cursor
        spin == IF "right" \in u.held THEN u.cursor - from ELSE k.spin
        turned == [k EXCEPT !.turn = @ - spin, !.cursor = IF spin # 0 THEN u.cursor ELSE from, !.spin = Damped(spin)]
    IN  UpdateScroll(turned, u.scroll)

Speed(held) == IF "LeftShift" \in held THEN 10000 ELSE IF "LeftAlt" \in held THEN 50 ELSE 1000

\* The keys of an axis: that which goes on and that which comes back.
AxisKeys == [forward |-> <<"S", "W">>, right |-> <<"D", "A">>, up |-> <<"E", "Q">>]

HandleKeyboard(k, held) ==
    LET push(key) == IF {key, "right"} \subseteq held THEN Speed(held) ELSE 0
        pushed == [a \in Axes |-> k.velocity[a] + push(AxisKeys[a][1]) - push(AxisKeys[a][2])]
    IN  [k EXCEPT !.position = [a \in Axes |-> @[a] + pushed[a]], !.velocity = [a \in Axes |-> Damped(pushed[a])]]

\* The editor's update: the camera stands still unless the cursor was over the
\* scene view a frame ago.
MoveCamera(k, u) == IF k.viewActive THEN HandleKeyboard(HandleMouse(k, u), u.held) ELSE StopMovement(k)

\* The scene view, then the render graph: what they saw the scene through.
Place3D(k) == <<k.position, k.turn>>

ViewScene(k, u) ==
    LET view == Place3D(k)
        shaped == IF u.width # k.camera.lens.aspect THEN SetLens(k.camera, "aspect", u.width) ELSE k.camera
        gizmo == GetProjectionMatrix(shaped)
        ray == GetScreenRay(gizmo, view, u.click, u.click, u.width, u.width)
        drawn == GetFrustum(GetProjectionMatrix(gizmo), view)
    IN  [k EXCEPT !.camera = drawn, !.viewActive = u.over,
                  !.seen = {<<gizmo.projection, view>>, <<ray.projection, ray.view>>, drawn.frustum}]

CameraFrame(k, u) == ViewScene(MoveCamera(k, u), u)
=============================================================================
