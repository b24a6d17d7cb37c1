----------------------------- MODULE MCContent -----------------------------
(***************************************************************************)
(* Inputs and invariants for what a project keeps on disk: scenes, project *)
(* files, paths, animated sprites.  MCAlgorithms runs them with the other  *)
(* computations that keep no state.                                        *)
(***************************************************************************)
EXTENDS SceneArchive, AnimatedSprite, FiniteSetsExt

VARIABLE task
-----------------------------------------------------------------------------
Root == <<"C:", "/", "game", "/">>
Inside(folder, name) == Root \o <<"Assets", "/", folder, "/", name>>
Outside(name) == <<"D:", "/", name>>
Sky == <<"/", "/", "Textures", "/", "sky">>
Missing == <<"/", "/", "Textures", "/", "missing">>

\* A material of which every field is set, and one without textures.
Set(fields) == [f \in ToSet(fields) |-> f]
Painted == [f \in ToSet(MaterialFields) |->
              IF f \in {"Albedo", "shader"} THEN Inside("Textures", "cat")
              ELSE IF f \in Paths THEN <<>> ELSE <<f>>]

Disk ==
    [p \in {Inside("Textures", "cat"), Inside("Textures", "sky"), Inside("Meshes", "fire"),
            Inside("Fonts", "font"), Outside("font"), Outside("icon"),
            Root \o <<"Assets", "Old", "/", "icon">>, Root \o <<"Assets">>} |->
        IF p = Inside("Meshes", "fire") THEN <<Painted, Painted>> ELSE <<>>]

Env == [mounts |-> MountPoints(Root), disk |-> Disk]

TakePath == \E p \in DOMAIN Disk : task' = [kind |-> "path", path |-> p]

\* A mounted directory occurs at the path's beginning, and is a whole directory.
Plain(path) ==
    \A m \in ToSet(Env.mounts) :
        Occurs(m.dir, path) =>
            /\ SubSeq(path, 1, Len(m.dir)) = m.dir
            /\ Len(path) > Len(m.dir) => path[Len(m.dir) + 1] = "/"

\* What stands for a file in a scene finds the same file when the scene is
\* loaded, and is not changed by saving it again (AbsoulePathToVFS and
\* ResolvePhysicalPath); not so in a directory named like a mounted one.
PathsResolve ==
    task.kind = "path" /\ Plain(task.path) /\ Len(task.path) > 5 =>
        LET virtual == AbsoulePathToVFS(Env.mounts, task.path)
        IN  /\ ResolvePhysicalPath(Env.mounts, DOMAIN Disk, virtual) = task.path
            /\ AbsoulePathToVFS(Env.mounts, virtual) = virtual
-----------------------------------------------------------------------------
\* Components a scene may hold when it is saved.
Variants(class) ==
    LET set == Set(Fields[class])
        picture == {<<>>, Inside("Textures", "cat"), Outside("icon")}
    IN  CASE class \in {"Model", "ModelComponent"} ->
               {New(class), [type |-> "Cube", path |-> Primitive, materials |-> <<Painted>>],
                [type |-> "Cube", path |-> Primitive, materials |-> <<NoMaterial>>],
                [type |-> "File", path |-> Inside("Meshes", "fire"), materials |-> Disk[Inside("Meshes", "fire")]],
                [type |-> "File", path |-> Missing, materials |-> <<>>]}
          [] class \in {"Sprite", "AnimatedSprite"} -> {[set EXCEPT !["TexturePath"] = p] : p \in picture}
          [] class = "TextComponent" ->
               {[set EXCEPT !["Path"] = p] : p \in {<<>>, DefaultFont, Inside("Fonts", "font"), Outside("font")}}
          [] class = "Environment" ->
               {[f \in DOMAIN New(class) |-> IF f \in {"value0", "shown"} THEN p ELSE f] : p \in {<<>>, Sky}}
               \cup {[New(class) EXCEPT !["value0"] = Missing]}
          [] OTHER -> {set, New(class)}

Lists(class) == UNION {[1 .. n -> Variants(class)] : n \in 0 .. 2}
Bare == [f \in ToSet(SettingsFields) |-> "default"]

\* Scenes of two entities with components of two classes.
TakeScene ==
    \E c \in DOMAIN ComponentsV8, d \in DOMAIN ComponentsV8 :
      /\ c < d
      /\ \E first \in Lists(ComponentsV8[c]), second \in Lists(ComponentsV8[d]) :
           task' = [kind |-> "scene",
                    scene |-> [settings |-> Set(SettingsFields), entities |-> <<8, 5>>,
                               components |->
                                 [e \in ToSet(ComponentsV8) |->
                                    LET list == IF e = ComponentsV8[c] THEN first
                                                ELSE IF e = ComponentsV8[d] THEN second ELSE <<>>
                                    IN  [k \in DOMAIN list |-> [entity |-> <<5, 8>>[k], object |-> list[k]]]]]]

\* What of a component a file keeps: paths become virtual, materials lose
\* their shader and those of a file are its own; a text has some font.
Kept(class, object) ==
    CASE class \in {"Model", "ModelComponent"} ->
           IF object.type = "File"
           THEN [object EXCEPT !.path = AbsoulePathToVFS(Env.mounts, @)]
           ELSE [object EXCEPT !.materials =
                    [k \in DOMAIN @ |-> IF @[k] = NoMaterial THEN NoMaterial
                                        ELSE [Virtual(Env, @[k], Paths) EXCEPT !["shader"] = <<>>]]]
      [] class = "Sprite" -> Virtual(Env, object, {"TexturePath"})
      [] class = "TextComponent" -> [object EXCEPT !["Path"] = IF @ = <<>> THEN DefaultFont ELSE @]
      [] OTHER -> object

\* Every model has a mesh, no font lies below a mounted directory, and nothing
\* without a picture comes after something of its class with one.
Restorable(components) ==
    /\ \A class \in {"Model", "ModelComponent"} :
         \A k \in DOMAIN components[class] : components[class][k].object.materials # <<>>
    /\ \A k \in DOMAIN components["TextComponent"] : components["TextComponent"][k].object["Path"] # Inside("Fonts", "font")
    /\ \A class \in {"Sprite", "AnimatedSprite", "Environment"} :
         \A k, l \in DOMAIN components[class] :
            LET picture == IF class = "Environment" THEN "shown" ELSE "TexturePath"
            IN  k < l /\ components[class][k].object[picture] # <<>> => components[class][l].object[picture] # <<>>

KeptList(components, class) == [k \in DOMAIN components[class] |-> [components[class][k] EXCEPT !.object = Kept(class, @)]]

EntitiesOf(list) == {list[k].entity : k \in DOMAIN list}

\* What had no transform and needs one has a new one after all the others.
TransformsKept(components, back) ==
    LET had == KeptList(components, "Transform")
        more == SubSeq(back, Len(had) + 1, Len(back))
    IN  /\ SubSeq(back, 1, Len(had)) = had
        /\ EntitiesOf(more) = UNION {EntitiesOf(components[c]) : c \in ToSet(Dependents)} \ EntitiesOf(had)
        /\ Len(more) = Cardinality(EntitiesOf(more)) /\ \A k \in DOMAIN more : more[k].object = New("Transform")

\* What came back of a scene, and again of what came back.
SceneRestored(scene, back, again) ==
    /\ back.settings = scene.settings /\ back.entities = scene.entities
    /\ Restorable(scene.components) =>
         /\ back.ok
         /\ TransformsKept(scene.components, back.components["Transform"])
         /\ \A c \in DOMAIN scene.components \ {"Transform"} : back.components[c] = KeptList(scene.components, c)
    /\ ~back.ok => \E c \in {"Model", "ModelComponent"} :
                     \E k \in DOMAIN scene.components[c] : scene.components[c][k].object.materials = <<>>
    /\ back.ok => again = back

\* A scene that is saved and loaded again is what it was, as far as a file can
\* keep it; where it is not, a model without meshes stopped the loading, and
\* saving once more changes nothing (Serialise and Deserialise, every save and
\* load).
ScenesRestored ==
    task.kind = "scene" =>
        LET back == Deserialise(Env, Serialise(Env, task.scene), Bare)
        IN  SceneRestored(task.scene, back, Deserialise(Env, Serialise(Env, back), Bare))
-----------------------------------------------------------------------------
(* Files from before classes were removed: the lists in the comments of    *)
(* Scene.cpp.                                                              *)
OldV1 ==
    <<"Transform", "NameComponent", "ActiveComponent", "Hierarchy", "Camera", "LuaScript", "Model", "Light",
      "RigidBody3D", "Environment", "Sprite", "RigidBody2D", "DefaultCameraController">>
Added == <<"AnimatedSprite", "Sound", "Listener", "IDComponent", "ModelComponent", "AxisConstraint", "TextComponent">>
OldList(version) ==
    OldV1 \o SubSeq(Added, 1, CASE version < 3 -> 0 [] version < 8 -> version - 2 [] version < 14 -> 6 [] OTHER -> 7)

TakeOldScene ==
    \E version \in 1 .. 15 :
      \E present \in kSubset(1, ToSet(OldList(version))) \cup kSubset(2, ToSet(OldList(version))) :
        task' = [kind |-> "old", version |-> version, present |-> present]

Example(class) ==
    IF class \notin ToSet(ComponentsV8) THEN <<<<"FilePath", "x">>>>
    ELSE SaveComponent(Env, class, CHOOSE v \in Variants(class) :
            CASE class \in {"Model", "ModelComponent"} -> v.materials # <<>>
              [] class = "TextComponent" -> v["Path"] = Outside("font")
              [] class = "Environment" -> v["value0"] = Sky
              [] OTHER -> v # New(class))

OldFile(version, present) ==
    [version |-> version, settings |-> Pairs(AskedSettings(version), Set(SettingsFields)),
     items |-> Snapshot([c \in DOMAIN OldList(version) |->
                           [class |-> OldList(version)[c],
                            list |-> IF OldList(version)[c] \in present THEN <<[entity |-> 5, object |-> <<>>]>> ELSE <<>>]],
                        <<5>>, LAMBDA class, object : Node(class, Example(class)))]

NotMisread(version, present, back) ==
    LET was(c) == {c} \cap present # {}
                  \/ (c = "IDComponent" /\ version < 6)
                  \/ (c = "ModelComponent" /\ version < 7 /\ "Model" \in present)
                  \/ (c = "Transform" /\ \E d \in ToSet(Dependents) : back.components[d] # <<>>)
    IN  /\ back.entities = <<5>>
        /\ \A c \in DOMAIN back.components :
             \A k \in DOMAIN back.components[c] :
                /\ was(c)
                /\ c \in present /\ c \notin {"Model", "ModelComponent"} =>
                     \A f \in ToSet(Asked(c, version)) :
                        back.components[c][k].object[f] = Example(c)[SelectInSeq(Fields[c], LAMBDA n : n = f)][2]

\* An old scene loads in part, or its loading stops; nothing is taken for
\* something else, although the program reads a shorter list of classes than
\* was written, and no entity gets a component it did not have but the
\* transform that others need.
OldScenesNotMisread ==
    task.kind = "old" =>
        NotMisread(task.version, task.present, Deserialise(Env, OldFile(task.version, task.present), Bare))
-----------------------------------------------------------------------------
ProjectKeys == ToSet(ProjectFields(7)) \cup {"Root"}
Other == [f \in ProjectKeys |-> "before"]

\* A project file of some version, of which a field may be lost.
TakeProject ==
    \E version \in 1 .. 8, lost \in ProjectKeys :
        task' = [kind |-> "project", version |-> version, lost |-> lost]

\* A project that is saved and opened again is what it was but for the size of
\* its window; files of every version open, and one that lacks a field is
\* replaced by the defaults as a whole (Application's save, load, Deserialise).
ProjectsRestored ==
    task.kind = "project" =>
        LET mine == Set(ProjectFields(7))
            file == SelectSeq(ProjectFields(task.version), LAMBDA f : f # task.lost)
            back == LoadProject(task.version, Node("Project", Pairs(file, mine)), Other)
            saved == LoadProject(ProjectVersion, SaveProject(mine), Other)
        IN  /\ \A f \in ProjectKeys :
                 saved[f] = IF f \in {"Width", "Height", "Root"} THEN "before" ELSE f
            /\ task.lost \notin ToSet(AskedOfProject(task.version)) =>
                 \A f \in ToSet(file) : back[f] \in {f, "before", "fallback"}
            /\ task.lost \notin ToSet(ProjectFields(task.version)) => back["Title"] = "Title"
            /\ back["Title"] = "fallback" <=> back = DefaultProject(Other)
-----------------------------------------------------------------------------
\* A sprite with two states; the second is chosen after some updates.
TakeAnimation ==
    \E modes \in [{"a", "b"} -> {"Loop", "PingPong"}], frames \in [{"a", "b"} -> 1 .. 3],
       duration \in 1 .. 2, when \in 0 .. 6 :
        task' = [kind |-> "animation", modes |-> modes, frames |-> frames, duration |-> duration, when |-> when]

\* The sprite after n updates.
Played(t, n) ==
    LET fresh == AddState(NewSprite(t.frames["a"], t.duration, "a"), t.frames["b"], t.duration, "b")
        ready == [fresh EXCEPT !.states = [s \in DOMAIN @ |-> [@[s] EXCEPT !.mode = t.modes[s]]]]
        after[k \in 0 .. n] ==
            LET before == IF k = 0 THEN ready ELSE OnUpdate(after[k - 1], 1)
            IN  IF k = t.when THEN SetState(before, "b") ELSE before
    IN  after[n]

\* A sprite shows a frame of the state it is in, and every one in its turn, if
\* its states have two frames at least (OnUpdate and SetState; the direction
\* outlives the state it belonged to).
AnimationsPlay ==
    task.kind = "animation" /\ (\A s \in {"a", "b"} : task.frames[s] > 1) =>
        LET played == [n \in 1 .. task.when + 8 |-> Played(task, n)]
        IN  /\ \A n \in DOMAIN played :
                 LET s == played[n]
                 IN  s.frame \in 0 .. s.states[s.state].frames - 1 /\ s.shown = s.frame
            /\ {played[n].shown : n \in task.when + 1 .. task.when + 8} = 0 .. task.frames["b"] - 1

\* What is kept on disk comes back as it was.
ContentRestored == PathsResolve /\ ScenesRestored /\ OldScenesNotMisread /\ ProjectsRestored /\ AnimationsPlay
=============================================================================
