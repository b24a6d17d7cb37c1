---------------------------- MODULE SceneArchive ----------------------------
(***************************************************************************)
(* How scenes and projects are written to files and read back: the virtual *)
(* paths of VFS, the save and load of every component, Serialise and       *)
(* Deserialise of Scene and Application.                                   *)
(*                                                                         *)
(* A path is a sequence of pieces, the slashes among them.  An archive of  *)
(* cereal's is a sequence of items: a number, or a node of pairs of a name *)
(* and a value.  A named value is looked up in its node, an unnamed one is *)
(* the next; a name that is not there throws.  The program never asks for  *)
(* the binary form.                                                        *)
(***************************************************************************)
EXTENDS Integers, SequencesExt

NoFile == "none"
Failed == [failed |-> TRUE]

-----------------------------------------------------------------------------
(* Virtual paths. *)

\* MountVFSPaths and the shaders, in the order of std::map.
MountPoints(root) ==
    <<[name |-> "Assets", dir |-> root \o <<"Assets">>],
      [name |-> "Meshes", dir |-> root \o <<"Assets", "/", "Meshes">>],
      [name |-> "Scenes", dir |-> root \o <<"Assets", "/", "Scenes">>],
      [name |-> "Scripts", dir |-> root \o <<"Assets", "/", "Scripts">>],
      [name |-> "Sounds", dir |-> root \o <<"Assets", "/", "Sounds">>],
      [name |-> "Textures", dir |-> root \o <<"Assets", "/", "Textures">>]>>

Occurs(part, path) == \E at \in 1 .. Len(path) - Len(part) + 1 : SubSeq(path, at, at + Len(part) - 1) = part

\* The first directory that occurs in the path: as many pieces as it has are
\* replaced at the path's beginning.
AbsoulePathToVFS(mounts, path) ==
    LET holding == {k \in DOMAIN mounts : Occurs(mounts[k].dir, path)}
        first == mounts[CHOOSE k \in holding : \A l \in holding : k <= l]
    IN  IF holding = {} THEN path
        ELSE <<"/", "/", first.name>> \o SubSeq(path, Len(first.dir) + 1, Len(path))

IsVirtual(path) == Len(path) > 2 /\ path[1] = "/" /\ path[2] = "/"

FileExists(disk, path) == path \in disk

\* The file a path stands for, or NoFile.
ResolvePhysicalPath(mounts, disk, path) ==
    LET slash == SelectInSeq(SubSeq(path, 3, Len(path)), LAMBDA piece : piece = "/") + 2
        dirs == SelectSeq(mounts, LAMBDA m : slash = 4 /\ m.name = path[3])
        remainder == SubSeq(path, slash, Len(path))
        found == SelectSeq(dirs, LAMBDA m : FileExists(disk, m.dir \o remainder))
    IN  IF ~IsVirtual(path) \/ dirs = <<>>
        THEN IF FileExists(disk, path) THEN path ELSE <<NoFile>>
        ELSE IF found = <<>> THEN <<NoFile>> ELSE found[1].dir \o remainder

-----------------------------------------------------------------------------
(* What each class writes, and what it reads of a file of some version. *)

CurrentVersion == 15

Unnamed(n) == SubSeq(<<"value0", "value1", "value2", "value3", "value4", "value5", "value6">>, 1, n)

MaterialFields ==
    <<"Albedo", "Normal", "Metallic", "Roughness", "Ao", "Emissive", "albedoColour", "roughnessValue",
      "metallicValue", "emissiveValue", "albedoMapFactor", "metallicMapFactor", "roughnessMapFactor",
      "normalMapFactor", "aoMapFactor", "emissiveMapFactor", "alphaCutOff", "workflow", "shader">>

CameraLens == <<"Scale", "Aspect", "FOV", "Near", "Far">>
CameraExposure == <<"Aperture", "ShutterSpeed", "Sensitivity">>
TextFields == <<"TextString", "Path", "Colour", "LineSpacing", "Kerning", "MaxWidth">>
TextOutline == <<"OutlineColour", "OutlineWidth">>
ModelFields == <<"PrimitiveType", "FilePath", "Material">>
SpriteFields == <<"TexturePath", "Position", "Scale", "Colour">>
AnimatedFields == SpriteFields \o <<"AnimationFrames", "State">>

TransformFields == <<"Position", "Rotation", "Scale">>
NameFields == <<"Name">>
ActiveFields == <<"Active">>
HierarchyFields == <<"First", "Next", "Previous", "Parent">>
ControllerFields == <<"ControllerType">>
LightFields == Unnamed(7)
EnvironmentFields == Unnamed(6)
IDFields == Unnamed(1)

Fields ==
    [Transform |-> TransformFields, NameComponent |-> NameFields, ActiveComponent |-> ActiveFields,
     Hierarchy |-> HierarchyFields, Camera |-> CameraLens \o CameraExposure, Model |-> ModelFields,
     Light |-> LightFields, Environment |-> EnvironmentFields, Sprite |-> SpriteFields,
     DefaultCameraController |-> ControllerFields, AnimatedSprite |-> AnimatedFields, IDComponent |-> IDFields,
     ModelComponent |-> ModelFields, TextComponent |-> TextFields \o TextOutline]

\* The fields load asks for.
Asked(class, version) ==
    CASE class = "Camera" /\ version <= 11 -> CameraLens
      [] class = "TextComponent" /\ version < 15 -> TextFields
      [] OTHER -> Fields[class]

\* The lists of components, as far as this program still has them.
ComponentsV1 ==
    <<"Transform", "NameComponent", "ActiveComponent", "Hierarchy", "Camera", "Model", "Light",
      "Environment", "Sprite", "DefaultCameraController">>
ComponentsV2 == Append(ComponentsV1, "AnimatedSprite")
ComponentsV5 == Append(ComponentsV2, "IDComponent")
ComponentsV6 == Append(ComponentsV5, "ModelComponent")
ComponentsV8 == Append(ComponentsV6, "TextComponent")

ComponentsOf(version) ==
    CASE version < 2 -> ComponentsV1
      [] version = 3 -> ComponentsV2
      [] version = 6 -> ComponentsV5
      [] version = 7 -> ComponentsV6
      [] version >= 14 -> ComponentsV8
      [] OTHER -> <<>>

Switches ==
    <<"PhysicsEnabled2D", "PhysicsEnabled3D", "AudioEnabled", "Renderer2DEnabled", "Renderer3DEnabled",
      "DebugRenderEnabled", "SkyboxRenderEnabled", "ShadowsEnabled">>
Tones == <<"Exposure", "ToneMap">>
Blooms == <<"BloomIntensity", "BloomKnee", "BloomThreshold", "BloomUpsampleScale">>
Effects ==
    <<"FXAAEnabled", "DebandingEnabled", "ChromaticAberationEnabled", "EyeAdaptation", "SSAOEnabled",
      "BloomEnabled", "FilmicGrainEnabled", "DepthOfFieldEnabled", "MotionBlurEnabled">>

SettingsFields == Switches \o Tones \o Blooms \o Effects

\* The settings Scene::load asks for.
AskedSettings(version) ==
    (IF version > 7 THEN Switches ELSE <<>>) \o (IF version > 9 THEN Tones ELSE <<>>) \o
    (IF version > 11 THEN Blooms ELSE <<>>) \o (IF version > 12 THEN Effects ELSE <<>>)

-----------------------------------------------------------------------------
(* Components.  A component is a function from the names of its fields; the  *)
(* fields that stand for a texture, a font or a file hold its path, <<>> for *)
(* none.  A model has a type, the path of its file and the materials of its  *)
(* meshes; an environment also has the pictures it shows.                    *)

Paths == {"Albedo", "Normal", "Metallic", "Roughness", "Ao", "Emissive", "shader"}
Blank(fields) == [f \in ToSet(fields) |-> "default"]
NoMaterial == [f \in ToSet(MaterialFields) |-> <<>>]
Primitive == <<"Primitive">>
DefaultFont == <<"RobotoRegular">>

\* What a constructor leaves.
NewModel == [type |-> NoFile, path |-> <<>>, materials |-> <<>>]
NewEnvironment ==
    [f \in ToSet(EnvironmentFields) \cup {"shown"} |-> IF f \in {"value0", "shown"} THEN <<>> ELSE "default"]
NewText == [Blank(Fields["TextComponent"]) EXCEPT !["Path"] = <<>>]

New(class) ==
    CASE class \in {"Model", "ModelComponent"} -> NewModel
      [] class = "Environment" -> NewEnvironment
      [] class = "TextComponent" -> NewText
      [] class \in {"Sprite", "AnimatedSprite"} -> [Blank(Fields[class]) EXCEPT !["TexturePath"] = <<>>]
      [] OTHER -> Blank(Fields[class])

\* The fields as they are written: a sequence of pairs.
Pairs(fields, object) == [k \in DOMAIN fields |-> <<fields[k], object[fields[k]]>>]

Virtual(env, object, fields) ==
    [f \in DOMAIN object |-> IF f \in fields THEN AbsoulePathToVFS(env.mounts, object[f]) ELSE object[f]]

SaveMaterial(env, material) == Pairs(MaterialFields, Virtual(env, material, Paths))

\* Mutant: the path of the file as it was opened.
SaveModelPhysical(env, model) ==
    IF model.materials = <<>> THEN <<>>
    ELSE <<<<"PrimitiveType", model.type>>,
           <<"FilePath", IF model.type = "File" THEN model.path ELSE Primitive>>,
           <<"Material", IF model.materials[1] = NoMaterial THEN <<>> ELSE SaveMaterial(env, model.materials[1])>>>>

\* A model without meshes writes nothing.
SaveModel(env, model) ==
    IF model.materials = <<>> THEN <<>>
    ELSE <<<<"PrimitiveType", model.type>>,
           <<"FilePath", IF model.type = "File" THEN AbsoulePathToVFS(env.mounts, model.path) ELSE Primitive>>,
           <<"Material", IF model.materials[1] = NoMaterial THEN <<>> ELSE SaveMaterial(env, model.materials[1])>>>>

\* An animated sprite and an environment keep the path they have.
SaveComponent(env, class, object) ==
    CASE class \in {"Model", "ModelComponent"} -> SaveModel(env, object)
      [] class = "Sprite" -> Pairs(SpriteFields, Virtual(env, object, {"TexturePath"}))
      [] class = "TextComponent" -> Pairs(Fields[class], Virtual(env, object, {"Path"}))
      [] OTHER -> Pairs(Fields[class], object)

\* The kinds of values in the nodes of classes without names, and in those of
\* classes this program no longer has.
Kinds ==
    [Light |-> <<"object", "object", "number", "number", "object", "number", "number">>,
     Environment |-> <<"text", "number", "number", "number", "text", "number">>,
     IDComponent |-> <<"number">>,
     RigidBody3D |-> <<"object">>, RigidBody2D |-> <<"object">>, Sound |-> <<"object">>,
     LuaScript |-> <<"text">>, Listener |-> <<"flag">>, AxisConstraint |-> <<"object">>]

KindsOf(item) ==
    IF item.class \in DOMAIN Kinds THEN Kinds[item.class]
    ELSE CASE item.class = "Transform" -> <<"object">>
           [] item.class = "ActiveComponent" -> <<"flag">>
           [] item.class \in {"Camera", "Hierarchy", "DefaultCameraController", "Model", "ModelComponent"} -> <<"number">>
           [] OTHER -> <<"text">>

\* The values of the fields asked for, or Failed.
Read(item, class, asked) ==
    LET named == [k \in DOMAIN item.pairs |-> item.pairs[k][1]]
        at(f) == SelectInSeq(named, LAMBDA n : n = f)
        needed == Kinds[class]
    IN  IF class \in {"Light", "Environment", "IDComponent"}
        THEN IF Len(KindsOf(item)) >= Len(needed) /\ SubSeq(KindsOf(item), 1, Len(needed)) = needed
             THEN [f \in ToSet(asked) |-> item.pairs[SelectInSeq(asked, LAMBDA n : n = f)][2]]
             ELSE Failed
        ELSE IF \A f \in ToSet(asked) : at(f) # 0
             THEN [f \in ToSet(asked) |-> item.pairs[at(f)][2]]
             ELSE Failed

\* Material::load into a new material: custom shaders are not supported.
LoadMaterial(pairs) ==
    [k \in ToSet(MaterialFields) |->
        IF k = "shader" THEN <<>> ELSE pairs[SelectInSeq(MaterialFields, LAMBDA n : n = k)][2]]

\* A primitive gets the material of the file, another model those of its own.
LoadModel(env, type, path, pairs) ==
    IF type # "File"
    THEN [type |-> type, path |-> Primitive,
          materials |-> <<IF pairs = <<>> THEN NoMaterial ELSE LoadMaterial(pairs)>>]
    ELSE LET file == ResolvePhysicalPath(env.mounts, DOMAIN env.disk, path)
         IN  [type |-> type, path |-> path, materials |-> IF file = <<NoFile>> THEN <<>> ELSE env.disk[file]]

\* load, into an object that may have been loaded into before: a sprite
\* without a texture keeps the one it has, and an environment its pictures.
LoadSprite(instance, loaded) ==
    [loaded EXCEPT !["TexturePath"] = IF @ = <<>> THEN instance["TexturePath"] ELSE @]

LoadEnvironment(env, instance, loaded) ==
    LET found == ResolvePhysicalPath(env.mounts, DOMAIN env.disk, loaded["value0"])
    IN  [loaded EXCEPT !["shown"] = IF found # <<NoFile>> THEN loaded["value0"] ELSE instance["shown"]]

LoadText(env, loaded) ==
    [loaded EXCEPT !["Path"] = IF @ # <<>> /\ FileExists(DOMAIN env.disk, @) THEN @ ELSE DefaultFont]

LoadComponent(env, class, instance, values) ==
    LET loaded == [f \in DOMAIN instance |-> IF f \in DOMAIN values THEN values[f] ELSE instance[f]]
    IN  CASE class \in {"Model", "ModelComponent"} ->
               LoadModel(env, values["PrimitiveType"], values["FilePath"], values["Material"])
          [] class \in {"Sprite", "AnimatedSprite"} -> LoadSprite(instance, loaded)
          [] class = "Environment" -> LoadEnvironment(env, instance, loaded)
          [] class = "TextComponent" -> LoadText(env, loaded)
          [] OTHER -> loaded

-----------------------------------------------------------------------------
(* Scenes: settings, the entities, and for each class the entities that have *)
(* it, in the order of their storage.                                        *)

Number(n) == [class |-> "number", value |-> n]
Node(class, pairs) == [class |-> class, pairs |-> pairs]

\* entt::snapshot: the entities, and each class with its number of entities.
Snapshot(lists, entities, node(_, _)) ==
    <<Number(Len(entities))>> \o [k \in DOMAIN entities |-> Number(entities[k])] \o
    FlattenSeq([c \in DOMAIN lists |->
        <<Number(Len(lists[c].list))>> \o
        FlattenSeq([k \in DOMAIN lists[c].list |->
            <<Number(lists[c].list[k].entity), node(lists[c].class, lists[c].list[k].object)>>])])

Serialise(env, scene) ==
    [version |-> CurrentVersion, settings |-> Pairs(SettingsFields, scene.settings),
     items |-> Snapshot([c \in DOMAIN ComponentsV8 |->
                            [class |-> ComponentsV8[c], list |-> scene.components[ComponentsV8[c]]]],
                        scene.entities,
                        LAMBDA class, object : Node(class, SaveComponent(env, class, object)))]

\* One entity of a class: what was read before, and what is read now.
ReadOne(env, class, before, entity, values) ==
    IF ~before.ok \/ entity.class # "number" \/ values = Failed THEN [before EXCEPT !.ok = FALSE]
    ELSE LET object == LoadComponent(env, class, before.instance, values)
         IN  [ok |-> TRUE, instance |-> object,
              list |-> Append(before.list, [entity |-> entity.value, object |-> object])]

Item(file, k) == IF k \in DOMAIN file.items THEN file.items[k] ELSE [class |-> "end", value |-> 0]

\* The values of a node, or Failed where there is none.
Values(file, class, item) ==
    IF item.class \in {"number", "end"} THEN Failed ELSE Read(item, class, Asked(class, file.version))

ReadList(env, file, class, at, count) ==
    LET step[n \in 0 .. count] ==
            IF n = 0 THEN [ok |-> Item(file, at).class = "number", list |-> <<>>, instance |-> New(class)]
            ELSE ReadOne(env, class, step[n - 1], Item(file, at + 2 * n - 1), Values(file, class, Item(file, at + 2 * n)))
    IN  step[count]

\* Reads one class: its number, then an entity and a node as often.  The same
\* instance is read into each time and copied into the registry.
ReadClass(env, file, class, at) ==
    LET count == IF Item(file, at).class = "number" THEN Item(file, at).value ELSE 0
    IN  [next |-> at + 2 * count + 1, read |-> ReadList(env, file, class, at, count)]

AddClass(before, one) == [ok |-> one.read.ok, at |-> one.next, lists |-> Append(before.lists, one.read.list)]

\* entt::snapshot_loader; what was read before something throws stays.
ReadClasses(env, file, classes, start) ==
    FoldLeft(LAMBDA before, class : IF before.ok THEN AddClass(before, ReadClass(env, file, class, before.at))
                                    ELSE [before EXCEPT !.lists = Append(@, <<>>)],
             [ok |-> TRUE, at |-> start, lists |-> <<>>], classes)

\* Files before version 6 have no identifiers, and before version 7 models of
\* their own instead of shared ones.
Upgraded(version, entities, components) ==
    LET ids == IF version >= 6 THEN components["IDComponent"]
               ELSE [k \in DOMAIN entities |-> [entity |-> entities[k], object |-> [value0 |-> "random"]]]
    IN  IF version >= 7 THEN components
        ELSE [components EXCEPT !["IDComponent"] = ids, !["ModelComponent"] = components["Model"], !["Model"] = <<>>]

\* The classes whose pools make a transform beside a component, if there is
\* none yet.
Dependents == <<"Camera", "Light", "Sprite", "AnimatedSprite", "ModelComponent">>

Somewhere(components, one) ==
    IF \E k \in DOMAIN components["Transform"] : components["Transform"][k].entity = one.entity THEN components
    ELSE [components EXCEPT !["Transform"] = Append(@, [entity |-> one.entity, object |-> New("Transform")])]

AddDependencies(components) ==
    FoldLeft(Somewhere, components, FlattenSeq([c \in DOMAIN Dependents |-> components[Dependents[c]]]))

\* A scene whose settings could not be read, and one with what was read.
Unread(settings) ==
    [settings |-> settings, entities |-> <<>>, ok |-> FALSE, components |-> [c \in ToSet(ComponentsV8) |-> <<>>]]

Loaded(version, settings, read, entities, classes, result) ==
    LET components == [c \in ToSet(ComponentsV8) |->
                          LET k == SelectInSeq(classes, LAMBDA d : d = c) IN IF k = 0 THEN <<>> ELSE result.lists[k]]
    IN  [settings |-> [f \in DOMAIN settings |-> IF f \in DOMAIN read THEN read[f] ELSE settings[f]],
         entities |-> entities, ok |-> result.ok,
         components |-> AddDependencies(IF result.ok THEN Upgraded(version, entities, components) ELSE components)]

\* Deserialise into a scene with the settings it has.
Deserialise(env, file, settings) ==
    LET read == Read(Node("Scene", file.settings), "Scene", AskedSettings(file.version))
        count == file.items[1].value
        entities == [k \in 1 .. count |-> file.items[k + 1].value]
        classes == ComponentsOf(file.version)
    IN  IF read = Failed THEN Unread(settings)
        ELSE Loaded(file.version, settings, read, entities, classes, ReadClasses(env, file, classes, count + 2))

-----------------------------------------------------------------------------
(* Projects. *)

ProjectVersion == 8
WindowFields == <<"Fullscreen", "VSync", "ShowConsole", "Title">>

\* The fields a project of each version has, as save's comments tell.
ProjectFields(version) ==
    <<"RenderAPI">> \o (IF version < 8 THEN <<"Width", "Height">> ELSE <<>>) \o WindowFields \o
    (IF version >= 2 THEN <<"Scenes">> ELSE <<>>) \o (IF version >= 3 THEN <<"SceneIndex">> ELSE <<>>) \o
    (IF version >= 4 THEN <<"Borderless">> ELSE <<>>) \o (IF version >= 5 THEN <<"EngineAssetPath">> ELSE <<>>) \o
    (IF version >= 6 THEN <<"GPUIndex">> ELSE <<>>)

AskedOfProject(version) ==
    <<"RenderAPI">> \o (IF version < 8 THEN <<"Width", "Height">> ELSE <<>>) \o WindowFields \o
    (IF version > 2 THEN <<"Scenes">> ELSE <<>>) \o (IF version > 3 THEN <<"SceneIndex">> ELSE <<>>) \o
    (IF version > 4 THEN <<"Borderless">> ELSE <<>>) \o (IF version > 5 THEN <<"EngineAssetPath">> ELSE <<>>) \o
    (IF version > 6 THEN <<"GPUIndex">> ELSE <<>>)

SaveProject(project) == Node("Project", Pairs(ProjectFields(ProjectVersion), project))

\* What Application::Deserialise assumes when there is no file or it throws.
DefaultProject(project) ==
    [f \in DOMAIN project |->
        IF f \in {"RenderAPI", "Width", "Height", "Borderless", "VSync", "Title", "ShowConsole", "Fullscreen",
                  "EngineAssetPath"} THEN "fallback"
        ELSE IF f = "Scenes" THEN "empty scene" ELSE IF f = "SceneIndex" THEN "first" ELSE project[f]]

\* load: the path of the engine's assets is not optional.
LoadProject(version, node, project) ==
    LET values == Read(node, "Project", AskedOfProject(version))
    IN  IF values = Failed THEN DefaultProject(project)
        ELSE [f \in DOMAIN project |->
                IF f \in DOMAIN values THEN values[f]
                ELSE IF f = "EngineAssetPath" THEN "fallback" ELSE project[f]]
=============================================================================
