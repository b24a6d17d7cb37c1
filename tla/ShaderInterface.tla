-------------------------- MODULE ShaderInterface ---------------------------
(***************************************************************************)
(* VKShader: what a shader is to the rest of the program.  A stage is a    *)
(* SPIR-V binary as SPIRV-Cross reports it,                                *)
(*    [type, inputs, buffers, push, samplers, images],                     *)
(* each a sequence in the order of the variables' ids, which need not be   *)
(* that of their locations or bindings.  From its stages a shader derives  *)
(* the vertex layout, the descriptors of each set and the push constants,  *)
(* and descriptor sets address uniforms by the names found there.          *)
(***************************************************************************)
EXTENDS Integers, Sequences, SequencesExt, FiniteSets, TLC

-----------------------------------------------------------------------------
(* Vertex inputs. *)

NoFormat == [numeric |-> "UNDEFINED", bits |-> 0, channels |-> 0]

\* The widths of each base type Vulkan has a format for.
Widths == [Int |-> {8, 16, 32}, UInt |-> {8, 16, 32}, Float |-> {16, 32},
           Int64 |-> {64}, UInt64 |-> {64}, Double |-> {64}]

Numeric == [Int |-> "SINT", UInt |-> "UINT", Float |-> "SFLOAT",
            Int64 |-> "SINT", UInt64 |-> "UINT", Double |-> "SFLOAT"]

GetVulkanFormat(type) ==
    IF /\ type.base \in DOMAIN Widths /\ type.width \in Widths[type.base]
       /\ type.vecsize \in 1 .. 4
    THEN [numeric |-> Numeric[type.base], bits |-> type.width, channels |-> type.vecsize]
    ELSE NoFormat

\* The bytes of a vertex a format takes: 0, with an error logged, for every
\* format that is not in the table, single 32-bit integers among them.
GetStrideFromVulkanFormat(f) ==
    CASE f.numeric = "SFLOAT" /\ f.bits = 32 -> 4 * f.channels
      [] f.numeric \in {"SINT", "UINT"} /\ f.bits = 32 /\ f.channels > 1 -> 4 * f.channels
      [] f = [numeric |-> "SINT", bits |-> 8, channels |-> 1] -> 4
      [] OTHER -> 0

Strides(inputs, n) ==
    FoldLeft(LAMBDA sum, in : sum + GetStrideFromVulkanFormat(GetVulkanFormat(in.type)),
             0, SubSeq(inputs, 1, n))

\* One interleaved buffer: each input follows the one before it.
VertexAttributes(inputs) ==
    [k \in DOMAIN inputs |->
        [location |-> inputs[k].location, format |-> GetVulkanFormat(inputs[k].type),
         offset |-> Strides(inputs, k - 1)]]

VertexInputStride(inputs) == Strides(inputs, Len(inputs))
-----------------------------------------------------------------------------
(* Descriptors.  A descriptor has a type, the stage and the binding that   *)
(* name it in Vulkan, the name that names it in the program, how many      *)
(* there are of it, and for a buffer its size and its members.             *)

Described(stage, resources, type) ==
    [k \in DOMAIN resources |-> [type |-> type, stage |-> stage.type] @@ resources[k]]

LoadFromData(stage) ==
    Described(stage, stage.buffers, "UNIFORM_BUFFER")
      \o Described(stage, stage.samplers, "IMAGE_SAMPLER")
      \o Described(stage, stage.images, "IMAGE_STORAGE")

\* A shader is [types, stages, declared]: the types of its stages in order,
\* the stages that were loaded, and how many stages Vulkan is told of.
Descriptors(shader) ==
    FlattenSeq([k \in DOMAIN shader.stages |-> LoadFromData(shader.stages[k])])

\* GetDescriptorInfo: what a set of that index holds; empty when there is none.
GetDescriptorInfo(shader, index) ==
    SelectSeq(Descriptors(shader), LAMBDA d : d.set = index)

\* The names Vulkan has for stages and descriptors.
ShaderTypeToVK(type) == IF type = "UNKNOWN" THEN "VERTEX" ELSE type
DescriptorTypeToVK(type) ==
    CASE type = "IMAGE_SAMPLER" -> "COMBINED_IMAGE_SAMPLER"
      [] type = "IMAGE_STORAGE" -> "STORAGE_IMAGE"
      [] OTHER -> type

\* CreatePipelineLayout: a layout for every index up to the largest one used.
SetLayouts(shader) ==
    LET ids == {d.set : d \in ToSet(Descriptors(shader))}
        last == IF ids = {} THEN -1 ELSE CHOOSE i \in ids : \A j \in ids : j <= i
    IN  [n \in 1 .. last + 1 |->
            {[binding |-> d.binding, type |-> DescriptorTypeToVK(d.type),
              stage |-> ShaderTypeToVK(d.stage), count |-> d.count, partial |-> d.count > 1] : d \in ToSet(GetDescriptorInfo(shader, n - 1))}]

\* Every push constant block of a stage starts at offset 0 and is as long as
\* the members the stage uses.
PushConstants(shader) ==
    FlattenSeq([k \in DOMAIN shader.stages |->
        LET stage == shader.stages[k]
        IN  [n \in DOMAIN stage.push |->
                [stage |-> stage.type, offset |-> 0,
                 size |-> FoldLeft(LAMBDA a, b : a + b, 0, stage.push[n].active),
                 members |-> stage.push[n].members]]])

\* The bytes a write touches: {first .. last}; none if no member has the name.
Bytes(offset, size) == offset .. offset + size - 1

SetValue(push, name) ==
    IF name \in DOMAIN push.members
    THEN Bytes(push.members[name].offset, push.members[name].size) ELSE {}

FindBuffer(descriptors, buffer) ==
    SelectSeq(descriptors, LAMBDA d : d.type = "UNIFORM_BUFFER" /\ d.name = buffer)

\* SetUniform on a set with these descriptors: the bytes of the buffer it
\* writes; none, with a warning, if the buffer or its member does not exist.
SetUniform(descriptors, buffer, member) ==
    LET found == FindBuffer(descriptors, buffer)
    IN  IF found # <<>> /\ member \in DOMAIN found[1].members
        THEN Bytes(found[1].members[member].offset, found[1].members[member].size) ELSE {}

\* SetUniform with a size: that many bytes from where the member starts.
SetUniformSized(descriptors, buffer, member, size) ==
    LET found == FindBuffer(descriptors, buffer)
    IN  IF found # <<>> /\ member \in DOMAIN found[1].members
        THEN Bytes(found[1].members[member].offset, size) ELSE {}

\* SetTexture: which bindings it changes.
SetTexture(descriptors, name) ==
    {d.binding : d \in {e \in ToSet(descriptors) :
        e.type \in {"IMAGE_SAMPLER", "IMAGE_STORAGE"} /\ e.name = name}}
-----------------------------------------------------------------------------
(* Loading. *)

Types == <<"VERTEX", "FRAGMENT", "GEOMETRY", "TESSELLATION_CONTROL",
           "TESSELLATION_EVALUATION", "COMPUTE">>

Embedded(stages) ==
    [types |-> [k \in DOMAIN stages |-> stages[k].type], stages |-> stages,
     declared |-> Len(stages)]

\* The text of a shader file is a sequence of lines: [tag |-> type] for a
\* #shader line, type "UNKNOWN" for "#shader end", and [name |-> file] else.
\* A line between the parts belongs to none; a second part of the same type
\* continues the first.
ReadShaderFile(lines) ==
    FoldLeft(LAMBDA read, line :
        IF "tag" \in DOMAIN line
        THEN [type |-> line.tag,
              files |-> IF line.tag \in DOMAIN read.files \cup {"UNKNOWN"} THEN read.files
                        ELSE (line.tag :> <<>>) @@ read.files]
        ELSE IF read.type = "UNKNOWN" THEN read
        ELSE [read EXCEPT !.files[read.type] = Append(@, line.name)],
        [type |-> "UNKNOWN", files |-> <<>>], lines).files

\* Init: the parts in the order of the types, whatever order they are written
\* in; a file that cannot be read is skipped but stays declared.
FromFile(lines, disk) ==
    LET files == ReadShaderFile(lines)
        types == SelectSeq(Types, LAMBDA t : t \in DOMAIN files)
        found == SelectSeq(types, LAMBDA t : files[t] # <<>> /\ files[t][1] \in DOMAIN disk)
    IN  [types |-> types, declared |-> Len(types),
         stages |-> [k \in DOMAIN found |-> [disk[files[found[k]][1]] EXCEPT !.type = found[k]]]]

IsCompute(shader) == shader.types # <<>> /\ shader.types[1] = "COMPUTE"

\* vkCreateShaderModule was called, and succeeds, for a stage at least.
IsCompiled(shader) == shader.stages # <<>>
=============================================================================
