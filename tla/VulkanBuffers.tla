---------------------------- MODULE VulkanBuffers ----------------------------
(***************************************************************************)
(* The buffers of vertices, indices and uniforms (VKBuffer and the three   *)
(* classes made from it), on the memory that Vulkan's allocator hands out. *)
(*                                                                         *)
(* s is one object of the program and what it works on: size is VKBuffer's *)
(* m_Size and asked the derived class's own member of that name; handle is *)
(* m_Buffer with m_Allocation; mapped is where m_Mapped points to; held is *)
(* m_MappedBuffer.  Blocks of memory have numbers, 0 is none of them; a    *)
(* block is a record [size, maps, holds], and memory is coherent: nothing  *)
(* is lost where the code does not flush.  What the allocator or a debug   *)
(* build would report ends up in faults.                                   *)
(***************************************************************************)
EXTENDS Integers, Sequences, SequencesExt, FiniteSets, Functions, TLC

Null == 0
NoData == <<>>
-----------------------------------------------------------------------------
(* The allocator. *)

Live(s) == DOMAIN s.blocks

Fault(s, what) == [s EXCEPT !.faults = @ \cup {what}]

vmaCreateBuffer(s, size) ==
    [s EXCEPT !.made = @ + 1, !.handle = s.made + 1,
              !.blocks = @ @@ ((s.made + 1) :> [size |-> size, maps |-> 0, holds |-> [i \in 1 .. size |-> Null]])]

vmaDestroyBuffer(s, h) ==
    IF h \notin Live(s) THEN Fault(s, "freed twice")
    ELSE [s EXCEPT !.blocks = Restrict(@, Live(s) \ {h}),
                   !.faults = IF s.blocks[h].maps > 0 THEN @ \cup {"freed while mapped"} ELSE @]

vmaMapMemory(s, h) ==
    IF h \notin Live(s) THEN Fault(s, "mapped after free") ELSE [s EXCEPT !.blocks[h].maps = @ + 1]

vmaUnmapMemory(s, h) ==
    IF h \notin Live(s) \/ s.blocks[h].maps = 0 THEN Fault(s, "not mapped")
    ELSE [s EXCEPT !.blocks[h].maps = @ - 1]

\* A write through a pointer into the block h.
memcpy(s, h, data) ==
    IF h \notin Live(s) \/ s.blocks[h].maps = 0 THEN Fault(s, "written where nothing is mapped")
    ELSE IF Len(data) > s.blocks[h].size THEN Fault(s, "written past the end")
    ELSE [s EXCEPT !.blocks[h].holds =
             [i \in DOMAIN @ |-> IF i <= Len(data) THEN data[i] ELSE @[i]]]
-----------------------------------------------------------------------------
(* VKBuffer. *)

New(s) == [s EXCEPT !.size = 0, !.asked = 0, !.handle = Null, !.mapped = Null, !.held = FALSE]

Map(s) == [vmaMapMemory(s, s.handle) EXCEPT !.mapped = s.handle]

UnMap(s) == IF s.mapped = Null THEN s ELSE [vmaUnmapMemory(s, s.handle) EXCEPT !.mapped = Null]

Copied(s, data) == memcpy(s, s.mapped, data)
SetData(s, data) == UnMap(Copied(Map(s), data))

Filled(s, data) == IF data = NoData THEN s ELSE SetData(s, data)
Init(s, size, data) == Filled(vmaCreateBuffer([s EXCEPT !.size = size], size), data)

\* The old buffer goes at once, whoever still reads it.
Resize(s, size, data) ==
    Init(IF s.handle = Null THEN s ELSE vmaDestroyBuffer(s, s.handle), size, data)

\* ~VKBuffer: the buffer goes when the frame's deletion queue is flushed.
Destroyed(s) ==
    IF s.handle = Null THEN s ELSE [s EXCEPT !.queue = Append(@, s.handle)]

\* DeletionQueue::Flush.
FlushDeletors(s) == [FoldLeft(vmaDestroyBuffer, s, Reverse(s.queue)) EXCEPT !.queue = <<>>]
-----------------------------------------------------------------------------
(* Vertices and indices. *)

GetPointer(s) == IF s.held THEN s ELSE [Map(s) EXCEPT !.held = TRUE]

ReleasePointer(s) == IF s.held THEN [UnMap(s) EXCEPT !.held = FALSE] ELSE s

ResizeVertices(s, size) ==
    IF s.asked = size THEN s ELSE Resize([s EXCEPT !.asked = size], size, NoData)

SetVertices(s, data) ==
    IF s.asked = Len(data) THEN SetData(s, data)
    ELSE Resize([s EXCEPT !.asked = Len(data)], Len(data), data)

\* Indices are made with their data; the 16-bit ones are never asked for.
NewIndices(s, data) == [Init(New(s), Len(data), data) EXCEPT !.asked = Len(data)]

\* The destructors of both, and then that of VKBuffer.
Deleted(s) == Destroyed(ReleasePointer(s))

\* The command buffer keeps the handle of the moment.
Bind(s) == [s EXCEPT !.bound = Append(@, s.handle)]
-----------------------------------------------------------------------------
(* Uniforms. *)

NewUniform(s, size) == Init(New(s), size, NoData)

\* SetData(data) writes all of it.
SetUniform(s, data) == UnMap(Copied(Map(s), SubSeq(data, 1, s.size)))
-----------------------------------------------------------------------------
(* The sizes of the render graph's buffers, in bytes. *)

MaxPrimitives == 10000
PointVertex == 44
LineVertex == 28
SpriteVertex == 44
TextVertex == 60
LineBufferSize == LineVertex * 4 * (MaxPrimitives * 2)
PointBufferSize == PointVertex * 4 * (MaxPrimitives * 4)
SpriteBufferSize == MaxPrimitives * SpriteVertex * 4

\* What is drawn with each: the buffer, the bytes and the indices of one, and
\* the indices there are.
Batches ==
    [sprites |-> [buffer |-> SpriteBufferSize, each |-> 4 * SpriteVertex, indices |-> 6, of |-> MaxPrimitives * 6],
     text    |-> [buffer |-> LineBufferSize, each |-> 4 * TextVertex, indices |-> 6, of |-> MaxPrimitives * 6],
     points  |-> [buffer |-> PointBufferSize, each |-> 4 * PointVertex, indices |-> 6, of |-> MaxPrimitives * 6],
     lines   |-> [buffer |-> LineBufferSize, each |-> 2 * LineVertex, indices |-> 2, of |-> MaxPrimitives * 6]]

\* How many of a kind one batch takes.
Capacity(kind) ==
    LET b == Batches[kind]
    IN  IF b.buffer \div b.each < b.of \div b.indices THEN b.buffer \div b.each ELSE b.of \div b.indices
=============================================================================
