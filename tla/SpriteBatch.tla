----------------------------- MODULE SpriteBatch -----------------------------
(***************************************************************************)
(* How RenderGraph draws sprites and text: quads are collected in a vertex *)
(* buffer until its indices or the table of textures run out, then one     *)
(* call draws them and the next buffer is taken (Render2DPass,             *)
(* SubmitTexture, Render2DFlush, TextPass, TextFlush).  A quad names its   *)
(* texture by a slot in the table its batch is drawn with.                 *)
(*                                                                         *)
(* The calls are only recorded: the GPU reads vertex buffers and tables    *)
(* after the whole frame has been recorded, so what is seen (Picture) is   *)
(* what they hold in the end.  Positions, colours and glyph shapes are     *)
(* left out: a quad is known by the texture it was submitted with.         *)
(***************************************************************************)
EXTENDS Naturals, Sequences, SequencesExt, FiniteSets

CONSTANTS
    NoTexture,      \* a sprite of a plain colour
    MaxQuads,       \* Render2DLimits::IndiciesSize / 6
    TextQuads,      \* the quads of TextVertexData in RENDERER_LINE_BUFFER_SIZE bytes
    MaxTextures,    \* Render2DLimits::MaxTextures
    MaxBatches      \* Render2DLimits::MaxBatchDrawCalls

ASSUME BatchAssumption == {MaxQuads, TextQuads, MaxTextures, MaxBatches} \subseteq Nat \ {0}

VARIABLES
    asked,      \* the texture of every quad of the pass, in queue order
    todo,       \* what the pass still has to submit
    data        \* Renderer2DData of the pass, a record:
                \*   table    m_Textures, up to m_TextureCount
                \*   count    m_IndexCount / 6
                \*   batch    m_BatchDrawCallIndex
                \*   memory   the slots written to each vertex buffer
                \*   tables   the textures in each descriptor set
                \*   calls    the calls recorded: [batch, count]
                \*   room     the quads that a vertex buffer of the pass holds

batchVars == <<asked, todo, data>>

EmptyData == [table |-> <<>>, count |-> 0, batch |-> 0,
              memory |-> << <<>> >>, tables |-> <<>>, calls |-> <<>>, room |-> MaxQuads]
-----------------------------------------------------------------------------
\* A mutant of Flushed: the table goes on into the next batch.
FlushedTableKept(d) ==
    [d EXCEPT !.count = 0, !.batch = d.batch + 1,
              !.memory = Append(d.memory, <<>>), !.tables = Append(d.tables, d.table),
              !.calls = Append(d.calls, [batch |-> d.batch, count |-> d.count])]
-----------------------------------------------------------------------------
\* Render2DFlush and TextFlush: the table goes into the descriptor set of the
\* batch, the call is recorded, and the next vertex buffer is taken, empty.
Flushed(d) ==
    [FlushedTableKept(d) EXCEPT !.table = <<>>]

\* The text pass has data of its own and flushes it the same way.
TextFlush(d) == Flushed(d)

\* The flush of a buffer whose indices are used up.
Room(d) == IF d.count >= MaxQuads THEN Flushed(d) ELSE d

\* Quads of one texture are written into the mapped vertex buffer, and nothing
\* looks whether they are still within it.
WithQuads(d, slot, n) ==
    [d EXCEPT !.memory[d.batch + 1] = d.memory[d.batch + 1] \o [i \in 1 .. n |-> slot],
              !.count = d.count + n]

SlotOf(table, texture) == SelectInSeq(table, LAMBDA t : t = texture)

\* SubmitTexture: the slot of the texture, counted from 1, after a flush if
\* the texture is new and the table is full.
SubmitTexture(d, texture) ==
    IF Contains(d.table, texture) THEN d
    ELSE LET e == IF Len(d.table) >= MaxTextures THEN Flushed(d) ELSE d
         IN  [e EXCEPT !.table = Append(e.table, texture)]

\* One turn of Render2DPass's loop.
SubmitSprite(d, texture) ==
    LET e == IF texture = NoTexture THEN Room(d) ELSE SubmitTexture(Room(d), texture)
    IN  WithQuads(e, SlotOf(e.table, texture), 1)

\* One turn of TextPass's loop: the buffer is tested once, before the glyphs
\* of the text, and the table not at all.
SubmitText(d, text) ==
    LET r == IF d.count >= MaxQuads THEN TextFlush(d) ELSE d
        e == IF Contains(r.table, text.font) THEN r
             ELSE [r EXCEPT !.table = Append(r.table, text.font)]
    IN  WithQuads(e, SlotOf(e.table, text.font), text.glyphs)

\* The last flush of a pass, left out when nothing was submitted since.
LastFlush(d) == IF d.count = 0 THEN d ELSE Flushed(d)
-----------------------------------------------------------------------------
BatchInit == asked = <<>> /\ todo = <<>> /\ data = EmptyData

\* BeginScene has set m_BatchDrawCallIndex to 0; the first buffer is bound.
BeginBatches(queue, textures, room) ==
    /\ todo' = queue
    /\ asked' = textures
    /\ data' = [EmptyData EXCEPT !.room = room]

NextSprite ==
    /\ todo # <<>>
    /\ data' = SubmitSprite(data, Head(todo))
    /\ todo' = Tail(todo)
    /\ UNCHANGED asked

NextText ==
    /\ todo # <<>>
    /\ data' = SubmitText(data, Head(todo))
    /\ todo' = Tail(todo)
    /\ UNCHANGED asked

EndBatches ==
    /\ todo = <<>>
    /\ data' = LastFlush(data)
    /\ UNCHANGED <<asked, todo>>
-----------------------------------------------------------------------------
\* The texture the GPU uses for a quad of a call, and for all of them: a quad
\* past the end of the vertex or the index buffer, and a slot past the end of
\* the table, are not there.
Resolved(d, call, i) ==
    LET slot == d.memory[call.batch + 1][i]
    IN  IF slot = 0 THEN NoTexture ELSE d.tables[call.batch + 1][slot]

CallPicture(d, call) ==
    [i \in {n \in 1 .. call.count : n <= MaxQuads /\ n <= d.room} |-> Resolved(d, call, i)]

Picture(d) == FlattenSeq([k \in DOMAIN d.calls |-> CallPicture(d, d.calls[k])])

\* Each call fits its buffers and its table, and there is a descriptor set for it.
CallsFit(d) ==
    /\ \A k \in DOMAIN d.calls :
         /\ d.calls[k].count \in 1 .. d.room
         /\ d.calls[k].count <= MaxQuads
         /\ Len(d.tables[k]) <= MaxTextures
    /\ Len(d.calls) <= MaxBatches

\* What Render2DPass has room for: a batch ends when its buffer is full, or its
\* table, which may be as soon as there are more textures than slots.
SpritesFit(sprites) ==
    LET textures == Range(sprites) \ {NoTexture}
        least == IF Cardinality(textures) <= MaxTextures THEN {MaxQuads}
                 ELSE {MaxQuads, MaxTextures}
    IN  \E n \in least : Len(sprites) <= MaxBatches * n /\ (\A k \in least : n <= k)

\* What TextPass has room for, which tests its buffer against the index buffer's
\* size and only between two texts, and its table not at all.
TextsFit(texts) ==
    /\ FoldSeq(LAMBDA text, n : text.glyphs + n, 0, texts) <= TextQuads
    /\ Cardinality({texts[k].font : k \in DOMAIN texts}) <= MaxTextures
=============================================================================
