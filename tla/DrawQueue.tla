------------------------------ MODULE DrawQueue ------------------------------
(***************************************************************************)
(* The meshes of a frame from the queue to the command buffer: BeginScene  *)
(* chooses a pipeline for each and sorts them, and the passes that draw    *)
(* them bind the pipelines, each of which begins a render pass and ends    *)
(* the one before.                                                         *)
(*                                                                         *)
(* A mesh is a record [name, flags, distance], with the flags of its       *)
(* material and its distance from the camera; a pipeline is what is asked  *)
(* of Pipeline::Get, which hands out the same one for the same request.    *)
(***************************************************************************)
EXTENDS Integers, Sequences, SequencesExt, TLC
-----------------------------------------------------------------------------
(* BeginScene. *)

\* The target for depths stays in the request once a mesh has asked for it.
Request(mesh, depthTarget) ==
    [cullMode |-> IF "TWOSIDED" \in mesh.flags THEN "NONE" ELSE "BACK",
     transparencyEnabled |-> "ALPHABLEND" \in mesh.flags,
     depthTarget |-> depthTarget]

Queued(q, mesh, depthTarget) ==
    [depthTarget |-> depthTarget,
     commands |-> Append(q.commands, [mesh |-> mesh, pipeline |-> Request(mesh, depthTarget)])]

Commands(meshes, depthTest) ==
    FoldLeft(LAMBDA q, mesh : Queued(q, mesh, q.depthTarget \/ (depthTest /\ "DEPTHTEST" \in mesh.flags)),
             [depthTarget |-> FALSE, commands |-> <<>>], meshes).commands

\* What does not test depths comes last, and near before far.
DrawnBefore(a, b) ==
    LET tested(c) == "DEPTHTEST" \in c.mesh.flags
    IN  IF tested(a) = tested(b) THEN a.mesh.distance < b.mesh.distance ELSE tested(a)

\* The meshes are sorted where the sprites are put in the queue, so not without.
SortedQueue(commands, renderer2D) == IF renderer2D THEN SortSeq(commands, DrawnBefore) ELSE commands
-----------------------------------------------------------------------------
(* The command buffer: the pipeline it has bound, and what it records. *)

NoPipeline == [cullMode |-> "none"]
NewCommandBuffer == [bound |-> NoPipeline, calls |-> <<>>]

Recorded(c, call) == [c EXCEPT !.calls = Append(@, call)]

\* The swapchain's images are upside down.
Viewport(width, height, flip) ==
    IF flip THEN [x |-> 0, y |-> height, width |-> width, height |-> -height]
    ELSE [x |-> 0, y |-> 0, width |-> width, height |-> height]
Scissor(width, height) == [x |-> 0, y |-> 0, width |-> width, height |-> height]

\* VKPipeline::Bind and End.
Begin(c, pipeline) == Recorded(c, [do |-> "begin", pipeline |-> pipeline])
End(c) == Recorded(c, [do |-> "end"])

UnBindPipeline(c) == IF c.bound = NoPipeline THEN c ELSE [End(c) EXCEPT !.bound = NoPipeline]

BindPipeline(c, pipeline) ==
    IF c.bound = pipeline THEN c ELSE [Begin(UnBindPipeline(c), pipeline) EXCEPT !.bound = pipeline]

DrawMesh(c, mesh) == Recorded(c, [do |-> "draw", mesh |-> mesh])
-----------------------------------------------------------------------------
(* The passes. *)

DepthOnly == [cullMode |-> "BACK", transparencyEnabled |-> FALSE, depthTarget |-> TRUE, pass |-> "depth"]

InPrePass(command) == "DEPTHTEST" \in command.mesh.flags /\ "ALPHABLEND" \notin command.mesh.flags

DepthPrePass(c, queue) ==
    UnBindPipeline(FoldLeft(LAMBDA d, command : DrawMesh(d, command.mesh),
                            BindPipeline(c, DepthOnly), SelectSeq(queue, InPrePass)))

\* With an empty queue the loop draws nothing and nothing is bound at its end.
ForwardPass(c, queue) ==
    UnBindPipeline(FoldLeft(LAMBDA d, command : DrawMesh(BindPipeline(d, command.pipeline), command.mesh), c, queue))
=============================================================================
