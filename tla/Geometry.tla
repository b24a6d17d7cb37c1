------------------------------ MODULE Geometry ------------------------------
(***************************************************************************)
(* Boxes, spheres, planes, frustums and rays (excimer/maths), and the two  *)
(* decisions the program takes with them: which meshes, sprites and lights *)
(* BeginScene leaves out because the camera cannot see them, and which     *)
(* entity a click in the scene view selects.                               *)
(*                                                                         *)
(* Coordinates are integers.  A plane is not normalised: only signs of     *)
(* distances matter, and a comparison with a radius is squared.            *)
(***************************************************************************)
EXTENDS Integers, Sequences, FiniteSets, SequencesExt

CONSTANT Huge       \* FLT_MAX: larger than every coordinate

ASSUME HugeAssumption == Huge \in Nat

Axes == 1 .. 3
Vec(f(_)) == <<f(1), f(2), f(3)>>

Dot(u, v) == u[1] * v[1] + u[2] * v[2] + u[3] * v[3]
Plus(u, v) == Vec(LAMBDA i : u[i] + v[i])
Minus(u, v) == Vec(LAMBDA i : u[i] - v[i])
Length2(v) == Dot(v, v)
Least(a, b) == IF a < b THEN a ELSE b
Most(a, b) == IF a > b THEN a ELSE b
Abs(a) == IF a < 0 THEN -a ELSE a

\* An affine transform: the rows of a 3 x 3 matrix, and a translation.
Apply(m, p) == Vec(LAMBDA i : Dot(m.rows[i], p) + m.move[i])
-----------------------------------------------------------------------------
(* BoundingBox and Rect. *)

Box(min, max) == [min |-> min, max |-> max]
EmptyBox == Box(<<Huge, Huge, Huge>>, <<-Huge, -Huge, -Huge>>)

MergePoint(b, p) ==
    Box(Vec(LAMBDA i : Least(b.min[i], p[i])), Vec(LAMBDA i : Most(b.max[i], p[i])))

MergeBox(b, other) ==
    Box(Vec(LAMBDA i : Least(b.min[i], other.min[i])),
        Vec(LAMBDA i : Most(b.max[i], other.max[i])))

BoxOfPoints(points) == FoldLeft(LAMBDA b, p : MergePoint(b, p), EmptyBox, points)

\* BoundingBox(rect, center), for a rectangle of a position and a size.
BoxOfRect(position, size) ==
    Box(<<position[1], position[2], 0>>, <<position[1] + size[1], position[2] + size[2], 0>>)

\* Transformed: the image of the centre, and half extents summed by absolute
\* value.  Twice the result is computed, which is always even.
TransformedWith(b, m, row(_)) ==
    LET centre == Vec(LAMBDA i : Dot(m.rows[i], Plus(b.min, b.max)) + 2 * m.move[i])
        edge   == Vec(LAMBDA i : Dot(row(m.rows[i]), Minus(b.max, b.min)))
    IN  Box(Vec(LAMBDA i : (centre[i] - edge[i]) \div 2),
            Vec(LAMBDA i : (centre[i] + edge[i]) \div 2))

\* A mutant: the extents are multiplied with the matrix itself, as Rotate does.
TransformedSigned(b, m) == TransformedWith(b, m, LAMBDA r : r)

Transformed(b, m) == TransformedWith(b, m, LAMBDA r : Vec(LAMBDA i : Abs(r[i])))

InBox(b, p) == \A i \in Axes : b.min[i] <= p[i] /\ p[i] <= b.max[i]

\* IsInside(box): "OUTSIDE", "INTERSECTS" or "INSIDE".
BoxInBox(b, other) ==
    IF \E i \in Axes : other.max[i] < b.min[i] \/ other.min[i] > b.max[i] THEN "OUTSIDE"
    ELSE IF \E i \in Axes : other.min[i] < b.min[i] \/ other.max[i] > b.max[i]
         THEN "INTERSECTS"
    ELSE "INSIDE"

\* IsInside(sphere): by the distance of the centre to the box.
SphereInBox(b, s) ==
    LET gap(i) == IF s.centre[i] < b.min[i] THEN s.centre[i] - b.min[i]
                  ELSE IF s.centre[i] > b.max[i] THEN s.centre[i] - b.max[i] ELSE 0
    IN  IF Length2(Vec(gap)) > s.radius * s.radius THEN "OUTSIDE"
        ELSE IF \E i \in Axes : \/ s.centre[i] - s.radius < b.min[i]
                                \/ s.centre[i] + s.radius > b.max[i] THEN "INTERSECTS"
        ELSE "INSIDE"

InSphere(s, p) == Length2(Minus(p, s.centre)) <= s.radius * s.radius
-----------------------------------------------------------------------------
(* Plane and Frustum.  A view is the four rows of projection * view.       *)

Plane(row) == [normal |-> <<row[1], row[2], row[3]>>, distance |-> row[4]]
Distance(plane, p) == Dot(p, plane.normal) + plane.distance

Rows(r, s, sign) == [k \in 1 .. 4 |-> r[k] + sign * s[k]]

\* Define: left, right, down, up, near, far.
Planes(view) ==
    {Plane(Rows(view[4], view[i], sign)) : i \in Axes, sign \in {1, -1}}

FrustumHasPoint(view, p) == \A plane \in Planes(view) : Distance(plane, p) >= 0

\* The corner of the box that is furthest along the plane's normal.
Furthest(b, normal) == Vec(LAMBDA i : IF normal[i] >= 0 THEN b.max[i] ELSE b.min[i])

FrustumHasBox(view, b) ==
    \A plane \in Planes(view) : Distance(plane, Furthest(b, plane.normal)) >= 0

FrustumHasSphere(view, s) ==
    \A plane \in Planes(view) :
        LET d == Distance(plane, s.centre)
        IN  d >= 0 \/ d * d <= s.radius * s.radius * Length2(plane.normal)

\* What the GPU shows of a point: x and y within -w .. w, z within 0 .. w.
Visible(view, p) ==
    LET clip(k) == Dot(p, <<view[k][1], view[k][2], view[k][3]>>) + view[k][4]
    IN  /\ \A i \in 1 .. 2 : -clip(4) <= clip(i) /\ clip(i) <= clip(4)
        /\ 0 <= clip(3) /\ clip(3) <= clip(4)
-----------------------------------------------------------------------------
(***************************************************************************)
(* Ray::Intersects: the six faces are tried in turn; a face counts when the *)
(* ray comes from its outside and meets its plane within the box.  The     *)
(* distance is in units of Direction, here a fraction <<n, d>> with d > 0. *)
(***************************************************************************)
Infinity == <<1, 0>>
Closer(s, t) == s[1] * t[2] < t[1] * s[2]

\* The distance to the face of an axis, and whether the ray meets the face.
FaceDistance(ray, face, i) ==
    IF ray.dir[i] > 0 THEN <<face - ray.origin[i], ray.dir[i]>>
    ELSE <<ray.origin[i] - face, -ray.dir[i]>>

MeetsFace(b, ray, i, t) ==
    \A j \in Axes \ {i} :
        LET at == t[2] * ray.origin[j] + t[1] * ray.dir[j]
        IN  t[2] * b.min[j] <= at /\ at <= t[2] * b.max[j]

TryFace(b, ray, i, face, dist) ==
    LET t == FaceDistance(ray, face, i)
    IN  IF Closer(t, dist) /\ MeetsFace(b, ray, i, t) THEN t ELSE dist

TryAxis(b, ray, i, dist) ==
    IF ray.origin[i] < b.min[i] /\ ray.dir[i] > 0 THEN TryFace(b, ray, i, b.min[i], dist)
    ELSE IF ray.origin[i] > b.max[i] /\ ray.dir[i] < 0 THEN TryFace(b, ray, i, b.max[i], dist)
    ELSE dist

Intersects(b, ray) ==
    IF InBox(b, ray.origin) THEN <<0, 1>>
    ELSE TryAxis(b, ray, 3, TryAxis(b, ray, 2, TryAxis(b, ray, 1, Infinity)))
-----------------------------------------------------------------------------
(***************************************************************************)
(* What BeginScene shows and Editor::SelectObject picks.  A model is its   *)
(* transform and a sequence of meshes, each a box and whether it is active; *)
(* a sprite is its transform, position and scale.  An entity is its group  *)
(* and its place in it.                                                    *)
(***************************************************************************)
SpriteBox(sprite) == Transformed(BoxOfRect(sprite.position, sprite.scale), sprite.transform)

\* SelectObject gives the far corner where Rect takes a size, for sprites and
\* animated ones: the box is wrong wherever the position is not zero.
PickBox(sprite) ==
    LET far == <<sprite.position[1] + sprite.scale[1], sprite.position[2] + sprite.scale[2]>>
    IN  Transformed(BoxOfRect(sprite.position, far), sprite.transform)

Shown(model, view) ==
    {k \in DOMAIN model.meshes :
        /\ model.meshes[k].active
        /\ FrustumHasBox(view, Transformed(model.meshes[k].box, model.transform))}

\* The frustum is set only in frames that draw meshes: else the sprites are
\* tested with the one that is left, at first that of no camera.
NoCamera == << <<1, 0, 0, 0>>, <<0, 1, 0, 0>>, <<0, 0, 1, 0>>, <<0, 0, 0, 1>> >>
FrustumView(on3D, view, left) == IF on3D THEN view ELSE left

SpriteShown(sprite, frustum) == FrustumHasBox(frustum, SpriteBox(sprite))

\* A directional light is always taken, another by a hundred times its radius.
LightShown(light, view) ==
    \/ light.type = "directional"
    \/ FrustumHasSphere(view, [centre |-> light.position, radius |-> light.radius * 100])

None == <<"none", 0>>

\* The first of the closest among the active meshes of all models, in order.
NearestModel(models, ray) ==
    LET boxes(k) == [n \in DOMAIN models[k].meshes |->
                        [entity |-> <<"model", k>>, active |-> models[k].meshes[n].active,
                         box |-> Transformed(models[k].meshes[n].box, models[k].transform)]]
        try(best, c) ==
            LET t == Intersects(c.box, ray)
            IN  IF c.active /\ Closer(t, best.dist) THEN [dist |-> t, entity |-> c.entity] ELSE best
    IN  FoldLeft(try, [dist |-> Infinity, entity |-> None],
                 FlattenSeq([k \in DOMAIN models |-> boxes(k)]))

NearestSprite(sprites, ray, best) ==
    LET try(acc, k) ==
            LET t == Intersects(PickBox(sprites[k]), ray)
            IN  IF Closer(t, acc.dist) THEN [dist |-> t, entity |-> <<"sprite", k>>] ELSE acc
    IN  FoldLeftDomain(try, best, sprites)

\* again: the last click was less than a second ago, and the selected model
\* stays selected.  While anything is selected the sprites are not looked at.
SelectObject(models, sprites, ray, selected, again) ==
    LET model == NearestModel(models, ray)
    IN  IF selected = None THEN NearestSprite(sprites, ray, model).entity
        ELSE IF selected = model.entity /\ ~again THEN None
        ELSE model.entity
-----------------------------------------------------------------------------
(* UpdateCascades: the part of the view that each shadow map covers. *)

ShadowMapNum == 4
ShadowMapSize == 1024

\* cascadeSplits, in parts of 400 * range, for a camera that sees from a
\* distance of 1 to root^4 and a lambda in percent; the last one is fixed.
CascadeSplit(root, lambda, i) ==
    LET range == root^ShadowMapNum - 1
    IN  IF i = ShadowMapNum THEN 35 * ShadowMapNum * range
        ELSE lambda * (root^i - 1) * ShadowMapNum + (100 - lambda) * range * i

\* The corners of a slice of the view, four near ones and then four far ones,
\* between two splits in percent; they come out a hundred times as large.
SliceCorners(corners, from, to) ==
    [j \in 1 .. 8 |->
        LET near == corners[((j - 1) % 4) + 1]
            dist == Minus(corners[((j - 1) % 4) + 5], near)
        IN  Vec(LAMBDA i : 100 * near[i] + dist[i] * (IF j > 4 THEN to ELSE from))]

\* The centre, eight times a corner, and where a point is from there: 800 times
\* as far as in the world.
SliceCentre(slice) == Vec(LAMBDA i : FoldLeft(LAMBDA sum, q : sum + q[i], 0, slice))
FromCentre(centre, p) == Vec(LAMBDA i : 8 * p[i] - centre[i])

\* The radius of a sphere around the slice, rounded up.
RoundedUp(length2) == CHOOSE r \in 0 .. Huge : r * r * 640000 >= length2 /\ (r = 0 \/ (r - 1) * (r - 1) * 640000 < length2)
FurthestCorner(slice, centre) ==
    FoldLeft(LAMBDA most, q : Most(most, Length2(FromCentre(centre, q))), 0, slice)
CascadeRadius(slice, centre) == RoundedUp(FurthestCorner(slice, centre))

\* glm::round, of n / d.
Rounded(n, d) == IF n >= 0 THEN (2 * n + d) \div (2 * d) ELSE -((d - 2 * n) \div (2 * d))

\* Where a point falls in the shadow map of a slice: the texel from the middle
\* along one axis of the light, whose length is given, as a numerator of
\* TexelUnit.  The world's origin is moved to a whole texel.
TexelUnit(radius, length) == 800 * radius * length
UnsnappedTexel(centre, axis, p) == (ShadowMapSize \div 2) * Dot(axis, FromCentre(centre, p))
Snapped(texel, origin, unit) == texel + Rounded(origin, unit) * unit - origin
Texel(centre, axis, unit, p) ==
    Snapped(UnsnappedTexel(centre, axis, p), UnsnappedTexel(centre, axis, <<0, 0, 0>>), unit)

\* The distance from the eye, which is the radius before the centre, in the
\* direction of the light; between the two planes of the projection.
CascadeNear == -50
CascadeFar(radius) == 2 * radius + 50
CascadeDepth(centre, axis, unit, p) == Dot(axis, FromCentre(centre, p)) + unit
=============================================================================
