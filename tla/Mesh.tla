--------------------------------- MODULE Mesh ---------------------------------
(*****************************************************************************)
(* The triangulation of the mesh application: its points (point.cc), its     *)
(* edges with their neighbours around each endpoint (edge.cc), the side of a *)
(* seam (side.cc) and Dwyer's sequential algorithm (dwyer.cc), as operators  *)
(* on a mesh. A point is the pair of its coordinates, an edge the set of its *)
(* endpoints, so that the index of an endpoint in an edge is the endpoint    *)
(* itself. Slopes and determinants are exact.                                *)
(*                                                                           *)
(*   m.edge   for each edge of the set edges, its endpoints in the order in  *)
(*            which create had them, its neighbors at each endpoint and in   *)
(*            each direction, and whether it is tentative                    *)
(*   m.first  the first edge of each point                                   *)
(*****************************************************************************)
EXTENDS Integers, Sequences, FiniteSets, FiniteSetsExt, Functions, SequencesExt

CONSTANT MAX_COORD            \* coordinates are in -MAX_COORD .. MAX_COORD - 1

ccw == 0
cw == 1
xdim == 1
ydim == 2
NoEdge == {}
NoPoint == <<>>

-------------------------------------------------------------------------------
(* Geometry.                                                                 *)

Det3(a, b, c) == a[1] * (b[2] * c[3] - b[3] * c[2])
               - a[2] * (b[1] * c[3] - b[3] * c[1])
               + a[3] * (b[1] * c[2] - b[2] * c[1])

\* D is inside the circle of A, B and C: the 4x4 determinant, expanded.
encircled(A, B, C, D, dir) ==
  LET Row(P) == <<P[xdim] - D[xdim], P[ydim] - D[ydim],
                  P[xdim] * P[xdim] + P[ydim] * P[ydim] - D[xdim] * D[xdim] - D[ydim] * D[ydim]>>
  IN  IF dir = cw THEN Det3(Row(C), Row(B), Row(A)) > 0 ELSE Det3(Row(A), Row(B), Row(C)) > 0

\* The angle p1, p2, p3 in direction dir around p2 is 180 degrees or more.
extern_angle(p1, p2, p3, dir) ==
  LET a == IF dir = cw THEN p3 ELSE p1
      c == IF dir = cw THEN p1 ELSE p3
      dx == p2[xdim] - a[xdim]
      dy == p2[ydim] - a[ydim]
      above == (c[ydim] - a[ydim]) * dx - dy * (c[xdim] - a[xdim])  \* times dx, over the line
  IN  IF dx = 0
      THEN IF a[ydim] > p2[ydim] THEN c[xdim] >= p2[xdim] ELSE c[xdim] <= p2[xdim]
      ELSE above >= 0

-------------------------------------------------------------------------------
(* Edges.                                                                    *)

Empty(points) == [edge |-> [e \in {} |-> {}], first |-> [p \in points |-> NoEdge]]

Far(e, p) == CHOOSE q \in e : q # p
Neighbor(m, e, p, dir) == m.edge[e].neighbors[p][dir]
tentative(m, e) == m.edge[e].tentative
set_tentative(m, e, value) == [m EXCEPT !.edge[e].tentative = value]

\* self is put dir of e at its end p; e may be null.
initialize_end(m, self, p, e, dir) ==
  IF e = NoEdge
  THEN [m EXCEPT !.edge[self].neighbors[p] = [d \in {ccw, cw} |-> self], !.first[p] = self]
  ELSE LET next == Neighbor(m, e, p, dir)
       IN  [m EXCEPT !.edge[self].neighbors[p] = [d \in {ccw, cw} |-> IF d = dir THEN next ELSE e],
                     !.edge[e].neighbors[p][dir] = self,
                     !.edge[next].neighbors[p][1 - dir] = self]

create(m, a, b, ea, eb, dir) ==
  LET self == {a, b}
      new == [points |-> <<a, b>>, neighbors |-> [p \in self |-> [d \in {ccw, cw} |-> NoEdge]],
              tentative |-> FALSE]
      added == [m EXCEPT !.edge = [e \in DOMAIN @ \cup {self} |-> IF e = self THEN new ELSE @[e]]]
  IN  initialize_end(initialize_end(added, self, a, ea, dir), self, b, eb, 1 - dir)

Unlinked(m, e, p) ==
  LET cw_nbor == Neighbor(m, e, p, cw)
      ccw_nbor == Neighbor(m, e, p, ccw)
  IN  [m EXCEPT !.edge[cw_nbor].neighbors[p][ccw] = ccw_nbor,
                !.edge[ccw_nbor].neighbors[p][cw] = cw_nbor,
                !.first[p] = IF @ = e THEN ccw_nbor ELSE @]

destroy(m, e) ==
  LET unlinked == FoldSet(LAMBDA p, n : Unlinked(n, e, p), m, e)
  IN  [unlinked EXCEPT !.edge = Restrict(@, DOMAIN @ \ {e})]

\* An edge may not be Delaunay. See if it is the diagonal of a convex
\* quadrilateral that should be flipped; if so, the sides that are not
\* tentative become so. What reaches beyond the points mine is deferred.
reconsider(m, self, mine) ==
  LET n == set_tentative(m, self, FALSE)
      a == m.edge[self].points[1]  b == m.edge[self].points[2]
      ac == Neighbor(m, self, a, ccw)  bc == Neighbor(m, self, b, cw)
      ad == Neighbor(m, self, a, cw)  bd == Neighbor(m, self, b, ccw)
      c == Far(ac, a)  d == Far(ad, a)
      again == SelectSeq(<<ac, ad, bc, bd>>, LAMBDA e : ~tentative(n, e))
      flipped == create(destroy(n, self), c, d, bc, bd, cw)
      Result(mesh, deferred, queue) == [mesh |-> mesh, deferred |-> deferred, again |-> queue]
  IN  IF c \notin mine THEN Result(m, TRUE, <<>>)
      ELSE IF c # Far(bc, b) THEN Result(n, FALSE, <<>>)
      ELSE IF d \notin mine THEN Result(m, TRUE, <<>>)
      ELSE IF d # Far(bd, b) THEN Result(n, FALSE, <<>>)
      ELSE IF encircled(b, c, a, d, ccw) \/ encircled(a, d, b, c, ccw)
      THEN Result(FoldSeq(LAMBDA e, x : set_tentative(x, e, TRUE), flipped, again), FALSE, again)
      ELSE Result(n, FALSE, <<>>)

\* The edge on the hull that lies dir of p.
RECURSIVE HullFrom(_, _, _, _)
HullFrom(m, p, a, dir) ==
  LET b == Neighbor(m, a, p, dir)
  IN  IF b = a \/ extern_angle(Far(a, p), p, Far(b, p), dir) THEN b ELSE HullFrom(m, p, b, dir)

hull_edge(m, p, dir) == IF m.first[p] = NoEdge THEN NoEdge ELSE HullFrom(m, p, m.first[p], dir)

-------------------------------------------------------------------------------
(* A side of a seam: the working point, the edge it came from, the edge it   *)
(* goes to and its far end.                                                  *)

initialize(m, p, dir) ==
  LET b == hull_edge(m, p, dir)
  IN  IF b = NoEdge THEN [p |-> p, a |-> NoEdge, b |-> NoEdge, bp |-> NoPoint, dir |-> dir]
      ELSE [p |-> p, a |-> Neighbor(m, b, p, 1 - dir), b |-> b, bp |-> Far(b, p), dir |-> dir]

\* The edge mid becomes a, and b is dir of it.
update(m, p, mid, dir) ==
  LET b == Neighbor(m, mid, p, dir)
  IN  [p |-> p, a |-> mid, b |-> b, bp |-> Far(b, p), dir |-> dir]

CanMove(s, o) == s.b # NoEdge /\ s.bp # o /\ ~extern_angle(s.bp, s.p, o, 1 - s.dir)

move(m, s) == update(m, s.bp, s.b, s.dir)

\* The candidate on this side for the next edge up the seam; edges are
\* broken on the way. The side's a may have moved.
RECURSIVE Candidate(_, _, _, _)
Candidate(m, s, bottom, o) ==
  LET c == Far(s.a, s.p)
      na == Neighbor(m, s.a, s.p, 1 - s.dir)
  IN  IF na # bottom /\ encircled(o, c, s.p, Far(na, s.p), 1 - s.dir)
      THEN Candidate(destroy(m, s.a), [s EXCEPT !.a = na], bottom, o)
      ELSE [mesh |-> m, side |-> s, point |-> c]

find_candidate(m, s, bottom, o) ==
  IF s.a = bottom \/ extern_angle(o, s.p, Far(s.a, s.p), 1 - s.dir)
  THEN [mesh |-> m, side |-> s, point |-> NoPoint]
  ELSE Candidate(m, s, bottom, o)

-------------------------------------------------------------------------------
(* Dwyer's algorithm.                                                        *)

\* Slide down to the bottom of the seam.
RECURSIVE Bottom(_, _, _)
Bottom(m, left, right) ==
  IF CanMove(left, right.p) THEN Bottom(m, move(m, left), right)
  ELSE IF CanMove(right, left.p) THEN Bottom(m, left, move(m, right))
  ELSE <<left, right>>

\* Work up the seam.
RECURSIVE Up(_, _, _, _, _)
Up(m, left, right, bottom, dir) ==
  LET l == find_candidate(m, left, bottom, right.p)
      r == find_candidate(l.mesh, right, bottom, left.p)
      n == r.mesh
      takeRight == \/ l.point = NoPoint
                   \/ r.point # NoPoint /\ encircled(right.p, l.point, left.p, r.point, dir)
      la == Neighbor(n, l.side.a, l.point, dir)
      ra == Neighbor(n, r.side.a, r.point, 1 - dir)
  IN  IF l.point = NoPoint /\ r.point = NoPoint THEN n
      ELSE IF takeRight
      THEN Up(create(n, left.p, r.point, l.side.a, ra, 1 - dir),
              l.side, [r.side EXCEPT !.p = r.point, !.a = ra], bottom, dir)
      ELSE Up(create(n, l.point, right.p, la, r.side.a, 1 - dir),
              [l.side EXCEPT !.p = l.point, !.a = la], r.side, bottom, dir)

\* A region that is one point gets its first edge.
stitch(m, lp, rp, dir) ==
  LET sides == Bottom(m, initialize(m, lp, 1 - dir), initialize(m, rp, dir))
      bottom == {sides[1].p, sides[2].p}
      n == create(m, sides[1].p, sides[2].p, sides[1].a, sides[2].a, 1 - dir)
      From(s) == IF s.a = NoEdge THEN [s EXCEPT !.a = bottom] ELSE s
  IN  Up(n, From(sides[1]), From(sides[2]), bottom, dir)

\* Two points, or one triangle.
Line(m, points, dir1) == create(m, points[1], points[2], NoEdge, NoEdge, dir1)
Triangle(m, points, dir0, dir1) ==
  LET a == points[1]  b == points[2]  c == points[3]
      two == create(create(m, b, c, NoEdge, NoEdge, dir1), a, b, NoEdge, {b, c}, dir1)
  IN  create(two, a, c, {a, b}, {b, c}, IF extern_angle(a, b, c, dir0) THEN dir0 ELSE dir1)

Half(n) == IF n >= 0 THEN n \div 2 ELSE -((-n) \div 2)

\* The points at most mid come first; exchanged from both ends.
RECURSIVE Partition(_, _, _, _, _)
Partition(points, i, j, dim, mid) ==
  LET i1 == Min({k \in i .. j : k = j \/ points[k][dim] > mid})
      j1 == Max({k \in i1 .. j : k = i1 \/ points[k][dim] <= mid})
  IN  IF i > j THEN [points |-> points, split |-> j]
      ELSE IF i1 < j1
      THEN Partition([points EXCEPT ![i1] = points[j1], ![j1] = points[i1]], i1 + 1, j1 - 1, dim, mid)
      ELSE [points |-> points, split |-> IF points[i1][dim] > mid THEN i1 - 1 ELSE i1]

\* Triangulates a sequence of points, whose order it changes.
RECURSIVE dwyer_solve(_, _, _, _, _)
dwyer_solve(m, points, range0, range1, parity0) ==
  LET swap == range0[2] - range0[1] < range1[2] - range1[1]
      low0 == IF swap THEN range1[1] ELSE range0[1]
      high0 == IF swap THEN range1[2] ELSE range0[2]
      other == IF swap THEN range0 ELSE range1
      parity == IF swap THEN 1 - parity0 ELSE parity0
      dim0 == IF parity = 0 THEN xdim ELSE ydim
      dir0 == IF parity = 0 THEN ccw ELSE cw
      n == Len(points)
      mid == Half(low0) + Half(high0)
      parts == Partition(points, 1, n, dim0, mid)
      Left(mesh) == dwyer_solve(mesh, SubSeq(parts.points, 1, parts.split), <<low0, mid>>, other, parity)
      Right(mesh) == dwyer_solve(mesh, SubSeq(parts.points, parts.split + 1, n), <<mid, high0>>, other, parity)
      left == Left(m)
      right == Right(left.mesh)
      Extreme(s, sign) ==
        s[Min({k \in DOMAIN s : \A l \in DOMAIN s : sign * s[l][dim0] <= sign * s[k][dim0]})]
  IN  IF n = 1 THEN [mesh |-> m, points |-> points]
      ELSE IF n = 2 THEN [mesh |-> Line(m, points, 1 - dir0), points |-> points]
      ELSE IF n = 3 THEN [mesh |-> Triangle(m, points, dir0, 1 - dir0), points |-> points]
      ELSE IF parts.split = 0 THEN Right(m)
      ELSE IF parts.split = n THEN Left(m)
      ELSE [mesh |-> stitch(right.mesh, Extreme(left.points, 1), Extreme(right.points, -1), dir0),
            points |-> left.points \o right.points]

-------------------------------------------------------------------------------
(* The reference: what a Delaunay triangulation is.                          *)

Turn(p, q, r) == (q[xdim] - p[xdim]) * (r[ydim] - p[ydim]) - (q[ydim] - p[ydim]) * (r[xdim] - p[xdim])

\* Two edges that share no endpoint have an inner point in common.
Cross(p, q, r, s) == Turn(p, q, r) * Turn(p, q, s) < 0 /\ Turn(r, s, p) * Turn(r, s, q) < 0

\* The circle through the corners of a triangle has no point inside.
EmptyCircle(p, q, r, points) ==
  \A s \in points : ~encircled(p, q, r, s, IF Turn(p, q, r) > 0 THEN ccw ELSE cw)

\* Points with four on a circle have several: each is a largest set of edges
\* that are sides of triangles with empty circles and do not cross.
IsDelaunay(edges, points) ==
  LET Side(p, q) == \E r \in points : Turn(p, q, r) # 0 /\ EmptyCircle(p, q, r, points)
      candidates == {{p, q} : <<p, q>> \in {pq \in points \X points : pq[1] # pq[2] /\ Side(pq[1], pq[2])}}
      Crosses(e, f) == \E p \in e, r \in f : Cross(p, Far(e, p), r, Far(f, r))
  IN  /\ edges \subseteq candidates
      /\ \A e, f \in edges : ~Crosses(e, f)
      /\ \A e \in candidates \ edges : \E f \in edges : Crosses(e, f)

\* The neighbours of an edge around an endpoint are edges of that endpoint,
\* they have the edge for a neighbour in the other direction, and around
\* each point the ring has all its edges.
IsMesh(m) ==
  /\ \A e \in DOMAIN m.edge : \A p \in e : \A dir \in {ccw, cw} :
       LET n == Neighbor(m, e, p, dir)
       IN  n \in DOMAIN m.edge /\ p \in n /\ Neighbor(m, n, p, 1 - dir) = e
  /\ \A p \in DOMAIN m.first :
       IF m.first[p] = NoEdge THEN \A e \in DOMAIN m.edge : p \notin e
       ELSE m.first[p] \in DOMAIN m.edge /\ p \in m.first[p]
===============================================================================
