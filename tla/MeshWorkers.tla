----------------------------- MODULE MeshWorkers ------------------------------
(*****************************************************************************)
(* The workers of the parallel triangulation (worker.cc) and their barrier   *)
(* (barrier.h). Each triangulates the points of its stripe; then it stitches *)
(* the seam to the stripe on its right, first where the seam is its own and  *)
(* then, in transactions, where others may be; then all reconsider the edges *)
(* that may not be Delaunay, again first their own. A transaction is a step, *)
(* a private phase goes one edge at a time.                                  *)
(*****************************************************************************)
EXTENDS Mesh

CONSTANTS
  num_workers,                \* at least 2
  PointLists                  \* the inputs: sequences of points

VARIABLES
  all_points,                 \* as created
  sorted_points,              \* by stripe
  regions,                    \* counts, npts, leftmost, rightmost and the queue of each worker
  worker,                     \* the locals of each worker
  bar,                        \* the count of each parity, and the parity
  mesh,
  touched                     \* history: words read and written and hash tables changed
                              \* by each worker since the barrier, in private
vars == <<all_points, sorted_points, regions, worker, bar, mesh, touched>>

Workers == 0 .. num_workers - 1
Points == Range(all_points)
num_points == Len(all_points)
Untouched == [read |-> {}, written |-> {}, tables |-> {}]

\* create_points has run, and main has started the workers.
Init ==
  /\ all_points \in PointLists
  /\ sorted_points = [i \in 1 .. num_points |-> NoPoint]
  /\ regions = [w \in Workers |-> [counts |-> <<>>, npts |-> 0, leftmost |-> NoPoint,
                                   rightmost |-> NoPoint, tentative |-> <<>>]]
  /\ worker = [w \in Workers |->
                [phase |-> 1, pc |-> "work", parity |-> 0, my_start |-> 0,
                 left |-> NoPoint, right |-> NoPoint, starter |-> NoEdge, cur |-> NoEdge,
                 mine |-> <<>>, hand |-> NoEdge, again |-> <<>>, victim |-> w, back |-> "own"]]
  /\ bar = [count |-> [p \in 0 .. 1 |-> 0], parity |-> 0]
  /\ mesh = Empty(Points)
  /\ touched = [w \in Workers |-> Untouched]

-------------------------------------------------------------------------------
(* The division of labour (point.h).                                         *)

Xs == {p[xdim] : p \in Points}
bucket(p) == ((p[xdim] - Min(Xs)) * num_workers * 2) \div (Max(Xs) - Min(Xs) + 1)
stripe(p) == bucket(p) \div 2
closest_seam(p) ==
  LET b == bucket(p)
  IN  IF b = 0 THEN 0 ELSE IF b = num_workers * 2 - 1 THEN num_workers - 2 ELSE (b - 1) \div 2

\* The hash table of an edge.
segment(e) == Min({bucket(p) : p \in e})

-------------------------------------------------------------------------------
(* Phases and the barrier between them.                                      *)

In(w, phase, pc) == worker[w].phase = phase /\ worker[w].pc = pc
Waits(w) == worker' = [worker EXCEPT ![w].pc = "wait"]

\* A word of an edge: its neighbors at an endpoint, or the tentative flag.
Flag == NoPoint
Word(m, e, at) == IF e \notin DOMAIN m.edge THEN {} ELSE
                  IF at = Flag THEN {tentative(m, e)} ELSE {m.edge[e].neighbors[at]}
Changed == UNION {{<<e, at>> : at \in {f \in e \cup {Flag} : Word(mesh, e, f) # Word(mesh', e, f)}} :
                    e \in DOMAIN mesh.edge \cup DOMAIN mesh'.edge}
Rehashed == {segment(e) : e \in SymDiff(DOMAIN mesh.edge, DOMAIN mesh'.edge)}
Touches(w, read) ==
  touched' = [touched EXCEPT ![w].read = @ \cup read, ![w].written = @ \cup Changed,
                             ![w].tables = @ \cup Rehashed]

Released(w) == [worker[w] EXCEPT !.phase = @ + 1, !.pc = IF worker[w].phase = 11 THEN "own" ELSE "work"]

\* The last to arrive empties its count and turns the parity.
wait(w) ==
  LET last == bar.count[bar.parity] + 1 = num_workers
  IN  /\ worker[w].pc = "wait"
      /\ bar' = [count |-> [bar.count EXCEPT ![bar.parity] = IF last THEN 0 ELSE @ + 1],
                 parity |-> IF last THEN 1 - bar.parity ELSE bar.parity]
      /\ worker' = [worker EXCEPT ![w] = IF last THEN Released(w)
                                         ELSE [@ EXCEPT !.pc = "blocked", !.parity = bar.parity]]
      /\ touched' = IF last THEN [v \in Workers |-> Untouched] ELSE touched
      /\ UNCHANGED <<all_points, sorted_points, regions, mesh>>

Woken(w) ==
  /\ worker[w].pc = "blocked" /\ bar.count[worker[w].parity] = 0
  /\ worker' = [worker EXCEPT ![w] = Released(w)]
  /\ UNCHANGED <<all_points, sorted_points, regions, bar, mesh, touched>>

-------------------------------------------------------------------------------
(* Partitioning.                                                             *)

Given(w) == (num_points * w) \div num_workers + 1 .. (num_points * (w + 1)) \div num_workers

Counts(w) ==
  /\ In(w, 1, "work") /\ Waits(w)
  /\ regions' = [regions EXCEPT ![w].counts =
                  [i \in Workers |-> Cardinality({k \in Given(w) : stripe(all_points[k]) = i})]]
  /\ UNCHANGED <<all_points, sorted_points, bar, mesh, touched>>

\* Where the points of region i that come from worker j start.
Start(i, j) == MapThenSumSet(LAMBDA r : MapThenSumSet(LAMBDA v : regions[v].counts[r], Workers), 0 .. i - 1)
             + MapThenSumSet(LAMBDA v : regions[v].counts[i], 0 .. j - 1)

\* peer_start[i] goes up with each point given to region i.
Gives(w) ==
  LET Place(k) == Start(stripe(all_points[k]), w)
                  + Cardinality({l \in Given(w) : l <= k /\ stripe(all_points[l]) = stripe(all_points[k])})
  IN  /\ In(w, 2, "work")
      /\ worker' = [worker EXCEPT ![w].pc = "wait", ![w].my_start = Start(w, 0)]
      /\ regions' = [regions EXCEPT ![w].npts = Start(w, num_workers) - Start(w, 0)]
      /\ sorted_points' = [i \in DOMAIN sorted_points |->
                            IF \E k \in Given(w) : Place(k) = i
                            THEN all_points[CHOOSE k \in Given(w) : Place(k) = i] ELSE sorted_points[i]]
      /\ UNCHANGED <<all_points, bar, mesh, touched>>

\* Worker 0 lets all_points be the sorted points.
Renames(w) ==
  /\ In(w, 3, "work") /\ Waits(w)
  /\ all_points' = IF w = 0 THEN sorted_points ELSE all_points
  /\ UNCHANGED <<sorted_points, regions, bar, mesh, touched>>

-------------------------------------------------------------------------------
(* Dwyer triangulation of each stripe, and the first edge of each seam.      *)

Mine(w) == worker[w].my_start + 1 .. worker[w].my_start + regions[w].npts
MinX(w) == Min({sorted_points[i][xdim] : i \in Mine(w)})
MaxX(w) == Max({sorted_points[i][xdim] : i \in Mine(w)})

Dwyer(w) ==
  LET start == worker[w].my_start
      points == SubSeq(sorted_points, start + 1, start + regions[w].npts)
      solved == dwyer_solve(mesh, points, <<MinX(w), MaxX(w)>>, <<-MAX_COORD, MAX_COORD - 1>>, 0)
  IN  /\ In(w, 4, "work") /\ Waits(w)
      /\ IF points = <<>> THEN UNCHANGED <<mesh, sorted_points, touched>>
         ELSE /\ mesh' = solved.mesh /\ Touches(w, {})
              /\ sorted_points' = [i \in DOMAIN sorted_points |->
                                    IF i \in Mine(w) THEN solved.points[i - start] ELSE sorted_points[i]]
      /\ UNCHANGED <<all_points, regions, bar>>

\* Of several, the last that has the extreme coordinate.
Extremes(w) ==
  LET LastAt(x) == sorted_points[Max({i \in Mine(w) : sorted_points[i][xdim] = x})]
  IN  /\ In(w, 5, "work") /\ Waits(w)
      /\ regions' = IF Mine(w) = {} THEN regions
                    ELSE [regions EXCEPT ![w].leftmost = LastAt(MinX(w)), ![w].rightmost = LastAt(MaxX(w))]
      /\ UNCHANGED <<all_points, sorted_points, bar, mesh, touched>>

Right(w) == {v \in w + 1 .. num_workers - 1 : regions[v].npts # 0}
have_seam(w) == regions[w].npts # 0 /\ Right(w) # {}
lp(w) == regions[w].rightmost
rp(w) == regions[Min(Right(w))].leftmost

NoSeam(w) ==
  /\ worker[w].phase \in 6 .. 10 /\ worker[w].pc = "work" /\ ~have_seam(w)
  /\ Waits(w)
  /\ UNCHANGED <<all_points, sorted_points, regions, bar, mesh, touched>>

CrossEdge(w) ==
  /\ In(w, 6, "work") /\ have_seam(w)
  /\ mesh' = create(mesh, lp(w), rp(w), hull_edge(mesh, lp(w), cw), hull_edge(mesh, rp(w), ccw), ccw)
  /\ worker' = [worker EXCEPT ![w].pc = "wait", ![w].starter = {lp(w), rp(w)}]
  /\ UNCHANGED <<all_points, sorted_points, regions, bar, touched>>

-------------------------------------------------------------------------------
(* Stitching.                                                                *)

\* conditional_move stays among the points of a region; without a condition the
\* region is all points.
conditional_move(s, o, region) == CanMove(s, o) /\ {o, s.p, s.bp} \subseteq region

\* The edge to be created next to the base between the sides left and right:
\* the side that moves, and what it leaves.
Step(m, left, right, dir, region) ==
  LET moveLeft == [left |-> move(m, left), right |-> right, traversed |-> left.b, moved |-> TRUE]
      moveRight == [left |-> left, right |-> move(m, right), traversed |-> right.b, moved |-> TRUE]
      ly == left.p[ydim]
      ry == right.p[ydim]
      preferLeft == IF dir = ccw THEN ly > ry ELSE ly < ry
      canLeft == conditional_move(left, right.p, region)
      canRight == conditional_move(right, left.p, region)
  IN  IF canLeft /\ (preferLeft \/ ~canRight) THEN moveLeft
      ELSE IF canRight THEN moveRight
      ELSE [left |-> left, right |-> right, traversed |-> NoEdge, moved |-> FALSE]

\* Mutant: what was traversed is enqueued even if it is tentative already.
QueuedTwice(new, traversed, already) == <<new, traversed>>

\* Mutant: it is not enqueued at all.
QueuedNew(new, traversed, already) == <<new>>

\* The edges that go to a queue.
Queued(new, traversed, already) == IF already THEN <<new>> ELSE <<new, traversed>>

\* The mesh with the new edge, which is tentative, and so is what was traversed.
Joined(m, s, dir) ==
  LET new == {s.left.p, s.right.p}
      n == set_tentative(create(m, s.left.p, s.right.p, s.left.b, s.right.b, dir), new, TRUE)
  IN  [mesh |-> set_tentative(n, s.traversed, TRUE), edge |-> new,
       queue |-> Queued(new, s.traversed, tentative(n, s.traversed))]

\* The points that are closest to the seam of a worker.
Own(w) == {p \in Points : closest_seam(p) = w}

\* Looked at after both sides have read the neighbours of the starter; what
\* they read counts as touched only if it is used.
PrivateSeam(w, left, right) == {left.p, right.p} \subseteq Own(w)

LowerStart(w) ==
  LET starter == worker[w].starter
      left == update(mesh, lp(w), starter, cw)
      right == update(mesh, rp(w), starter, ccw)
      own == PrivateSeam(w, left, right)
  IN  /\ In(w, 7, "work") /\ have_seam(w)
      /\ mesh' = set_tentative(mesh, starter, TRUE)
      /\ worker' = [worker EXCEPT ![w].pc = IF own THEN "baste" ELSE "wait", ![w].cur = starter,
                                  ![w].left = left, ![w].right = right,
                                  ![w].mine = IF own THEN Append(@, starter) ELSE @]
      /\ regions' = IF own THEN regions ELSE [regions EXCEPT ![w].tentative = Append(@, starter)]
      /\ Touches(w, IF own THEN {starter} \X starter ELSE {})
      /\ UNCHANGED <<all_points, sorted_points, bar>>

UpperStart(w) ==
  LET starter == worker[w].starter
      ends == mesh.edge[starter].points
      left == update(mesh, ends[1], starter, ccw)
      right == update(mesh, ends[2], starter, cw)
      own == PrivateSeam(w, left, right)
  IN  /\ In(w, 9, "work") /\ have_seam(w)
      /\ worker' = [worker EXCEPT ![w].pc = IF own THEN "baste" ELSE "wait",
                                  ![w].cur = starter, ![w].left = left, ![w].right = right]
      /\ touched' = [touched EXCEPT ![w].read = @ \cup IF own THEN {starter} \X starter ELSE {}]
      /\ UNCHANGED <<all_points, sorted_points, regions, bar, mesh>>

Dir(w) == IF worker[w].phase \in {7, 8} THEN ccw ELSE cw

\* It stays among the points that are closest to this seam.
baste(w) ==
  LET s == Step(mesh, worker[w].left, worker[w].right, Dir(w), Own(w))
      joined == Joined(mesh, s, Dir(w))
  IN  /\ worker[w].pc = "baste"
      /\ IF s.moved
         THEN /\ mesh' = joined.mesh /\ Touches(w, {s.traversed} \X (s.traversed \cup {Flag}))
              /\ worker' = [worker EXCEPT ![w].left = s.left, ![w].right = s.right,
                                          ![w].cur = joined.edge, ![w].mine = @ \o joined.queue]
         ELSE Waits(w) /\ UNCHANGED <<mesh, touched>>
      /\ UNCHANGED <<all_points, sorted_points, regions, bar>>

\* A transaction, and the enqueues after it: nobody dequeues in this phase.
synchronized_baste(w) ==
  LET left == update(mesh, worker[w].left.p, worker[w].cur, 1 - Dir(w))
      right == update(mesh, worker[w].right.p, worker[w].cur, Dir(w))
      s == Step(mesh, left, right, Dir(w), Points)
      joined == Joined(mesh, s, Dir(w))
  IN  /\ worker[w].phase \in {8, 10} /\ worker[w].pc = "work" /\ have_seam(w)
      /\ IF left.bp # right.bp /\ s.moved
         THEN /\ mesh' = joined.mesh
              /\ regions' = [regions EXCEPT ![w].tentative = @ \o joined.queue]
              /\ worker' = [worker EXCEPT ![w].left.p = s.left.p, ![w].right.p = s.right.p,
                                          ![w].cur = joined.edge]
         ELSE Waits(w) /\ UNCHANGED <<mesh, regions>>
      /\ UNCHANGED <<all_points, sorted_points, bar, touched>>

-------------------------------------------------------------------------------
(* Reconsideration.                                                          *)

Around(e) == {Neighbor(mesh, e, p, dir) : p \in e, dir \in {ccw, cw}}

PrivateReconsider(w) ==
  LET e == Head(worker[w].mine)
      r == reconsider(mesh, e, Own(w))
  IN  /\ In(w, 11, "work")
      /\ IF worker[w].mine = <<>> THEN Waits(w) /\ UNCHANGED <<mesh, regions, touched>>
         ELSE /\ mesh' = r.mesh
              /\ worker' = [worker EXCEPT ![w].mine = Tail(@) \o r.again]
              /\ regions' = IF r.deferred THEN [regions EXCEPT ![w].tentative = Append(@, e)] ELSE regions
              /\ Touches(w, {e} \X e \cup Around(e) \X {Flag})
      /\ UNCHANGED <<all_points, sorted_points, bar>>

\* The next edge of a queue; a worker turns to the others when its own is
\* empty, and after each edge it stole it drains its own again.
NextVictim(w) == [worker[w] EXCEPT !.victim = (@ + 1) % num_workers,
                              !.pc = IF (worker[w].victim + 1) % num_workers = w THEN "wait" ELSE "steal"]

Dequeue(w) ==
  LET from == IF worker[w].pc = "steal" THEN worker[w].victim ELSE w
      queue == regions[from].tentative
  IN  /\ worker[w].phase = 12 /\ worker[w].pc \in {"own", "steal", "drain"}
      /\ IF queue # <<>>
         THEN /\ regions' = [regions EXCEPT ![from].tentative = Tail(@)]
              /\ worker' = [worker EXCEPT ![w].pc = "reconsider", ![w].hand = Head(queue),
                                          ![w].back = IF worker[w].pc = "own" THEN "own" ELSE "drain"]
         ELSE /\ worker' = [worker EXCEPT ![w] = IF worker[w].pc = "drain" THEN [@ EXCEPT !.pc = "steal"]
                                                 ELSE NextVictim(w)]
              /\ UNCHANGED regions
      /\ UNCHANGED <<all_points, sorted_points, bar, mesh, touched>>

reconsider_edge(w) ==
  LET r == reconsider(mesh, worker[w].hand, Points)
  IN  /\ In(w, 12, "reconsider")
      /\ mesh' = r.mesh
      /\ worker' = [worker EXCEPT ![w].hand = NoEdge, ![w].again = r.again,
                                  ![w].pc = IF r.again = <<>> THEN worker[w].back ELSE "enqueue"]
      /\ UNCHANGED <<all_points, sorted_points, regions, bar, touched>>

\* e1 to e4, one after the other.
Enqueue(w) ==
  /\ In(w, 12, "enqueue")
  /\ regions' = [regions EXCEPT ![w].tentative = Append(@, Head(worker[w].again))]
  /\ worker' = [worker EXCEPT ![w].again = Tail(@),
                              ![w].pc = IF Len(worker[w].again) = 1 THEN worker[w].back ELSE "enqueue"]
  /\ UNCHANGED <<all_points, sorted_points, bar, mesh, touched>>

-------------------------------------------------------------------------------
do_work(w) ==
  \/ wait(w) \/ Woken(w)
  \/ Counts(w) \/ Gives(w) \/ Renames(w) \/ Dwyer(w) \/ Extremes(w) \/ NoSeam(w) \/ CrossEdge(w)
  \/ LowerStart(w) \/ UpperStart(w) \/ baste(w) \/ synchronized_baste(w)
  \/ PrivateReconsider(w) \/ Dequeue(w) \/ reconsider_edge(w) \/ Enqueue(w)

Next == \E w \in Workers : do_work(w)

Spec == Init /\ [][Next]_vars

-------------------------------------------------------------------------------
Done == \A w \in Workers : worker[w].phase = 13

\* When the workers are done the edges are a Delaunay triangulation of the
\* points, whatever the order in which they stitched, flipped and stole, and
\* no edge is left tentative.
EndsDelaunay ==
  Done => /\ IsMesh(mesh)
          /\ IsDelaunay(DOMAIN mesh.edge, Points)
          /\ \A e \in DOMAIN mesh.edge : ~tentative(mesh, e)

\* All places where tentative edges are kept.
Places == UNION {{<<w, "queue", i>> : i \in DOMAIN regions[w].tentative} : w \in Workers}
     \cup UNION {{<<w, "mine", i>> : i \in DOMAIN worker[w].mine} : w \in Workers}
     \cup UNION {{<<w, "again", i>> : i \in DOMAIN worker[w].again} : w \in Workers}
     \cup {<<w, "hand", 1>> : w \in {v \in Workers : worker[v].hand # NoEdge}}
At(place) == CASE place[2] = "queue" -> regions[place[1]].tentative[place[3]]
               [] place[2] = "mine" -> worker[place[1]].mine[place[3]]
               [] place[2] = "again" -> worker[place[1]].again[place[3]]
               [] OTHER -> worker[place[1]].hand

\* An edge is tentative exactly if it is in one queue or in the hands of one
\* worker, and no edge that was broken is in any; what a worker writes in a
\* private phase no other worker reads or writes in that phase, be it an edge
\* or the hash table that has it.
WorkIsDivided ==
  /\ {At(place) : place \in Places} = {e \in DOMAIN mesh.edge : tentative(mesh, e)}
  /\ \A p, q \in Places : p # q => At(p) # At(q)
  /\ \A v, w \in Workers : v # w =>
       /\ touched[v].written \cap (touched[w].read \cup touched[w].written) = {}
       /\ touched[v].tables \cap touched[w].tables = {}
===============================================================================
