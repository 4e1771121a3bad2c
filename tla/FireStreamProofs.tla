-------------------------- MODULE FireStreamProofs --------------------------
(***************************************************************************)
(* Proofs about FireStream, for any grid, pipeline depth and length of the *)
(* transition queue: types, the fire of every lit tick, the light of every *)
(* commanded one in a first cycle, the power byte that leads a run, and    *)
(* the dark end of a stream.                                               *)
(***************************************************************************)
EXTENDS FireStream, TLAPS, WellFoundedInduction

-----------------------------------------------------------------------------
(* The inductive invariant.                                                *)

\* The types, the flags apart from the rest.
CoreFlags ==
    /\ laser_armed \in BOOLEAN /\ fire_gate \in BOOLEAN /\ core_jog \in BOOLEAN
    /\ jogging \in BOOLEAN /\ owed \in BOOLEAN
    /\ streaming \in BOOLEAN /\ killed \in BOOLEAN /\ failed \in BOOLEAN
    /\ lev_overflow_warned \in BOOLEAN /\ crowded \in BOOLEAN

ShipFlags ==
    /\ want_fire \in BOOLEAN /\ cur_fire \in BOOLEAN
    /\ gate_seen \in BOOLEAN /\ last_lit \in BOOLEAN /\ power_sent \in BOOLEAN
    /\ kernel_running \in BOOLEAN /\ clear_pending \in BOOLEAN /\ spc \in {"top", "pass"}
    /\ tail \in BOOLEAN /\ led \in BOOLEAN /\ forgotten \in BOOLEAN

Grid ==
    /\ vt \in 0 .. MaxIdx /\ base \in 0 .. MaxIdx
    /\ produced \in 0 .. MaxIdx /\ shipped \in 0 .. MaxIdx

Transition == [idx : 0 .. MaxIdx, fire : BOOLEAN]

Queue == lev \in Seq(Transition) /\ Len(lev) <= LevN

\* The queue is in the order of its indices.
Sorted(q) == \A i, j \in 1 .. Len(q) : i < j => q[i].idx <= q[j].idx

\* The newest transition is where the producer is, or before it: behind the
\* last step of the segment that made it, and so behind every stream that was
\* not cut short.
Placed ==
    lev # <<>> =>
        /\ streaming => Newest.idx <= Larger(vt, shipped)
        /\ streaming /\ ~owed /\ ~failed => Newest.idx <= produced
        /\ ~streaming /\ ~killed /\ ~failed => Newest.idx <= Larger(produced, shipped)

\* Between streams the queue ends dark.
IdleDark == ~streaming => IF lev = <<>> THEN ~cur_fire ELSE ~Newest.fire

\* Fire at an index that has not left, by the transitions q behind fire: the
\* core commanded it in c.
Commanded(q, fire, c, s) ==
    \A k \in 0 .. MaxIdx :
        k >= s =>
            /\ fire /\ (\A m \in 1 .. Len(q) : k < q[m].idx) => c[k]
            /\ \A j \in 1 .. Len(q) :
                  q[j].fire /\ k >= q[j].idx /\ (\A m \in 1 .. Len(q) : m > j => k < q[m].idx)
                      => c[k]

\* A power byte that was sent is the current run's.
Led == power_sent => kernel_running /\ led

FireInv ==
    /\ CoreFlags /\ ShipFlags /\ Grid /\ Queue /\ cmd \in [0 .. MaxIdx -> BOOLEAN]
    /\ Sorted(lev) /\ Placed /\ IdleDark /\ Led
    /\ lev_overflow_warned \/ Commanded(lev, cur_fire, cmd, shipped)

\* The last byte's fire is known to the shipper, unless a reset outside motion
\* has overwritten it, or a clear is on its way; only a stream that the kernel
\* runs may end lit.
DarkInv ==
    ~clear_pending => /\ tail => last_lit \/ forgotten
                      /\ last_lit => kernel_running

USE FireStreamAssumption DEF FireStreamAssumption, windowVars, jogVars, streamVars, indexVars,
    fireVars, shipVars, Larger

-----------------------------------------------------------------------------
(* The operators on the queue.                                             *)

\* The indices of a queue are the grid's.
LEMMA IndexForm ==
    ASSUME NEW q \in Seq(Transition)
    PROVE  \A j \in 1 .. Len(q) : q[j].idx \in 0 .. MaxIdx
  <1>1. \A j \in 1 .. Len(q) : q[j] \in Transition
    OBVIOUS
  <1> QED BY <1>1 DEF Transition

\* A queue with a transition behind all the others.
Appended(q, r, i, f) ==
    /\ Len(r) = Len(q) + 1 /\ r[Len(r)].idx = i /\ r[Len(r)].fire = f
    /\ \A j \in 1 .. Len(q) : r[j] = q[j]

\* Appending in order keeps the queue one.
LEMMA AppendForm ==
    ASSUME NEW q \in Seq(Transition), NEW i \in 0 .. MaxIdx, NEW f \in BOOLEAN, Sorted(q),
           q # <<>> => q[Len(q)].idx <= i,
           NEW r, r = Append(q, [idx |-> i, fire |-> f])
    PROVE  r \in Seq(Transition) /\ r # <<>> /\ Sorted(r) /\ Appended(q, r, i, f)
  <1> DEFINE e == [idx |-> i, fire |-> f]
  <1>1. e \in Transition /\ e.idx = i /\ e.fire = f
    BY DEF Transition
  <1> HIDE DEF e
  <1>2. r = Append(q, e)
    BY DEF e
  <1>3. /\ r \in Seq(Transition) /\ Len(r) = Len(q) + 1 /\ r # <<>> /\ Len(q) \in Nat
        /\ r[Len(q) + 1] = e /\ \A j \in 1 .. Len(q) : r[j] = q[j]
    BY <1>1, <1>2
  <1>4. \A j \in 1 .. Len(q) : q[j] \in Transition /\ q[Len(q)] \in Transition /\ q # <<>>
    BY <1>3
  <1>5. \A j \in 1 .. Len(q) : q[j].idx \in 0 .. MaxIdx /\ q[j].idx <= i
    BY <1>3, <1>4 DEF Sorted, Transition
  <1>6. \A j \in 1 .. Len(r) : j \in 1 .. Len(q) \/ j = Len(q) + 1
    BY <1>3
  <1>7. Sorted(r)
    <2> SUFFICES ASSUME NEW a \in 1 .. Len(r), NEW b \in 1 .. Len(r), a < b
                 PROVE  r[a].idx <= r[b].idx
      BY DEF Sorted
    <2>1. a \in 1 .. Len(q)
      BY <1>3
    <2>2. CASE b \in 1 .. Len(q)
      BY <1>3, <2>1, <2>2 DEF Sorted
    <2>3. CASE b = Len(q) + 1
      BY <1>1, <1>3, <1>5, <2>1, <2>3
    <2> QED BY <1>6, <2>2, <2>3
  <1> QED BY <1>1, <1>3, <1>7 DEF Appended

\* A queue with the same indices, its newest transition apart: the same, or
\* merged.
Merged(q, r, f) ==
    /\ Len(r) = Len(q)
    /\ \A j \in 1 .. Len(q) : r[j].idx = q[j].idx
    /\ \A j \in 1 .. Len(q) : j # Len(q) => r[j].fire = q[j].fire
    /\ q # <<>> => r[Len(q)].fire = f

\* Merging into the newest keeps the queue one.
LEMMA MergeForm ==
    ASSUME NEW q \in Seq(Transition), NEW f \in BOOLEAN, Sorted(q), q # <<>>,
           NEW r, r = [q EXCEPT ![Len(q)].fire = f]
    PROVE  /\ r \in Seq(Transition) /\ r # <<>> /\ Sorted(r)
           /\ Merged(q, r, f)
  <1>1. Len(q) \in Nat /\ Len(q) \in 1 .. Len(q) /\ q[Len(q)] \in Transition
    OBVIOUS
  <1>2. [q[Len(q)] EXCEPT !.fire = f] \in Transition
    BY <1>1 DEF Transition
  <1>3. /\ r \in Seq(Transition) /\ Len(r) = Len(q)
        /\ \A j \in 1 .. Len(q) : j # Len(q) => r[j] = q[j]
        /\ r[Len(q)] = [q[Len(q)] EXCEPT !.fire = f]
    BY <1>1, <1>2
  <1>4. r[Len(q)].idx = q[Len(q)].idx /\ r[Len(q)].fire = f
    BY <1>1, <1>3 DEF Transition
  <1>5. \A j \in 1 .. Len(q) : r[j].idx = q[j].idx
    BY <1>3, <1>4
  <1>6. Sorted(r)
    BY <1>3, <1>5 DEF Sorted
  <1>7. r # <<>>
    BY <1>1, <1>3
  <1> QED BY <1>3, <1>4, <1>5, <1>6, <1>7 DEF Merged

\* The transitions the cursor has reached are a prefix of the queue.
LEMMA DueForm ==
    ASSUME NEW q \in Seq(Transition), shipped \in 0 .. MaxIdx
    PROVE  /\ Due(q) \in 0 .. Len(q)
           /\ \A j \in 1 .. Due(q) : q[j].idx <= shipped
           /\ Due(q) < Len(q) => q[Due(q) + 1].idx > shipped
  <1> DEFINE S == {k \in 0 .. Len(q) : \A j \in 1 .. k : q[j].idx <= shipped}
             D == {Len(q) - k : k \in S}
  <1>1. Len(q) \in Nat /\ 0 \in S /\ S \subseteq 0 .. Len(q)
    OBVIOUS
  <1>2. \A j \in 1 .. Len(q) : q[j].idx \in 0 .. MaxIdx
    BY IndexForm
  <1>3. D \subseteq Nat /\ D # {}
    BY <1>1
  <1>4. PICK d \in D : \A e \in D : ~(<<e, d>> \in OpToRel(<, Nat))
    BY <1>3, NatLessThanWellFounded, WFMin
  <1>5. \A e \in D : ~(e < d)
    BY <1>3, <1>4 DEF OpToRel
  <1>6. PICK k \in S : d = Len(q) - k
    OBVIOUS
  <1>7. \A j \in S : k >= j
    <2> SUFFICES ASSUME NEW j \in S PROVE k >= j
      OBVIOUS
    <2>1. Len(q) - j \in D
      OBVIOUS
    <2>2. j \in 0 .. Len(q) /\ k \in 0 .. Len(q)
      OBVIOUS
    <2>3. ~(Len(q) - j < Len(q) - k)
      BY <1>5, <1>6, <2>1
    <2> QED BY <1>1, <2>2, <2>3
  <1>8. Due(q) \in S /\ \A j \in S : Due(q) >= j
    <2>1. Due(q) = Max(S)
      BY DEF Due
    <2> HIDE DEF S
    <2> QED BY <1>7, <2>1 DEF Max
  <1>9. ASSUME Due(q) < Len(q) PROVE q[Due(q) + 1].idx > shipped
    <2>1. Due(q) \in 0 .. Len(q) /\ \A j \in 1 .. Due(q) : q[j].idx <= shipped
      BY <1>8
    <2>2. Due(q) + 1 \in 0 .. Len(q) /\ Due(q) + 1 \in 1 .. Len(q) /\ Due(q) + 1 \notin S
      BY <1>1, <1>8, <1>9, <2>1
    <2>3. \A j \in 1 .. Due(q) + 1 : j \in 1 .. Due(q) \/ j = Due(q) + 1
      BY <2>1
    <2>4. ~(q[Due(q) + 1].idx <= shipped)
      BY <2>1, <2>2, <2>3
    <2> QED BY <1>2, <2>2, <2>4
  <1> QED BY <1>8, <1>9

\* What is left of a sorted queue behind its first d transitions.
Rest(q, r, d) ==
    /\ Len(r) = Len(q) - d
    /\ \A j \in 1 .. Len(r) : j + d \in 1 .. Len(q) /\ r[j] = q[j + d]

\* Dropping its head keeps the queue one.
LEMMA RestForm ==
    ASSUME NEW q \in Seq(Transition), Sorted(q), NEW d \in 0 .. Len(q),
           NEW r, r = SubSeq(q, d + 1, Len(q))
    PROVE  r \in Seq(Transition) /\ Sorted(r) /\ Rest(q, r, d) /\ (r = <<>> <=> d = Len(q))
  <1>1. Len(q) \in Nat
    OBVIOUS
  <1>2. /\ r \in Seq(Transition) /\ Len(r) = Len(q) - d
        /\ \A j \in 1 .. Len(r) : j + d \in 1 .. Len(q) /\ r[j] = q[j + d]
    BY <1>1
  <1>3. Sorted(r)
    BY <1>1, <1>2 DEF Sorted
  <1>4. r = <<>> <=> d = Len(q)
    BY <1>1, <1>2
  <1> QED BY <1>2, <1>3, <1>4 DEF Rest

-----------------------------------------------------------------------------
(* What keeps the lit ticks commanded.                                     *)

\* Command d keeps c before index i, and lights what f does from there on.
Keeps(c, d, i) == \A k \in 0 .. MaxIdx : k < i /\ c[k] => d[k]
Lights(d, i, f) == \A k \in 0 .. MaxIdx : k >= i /\ f => d[k]

\* A queue with nothing lit in it.
LEMMA DarkCommanded ==
    ASSUME NEW q, NEW c, NEW s, \A j \in 1 .. Len(q) : ~q[j].fire
    PROVE  Commanded(q, FALSE, c, s)
  BY DEF Commanded

\* The command of later ticks, in the newest transition or behind it.
LEMMA MergeCommanded ==
    ASSUME NEW q \in Seq(Transition), NEW r, NEW f \in BOOLEAN, Merged(q, r, f), Sorted(q),
           NEW fire, NEW fire2, fire2 => fire /\ q # <<>>, NEW c, NEW d, NEW s,
           Commanded(q, fire, c, s),
           \A k \in 0 .. MaxIdx : q # <<>> /\ k < q[Len(q)].idx /\ c[k] => d[k],
           \A k \in 0 .. MaxIdx : q # <<>> /\ k >= q[Len(q)].idx /\ f => d[k]
    PROVE  Commanded(r, fire2, d, s)
  <1>1. Len(q) \in Nat /\ (q # <<>> => Len(q) \in 1 .. Len(q))
    OBVIOUS
  <1> SUFFICES ASSUME NEW k \in 0 .. MaxIdx, k >= s
               PROVE  /\ fire2 /\ (\A m \in 1 .. Len(r) : k < r[m].idx) => d[k]
                      /\ \A j \in 1 .. Len(r) :
                            r[j].fire /\ k >= r[j].idx
                              /\ (\A m \in 1 .. Len(r) : m > j => k < r[m].idx) => d[k]
    BY DEF Commanded
  <1>2. ASSUME fire2, \A m \in 1 .. Len(r) : k < r[m].idx PROVE d[k]
    <2>1. \A m \in 1 .. Len(q) : k < q[m].idx
      BY <1>2 DEF Merged
    <2>2. c[k]
      BY <1>2, <2>1 DEF Commanded
    <2> QED BY <1>1, <1>2, <2>1, <2>2
  <1>3. ASSUME NEW j \in 1 .. Len(r), r[j].fire, k >= r[j].idx,
               \A m \in 1 .. Len(r) : m > j => k < r[m].idx
        PROVE  d[k]
    <2>1. j \in 1 .. Len(q) /\ q # <<>>
      BY <1>1, <1>3 DEF Merged
    <2>2. CASE j = Len(q)
      <3>1. f /\ k >= q[Len(q)].idx
        BY <1>3, <2>1, <2>2 DEF Merged
      <3> QED BY <2>1, <3>1
    <2>3. CASE j # Len(q)
      <3>1. /\ q[j].fire /\ k >= q[j].idx
            /\ \A m \in 1 .. Len(q) : m > j => k < q[m].idx
        BY <1>3, <2>1, <2>3 DEF Merged
      <3>2. c[k]
        BY <2>1, <3>1 DEF Commanded
      <3>3. k < q[Len(q)].idx
        BY <1>1, <2>1, <2>3, <3>1
      <3> QED BY <2>1, <3>2, <3>3
    <2> QED BY <2>2, <2>3
  <1> QED BY <1>2, <1>3

\* The same for a transition appended at i.
LEMMA AppendCommanded ==
    ASSUME NEW q \in Seq(Transition), NEW i \in 0 .. MaxIdx, NEW f,
           NEW r, Appended(q, r, i, f),
           NEW fire, NEW fire2, fire2 => fire, NEW c, NEW d, NEW s,
           Commanded(q, fire, c, s),
           Keeps(c, d, i), Lights(d, i, f)
    PROVE  Commanded(r, fire2, d, s)
  <1>1. /\ Len(q) \in Nat /\ Len(r) = Len(q) + 1
        /\ r[Len(q) + 1].idx = i /\ r[Len(q) + 1].fire = f
        /\ \A j \in 1 .. Len(q) : r[j] = q[j]
    BY DEF Appended
  <1>2. /\ Len(q) + 1 \in 1 .. Len(r)
        /\ \A j \in 1 .. Len(q) : j \in 1 .. Len(r) /\ j < Len(q) + 1
    BY <1>1
  <1> SUFFICES ASSUME NEW k \in 0 .. MaxIdx, k >= s
               PROVE  /\ fire2 /\ (\A m \in 1 .. Len(r) : k < r[m].idx) => d[k]
                      /\ \A j \in 1 .. Len(r) :
                            r[j].fire /\ k >= r[j].idx
                              /\ (\A m \in 1 .. Len(r) : m > j => k < r[m].idx) => d[k]
    BY DEF Commanded
  <1>3. ASSUME fire2, \A m \in 1 .. Len(r) : k < r[m].idx PROVE d[k]
    <2>1. k < i /\ \A m \in 1 .. Len(q) : k < q[m].idx
      BY <1>1, <1>2, <1>3
    <2>2. c[k]
      BY <1>3, <2>1 DEF Commanded
    <2> QED BY <2>1, <2>2 DEF Keeps
  <1>4. ASSUME NEW j \in 1 .. Len(r), r[j].fire, k >= r[j].idx,
               \A m \in 1 .. Len(r) : m > j => k < r[m].idx
        PROVE  d[k]
    <2>1. CASE j = Len(q) + 1
      <3>1. f /\ k >= i
        BY <1>1, <1>4, <2>1
      <3> QED BY <3>1 DEF Lights
    <2>2. CASE j \in 1 .. Len(q)
      <3>1. k < i
        BY <1>1, <1>2, <1>4, <2>2
      <3>2. /\ q[j].fire /\ k >= q[j].idx
            /\ \A m \in 1 .. Len(q) : m > j => k < q[m].idx
        BY <1>1, <1>2, <1>4, <2>2
      <3>3. c[k]
        BY <2>2, <3>2 DEF Commanded
      <3> QED BY <3>1, <3>3 DEF Keeps
    <2> QED BY <1>1, <2>1, <2>2
  <1> QED BY <1>3, <1>4

\* A tick leaves: what it was lit by was commanded at its index, and what is
\* left stays commanded.
LEMMA ShipCommanded ==
    ASSUME NEW q \in Seq(Transition), Sorted(q), NEW fire, NEW c,
           shipped \in 0 .. MaxIdx, shipped < MaxIdx,
           Commanded(q, fire, c, shipped),
           NEW r, r = SubSeq(q, Due(q) + 1, Len(q)),
           NEW cur, cur => IF Due(q) = 0 THEN fire ELSE q[Due(q)].fire
    PROVE  (cur => c[shipped]) /\ Commanded(r, cur, c, shipped + 1)
  <1> DEFINE d == Due(q)
  <1>1. /\ d \in 0 .. Len(q) /\ \A j \in 1 .. d : q[j].idx <= shipped
        /\ d < Len(q) => q[d + 1].idx > shipped
    BY DueForm
  <1> HIDE DEF d
  <1>2. /\ r \in Seq(Transition) /\ Len(r) = Len(q) - d /\ Len(q) \in Nat
        /\ \A j \in 1 .. Len(r) : j + d \in 1 .. Len(q) /\ r[j] = q[j + d]
    <2>1. r \in Seq(Transition) /\ Rest(q, r, d)
      BY <1>1, RestForm DEF d
    <2> QED BY <2>1 DEF Rest
  <1>3. \A j \in 1 .. Len(q) : q[j].idx \in 0 .. MaxIdx
    BY IndexForm
  <1>4. \A m \in 1 .. Len(q) : m > d => shipped < q[m].idx
    <2> SUFFICES ASSUME NEW m \in 1 .. Len(q), m > d PROVE shipped < q[m].idx
      OBVIOUS
    <2>1. d + 1 \in 1 .. Len(q) /\ d < Len(q) /\ (m = d + 1 \/ m > d + 1)
      BY <1>1, <1>2
    <2>2. q[d + 1].idx <= q[m].idx
      BY <2>1, <1>3 DEF Sorted
    <2> QED BY <1>1, <1>3, <2>1, <2>2
  <1>5. \A m \in 1 .. Len(q) : m > d => m - d \in 1 .. Len(r) /\ r[m - d] = q[m]
    <2> SUFFICES ASSUME NEW m \in 1 .. Len(q), m > d
                 PROVE  m - d \in 1 .. Len(r) /\ r[m - d] = q[m]
      OBVIOUS
    <2>1. m - d \in 1 .. Len(r) /\ (m - d) + d = m
      BY <1>1, <1>2
    <2> QED BY <1>2, <2>1
  <1>6. ASSUME cur, NEW k \in 0 .. MaxIdx, k >= shipped,
               \A m \in 1 .. Len(q) : m > d => k < q[m].idx
        PROVE  c[k]
    <2>1. CASE d = 0
      <3>1. fire /\ \A m \in 1 .. Len(q) : k < q[m].idx
        BY <1>6, <2>1 DEF d
      <3> QED BY <1>6, <3>1 DEF Commanded
    <2>2. CASE d # 0
      <3>1. d \in 1 .. Len(q) /\ d \in 1 .. d
        BY <1>1, <1>2, <2>2
      <3>2. q[d].fire
        BY <1>6, <2>2 DEF d
      <3>3. k >= q[d].idx
        BY <1>1, <1>3, <1>6, <3>1
      <3> QED BY <1>6, <3>1, <3>2, <3>3 DEF Commanded
    <2> QED BY <2>1, <2>2
  <1>7. cur => c[shipped]
    <2>1. shipped >= shipped
      OBVIOUS
    <2> QED BY <1>4, <1>6, <2>1
  <1>8. ASSUME NEW k \in 0 .. MaxIdx, k >= shipped + 1, cur,
               \A m \in 1 .. Len(r) : k < r[m].idx
        PROVE  c[k]
    <2>1. \A m \in 1 .. Len(q) : m > d => k < q[m].idx
      BY <1>5, <1>8
    <2> QED BY <1>6, <1>8, <2>1
  <1>9. ASSUME NEW k \in 0 .. MaxIdx, k >= shipped + 1, NEW j \in 1 .. Len(r),
               r[j].fire, k >= r[j].idx, \A m \in 1 .. Len(r) : m > j => k < r[m].idx
        PROVE  c[k]
    <2>1. j + d \in 1 .. Len(q) /\ q[j + d].fire /\ k >= q[j + d].idx
      BY <1>2, <1>9
    <2>2. \A m \in 1 .. Len(q) : m > j + d => m > d /\ m - d > j
      BY <1>1, <1>2
    <2>3. \A m \in 1 .. Len(q) : m > j + d => k < q[m].idx
      BY <1>5, <1>9, <2>2
    <2> QED BY <1>9, <2>1, <2>3 DEF Commanded
  <1> QED BY <1>7, <1>8, <1>9 DEF Commanded

-----------------------------------------------------------------------------
(* What each operation does to the queue.                                  *)

\* The queue, what the core has commanded, and what is lit by them.
QueueInv ==
    /\ Queue /\ cmd \in [0 .. MaxIdx -> BOOLEAN]
    /\ Sorted(lev) /\ Placed /\ IdleDark
    /\ lev_overflow_warned \/ Commanded(lev, cur_fire, cmd, shipped)

\* A jog is seen between streams, or not at all: it moves no transition.
LEMMA JogForm == ASSUME NEW b \in BOOLEAN, Jog(b) PROVE UNCHANGED <<lev, cmd>>
  BY DEF Jog, LaserEvent

\* A command is a function of the grid.
LEMMA CommandForm ==
    ASSUME cmd \in [0 .. MaxIdx -> BOOLEAN], NEW i \in Int, NEW f \in BOOLEAN
    PROVE  /\ Command(i, f) \in [0 .. MaxIdx -> BOOLEAN]
           /\ Keeps(cmd, Command(i, f), i) /\ Lights(Command(i, f), i, f)
  <1>1. \A k \in 0 .. MaxIdx : (IF k >= i THEN f ELSE cmd[k]) \in BOOLEAN
    OBVIOUS
  <1>2. Command(i, f) \in [0 .. MaxIdx -> BOOLEAN]
    BY <1>1 DEF Command
  <1>3. \A k \in 0 .. MaxIdx : k < i => Command(i, f)[k] = cmd[k]
    BY DEF Command
  <1>4. \A k \in 0 .. MaxIdx : k >= i => Command(i, f)[k] = f
    BY DEF Command
  <1> QED BY <1>2, <1>3, <1>4 DEF Keeps, Lights

\* A transition of the core's, in a stream.
LEMMA QueuedForm ==
    ASSUME FireInv, NEW f \in BOOLEAN, NEW i \in 0 .. MaxIdx,
           lev # <<>> => Newest.idx <= i,
           lev' = Queued(i, f), cmd' = Command(i, f),
           lev_overflow_warned' = (lev_overflow_warned \/ Overflows(i))
    PROVE  /\ Queue' /\ cmd' \in [0 .. MaxIdx -> BOOLEAN] /\ Sorted(lev')
           /\ lev' # <<>> /\ lev'[Len(lev')].idx <= i
           /\ lev_overflow_warned' \/ Commanded(lev', cur_fire, cmd', shipped)
  <1>1. /\ lev \in Seq(Transition) /\ Len(lev) \in Nat /\ Len(lev) <= LevN
        /\ Sorted(lev) /\ cmd \in [0 .. MaxIdx -> BOOLEAN]
    BY DEF FireInv, Queue
  <1>2. lev # <<>> => lev[Len(lev)].idx <= i /\ lev[Len(lev)].idx \in 0 .. MaxIdx
    BY <1>1, IndexForm DEF Newest
  <1>3. cmd' \in [0 .. MaxIdx -> BOOLEAN] /\ Keeps(cmd, cmd', i) /\ Lights(cmd', i, f)
    BY <1>1, CommandForm
  <1>4. CASE lev # <<>> /\ (Newest.idx = i \/ Len(lev) >= LevN)
    <2>1. lev' = [lev EXCEPT ![Len(lev)].fire = f]
      BY <1>4 DEF Queued
    <2>2. /\ lev' \in Seq(Transition) /\ lev' # <<>> /\ Sorted(lev') /\ Merged(lev, lev', f)
      BY <1>1, <1>4, <2>1, MergeForm
    <2>3. Len(lev) \in 1 .. Len(lev) /\ Len(lev') = Len(lev)
          /\ lev'[Len(lev')].idx = lev[Len(lev)].idx
      BY <1>1, <1>4, <2>2 DEF Merged
    <2>4. CASE Newest.idx = i
      <3>1. \A k \in 0 .. MaxIdx : k < lev[Len(lev)].idx /\ cmd[k] => cmd'[k]
        BY <1>3, <2>4 DEF Newest, Keeps, Lights
      <3>2. \A k \in 0 .. MaxIdx : k >= lev[Len(lev)].idx /\ f => cmd'[k]
        BY <1>3, <2>4 DEF Newest, Keeps, Lights
      <3>3. Commanded(lev, cur_fire, cmd, shipped) => Commanded(lev', cur_fire, cmd', shipped)
        BY <1>1, <1>4, <2>2, <3>1, <3>2, MergeCommanded
      <3>4. lev_overflow_warned' \/ Commanded(lev', cur_fire, cmd', shipped)
        BY <3>3 DEF FireInv
      <3> QED BY <1>1, <1>2, <1>3, <1>4, <2>2, <2>3, <3>4 DEF Queue
    <2>5. CASE Newest.idx # i
      <3>1. lev_overflow_warned'
        BY <1>4, <2>5 DEF Overflows
      <3> QED BY <1>1, <1>2, <1>3, <1>4, <2>2, <2>3, <3>1 DEF Queue
    <2> QED BY <2>4, <2>5
  <1>5. CASE ~(lev # <<>> /\ (Newest.idx = i \/ Len(lev) >= LevN))
    <2>1. lev' = Append(lev, [idx |-> i, fire |-> f])
      BY <1>5 DEF Queued
    <2>2. lev' \in Seq(Transition) /\ lev' # <<>> /\ Sorted(lev') /\ Appended(lev, lev', i, f)
      BY <1>1, <1>2, <2>1, AppendForm
    <2>3. Len(lev') <= LevN
      <3>1. lev = <<>> => Len(lev) = 0
        OBVIOUS
      <3> QED BY <1>1, <1>5, <2>2, <3>1 DEF Appended
    <2>4. ASSUME Commanded(lev, cur_fire, cmd, shipped)
          PROVE  Commanded(lev', cur_fire, cmd', shipped)
      BY <1>1, <1>3, <2>2, <2>4, AppendCommanded
    <2>5. lev_overflow_warned' \/ Commanded(lev', cur_fire, cmd', shipped)
      BY <2>4 DEF FireInv
    <2> QED BY <1>1, <1>3, <2>2, <2>3, <2>5 DEF Queue, Appended
  <1> QED BY <1>4, <1>5

\* gf_stream_laser.
LEMMA LaserQueue ==
    ASSUME FireInv, NEW b \in BOOLEAN, Laser(b)
    PROVE  QueueInv' /\ lev_overflow_warned' \in BOOLEAN
  <1> DEFINE f == b /\ laser_armed /\ ~jogging
             i == Larger(vt, shipped)
  <1>1. f \in BOOLEAN /\ LaserEvent(f)
    BY DEF Laser
  <1>2. UNCHANGED <<streaming, killed, vt, produced, shipped, cur_fire>>
    BY DEF Laser
  <1>3. i \in 0 .. MaxIdx
    BY DEF FireInv, Grid
  <1> HIDE DEF f
  <1>4. CASE UNCHANGED <<lev, cmd, lev_overflow_warned>> /\ ~streaming /\ UNCHANGED failed
    BY <1>2, <1>4 DEF FireInv, QueueInv, Queue, Placed, IdleDark, Newest, CoreFlags
  <1>5. CASE /\ streaming /\ lev' = Queued(i, f) /\ cmd' = Command(i, f)
             /\ lev_overflow_warned' = (lev_overflow_warned \/ Overflows(i))
    <2>1. /\ Queue' /\ cmd' \in [0 .. MaxIdx -> BOOLEAN] /\ Sorted(lev')
          /\ lev' # <<>> /\ lev'[Len(lev')].idx <= i
          /\ lev_overflow_warned' \/ Commanded(lev', cur_fire, cmd', shipped)
      <3>1. lev # <<>> => Newest.idx <= i
        BY <1>5 DEF FireInv, Placed
      <3> HIDE DEF i
      <3> QED BY <1>1, <1>3, <1>5, <3>1, QueuedForm
    <2>2. streaming' /\ owed'
      BY <1>2, <1>5 DEF Laser
    <2>3. Placed' /\ IdleDark'
      BY <1>2, <2>1, <2>2 DEF Placed, IdleDark, Newest
    <2>4. lev_overflow_warned' \in BOOLEAN
      BY <1>5
    <2>5. lev_overflow_warned' \/ Commanded(lev', cur_fire', cmd', shipped')
      BY <1>2, <2>1
    <2> QED BY <2>1, <2>3, <2>4, <2>5 DEF QueueInv
  <1>6. CASE UNCHANGED <<lev, cmd, lev_overflow_warned>> /\ streaming /\ failed'
    BY <1>2, <1>6 DEF FireInv, QueueInv, Queue, Placed, IdleDark, Newest, CoreFlags
  <1> QED BY <1>1, <1>4, <1>5, <1>6 DEF LaserEvent

\* gf_stream_wakeup: the transition at the new base.
LEMMA WakeupQueue ==
    ASSUME FireInv, NEW due \in 0 .. MaxIdx, NEW level \in BOOLEAN, Wakeup(due, level)
    PROVE  QueueInv'
  <1> DEFINE fresh == ~kernel_running
             queue == IF fresh THEN <<>> ELSE lev
             want == want_fire /\ laser_armed /\ ~jogging
             at == base'
  <1>1. /\ lev \in Seq(Transition) /\ Len(lev) \in Nat /\ Len(lev) <= LevN /\ Sorted(lev)
        /\ cmd \in [0 .. MaxIdx -> BOOLEAN] /\ fresh \in BOOLEAN /\ cur_fire \in BOOLEAN
        /\ produced \in 0 .. MaxIdx /\ shipped \in 0 .. MaxIdx
    BY DEF FireInv, Queue, Grid, ShipFlags
  <1>2. want \in BOOLEAN
    OBVIOUS
  <1>3. /\ ~streaming /\ ~killed /\ ~failed /\ due >= shipped
        /\ produced' = (IF fresh THEN Depth ELSE Larger(produced, due))
        /\ shipped' = (IF fresh THEN 0 ELSE shipped)
        /\ at = produced' /\ vt' = at
        /\ cur_fire' = FireAtWakeup(fresh, due)
        /\ streaming' /\ owed' /\ UNCHANGED lev_overflow_warned
    BY DEF Wakeup
  <1>4. /\ lev' = IF (level \/ want # cur_fire') /\ Len(queue) < LevN
                  THEN Append(queue, [idx |-> at, fire |-> want]) ELSE queue
        /\ cmd' = [k \in 0 .. MaxIdx |-> IF k >= at THEN want ELSE (~fresh /\ cmd[k])]
    BY DEF Wakeup
  <1>5. at \in 0 .. MaxIdx
    BY <1>1, <1>3
  <1>6. cur_fire' \in BOOLEAN /\ (fresh => ~cur_fire') /\ (cur_fire' => cur_fire)
    BY <1>1, <1>3 DEF FireAtWakeup
  <1> HIDE DEF want, fresh, at
  <1>7. /\ cmd' \in [0 .. MaxIdx -> BOOLEAN]
        /\ \A k \in 0 .. MaxIdx : k < at /\ ~fresh /\ cmd[k] => cmd'[k]
        /\ Lights(cmd', at, want)
    <2>1. \A k \in 0 .. MaxIdx : (IF k >= at THEN want ELSE (~fresh /\ cmd[k])) \in BOOLEAN
      BY <1>1, <1>2
    <2>2. \A k \in 0 .. MaxIdx : cmd'[k] = IF k >= at THEN want ELSE (~fresh /\ cmd[k])
      BY <1>4
    <2>3. \A k \in 0 .. MaxIdx : k < at => ~(k >= at)
      BY <1>5
    <2> QED BY <1>4, <2>1, <2>2, <2>3 DEF Lights
  <1>8. CASE fresh
    <2>1. queue = <<>> /\ Len(queue) = 0 /\ queue \in Seq(Transition) /\ Sorted(queue)
      BY <1>8 DEF Sorted
    <2>2. ~cur_fire'
      BY <1>6, <1>8
    <2>3. Commanded(queue, cur_fire', cmd', shipped')
      BY <2>1, <2>2 DEF Commanded
    <2> HIDE DEF queue
    <2>4. CASE lev' = queue
      <3>1. lev' = <<>> /\ Queue' /\ Sorted(lev')
        BY <2>1, <2>4 DEF Queue
      <3>2. Placed' /\ IdleDark'
        BY <1>3, <3>1 DEF Placed, IdleDark
      <3>3. Commanded(lev', cur_fire', cmd', shipped')
        BY <2>1, <2>2, <2>4 DEF Commanded
      <3> QED BY <1>7, <3>1, <3>2, <3>3 DEF QueueInv
    <2>5. CASE lev' = Append(queue, [idx |-> at, fire |-> want])
      <3>1. /\ lev' \in Seq(Transition) /\ lev' # <<>> /\ Sorted(lev')
            /\ Appended(queue, lev', at, want)
        <4>1. queue # <<>> => queue[Len(queue)].idx <= at
          BY <2>1
        <4> QED BY <1>2, <1>5, <2>1, <2>5, <4>1, AppendForm
      <3>2. Queue'
        BY <2>1, <3>1 DEF Queue, Appended
      <3>3. Placed' /\ IdleDark'
        <4>1. lev'[Len(lev')].idx <= Larger(vt', shipped')
          BY <1>1, <1>3, <1>5, <3>1 DEF Appended
        <4> QED BY <1>3, <4>1 DEF Placed, IdleDark, Newest
      <3>4. Commanded(lev', cur_fire', cmd', shipped')
        <4>1. Keeps(cmd', cmd', at)
          BY DEF Keeps
        <4> QED BY <1>2, <1>5, <1>7, <2>1, <2>2, <2>3, <3>1, <4>1, AppendCommanded
      <3> QED BY <1>7, <3>1, <3>2, <3>3, <3>4 DEF QueueInv
    <2> QED BY <1>4, <2>4, <2>5
  <1>9. CASE ~fresh
    <2>1. queue = lev
      BY <1>9
    <2>2. lev # <<>> => lev[Len(lev)].idx <= at /\ lev[Len(lev)].idx \in 0 .. MaxIdx
      BY <1>1, <1>3, <1>9, IndexForm DEF FireInv, Placed, Newest
    <2>3. Keeps(cmd, cmd', at)
      BY <1>7, <1>9 DEF Keeps
    <2>4. shipped' = shipped
      BY <1>3, <1>9
    <2> HIDE DEF queue
    <2>5. CASE lev' = lev /\ (~want \/ cur_fire' \/ Len(lev) >= LevN)
      <3>1. Queue' /\ Sorted(lev')
        BY <1>1, <2>5 DEF Queue
      <3>2. Placed' /\ IdleDark'
        <4>1. lev # <<>> => lev[Len(lev)].idx <= Larger(vt', shipped')
          BY <1>1, <1>3, <1>5, <2>2, <2>4
        <4>2. Placed'
          BY <1>3, <2>5, <4>1 DEF Placed, Newest
        <4> QED BY <1>3, <4>2 DEF IdleDark
      <3>3. IF lev = <<>> THEN ~cur_fire ELSE ~lev[Len(lev)].fire
        BY <1>3 DEF FireInv, IdleDark, Newest
      <3>4. Merged(lev, lev, FALSE)
        <4>1. lev # <<>> => Len(lev) \in 1 .. Len(lev) /\ lev[Len(lev)] \in Transition
          BY <1>1
        <4>2. lev # <<>> => lev[Len(lev)].fire = FALSE
          BY <3>3, <4>1 DEF Transition
        <4> QED BY <4>2 DEF Merged
      <3>5. \A k \in 0 .. MaxIdx : lev # <<>> /\ k < lev[Len(lev)].idx /\ cmd[k] => cmd'[k]
        BY <1>5, <2>2, <2>3 DEF Keeps
      <3>6. cur_fire' => cur_fire /\ lev # <<>>
        BY <1>6, <3>3
      <3>7. Commanded(lev, cur_fire, cmd, shipped) => Commanded(lev, cur_fire', cmd', shipped)
        BY <1>1, <3>4, <3>5, <3>6, MergeCommanded
      <3> QED BY <1>3, <1>7, <2>4, <2>5, <3>1, <3>2, <3>7 DEF QueueInv, FireInv
    <2>6. CASE lev' = Append(lev, [idx |-> at, fire |-> want]) /\ Len(lev) < LevN
      <3>1. /\ lev' \in Seq(Transition) /\ lev' # <<>> /\ Sorted(lev')
            /\ Appended(lev, lev', at, want)
        <4>1. lev # <<>> => lev[Len(lev)].idx <= at
          BY <2>2
        <4> QED BY <1>1, <1>2, <1>5, <2>6, <4>1, AppendForm
      <3>2. Queue'
        BY <1>1, <2>6, <3>1 DEF Queue, Appended
      <3>3. Placed' /\ IdleDark'
        <4>1. lev'[Len(lev')].idx <= Larger(vt', shipped')
          BY <1>1, <1>3, <1>5, <3>1 DEF Appended
        <4> QED BY <1>3, <4>1 DEF Placed, IdleDark, Newest
      <3>4. ASSUME Commanded(lev, cur_fire, cmd, shipped)
            PROVE  Commanded(lev', cur_fire', cmd', shipped)
        BY <1>1, <1>2, <1>5, <1>6, <1>7, <2>3, <3>1, <3>4, AppendCommanded
      <3> QED BY <1>3, <1>7, <2>4, <3>1, <3>2, <3>3, <3>4 DEF QueueInv, FireInv
    <2>7. lev' = lev \/ (lev' = Append(lev, [idx |-> at, fire |-> want]) /\ Len(lev) < LevN)
      BY <1>4, <2>1
    <2>8. lev' = lev => ~want \/ cur_fire' \/ Len(lev) >= LevN
      <3>1. CASE (level \/ want # cur_fire') /\ Len(queue) < LevN
        <4>1. lev' = Append(lev, [idx |-> at, fire |-> want])
          BY <1>4, <2>1, <3>1
        <4>2. Len(lev') = Len(lev) + 1
          BY <1>1, <1>2, <1>5, <2>2, <4>1, AppendForm DEF Appended
        <4> QED BY <1>1, <4>2
      <3>2. CASE ~(want # cur_fire')
        BY <3>2
      <3>3. CASE ~(Len(queue) < LevN)
        BY <1>1, <2>1, <3>3
      <3> QED BY <3>1, <3>2, <3>3
    <2> QED BY <2>5, <2>6, <2>7, <2>8
  <1> QED BY <1>1, <1>8, <1>9

\* gf_stream_go_idle: the laser-off.
LEMMA GoIdleQueue ==
    ASSUME FireInv, NEW reset \in BOOLEAN, GoIdle(reset)
    PROVE  QueueInv'
  <1> DEFINE i == Larger(produced, shipped)
             j == Larger(i, vt)
  <1>1. /\ lev \in Seq(Transition) /\ Len(lev) \in Nat /\ Len(lev) <= LevN /\ Sorted(lev)
        /\ cmd \in [0 .. MaxIdx -> BOOLEAN] /\ cur_fire \in BOOLEAN
        /\ produced \in 0 .. MaxIdx /\ shipped \in 0 .. MaxIdx /\ vt \in 0 .. MaxIdx
        /\ i \in 0 .. MaxIdx /\ j \in 0 .. MaxIdx /\ i <= j /\ Larger(vt, shipped) <= j
    BY DEF FireInv, Queue, Grid, ShipFlags
  <1>2. /\ UNCHANGED <<failed, lev_overflow_warned, vt, produced, shipped, cur_fire>>
        /\ ~streaming' /\ (killed' \/ (streaming /\ (failed \/ ~owed)))
    BY DEF GoIdle
  <1>3. CASE ~streaming
    <2>1. UNCHANGED <<lev, cmd>> /\ killed'
      BY <1>2, <1>3 DEF GoIdle
    <2> QED BY <1>2, <1>3, <2>1 DEF FireInv, QueueInv, Queue, Placed, IdleDark, Newest
  <1>4. CASE streaming
    <2>1. lev' = LaserOff(i) /\ cmd' = Command(j, FALSE)
      BY <1>4 DEF GoIdle
    <2>2. cmd' \in [0 .. MaxIdx -> BOOLEAN] /\ Keeps(cmd, cmd', j)
      <3>1. j \in Int /\ FALSE \in BOOLEAN
        BY <1>1
      <3> HIDE DEF j
      <3> QED BY <1>1, <2>1, <3>1, CommandForm
    <2>3. lev # <<>> => /\ lev[Len(lev)].idx \in 0 .. MaxIdx /\ lev[Len(lev)].idx <= j
                        /\ ~owed /\ ~failed => lev[Len(lev)].idx <= i
      BY <1>1, <1>4, IndexForm DEF FireInv, Placed, Newest
    <2> HIDE DEF i, j
    <2>4. CASE ~cur_fire /\ lev = <<>>
      <3>1. lev' = <<>> /\ ~cur_fire'
        BY <1>2, <2>1, <2>4 DEF LaserOff
      <3>2. Queue' /\ Sorted(lev')
        BY <1>1, <2>4, <3>1 DEF Queue
      <3>3. Placed' /\ IdleDark'
        BY <3>1 DEF Placed, IdleDark
      <3>4. Commanded(lev', cur_fire', cmd', shipped')
        <4>1. Len(lev') = 0
          BY <3>1
        <4> QED BY <3>1, <4>1 DEF Commanded
      <3> QED BY <2>2, <3>2, <3>3, <3>4 DEF QueueInv
    <2>5. CASE lev # <<>> /\ lev' = [lev EXCEPT ![Len(lev)].fire = FALSE]
      <3>1. lev' \in Seq(Transition) /\ lev' # <<>> /\ Sorted(lev') /\ Merged(lev, lev', FALSE)
        BY <1>1, <2>5, MergeForm
      <3>2. /\ Len(lev) \in 1 .. Len(lev) /\ Len(lev') = Len(lev)
            /\ lev'[Len(lev')].idx = lev[Len(lev)].idx /\ ~lev'[Len(lev')].fire
        BY <1>1, <2>5, <3>1 DEF Merged
      <3>3. Queue'
        BY <1>1, <3>1, <3>2 DEF Queue
      <3>4. ~killed' /\ ~failed' => lev'[Len(lev')].idx <= Larger(produced', shipped')
        BY <1>2, <2>3, <2>5, <3>2 DEF i
      <3>5. Placed' /\ IdleDark'
        BY <1>2, <3>1, <3>2, <3>4 DEF Placed, IdleDark, Newest
      <3>6. \A k \in 0 .. MaxIdx : lev # <<>> /\ k < lev[Len(lev)].idx /\ cmd[k] => cmd'[k]
        BY <1>1, <2>2, <2>3 DEF Keeps
      <3>7. ASSUME Commanded(lev, cur_fire, cmd, shipped)
            PROVE  Commanded(lev', cur_fire, cmd', shipped)
        <4>1. FALSE \in BOOLEAN /\ (cur_fire => cur_fire /\ lev # <<>>)
          BY <2>5
        <4>2. \A k \in 0 .. MaxIdx : lev # <<>> /\ k >= lev[Len(lev)].idx /\ FALSE => cmd'[k]
          OBVIOUS
        <4> QED BY <1>1, <3>1, <3>6, <3>7, <4>1, <4>2, MergeCommanded, Zenon
      <3> QED BY <1>2, <2>2, <3>1, <3>3, <3>5, <3>7 DEF QueueInv, FireInv
    <2>6. CASE /\ lev' = Append(lev, [idx |-> i, fire |-> FALSE])
               /\ lev # <<>> => ~(lev[Len(lev)].idx >= i) /\ ~(Len(lev) >= LevN)
      <3>1. lev # <<>> => lev[Len(lev)].idx <= i
        BY <1>1, <2>3, <2>6
      <3>2. /\ lev' \in Seq(Transition) /\ lev' # <<>> /\ Sorted(lev')
            /\ Appended(lev, lev', i, FALSE)
        BY <1>1, <2>6, <3>1, AppendForm
      <3>3. Queue'
        <4>1. lev = <<>> => Len(lev) = 0
          OBVIOUS
        <4> QED BY <1>1, <2>6, <3>2, <4>1 DEF Queue, Appended
      <3>4. lev'[Len(lev')].idx <= Larger(produced', shipped')
        BY <1>1, <1>2, <3>2 DEF i, Appended
      <3>5. Placed' /\ IdleDark'
        BY <1>2, <3>2, <3>4 DEF Placed, IdleDark, Newest, Appended
      <3>6. Keeps(cmd, cmd', i) /\ Lights(cmd', i, FALSE)
        BY <1>1, <2>2 DEF Keeps, Lights
      <3>7. ASSUME Commanded(lev, cur_fire, cmd, shipped)
            PROVE  Commanded(lev', cur_fire, cmd', shipped)
        BY <1>1, <3>2, <3>6, <3>7, AppendCommanded
      <3> QED BY <1>2, <2>2, <3>2, <3>3, <3>5, <3>7 DEF QueueInv, FireInv
    <2> QED BY <2>1, <2>4, <2>5, <2>6 DEF LaserOff, Newest
  <1> QED BY <1>3, <1>4

\* gf_stream_reset: a stream that dies takes its queue with it.
LEMMA ResetQueue == ASSUME FireInv, StreamReset PROVE QueueInv'
  <1>1. /\ UNCHANGED <<cmd, shipped, vt, lev_overflow_warned>>
        /\ ~streaming' /\ ~killed' /\ ~failed'
    BY DEF StreamReset
  <1>2. CASE streaming \/ killed \/ failed
    <2>1. lev' = <<>> /\ ~cur_fire'
      BY <1>2 DEF StreamReset
    <2>2. <<>> \in Seq(Transition) /\ Len(<<>>) = 0
      OBVIOUS
    <2>3. Queue' /\ Sorted(lev') /\ Commanded(lev', cur_fire', cmd', shipped')
      BY <2>1, <2>2 DEF Queue, Sorted, Commanded
    <2> QED BY <1>1, <2>1, <2>3 DEF QueueInv, Placed, IdleDark, FireInv
  <1>3. CASE ~(streaming \/ killed \/ failed)
    <2>1. UNCHANGED <<lev, produced>> /\ (cur_fire' <=> cur_fire) /\ cur_fire' \in BOOLEAN
      BY <1>3 DEF StreamReset
    <2>2. cur_fire' = cur_fire
      BY <2>1 DEF FireInv, ShipFlags
    <2> QED BY <1>1, <1>3, <2>1, <2>2 DEF FireInv, QueueInv, Queue, Placed, IdleDark, Newest
  <1> QED BY <1>2, <1>3

\* A slot leaves, of a queue q behind fire.
LEMMA ShipQueue ==
    ASSUME FireInv, NEW q \in Seq(Transition), Sorted(q), Len(q) = Len(lev),
           \A j \in 1 .. Len(lev) : q[j].idx = lev[j].idx,
           NEW fire \in BOOLEAN, NEW gate \in BOOLEAN, NEW c \in [0 .. MaxIdx -> BOOLEAN],
           ~streaming => IF q = <<>> THEN ~fire ELSE ~q[Len(q)].fire,
           lev_overflow_warned \/ Commanded(q, fire, c, shipped),
           ShipTick(q, fire, gate), cmd' = c
    PROVE  /\ QueueInv' /\ cur_fire' \in BOOLEAN
           /\ cur_fire' => lev_overflow_warned \/ c[shipped]
  <1>1. /\ shipped < MaxIdx /\ shipped' = shipped + 1
        /\ cur_fire' = (IF Due(q) = 0 THEN fire ELSE q[Due(q)].fire)
        /\ lev' = SubSeq(q, Due(q) + 1, Len(q))
        /\ UNCHANGED <<streaming, killed, failed, owed, vt, produced, lev_overflow_warned>>
    BY DEF ShipTick
  <1>2. /\ Len(lev) \in Nat /\ Len(lev) <= LevN
        /\ shipped \in 0 .. MaxIdx /\ vt \in 0 .. MaxIdx /\ produced \in 0 .. MaxIdx
    BY DEF FireInv, Grid, Queue
  <1>3. Due(q) \in 0 .. Len(q)
    BY <1>2, DueForm
  <1>4. /\ lev' \in Seq(Transition) /\ Len(lev') = Len(q) - Due(q) /\ Sorted(lev')
        /\ \A j \in 1 .. Len(lev') : j + Due(q) \in 1 .. Len(q) /\ lev'[j] = q[j + Due(q)]
        /\ lev' = <<>> <=> Due(q) = Len(q)
    <2>1. /\ lev' \in Seq(Transition) /\ Sorted(lev') /\ Rest(q, lev', Due(q))
          /\ lev' = <<>> <=> Due(q) = Len(q)
      BY <1>1, <1>3, RestForm
    <2> QED BY <2>1 DEF Rest
  <1>5. cur_fire' \in BOOLEAN
    <2>1. Due(q) # 0 => Due(q) \in 1 .. Len(q) /\ q[Due(q)] \in Transition
      BY <1>3
    <2>2. Due(q) # 0 => q[Due(q)].fire \in BOOLEAN
      BY <2>1 DEF Transition
    <2> QED BY <1>1, <2>2
  <1>6. Queue'
    BY <1>2, <1>3, <1>4 DEF Queue
  <1>7. lev' # <<>> => /\ lev # <<>> /\ q # <<>> /\ lev'[Len(lev')] = q[Len(q)]
                       /\ lev'[Len(lev')].idx = lev[Len(lev)].idx
                       /\ lev[Len(lev)].idx \in 0 .. MaxIdx
    <2> SUFFICES ASSUME lev' # <<>>
                 PROVE  /\ lev # <<>> /\ q # <<>> /\ lev'[Len(lev')] = q[Len(q)]
                        /\ lev'[Len(lev')].idx = lev[Len(lev)].idx
                        /\ lev[Len(lev)].idx \in 0 .. MaxIdx
      OBVIOUS
    <2>1. /\ Len(lev') \in 1 .. Len(lev') /\ Len(lev) \in 1 .. Len(lev)
          /\ Len(lev') + Due(q) = Len(q)
      BY <1>2, <1>3, <1>4
    <2>2. lev'[Len(lev')] = q[Len(q)]
      BY <1>4, <2>1
    <2>3. lev # <<>> /\ q # <<>>
      BY <1>2, <2>1
    <2>4. lev \in Seq(Transition)
      BY DEF FireInv, Queue
    <2> QED BY <2>1, <2>2, <2>3, <2>4, IndexForm
  <1>8. Placed'
    <2>1. ASSUME lev' # <<>>
          PROVE  /\ streaming => lev[Len(lev)].idx <= Larger(vt, shipped + 1)
                 /\ streaming /\ ~owed /\ ~failed => lev[Len(lev)].idx <= produced
                 /\ ~streaming /\ ~killed /\ ~failed =>
                       lev[Len(lev)].idx <= Larger(produced, shipped + 1)
      BY <1>2, <1>7, <2>1 DEF FireInv, Placed, Newest
    <2> QED BY <1>1, <1>7, <2>1 DEF Placed, Newest
  <1>9. IdleDark'
    <2>1. CASE lev' # <<>>
      BY <1>1, <1>7, <2>1 DEF IdleDark, Newest
    <2>2. CASE lev' = <<>>
      <3>1. Due(q) = Len(q) /\ (q = <<>> <=> Due(q) = 0)
        BY <1>3, <1>4, <2>2
      <3>2. ~streaming => ~cur_fire'
        BY <1>1, <3>1
      <3> QED BY <1>1, <2>2, <3>2 DEF IdleDark
    <2> QED BY <2>1, <2>2
  <1>10. ASSUME Commanded(q, fire, c, shipped)
         PROVE  (cur_fire' => c[shipped]) /\ Commanded(lev', cur_fire', c, shipped + 1)
    <2>1. cur_fire' => IF Due(q) = 0 THEN fire ELSE q[Due(q)].fire
      BY <1>1
    <2> QED BY <1>1, <1>2, <1>10, <2>1, ShipCommanded
  <1>11. lev_overflow_warned' \/ Commanded(lev', cur_fire', cmd', shipped')
    BY <1>1, <1>10
  <1>12. cur_fire' => lev_overflow_warned \/ c[shipped]
    BY <1>10
  <1> QED BY <1>4, <1>5, <1>6, <1>8, <1>9, <1>11, <1>12 DEF QueueInv

\* A queue with every fire in it cleared.
LEMMA GatedForm ==
    ASSUME NEW q \in Seq(Transition), Sorted(q),
           NEW r, r = [k \in DOMAIN q |-> [q[k] EXCEPT !.fire = FALSE]]
    PROVE  /\ r \in Seq(Transition) /\ Sorted(r) /\ Len(r) = Len(q)
           /\ \A j \in 1 .. Len(q) : r[j].idx = q[j].idx /\ ~r[j].fire
           /\ r = <<>> <=> q = <<>>
  <1>1. DOMAIN q = 1 .. Len(q) /\ Len(q) \in Nat /\ \A j \in 1 .. Len(q) : q[j] \in Transition
    OBVIOUS
  <1>2. \A j \in 1 .. Len(q) : [q[j] EXCEPT !.fire = FALSE] \in Transition
    BY <1>1 DEF Transition
  <1>3. r \in Seq(Transition) /\ Len(r) = Len(q)
    <2>1. r = [k \in 1 .. Len(q) |-> [q[k] EXCEPT !.fire = FALSE]]
      BY <1>1
    <2> QED BY <1>1, <1>2, <2>1
  <1>4. \A j \in 1 .. Len(q) : r[j].idx = q[j].idx /\ r[j].fire = FALSE
    BY <1>1 DEF Transition
  <1>5. Sorted(r)
    BY <1>3, <1>4 DEF Sorted
  <1>6. r = <<>> <=> q = <<>>
    BY <1>1, <1>3
  <1> QED BY <1>3, <1>4, <1>5, <1>6

\* The gate's edge leaves a sorted queue that is commanded.
LEMMA EdgeForm ==
    ASSUME FireInv
    PROVE  /\ LevGated \in Seq(Transition) /\ Sorted(LevGated) /\ Len(LevGated) = Len(lev)
           /\ \A j \in 1 .. Len(lev) : LevGated[j].idx = lev[j].idx
           /\ CmdGated \in [0 .. MaxIdx -> BOOLEAN]
           /\ LevGated = <<>> <=> lev = <<>>
           /\ ~streaming => IF LevGated = <<>> THEN ~(cur_fire /\ ~GateFalls)
                                               ELSE ~LevGated[Len(LevGated)].fire
           /\ \/ lev_overflow_warned
              \/ Commanded(LevGated, cur_fire /\ ~GateFalls, CmdGated, shipped)
  <1>1. lev \in Seq(Transition) /\ Sorted(lev) /\ cmd \in [0 .. MaxIdx -> BOOLEAN]
        /\ cur_fire \in BOOLEAN
    BY DEF FireInv, Queue, ShipFlags
  <1>2. CASE GateFalls
    <2> DEFINE r == [k \in DOMAIN lev |-> [lev[k] EXCEPT !.fire = FALSE]]
    <2>1. LevGated = r /\ CmdGated = [k \in 0 .. MaxIdx |-> FALSE]
      BY <1>2 DEF LevGated, CmdGated
    <2>2. /\ LevGated \in Seq(Transition) /\ Sorted(LevGated) /\ Len(LevGated) = Len(lev)
          /\ \A j \in 1 .. Len(lev) : LevGated[j].idx = lev[j].idx /\ ~LevGated[j].fire
          /\ LevGated = <<>> <=> lev = <<>>
      BY <1>1, <2>1, GatedForm
    <2>3. CmdGated \in [0 .. MaxIdx -> BOOLEAN]
      BY <2>1
    <2>4. LevGated # <<>> => ~LevGated[Len(LevGated)].fire
      <3>1. LevGated # <<>> => Len(LevGated) \in 1 .. Len(LevGated)
        BY <2>2
      <3> QED BY <2>2, <3>1
    <2>5. Commanded(LevGated, cur_fire /\ ~GateFalls, CmdGated, shipped)
      BY <1>2, <2>2 DEF Commanded
    <2> QED BY <1>2, <2>2, <2>3, <2>4, <2>5
  <1>3. CASE ~GateFalls
    <2>1. LevGated = lev /\ CmdGated = cmd /\ (cur_fire /\ ~GateFalls) = cur_fire
      BY <1>1, <1>3 DEF LevGated, CmdGated
    <2> QED BY <1>1, <2>1 DEF FireInv, IdleDark, Newest
  <1> QED BY <1>2, <1>3

\* ship_pass: the first slot of a pass ...
LEMMA PassFirstQueue ==
    ASSUME FireInv, PassFirst
    PROVE  /\ QueueInv' /\ cur_fire' \in BOOLEAN
           /\ last_lit' => cmd[shipped] \/ lev_overflow_warned
  <1>1. ShipTick(LevGated, cur_fire /\ ~GateFalls, fire_gate) /\ cmd' = CmdGated
    BY DEF PassFirst
  <1>2. (cur_fire /\ ~GateFalls) \in BOOLEAN /\ fire_gate \in BOOLEAN
    BY DEF FireInv, CoreFlags
  <1>3. /\ QueueInv' /\ cur_fire' \in BOOLEAN
        /\ cur_fire' => lev_overflow_warned \/ CmdGated[shipped]
    BY <1>1, <1>2, EdgeForm, ShipQueue
  <1>4. shipped \in 0 .. MaxIdx
    BY DEF FireInv, Grid
  <1>5. CmdGated[shipped] => cmd[shipped]
    BY <1>4 DEF CmdGated
  <1>6. last_lit' => cur_fire'
    BY <1>1 DEF ShipTick
  <1> QED BY <1>3, <1>5, <1>6

\* ... and the next ones.
LEMMA PassNextQueue ==
    ASSUME FireInv, PassNext
    PROVE  /\ QueueInv' /\ cur_fire' \in BOOLEAN
           /\ last_lit' => cmd[shipped] \/ lev_overflow_warned
  <1>1. ShipTick(lev, cur_fire, gate_seen) /\ cmd' = cmd
    BY DEF PassNext
  <1>2. /\ lev \in Seq(Transition) /\ Sorted(lev) /\ cmd \in [0 .. MaxIdx -> BOOLEAN]
        /\ cur_fire \in BOOLEAN /\ gate_seen \in BOOLEAN
        /\ ~streaming => IF lev = <<>> THEN ~cur_fire ELSE ~lev[Len(lev)].fire
        /\ lev_overflow_warned \/ Commanded(lev, cur_fire, cmd, shipped)
    BY DEF FireInv, Queue, ShipFlags, IdleDark, Newest
  <1>3. /\ QueueInv' /\ cur_fire' \in BOOLEAN
        /\ cur_fire' => lev_overflow_warned \/ cmd[shipped]
    BY <1>1, <1>2, ShipQueue
  <1>4. last_lit' => cur_fire'
    BY <1>1 DEF ShipTick
  <1> QED BY <1>3, <1>4

\* The stream's end, with its pad or without.
LEMMA EndQueue == ASSUME FireInv, StreamEnd PROVE QueueInv'
  <1>1. /\ lev' = LevGated /\ cmd' = CmdGated /\ ~streaming
        /\ UNCHANGED <<streaming, killed, failed, owed, lev_overflow_warned, vt>>
    BY DEF StreamEnd
  <1>2. /\ shipped \in 0 .. MaxIdx /\ produced \in 0 .. MaxIdx /\ shipped >= produced
        /\ cur_fire \in BOOLEAN
    BY DEF FireInv, Grid, ShipFlags, StreamEnd
  <1>3. /\ shipped' \in Int /\ shipped' >= shipped
        /\ cur_fire' => cur_fire /\ ~GateFalls
    <2>1. shipped' = shipped \/ shipped' = shipped + 1
      BY DEF StreamEnd
    <2>2. cur_fire' => cur_fire /\ ~GateFalls
      BY DEF StreamEnd
    <2> QED BY <1>2, <2>1, <2>2
  <1>4. /\ lev' \in Seq(Transition) /\ Sorted(lev') /\ Len(lev') = Len(lev)
        /\ \A j \in 1 .. Len(lev) : lev'[j].idx = lev[j].idx
        /\ cmd' \in [0 .. MaxIdx -> BOOLEAN]
        /\ lev' = <<>> <=> lev = <<>>
        /\ IF lev' = <<>> THEN ~(cur_fire /\ ~GateFalls) ELSE ~lev'[Len(lev')].fire
        /\ lev_overflow_warned \/ Commanded(lev', cur_fire /\ ~GateFalls, cmd', shipped)
    BY <1>1, EdgeForm
  <1>5. Queue'
    BY <1>4 DEF FireInv, Queue
  <1>6. IdleDark'
    BY <1>3, <1>4 DEF IdleDark, Newest
  <1>7. Placed'
    <2>1. lev # <<>> => /\ Len(lev) \in 1 .. Len(lev)
                        /\ lev[Len(lev)].idx \in 0 .. MaxIdx
      BY IndexForm DEF FireInv, Queue
    <2>2. lev # <<>> /\ ~killed /\ ~failed => lev[Len(lev)].idx <= shipped
      BY <1>1, <1>2 DEF FireInv, Placed, Newest
    <2>3. shipped' >= produced' \/ produced' = produced
      BY <1>2 DEF StreamEnd
    <2>4. lev # <<>> /\ ~killed /\ ~failed => lev[Len(lev)].idx <= shipped'
      BY <1>2, <1>3, <2>1, <2>2
    <2>5. produced' \in Int
      BY <1>2, <1>3 DEF StreamEnd
    <2>6. lev # <<>> /\ ~killed /\ ~failed => lev[Len(lev)].idx <= Larger(produced', shipped')
      BY <1>3, <2>1, <2>4, <2>5
    <2> QED BY <1>1, <1>4, <2>1, <2>6 DEF Placed, Newest
  <1>8. lev_overflow_warned' \/ Commanded(lev', cur_fire', cmd', shipped')
    BY <1>1, <1>2, <1>3, <1>4 DEF Commanded
  <1> QED BY <1>4, <1>5, <1>6, <1>7, <1>8 DEF QueueInv

-----------------------------------------------------------------------------
(* The parts of the invariant, step by step.                               *)

\* The window and the jog.
LEMMA WindowFlags ==
    ASSUME FireInv, [Next]_vars
    PROVE  /\ laser_armed' \in BOOLEAN /\ fire_gate' \in BOOLEAN /\ core_jog' \in BOOLEAN
           /\ jogging' \in BOOLEAN
  <1>1. CASE \/ UNCHANGED vars
             \/ Tick \/ Pulse \/ StreamReset \/ (\E b \in BOOLEAN : Laser(b))
             \/ (\E b \in BOOLEAN : GoIdle(b))
             \/ (\E due \in 0 .. MaxIdx, level \in BOOLEAN : Wakeup(due, level))
             \/ PassFirst \/ PassNext \/ PassEnd \/ StreamEnd \/ FaultPad \/ ResetPad
             \/ Clear \/ StreamFault
    <2>1. UNCHANGED <<laser_armed, fire_gate, core_jog, jogging>>
      BY <1>1 DEF Tick, Pulse, StreamReset, Laser, GoIdle, Wakeup, PassFirst, PassNext,
         PassEnd, StreamEnd, FaultPad, ResetPad, Clear, StreamFault, vars, ShipTick
    <2> QED BY <2>1 DEF FireInv, CoreFlags
  <1>2. CASE Disarm
    BY <1>2 DEF Disarm, FireInv, CoreFlags
  <1>3. CASE \E b \in BOOLEAN : Arm(b)
    BY <1>3 DEF Arm, FireInv, CoreFlags
  <1>4. CASE \E b \in BOOLEAN : FireGate(b)
    BY <1>4 DEF FireGate, FireInv, CoreFlags
  <1>5. CASE \E b \in BOOLEAN : Jog(b)
    BY <1>5 DEF Jog, FireInv, CoreFlags
  <1> QED
    BY <1>1, <1>2, <1>3, <1>4, <1>5 DEF Next, Core, Shipper

\* The stream.
LEMMA StreamFlags ==
    ASSUME FireInv, [Next]_vars
    PROVE  /\ owed' \in BOOLEAN /\ streaming' \in BOOLEAN /\ killed' \in BOOLEAN
           /\ failed' \in BOOLEAN
  <1>1. CASE \/ UNCHANGED vars
             \/ Disarm \/ Tick \/ (\E b \in BOOLEAN : Arm(b))
             \/ (\E b \in BOOLEAN : FireGate(b)) \/ (\E b \in BOOLEAN : Jog(b))
             \/ PassFirst \/ PassNext \/ PassEnd \/ StreamEnd \/ FaultPad \/ ResetPad
             \/ Clear
    <2>1. UNCHANGED <<owed, streaming, killed, failed>>
      BY <1>1 DEF Disarm, Tick, Arm, FireGate, Jog, PassFirst, PassNext, PassEnd,
         StreamEnd, FaultPad, ResetPad, Clear, vars, ShipTick
    <2> QED BY <2>1 DEF FireInv, CoreFlags
  <1>2. CASE Pulse
    BY <1>2 DEF Pulse, FireInv, CoreFlags
  <1>3. CASE StreamReset
    BY <1>3 DEF StreamReset, FireInv, CoreFlags
  <1>4. CASE \E b \in BOOLEAN : Laser(b)
    BY <1>4 DEF Laser, LaserEvent, FireInv, CoreFlags
  <1>5. CASE \E b \in BOOLEAN : GoIdle(b)
    BY <1>5 DEF GoIdle, FireInv, CoreFlags
  <1>6. CASE \E due \in 0 .. MaxIdx, level \in BOOLEAN : Wakeup(due, level)
    BY <1>6 DEF Wakeup, FireInv, CoreFlags
  <1>7. CASE StreamFault
    BY <1>7 DEF StreamFault, FireInv, CoreFlags
  <1> QED
    BY <1>1, <1>2, <1>3, <1>4, <1>5, <1>6, <1>7 DEF Next, Core, Shipper

\* The overflow, once warned of.
LEMMA WarnedFlag == ASSUME FireInv, [Next]_vars PROVE lev_overflow_warned' \in BOOLEAN
  <1>1. CASE \/ UNCHANGED vars
             \/ Disarm \/ Tick \/ Pulse \/ StreamReset \/ (\E b \in BOOLEAN : Arm(b))
             \/ (\E b \in BOOLEAN : FireGate(b)) \/ (\E b \in BOOLEAN : Jog(b))
             \/ (\E b \in BOOLEAN : GoIdle(b))
             \/ (\E due \in 0 .. MaxIdx, level \in BOOLEAN : Wakeup(due, level))
             \/ PassFirst \/ PassNext \/ PassEnd \/ StreamEnd \/ FaultPad \/ ResetPad
             \/ Clear \/ StreamFault
    <2>1. lev_overflow_warned' = lev_overflow_warned
      BY <1>1 DEF Disarm, Tick, Pulse, StreamReset, Arm, FireGate, Jog, GoIdle, Wakeup,
         PassFirst, PassNext, PassEnd, StreamEnd, FaultPad, ResetPad, Clear, StreamFault,
         vars, ShipTick
    <2> QED BY <2>1 DEF FireInv, CoreFlags
  <1>2. CASE \E b \in BOOLEAN : Laser(b)
    BY <1>2, LaserQueue DEF FireInv, CoreFlags
  <1> QED
    BY <1>1, <1>2 DEF Next, Core, Shipper

\* The full queue.
LEMMA CrowdedFlag == ASSUME FireInv, [Next]_vars PROVE crowded' \in BOOLEAN
  <1>1. CASE \/ UNCHANGED vars
             \/ Disarm \/ Tick \/ Pulse \/ StreamReset \/ (\E b \in BOOLEAN : Arm(b))
             \/ (\E b \in BOOLEAN : FireGate(b)) \/ (\E b \in BOOLEAN : Jog(b))
             \/ PassFirst \/ PassNext \/ PassEnd \/ StreamEnd \/ FaultPad \/ ResetPad
             \/ Clear \/ StreamFault
    <2>1. crowded' = crowded
      BY <1>1 DEF Disarm, Tick, Pulse, StreamReset, Arm, FireGate, Jog, PassFirst, PassNext,
         PassEnd, StreamEnd, FaultPad, ResetPad, Clear, StreamFault, vars, ShipTick
    <2> QED BY <2>1 DEF FireInv, CoreFlags
  <1>2. CASE \E b \in BOOLEAN : Laser(b)
    BY <1>2 DEF Laser, LaserEvent, FireInv, CoreFlags
  <1>3. CASE \E b \in BOOLEAN : GoIdle(b)
    BY <1>3 DEF GoIdle, FireInv, CoreFlags
  <1>4. CASE \E due \in 0 .. MaxIdx, level \in BOOLEAN : Wakeup(due, level)
    BY <1>4 DEF Wakeup, FireInv, CoreFlags
  <1> QED
    BY <1>1, <1>2, <1>3, <1>4 DEF Next, Core, Shipper

\* The gate, the wanted fire and the kernel.
LEMMA GateFlags ==
    ASSUME FireInv, [Next]_vars
    PROVE  /\ want_fire' \in BOOLEAN /\ gate_seen' \in BOOLEAN /\ kernel_running' \in BOOLEAN
           /\ clear_pending' \in BOOLEAN
  <1>1. CASE \/ UNCHANGED vars
             \/ Disarm \/ Tick \/ Pulse \/ (\E b \in BOOLEAN : Arm(b))
             \/ (\E b \in BOOLEAN : FireGate(b)) \/ (\E b \in BOOLEAN : Jog(b))
             \/ (\E b \in BOOLEAN : GoIdle(b))
             \/ (\E due \in 0 .. MaxIdx, level \in BOOLEAN : Wakeup(due, level)) \/ PassEnd
             \/ FaultPad \/ ResetPad \/ StreamFault
    <2>1. UNCHANGED <<want_fire, gate_seen, kernel_running, clear_pending>>
      BY <1>1 DEF Disarm, Tick, Pulse, Arm, FireGate, Jog, GoIdle, Wakeup, PassEnd,
         FaultPad, ResetPad, StreamFault, vars, ShipTick
    <2> QED BY <2>1 DEF FireInv, CoreFlags, ShipFlags
  <1>2. CASE StreamReset
    BY <1>2 DEF StreamReset, FireInv, CoreFlags, ShipFlags
  <1>3. CASE \E b \in BOOLEAN : Laser(b)
    BY <1>3 DEF Laser, LaserEvent, FireInv, CoreFlags, ShipFlags
  <1>4. CASE PassFirst
    BY <1>4 DEF PassFirst, ShipTick, FireInv, CoreFlags, ShipFlags
  <1>5. CASE PassNext
    BY <1>5 DEF PassNext, ShipTick, FireInv, CoreFlags, ShipFlags
  <1>6. CASE StreamEnd
    BY <1>6 DEF StreamEnd, FireInv, CoreFlags, ShipFlags
  <1>7. CASE Clear
    BY <1>7 DEF Clear, FireInv, CoreFlags, ShipFlags
  <1> QED
    BY <1>1, <1>2, <1>3, <1>4, <1>5, <1>6, <1>7 DEF Next, Core, Shipper

\* The shipper's record of what it has sent.
LEMMA LitFlags ==
    ASSUME FireInv, [Next]_vars
    PROVE  /\ last_lit' \in BOOLEAN /\ tail' \in BOOLEAN /\ power_sent' \in BOOLEAN
           /\ led' \in BOOLEAN /\ forgotten' \in BOOLEAN
  <1>1. CASE \/ UNCHANGED vars
             \/ Disarm \/ Tick \/ Pulse \/ (\E b \in BOOLEAN : Arm(b))
             \/ (\E b \in BOOLEAN : FireGate(b)) \/ (\E b \in BOOLEAN : Laser(b))
             \/ (\E b \in BOOLEAN : Jog(b)) \/ (\E b \in BOOLEAN : GoIdle(b))
             \/ (\E due \in 0 .. MaxIdx, level \in BOOLEAN : Wakeup(due, level)) \/ PassEnd
             \/ StreamFault
    <2>1. UNCHANGED <<last_lit, tail, power_sent, led, forgotten>>
      BY <1>1 DEF Disarm, Tick, Pulse, Arm, FireGate, Laser, Jog, GoIdle, Wakeup, PassEnd,
         StreamFault, vars, ShipTick
    <2> QED BY <2>1 DEF FireInv, CoreFlags, ShipFlags
  <1>2. CASE StreamReset
    BY <1>2 DEF StreamReset, FireInv, CoreFlags, ShipFlags
  <1>3. CASE PassFirst
    BY <1>3 DEF PassFirst, ShipTick, FireInv, CoreFlags, ShipFlags
  <1>4. CASE PassNext
    BY <1>4 DEF PassNext, ShipTick, FireInv, CoreFlags, ShipFlags
  <1>5. CASE StreamEnd
    BY <1>5 DEF StreamEnd, PadOwed, PowerAtEnd, FireInv, ShipFlags
  <1>6. CASE FaultPad
    BY <1>6 DEF FaultPad, FireInv, CoreFlags, ShipFlags
  <1>7. CASE ResetPad
    BY <1>7 DEF ResetPad, FireInv, CoreFlags, ShipFlags
  <1>8. CASE Clear
    BY <1>8 DEF Clear, FireInv, CoreFlags, ShipFlags
  <1> QED
    BY <1>1, <1>2, <1>3, <1>4, <1>5, <1>6, <1>7, <1>8 DEF Next, Core, Shipper

\* The fire at the ship cursor.
LEMMA CurFlag ==
    ASSUME FireInv, [Next]_vars
    PROVE  cur_fire' \in BOOLEAN /\ spc' \in {"top", "pass"}
  <1>1. CASE \/ UNCHANGED vars
             \/ Disarm \/ Tick \/ Pulse \/ (\E b \in BOOLEAN : Arm(b))
             \/ (\E b \in BOOLEAN : FireGate(b)) \/ (\E b \in BOOLEAN : Laser(b))
             \/ (\E b \in BOOLEAN : Jog(b)) \/ (\E b \in BOOLEAN : GoIdle(b)) \/ ResetPad
             \/ Clear \/ StreamFault
    <2>1. UNCHANGED <<cur_fire, spc>>
      BY <1>1 DEF Disarm, Tick, Pulse, Arm, FireGate, Laser, Jog, GoIdle, ResetPad, Clear,
         StreamFault, vars, ShipTick
    <2> QED BY <2>1 DEF FireInv, CoreFlags, ShipFlags
  <1>2. CASE StreamReset
    BY <1>2 DEF StreamReset, FireInv, CoreFlags, ShipFlags
  <1>3. CASE \E due \in 0 .. MaxIdx, level \in BOOLEAN : Wakeup(due, level)
    BY <1>3 DEF Wakeup, FireAtWakeup, FireInv, ShipFlags
  <1>4. CASE PassFirst
    BY <1>4, PassFirstQueue DEF PassFirst, ShipTick
  <1>5. CASE PassNext
    BY <1>5, PassNextQueue DEF PassNext, ShipTick
  <1>6. CASE PassEnd
    BY <1>6 DEF PassEnd, FireInv, CoreFlags, ShipFlags
  <1>7. CASE StreamEnd
    BY <1>7 DEF StreamEnd, GateFalls, FireInv, ShipFlags, CoreFlags
  <1>8. CASE FaultPad
    BY <1>8 DEF FaultPad, FireInv, CoreFlags, ShipFlags
  <1> QED
    BY <1>1, <1>2, <1>3, <1>4, <1>5, <1>6, <1>7, <1>8 DEF Next, Core, Shipper

\* The indices.
LEMMA GridStep == ASSUME FireInv, [Next]_vars PROVE Grid'
  <1>1. CASE \/ UNCHANGED vars
             \/ Disarm \/ (\E b \in BOOLEAN : Arm(b)) \/ (\E b \in BOOLEAN : FireGate(b))
             \/ (\E b \in BOOLEAN : Laser(b)) \/ (\E b \in BOOLEAN : Jog(b))
             \/ (\E b \in BOOLEAN : GoIdle(b)) \/ PassEnd \/ FaultPad \/ ResetPad \/ Clear
             \/ StreamFault
    <2>1. UNCHANGED <<vt, base, produced, shipped>>
      BY <1>1 DEF Disarm, Arm, FireGate, Laser, Jog, GoIdle, PassEnd, FaultPad, ResetPad,
         Clear, StreamFault, vars, ShipTick
    <2> QED BY <2>1 DEF FireInv, CoreFlags, Grid
  <1>2. CASE Tick
    BY <1>2 DEF Tick, FireInv, CoreFlags, Grid
  <1>3. CASE Pulse
    BY <1>3 DEF Pulse, FireInv, CoreFlags, Grid
  <1>4. CASE StreamReset
    BY <1>4 DEF StreamReset, FireInv, CoreFlags, Grid
  <1>5. CASE \E due \in 0 .. MaxIdx, level \in BOOLEAN : Wakeup(due, level)
    BY <1>5 DEF Wakeup, FireInv, CoreFlags, Grid
  <1>6. CASE PassFirst
    BY <1>6 DEF PassFirst, ShipTick, FireInv, CoreFlags, Grid
  <1>7. CASE PassNext
    BY <1>7 DEF PassNext, ShipTick, FireInv, CoreFlags, Grid
  <1>8. CASE StreamEnd
    BY <1>8 DEF StreamEnd, FireInv, CoreFlags, Grid
  <1> QED
    BY <1>1, <1>2, <1>3, <1>4, <1>5, <1>6, <1>7, <1>8 DEF Next, Core, Shipper

\* The power byte.
LEMMA LedStep == ASSUME FireInv, [Next]_vars PROVE Led'
  <1>1. CASE \/ UNCHANGED vars
             \/ Disarm \/ Tick \/ Pulse \/ (\E b \in BOOLEAN : Arm(b))
             \/ (\E b \in BOOLEAN : FireGate(b)) \/ (\E b \in BOOLEAN : Laser(b))
             \/ (\E b \in BOOLEAN : Jog(b)) \/ (\E b \in BOOLEAN : GoIdle(b))
             \/ (\E due \in 0 .. MaxIdx, level \in BOOLEAN : Wakeup(due, level)) \/ PassEnd
             \/ FaultPad \/ ResetPad \/ StreamFault
    <2>1. UNCHANGED <<power_sent, kernel_running, led>>
      BY <1>1 DEF Disarm, Tick, Pulse, Arm, FireGate, Laser, Jog, GoIdle, Wakeup, PassEnd,
         FaultPad, ResetPad, StreamFault, vars, ShipTick
    <2> QED BY <2>1 DEF FireInv, Led
  <1>2. CASE StreamReset
    BY <1>2 DEF StreamReset, FireInv, CoreFlags, ShipFlags, Led
  <1>3. CASE PassFirst
    BY <1>3 DEF PassFirst, ShipTick, FireInv, CoreFlags, ShipFlags, Led
  <1>4. CASE PassNext
    BY <1>4 DEF PassNext, ShipTick, FireInv, CoreFlags, ShipFlags, Led
  <1>5. CASE StreamEnd
    BY <1>5 DEF StreamEnd, PowerAtEnd, FireInv, Led
  <1>6. CASE Clear
    BY <1>6 DEF Clear, FireInv, CoreFlags, ShipFlags, Led
  <1> QED
    BY <1>1, <1>2, <1>3, <1>4, <1>5, <1>6 DEF Next, Core, Shipper

\* The newest index is on the grid.
LEMMA NewestForm == ASSUME FireInv, lev # <<>> PROVE Newest.idx \in 0 .. MaxIdx
  <1>1. lev \in Seq(Transition) /\ Len(lev) \in 1 .. Len(lev)
    BY DEF FireInv, Queue
  <1> QED BY <1>1, IndexForm DEF Newest

\* The queue.
LEMMA QueueStep == ASSUME FireInv, [Next]_vars PROVE QueueInv'
  <1>1. CASE \/ UNCHANGED vars
             \/ Disarm \/ (\E b \in BOOLEAN : Arm(b)) \/ (\E b \in BOOLEAN : FireGate(b))
             \/ PassEnd \/ ResetPad \/ Clear
    <2>1. UNCHANGED <<lev, cmd, cur_fire, shipped, streaming, killed, failed, owed, vt,
                produced, lev_overflow_warned>>
      BY <1>1 DEF Disarm, Arm, FireGate, PassEnd, ResetPad, Clear, vars, ShipTick
    <2> QED BY <2>1 DEF FireInv, QueueInv, Queue, Placed, IdleDark, Newest
  <1>2. CASE Tick
    <2>1. lev # <<>> => Newest.idx \in 0 .. MaxIdx
      BY NewestForm
    <2>2. Placed'
      BY <1>2, <2>1 DEF Tick, FireInv, Grid, Placed, Newest
    <2> QED BY <1>2, <2>2 DEF Tick, FireInv, QueueInv, Queue, IdleDark, Newest
  <1>3. CASE Pulse
    <2>1. lev # <<>> => Newest.idx \in 0 .. MaxIdx
      BY NewestForm
    <2>2. Placed'
      BY <1>3, <2>1 DEF Pulse, FireInv, Grid, Placed, Newest
    <2> QED BY <1>3, <2>2 DEF Pulse, FireInv, QueueInv, Queue, IdleDark, Newest
  <1>4. CASE StreamReset
    BY <1>4, ResetQueue DEF QueueInv
  <1>5. CASE \E b \in BOOLEAN : Laser(b)
    BY <1>5, LaserQueue DEF QueueInv
  <1>6. CASE \E b \in BOOLEAN : Jog(b)
    BY <1>6, JogForm DEF Jog, FireInv, QueueInv, Queue, Placed, IdleDark, Newest
  <1>7. CASE \E b \in BOOLEAN : GoIdle(b)
    BY <1>7, GoIdleQueue DEF QueueInv
  <1>8. CASE \E due \in 0 .. MaxIdx, level \in BOOLEAN : Wakeup(due, level)
    BY <1>8, WakeupQueue DEF QueueInv
  <1>9. CASE PassFirst
    BY <1>9, PassFirstQueue DEF QueueInv
  <1>10. CASE PassNext
    BY <1>10, PassNextQueue DEF QueueInv
  <1>11. CASE StreamEnd
    BY <1>11, EndQueue DEF QueueInv
  <1>12. CASE FaultPad
    <2>1. UNCHANGED <<lev, cmd, shipped, streaming, killed, failed, owed, vt, produced,
                      lev_overflow_warned>> /\ ~cur_fire'
      BY <1>12 DEF FaultPad
    <2>2. Commanded(lev, cur_fire, cmd, shipped) => Commanded(lev, cur_fire', cmd, shipped)
      BY <2>1 DEF Commanded
    <2> QED BY <2>1, <2>2 DEF FireInv, QueueInv, Queue, Placed, IdleDark, Newest
  <1>13. CASE StreamFault
    BY <1>13 DEF StreamFault, FireInv, QueueInv, Queue, Placed, IdleDark, Newest
  <1> QED
    BY <1>1, <1>2, <1>3, <1>4, <1>5, <1>6, <1>7, <1>8, <1>9, <1>10, <1>11, <1>12, <1>13
       DEF Next, Core, Shipper

\* The initial states.
LEMMA FireInit == ASSUME Init PROVE FireInv
  <1>1. CoreFlags /\ ShipFlags
    BY DEF Init, CoreFlags, ShipFlags
  <1>2. Grid
    BY DEF Init, Grid
  <1>3. lev = <<>> /\ Len(lev) = 0 /\ lev \in Seq(Transition) /\ ~cur_fire
    <2>1. <<>> \in Seq(Transition) /\ Len(<<>>) = 0
      OBVIOUS
    <2> QED BY <2>1 DEF Init
  <1>4. Queue /\ Sorted(lev) /\ Placed /\ IdleDark
    BY <1>3 DEF Queue, Sorted, Placed, IdleDark
  <1>5. Commanded(lev, cur_fire, cmd, shipped)
    BY <1>3 DEF Commanded
  <1>6. cmd \in [0 .. MaxIdx -> BOOLEAN] /\ Led
    BY DEF Init, Led
  <1> QED BY <1>1, <1>2, <1>4, <1>5, <1>6 DEF FireInv

-----------------------------------------------------------------------------
(* The theorems.                                                           *)

\* The inductive invariant holds in every reachable state: what is queued, in
\* the order of the stream, lights only what the core commanded.
THEOREM FireInvariant == Spec => []FireInv
  <1>1. ASSUME FireInv, [Next]_vars PROVE CoreFlags'
    BY <1>1, WindowFlags, StreamFlags, WarnedFlag, CrowdedFlag DEF CoreFlags
  <1>2. ASSUME FireInv, [Next]_vars PROVE ShipFlags'
    BY <1>2, GateFlags, LitFlags, CurFlag DEF ShipFlags
  <1>3. ASSUME FireInv, [Next]_vars PROVE FireInv'
    BY <1>1, <1>2, <1>3, GridStep, LedStep, QueueStep DEF FireInv, QueueInv
  <1> QED BY <1>3, FireInit, PTL DEF Spec

\* Every variable has its type, and the transition queue never grows past
\* LEV_N, whatever the core commands between two passes of the shipper.
THEOREM TypeCorrect == Spec => []TypeOK
  <1>1. ASSUME FireInv PROVE TypeOK
    <2>1. {vt, base, produced, shipped} \subseteq 0 .. MaxIdx
      BY <1>1 DEF FireInv, Grid
    <2>2. lev \in Seq([idx : 0 .. MaxIdx, fire : BOOLEAN]) /\ Len(lev) <= LevN
      BY <1>1 DEF FireInv, Queue, Transition
    <2>3. cmd \in [0 .. MaxIdx -> BOOLEAN]
      BY <1>1 DEF FireInv
    <2>4. CoreFlags /\ ShipFlags
      BY <1>1 DEF FireInv
    <2> QED BY <2>1, <2>2, <2>3, <2>4 DEF TypeOK, CoreFlags, ShipFlags
  <1> QED BY <1>1, FireInvariant, PTL

\* A lit tick that leaves.
LEMMA ShipsLitStep ==
    ASSUME FireInv, [Next]_vars
    PROVE  [ShipsLit => led' /\ (cmd[shipped] \/ lev_overflow_warned)]_vars
  <1>1. CASE \/ UNCHANGED vars
             \/ Disarm \/ Tick \/ Pulse \/ StreamReset \/ (\E b \in BOOLEAN : Arm(b))
             \/ (\E b \in BOOLEAN : FireGate(b)) \/ (\E b \in BOOLEAN : Laser(b))
             \/ (\E b \in BOOLEAN : Jog(b)) \/ (\E b \in BOOLEAN : GoIdle(b)) \/ PassEnd
             \/ FaultPad \/ ResetPad \/ Clear \/ StreamFault
    <2>1. shipped' = shipped
      BY <1>1 DEF Disarm, Tick, Pulse, StreamReset, Arm, FireGate, Laser, Jog, GoIdle,
         PassEnd, FaultPad, ResetPad, Clear, StreamFault, vars, ShipTick
    <2> QED BY <2>1 DEF FireInv, Grid, ShipsLit
  <1>2. CASE \E due \in 0 .. MaxIdx, level \in BOOLEAN : Wakeup(due, level)
    BY <1>2 DEF Wakeup, FireInv, Grid, CoreFlags, ShipFlags, Led, ShipsLit
  <1>3. CASE PassFirst
    <2>1. led'
      BY <1>3 DEF PassFirst, ShipTick, FireInv, Led, ShipFlags
    <2> QED BY <1>3, <2>1, PassFirstQueue DEF ShipsLit
  <1>4. CASE PassNext
    <2>1. led'
      BY <1>4 DEF PassNext, ShipTick, FireInv, Led, ShipFlags
    <2> QED BY <1>4, <2>1, PassNextQueue DEF ShipsLit
  <1>5. CASE StreamEnd
    <2>1. shipped' = shipped \/ ~last_lit'
      BY <1>5 DEF StreamEnd, PadOwed
    <2>2. ~(shipped > shipped)
      BY DEF FireInv, Grid
    <2>3. ~ShipsLit
      BY <2>1, <2>2 DEF ShipsLit
    <2> QED BY <2>3
  <1> QED
    BY <1>1, <1>2, <1>3, <1>4, <1>5 DEF Next, Core, Shipper

\* A lit tick is one the core commanded lit at its index, in the window, outside
\* a jog and not before the last fall of the gate, for every order of the core's
\* transitions and the shipper's passes, unless the queue has overflowed
\* (laser_event_locked, ship_pass).
THEOREM LitIsCommanded == Spec => LitCommanded
  <1>1. ASSUME FireInv, [Next]_vars
        PROVE  [ShipsLit => cmd[shipped] \/ lev_overflow_warned]_vars
    BY <1>1, ShipsLitStep
  <1> QED BY <1>1, FireInvariant, PTL DEF Spec, LitCommanded

\* A power byte leads every run: no lit tick leaves before it, whatever ended
\* the run before (ship_pass, gf_stream_reset, the clear).
THEOREM RunIsLed == Spec => RunLed
  <1>1. ASSUME FireInv, [Next]_vars PROVE [ShipsLit => led']_vars
    BY <1>1, ShipsLitStep
  <1> QED BY <1>1, FireInvariant, PTL DEF Spec, RunLed

\* The last byte in the kernel's ring.
LEMMA DarkStep ==
    ASSUME FireInv, DarkInv, [Next]_vars
    PROVE  DarkInv'
  <1>1. CASE \/ UNCHANGED vars
             \/ Disarm \/ Tick \/ Pulse \/ (\E b \in BOOLEAN : Arm(b))
             \/ (\E b \in BOOLEAN : FireGate(b)) \/ (\E b \in BOOLEAN : Laser(b))
             \/ (\E b \in BOOLEAN : Jog(b)) \/ (\E b \in BOOLEAN : GoIdle(b))
             \/ (\E due \in 0 .. MaxIdx, level \in BOOLEAN : Wakeup(due, level)) \/ PassEnd
             \/ StreamFault
    <2>1. UNCHANGED <<clear_pending, tail, last_lit, kernel_running, forgotten>>
      BY <1>1 DEF Disarm, Tick, Pulse, Arm, FireGate, Laser, Jog, GoIdle, Wakeup, PassEnd,
         StreamFault, vars, ShipTick
    <2> QED BY <2>1 DEF DarkInv
  <1>2. CASE StreamReset
    BY <1>2 DEF StreamReset, FireInv, CoreFlags, ShipFlags, DarkInv
  <1>3. CASE PassFirst
    BY <1>3 DEF PassFirst, ShipTick, FireInv, CoreFlags, ShipFlags, DarkInv
  <1>4. CASE PassNext
    BY <1>4 DEF PassNext, ShipTick, FireInv, CoreFlags, ShipFlags, DarkInv
  <1>5. CASE StreamEnd
    BY <1>5 DEF StreamEnd, PadOwed, FireInv, ShipFlags, DarkInv
  <1>6. CASE FaultPad
    BY <1>6 DEF FaultPad, FireInv, CoreFlags, ShipFlags, DarkInv
  <1>7. CASE ResetPad
    BY <1>7 DEF ResetPad, FireInv, CoreFlags, ShipFlags, DarkInv
  <1>8. CASE Clear
    BY <1>8 DEF Clear, FireInv, CoreFlags, ShipFlags, DarkInv
  <1> QED
    BY <1>1, <1>2, <1>3, <1>4, <1>5, <1>6, <1>7, <1>8 DEF Next, Core, Shipper

\* A stream that is no longer the kernel's ended dark, through faults, resets of
\* every kind and the clears they owe (ship_pass, pending_pass); a reset outside
\* motion that overwrites last_lit is the only thing that can leave it lit.
THEOREM StreamEndsDark == Spec => []EndsDark
  <1>1. ASSUME Init PROVE DarkInv
    BY <1>1 DEF Init, DarkInv
  <1>2. ASSUME FireInv, DarkInv PROVE EndsDark
    BY <1>2 DEF FireInv, ShipFlags, DarkInv, EndsDark
  <1> QED BY <1>1, <1>2, DarkStep, FireInvariant, PTL DEF Spec
-----------------------------------------------------------------------------
(* The other way: what is commanded lit leaves lit, in a first cycle.      *)

\* A slot up to e that has not left, dark by the transitions q behind fire, is
\* one the core commanded dark in c.
Obeyed(q, fire, c, s, e) ==
    \A k \in 0 .. MaxIdx :
        k >= s /\ k <= e =>
            /\ ~fire /\ (\A m \in 1 .. Len(q) : k < q[m].idx) => ~c[k]
            /\ \A j \in 1 .. Len(q) :
                  ~q[j].fire /\ k >= q[j].idx /\ (\A m \in 1 .. Len(q) : m > j => k < q[m].idx)
                      => ~c[k]

\* The slots that will leave: all of a stream that goes on, or what is left of
\* one that has ended.
LastSlot == IF streaming THEN MaxIdx ELSE produced - 1

\* A cycle that ended has stepped, so that the next base lies behind it: only a
\* fresh stream begins at the pipeline's depth.
Stepped ==
    /\ streaming => base >= Depth /\ produced >= base
    /\ streaming /\ ~owed /\ ~failed => produced > base
    /\ ~streaming /\ ~killed /\ ~failed /\ (kernel_running \/ shipped < produced)
          => produced > Depth

FirstLit ==
    base = Depth /\ ~failed /\ ~crowded /\ (streaming \/ shipped < produced)
        => Obeyed(lev, cur_fire, cmd, shipped, LastSlot)

LitInv == Stepped /\ FirstLit

\* Command d takes nothing of c back before index i, up to e, and lights no more
\* than f from there on.
Follows(c, d, i, e) == \A k \in 0 .. MaxIdx : k <= e /\ k < i /\ d[k] => c[k]
Bounded(d, i, f, e) == \A k \in 0 .. MaxIdx : k <= e /\ k >= i /\ d[k] => f

\* The command of later ticks, in the newest transition ...
LEMMA MergeObeyed ==
    ASSUME NEW q \in Seq(Transition), q # <<>>, NEW r, NEW f, Merged(q, r, f),
           NEW fire, NEW c, NEW d, NEW s, NEW e \in Int, NEW e2 \in Int, e2 <= e,
           Obeyed(q, fire, c, s, e),
           Follows(c, d, q[Len(q)].idx, e2), Bounded(d, q[Len(q)].idx, f, e2)
    PROVE  Obeyed(r, fire, d, s, e2)
  <1>1. Len(q) \in Nat /\ Len(q) \in 1 .. Len(q)
    OBVIOUS
  <1> SUFFICES ASSUME NEW k \in 0 .. MaxIdx, k >= s, k <= e2
               PROVE  /\ ~fire /\ (\A m \in 1 .. Len(r) : k < r[m].idx) => ~d[k]
                      /\ \A j \in 1 .. Len(r) :
                            ~r[j].fire /\ k >= r[j].idx
                              /\ (\A m \in 1 .. Len(r) : m > j => k < r[m].idx) => ~d[k]
    BY DEF Obeyed
  <1>2. k <= e
    OBVIOUS
  <1>3. ASSUME ~fire, \A m \in 1 .. Len(r) : k < r[m].idx PROVE ~d[k]
    <2>1. \A m \in 1 .. Len(q) : k < q[m].idx
      BY <1>3 DEF Merged
    <2>2. ~c[k]
      BY <1>2, <1>3, <2>1 DEF Obeyed
    <2> QED BY <1>1, <2>1, <2>2 DEF Follows
  <1>4. ASSUME NEW j \in 1 .. Len(r), ~r[j].fire, k >= r[j].idx,
               \A m \in 1 .. Len(r) : m > j => k < r[m].idx
        PROVE  ~d[k]
    <2>1. j \in 1 .. Len(q)
      BY <1>4 DEF Merged
    <2>2. CASE j = Len(q)
      <3>1. ~f /\ k >= q[Len(q)].idx
        BY <1>4, <2>1, <2>2 DEF Merged
      <3> QED BY <3>1 DEF Bounded
    <2>3. CASE j # Len(q)
      <3>1. /\ ~q[j].fire /\ k >= q[j].idx
            /\ \A m \in 1 .. Len(q) : m > j => k < q[m].idx
        BY <1>4, <2>1, <2>3 DEF Merged
      <3>2. ~c[k]
        BY <1>2, <2>1, <3>1 DEF Obeyed
      <3>3. k < q[Len(q)].idx
        BY <1>1, <2>1, <2>3, <3>1
      <3> QED BY <3>2, <3>3 DEF Follows
    <2> QED BY <2>2, <2>3
  <1> QED BY <1>3, <1>4

\* ... or appended at i.
LEMMA AppendObeyed ==
    ASSUME NEW q \in Seq(Transition), NEW i \in 0 .. MaxIdx, NEW f,
           NEW r, Appended(q, r, i, f),
           NEW fire, NEW c, NEW d, NEW s, NEW e \in Int, NEW e2 \in Int, e2 <= e,
           Obeyed(q, fire, c, s, e), Follows(c, d, i, e2), Bounded(d, i, f, e2)
    PROVE  Obeyed(r, fire, d, s, e2)
  <1>1. /\ Len(q) \in Nat /\ Len(r) = Len(q) + 1
        /\ r[Len(q) + 1].idx = i /\ r[Len(q) + 1].fire = f
        /\ \A j \in 1 .. Len(q) : r[j] = q[j]
    BY DEF Appended
  <1>2. /\ Len(q) + 1 \in 1 .. Len(r)
        /\ \A j \in 1 .. Len(q) : j \in 1 .. Len(r) /\ j < Len(q) + 1
    BY <1>1
  <1> SUFFICES ASSUME NEW k \in 0 .. MaxIdx, k >= s, k <= e2
               PROVE  /\ ~fire /\ (\A m \in 1 .. Len(r) : k < r[m].idx) => ~d[k]
                      /\ \A j \in 1 .. Len(r) :
                            ~r[j].fire /\ k >= r[j].idx
                              /\ (\A m \in 1 .. Len(r) : m > j => k < r[m].idx) => ~d[k]
    BY DEF Obeyed
  <1>3. k <= e
    OBVIOUS
  <1>4. ASSUME ~fire, \A m \in 1 .. Len(r) : k < r[m].idx PROVE ~d[k]
    <2>1. k < i /\ \A m \in 1 .. Len(q) : k < q[m].idx
      BY <1>1, <1>2, <1>4
    <2>2. ~c[k]
      BY <1>3, <1>4, <2>1 DEF Obeyed
    <2> QED BY <2>1, <2>2 DEF Follows
  <1>5. ASSUME NEW j \in 1 .. Len(r), ~r[j].fire, k >= r[j].idx,
               \A m \in 1 .. Len(r) : m > j => k < r[m].idx
        PROVE  ~d[k]
    <2>1. CASE j = Len(q) + 1
      <3>1. ~f /\ k >= i
        BY <1>1, <1>5, <2>1
      <3> QED BY <3>1 DEF Bounded
    <2>2. CASE j \in 1 .. Len(q)
      <3>1. k < i
        BY <1>1, <1>2, <1>5, <2>2
      <3>2. /\ ~q[j].fire /\ k >= q[j].idx
            /\ \A m \in 1 .. Len(q) : m > j => k < q[m].idx
        BY <1>1, <1>2, <1>5, <2>2
      <3>3. ~c[k]
        BY <1>3, <2>2, <3>2 DEF Obeyed
      <3> QED BY <3>1, <3>3 DEF Follows
    <2> QED BY <1>1, <2>1, <2>2
  <1> QED BY <1>4, <1>5

\* A tick leaves: if it was commanded at its index it leaves lit, and what is
\* left stays obeyed.
LEMMA ShipObeyed ==
    ASSUME NEW q \in Seq(Transition), Sorted(q), NEW fire, NEW c, NEW e \in Int,
           shipped \in 0 .. MaxIdx, shipped < MaxIdx, shipped <= e,
           Obeyed(q, fire, c, shipped, e),
           NEW r, r = SubSeq(q, Due(q) + 1, Len(q)),
           NEW cur, (IF Due(q) = 0 THEN fire ELSE q[Due(q)].fire) => cur
    PROVE  (c[shipped] => cur) /\ Obeyed(r, cur, c, shipped + 1, e)
  <1> DEFINE d == Due(q)
  <1>1. /\ d \in 0 .. Len(q) /\ \A j \in 1 .. d : q[j].idx <= shipped
        /\ d < Len(q) => q[d + 1].idx > shipped
    BY DueForm
  <1> HIDE DEF d
  <1>2. /\ r \in Seq(Transition) /\ Len(r) = Len(q) - d /\ Len(q) \in Nat
        /\ \A j \in 1 .. Len(r) : j + d \in 1 .. Len(q) /\ r[j] = q[j + d]
    <2>1. r \in Seq(Transition) /\ Rest(q, r, d)
      BY <1>1, RestForm DEF d
    <2> QED BY <2>1 DEF Rest
  <1>3. \A j \in 1 .. Len(q) : q[j].idx \in 0 .. MaxIdx
    BY IndexForm
  <1>4. \A m \in 1 .. Len(q) : m > d => shipped < q[m].idx
    <2> SUFFICES ASSUME NEW m \in 1 .. Len(q), m > d PROVE shipped < q[m].idx
      OBVIOUS
    <2>1. d + 1 \in 1 .. Len(q) /\ d < Len(q) /\ (m = d + 1 \/ m > d + 1)
      BY <1>1, <1>2
    <2>2. q[d + 1].idx <= q[m].idx
      BY <2>1, <1>3 DEF Sorted
    <2> QED BY <1>1, <1>3, <2>1, <2>2
  <1>5. \A m \in 1 .. Len(q) : m > d => m - d \in 1 .. Len(r) /\ r[m - d] = q[m]
    <2> SUFFICES ASSUME NEW m \in 1 .. Len(q), m > d
                 PROVE  m - d \in 1 .. Len(r) /\ r[m - d] = q[m]
      OBVIOUS
    <2>1. m - d \in 1 .. Len(r) /\ (m - d) + d = m
      BY <1>1, <1>2
    <2> QED BY <1>2, <2>1
  <1>6. ASSUME ~cur, NEW k \in 0 .. MaxIdx, k >= shipped, k <= e,
               \A m \in 1 .. Len(q) : m > d => k < q[m].idx
        PROVE  ~c[k]
    <2>1. CASE d = 0
      <3>1. ~fire /\ \A m \in 1 .. Len(q) : k < q[m].idx
        BY <1>6, <2>1 DEF d
      <3> QED BY <1>6, <3>1 DEF Obeyed
    <2>2. CASE d # 0
      <3>1. d \in 1 .. Len(q) /\ d \in 1 .. d
        BY <1>1, <1>2, <2>2
      <3>2. ~q[d].fire
        BY <1>6, <2>2 DEF d
      <3>3. k >= q[d].idx
        BY <1>1, <1>3, <1>6, <3>1
      <3> QED BY <1>6, <3>1, <3>2, <3>3 DEF Obeyed
    <2> QED BY <2>1, <2>2
  <1>7. c[shipped] => cur
    <2>1. shipped >= shipped
      OBVIOUS
    <2> QED BY <1>4, <1>6, <2>1
  <1>8. ASSUME NEW k \in 0 .. MaxIdx, k >= shipped + 1, k <= e, ~cur,
               \A m \in 1 .. Len(r) : k < r[m].idx
        PROVE  ~c[k]
    <2>1. \A m \in 1 .. Len(q) : m > d => k < q[m].idx
      BY <1>5, <1>8
    <2>2. k >= shipped
      BY <1>8
    <2> QED BY <1>6, <1>8, <2>1, <2>2
  <1>9. ASSUME NEW k \in 0 .. MaxIdx, k >= shipped + 1, k <= e, NEW j \in 1 .. Len(r),
               ~r[j].fire, k >= r[j].idx, \A m \in 1 .. Len(r) : m > j => k < r[m].idx
        PROVE  ~c[k]
    <2>1. j + d \in 1 .. Len(q) /\ ~q[j + d].fire /\ k >= q[j + d].idx
      BY <1>2, <1>9
    <2>2. \A m \in 1 .. Len(q) : m > j + d => m > d /\ m - d > j
      <3>1. d \in Nat /\ j \in Nat /\ j > 0
        BY <1>1, <1>2
      <3> QED BY <1>2, <3>1
    <2>3. \A m \in 1 .. Len(q) : m > j + d => k < q[m].idx
      BY <1>5, <1>9, <2>2
    <2>4. k >= shipped
      BY <1>9
    <2> QED BY <1>9, <2>1, <2>3, <2>4 DEF Obeyed
  <1> QED BY <1>7, <1>8, <1>9 DEF Obeyed

\* Where the indices stand.
LEMMA SteppedStep == ASSUME FireInv, Stepped, [Next]_vars PROVE Stepped'
  <1>1. CASE \/ UNCHANGED vars
             \/ Disarm \/ (\E b \in BOOLEAN : Arm(b)) \/ (\E b \in BOOLEAN : FireGate(b))
             \/ (\E b \in BOOLEAN : Jog(b)) \/ Tick \/ PassEnd \/ FaultPad \/ ResetPad
    <2>1. UNCHANGED <<streaming, killed, failed, owed, base, produced, shipped, kernel_running>>
      BY <1>1 DEF Disarm, Arm, FireGate, Jog, Tick, PassEnd, FaultPad, ResetPad, vars
    <2> QED BY <2>1 DEF Stepped
  <1>2. CASE Pulse
    BY <1>2 DEF Pulse, FireInv, Grid, CoreFlags, Stepped
  <1>3. CASE StreamReset
    BY <1>3 DEF StreamReset, FireInv, Grid, CoreFlags, ShipFlags, Stepped
  <1>4. CASE \E b \in BOOLEAN : Laser(b)
    <2>1. /\ UNCHANGED <<streaming, killed, base, produced, shipped, kernel_running>>
          /\ failed => failed'
          /\ owed' <=> owed \/ streaming
      BY <1>4 DEF Laser, LaserEvent
    <2> QED BY <2>1 DEF Stepped
  <1>5. CASE \E b \in BOOLEAN : GoIdle(b)
    <2>1. /\ UNCHANGED <<failed, base, produced, shipped, kernel_running>> /\ ~streaming'
          /\ killed' \/ (streaming /\ (failed \/ ~owed))
      BY <1>5 DEF GoIdle
    <2> QED BY <2>1 DEF Stepped, FireInv, Grid
  <1>6. CASE \E due \in 0 .. MaxIdx, level \in BOOLEAN : Wakeup(due, level)
    <2>1. /\ streaming' /\ owed' /\ base' = produced'
          /\ kernel_running => /\ produced > Depth
                               /\ \E due \in 0 .. MaxIdx : produced' = Larger(produced, due)
          /\ ~kernel_running => produced' = Depth
      BY <1>6 DEF Wakeup, Stepped
    <2> QED BY <2>1 DEF Stepped, FireInv, Grid
  <1>7. CASE PassFirst \/ PassNext
    <2>1. /\ UNCHANGED <<streaming, killed, failed, owed, base, produced>>
          /\ streaming \/ shipped < produced
      BY <1>7 DEF PassFirst, PassNext, ShipTick
    <2> QED BY <2>1 DEF Stepped
  <1>8. CASE StreamEnd
    <2>1. /\ ~streaming' /\ ~kernel_running'
          /\ shipped' = shipped \/ shipped' = shipped + 1
          /\ \/ produced' = shipped'
             \/ produced' = produced /\ shipped' = shipped /\ shipped >= produced
      BY <1>8 DEF StreamEnd
    <2> QED BY <2>1 DEF Stepped, FireInv, Grid
  <1>9. CASE Clear
    BY <1>9 DEF Clear, Stepped
  <1>10. CASE StreamFault
    BY <1>10 DEF StreamFault, Stepped
  <1> QED
    BY <1>1, <1>2, <1>3, <1>4, <1>5, <1>6, <1>7, <1>8, <1>9, <1>10 DEF Next, Core, Shipper

\* gf_stream_laser: a transition of a first cycle that the queue takes.
LEMMA LaserObeyed ==
    ASSUME FireInv, FirstLit, NEW b \in BOOLEAN, Laser(b)
    PROVE  FirstLit'
  <1> DEFINE f == b /\ laser_armed /\ ~jogging
             i == Larger(vt, shipped)
  <1>1. f \in BOOLEAN /\ LaserEvent(f)
    BY DEF Laser
  <1>2. UNCHANGED <<streaming, base, produced, shipped, cur_fire>> /\ ~failed
    BY DEF Laser
  <1>3. /\ i \in 0 .. MaxIdx /\ lev \in Seq(Transition) /\ Sorted(lev) /\ MaxIdx \in Int
        /\ cmd \in [0 .. MaxIdx -> BOOLEAN]
    BY DEF FireInv, Grid, Queue
  <1> HIDE DEF f
  <1> SUFFICES ASSUME base' = Depth, ~failed', ~crowded', streaming' \/ shipped' < produced'
               PROVE  Obeyed(lev', cur_fire', cmd', shipped', LastSlot')
    BY DEF FirstLit
  <1>4. UNCHANGED LastSlot
    BY <1>2 DEF LastSlot
  <1>5. CASE UNCHANGED <<lev, cmd, crowded>>
    BY <1>2, <1>4, <1>5 DEF FirstLit
  <1>6. CASE /\ streaming /\ lev' = Queued(i, f) /\ cmd' = Command(i, f)
             /\ crowded' = (crowded \/ Overflows(i))
    <2>1. Obeyed(lev, cur_fire, cmd, shipped, MaxIdx) /\ ~Overflows(i)
      BY <1>2, <1>6 DEF FirstLit, LastSlot
    <2>2. lev # <<>> => lev[Len(lev)].idx <= i
      BY <1>6 DEF FireInv, Placed, Newest
    <2> HIDE DEF i
    <2>3. Follows(cmd, cmd', i, MaxIdx) /\ Bounded(cmd', i, f, MaxIdx)
      <3>1. \A k \in 0 .. MaxIdx : cmd'[k] = IF k >= i THEN f ELSE cmd[k]
        BY <1>6 DEF Command
      <3>2. \A k \in 0 .. MaxIdx : k < i => ~(k >= i)
        BY <1>3
      <3> QED BY <3>1, <3>2 DEF Follows, Bounded
    <2>4. CASE lev # <<>> /\ Newest.idx = i
      <3>1. lev' = [lev EXCEPT ![Len(lev)].fire = f]
        BY <1>6, <2>4 DEF Queued
      <3>2. Merged(lev, lev', f)
        BY <1>1, <1>3, <2>4, <3>1, MergeForm
      <3>3. Obeyed(lev', cur_fire, cmd', shipped, MaxIdx)
        BY <1>3, <2>1, <2>3, <2>4, <3>2, MergeObeyed DEF Newest
      <3> QED BY <1>2, <1>6, <3>3 DEF LastSlot
    <2>5. CASE ~(lev # <<>> /\ Newest.idx = i)
      <3>1. lev' = Append(lev, [idx |-> i, fire |-> f])
        BY <1>6, <2>1, <2>5 DEF Queued, Overflows
      <3>2. Appended(lev, lev', i, f)
        BY <1>1, <1>3, <2>2, <3>1, AppendForm
      <3>3. Obeyed(lev', cur_fire, cmd', shipped, MaxIdx)
        BY <1>3, <2>1, <2>3, <3>2, AppendObeyed
      <3> QED BY <1>2, <1>6, <3>3 DEF LastSlot
    <2> QED BY <2>4, <2>5
  <1> QED BY <1>1, <1>5, <1>6 DEF LaserEvent

\* gf_stream_wakeup: a stream that begins at the pipeline's depth is fresh, and
\* its queue takes its first transition.
LEMMA WakeupObeyed ==
    ASSUME FireInv, Stepped, NEW due \in 0 .. MaxIdx, NEW level \in BOOLEAN, Wakeup(due, level)
    PROVE  FirstLit'
  <1> DEFINE want == want_fire /\ laser_armed /\ ~jogging
  <1> SUFFICES ASSUME base' = Depth
               PROVE  Obeyed(lev', cur_fire', cmd', shipped', LastSlot')
    BY DEF FirstLit
  <1>1. ~kernel_running
    <2>1. kernel_running => produced > Depth /\ base' = Larger(produced, due)
      BY DEF Wakeup, Stepped
    <2> QED BY <2>1 DEF FireInv, Grid
  <1>2. want \in BOOLEAN /\ streaming' /\ LastSlot' = MaxIdx
    BY DEF Wakeup, LastSlot
  <1>3. ~cur_fire' /\ cur_fire' \in BOOLEAN
    BY <1>1 DEF Wakeup, FireAtWakeup
  <1> DEFINE queue == IF ~kernel_running THEN <<>> ELSE lev
  <1>4. queue = <<>> /\ Len(queue) = 0 /\ queue \in Seq(Transition) /\ Sorted(queue)
    BY <1>1 DEF Sorted
  <1>5. /\ lev' = IF (level \/ want # cur_fire') /\ Len(queue) < LevN
                  THEN Append(queue, [idx |-> Depth, fire |-> want]) ELSE queue
        /\ cmd' = [k \in 0 .. MaxIdx |-> IF k >= Depth THEN want ELSE (kernel_running /\ cmd[k])]
    BY <1>1 DEF Wakeup
  <1> HIDE DEF want, queue
  <1>6. \A k \in 0 .. MaxIdx : cmd'[k] => want /\ k >= Depth
    BY <1>1, <1>5
  <1>7. CASE want \/ level
    <2>1. lev' = Append(queue, [idx |-> Depth, fire |-> want])
      BY <1>2, <1>3, <1>4, <1>5, <1>7
    <2>2. Appended(queue, lev', Depth, want)
      <3>1. Depth \in 0 .. MaxIdx /\ (queue # <<>> => queue[Len(queue)].idx <= Depth)
        BY <1>4
      <3> QED BY <1>2, <1>4, <2>1, <3>1, AppendForm
    <2>3. Len(lev') = 1 /\ lev'[1].idx = Depth /\ lev'[1].fire = want
      BY <1>4, <2>2 DEF Appended
    <2>4. \A j \in 1 .. Len(lev') : j = 1
      BY <2>3
    <2>5. \A k \in 0 .. MaxIdx : k < Depth => ~(k >= Depth)
      OBVIOUS
    <2> QED BY <1>6, <2>3, <2>4, <2>5 DEF Obeyed
  <1>8. CASE ~want
    BY <1>6, <1>8 DEF Obeyed
  <1> QED BY <1>7, <1>8

\* gf_stream_go_idle: the laser-off darkens nothing that will leave.
LEMMA GoIdleObeyed ==
    ASSUME FireInv, FirstLit, NEW reset \in BOOLEAN, GoIdle(reset)
    PROVE  FirstLit'
  <1> DEFINE i == Larger(produced, shipped)
             j == Larger(i, vt)
             e == produced - 1
             off == FALSE
  <1>1. /\ lev \in Seq(Transition) /\ Len(lev) \in Nat /\ Sorted(lev)
        /\ produced \in 0 .. MaxIdx /\ i \in 0 .. MaxIdx /\ j \in 0 .. MaxIdx
        /\ i <= j /\ e \in Int /\ e < i /\ MaxIdx \in Int /\ e <= MaxIdx
    BY DEF FireInv, Queue, Grid
  <1>2. UNCHANGED <<failed, base, produced, shipped, cur_fire>> /\ ~streaming'
    BY DEF GoIdle
  <1> SUFFICES ASSUME base = Depth, ~failed, ~crowded', shipped < produced
               PROVE  Obeyed(lev', cur_fire, cmd', shipped, e)
    BY <1>2 DEF FirstLit, LastSlot
  <1>3. CASE ~streaming
    <2>1. UNCHANGED <<lev, cmd, crowded>>
      BY <1>3 DEF GoIdle
    <2> QED BY <1>3, <2>1 DEF FirstLit, LastSlot
  <1>4. CASE streaming
    <2>1. lev' = LaserOff(i) /\ cmd' = Command(j, FALSE) /\ crowded' = (crowded \/ OffMoves(i))
      BY <1>4 DEF GoIdle
    <2>2. Obeyed(lev, cur_fire, cmd, shipped, MaxIdx) /\ ~OffMoves(i)
      BY <1>4, <2>1 DEF FirstLit, LastSlot
    <2> HIDE DEF i, j, e
    <2>3. \A k \in 0 .. MaxIdx : cmd'[k] => cmd[k]
      BY <2>1 DEF Command
    <2>4. CASE ~cur_fire /\ lev = <<>>
      <3>1. lev' = lev
        BY <2>1, <2>4 DEF LaserOff
      <3>2. \A k \in 0 .. MaxIdx : k <= e => k <= MaxIdx
        BY <1>1
      <3> QED BY <2>2, <2>3, <3>1, <3>2 DEF Obeyed
    <2>5. CASE lev # <<>> /\ Newest.idx >= i
      <3>1. lev' = [lev EXCEPT ![Len(lev)].fire = FALSE]
        BY <2>1, <2>5 DEF LaserOff
      <3>2. Merged(lev, lev', off)
        BY <1>1, <2>5, <3>1, MergeForm
      <3>3. lev[Len(lev)].idx \in 0 .. MaxIdx /\ lev[Len(lev)].idx >= i
        BY <2>5, NewestForm DEF Newest
      <3>4. /\ Follows(cmd, cmd', lev[Len(lev)].idx, e)
            /\ Bounded(cmd', lev[Len(lev)].idx, off, e)
        BY <1>1, <2>3, <3>3 DEF Follows, Bounded
      <3> HIDE DEF off
      <3> QED BY <1>1, <2>2, <2>5, <3>2, <3>4, MergeObeyed
    <2>6. CASE ~(~cur_fire /\ lev = <<>>) /\ ~(lev # <<>> /\ Newest.idx >= i)
      <3>1. lev # <<>> => Newest.idx \in 0 .. MaxIdx /\ Newest.idx <= i /\ ~(Len(lev) >= LevN)
        BY <1>1, <2>2, <2>6, NewestForm DEF OffMoves
      <3>2. lev' = Append(lev, [idx |-> i, fire |-> FALSE])
        BY <2>1, <2>6, <3>1 DEF LaserOff
      <3>3. Appended(lev, lev', i, off)
        BY <1>1, <3>1, <3>2, AppendForm DEF Newest
      <3>4. Follows(cmd, cmd', i, e) /\ Bounded(cmd', i, off, e)
        BY <1>1, <2>3 DEF Follows, Bounded
      <3> HIDE DEF off
      <3> QED BY <1>1, <2>2, <3>3, <3>4, AppendObeyed
    <2> QED BY <2>4, <2>5, <2>6
  <1> QED BY <1>3, <1>4

\* ship_pass: a slot leaves as the queue has it, and the queue goes on.
LEMMA ShipsObeyed ==
    ASSUME FireInv, FirstLit, NEW q, NEW fire, NEW gate, NEW c,
           \/ q = lev /\ fire = cur_fire /\ c = cmd
           \/ /\ q = LevGated /\ LevGated \in Seq(Transition) /\ Sorted(LevGated)
              /\ \A k \in 0 .. MaxIdx : ~c[k],
           ShipTick(q, fire, gate), cmd' = c
    PROVE  /\ FirstLit'
           /\ base = Depth /\ ~failed /\ gate /\ cmd'[shipped] => last_lit' \/ crowded
  <1>1. /\ shipped < MaxIdx /\ shipped' = shipped + 1 /\ (streaming \/ shipped < produced)
        /\ cur_fire' = (IF Due(q) = 0 THEN fire ELSE q[Due(q)].fire)
        /\ lev' = SubSeq(q, Due(q) + 1, Len(q)) /\ (last_lit' <=> cur_fire' /\ gate)
        /\ UNCHANGED <<streaming, failed, crowded, base, produced>>
    BY DEF ShipTick
  <1>2. /\ shipped \in 0 .. MaxIdx /\ LastSlot \in Int /\ shipped <= LastSlot
        /\ LastSlot' = LastSlot
    BY <1>1 DEF FireInv, Grid, LastSlot
  <1>3. CASE \A k \in 0 .. MaxIdx : ~c[k]
    <2>1. Obeyed(lev', cur_fire', c, shipped', LastSlot')
      BY <1>3 DEF Obeyed
    <2> QED BY <1>2, <1>3, <2>1 DEF FirstLit
  <1>4. CASE q = lev /\ fire = cur_fire /\ c = cmd
    <2>1. lev \in Seq(Transition) /\ Sorted(lev)
      BY DEF FireInv, Queue
    <2>2. ASSUME base = Depth, ~failed, ~crowded
          PROVE  /\ cmd[shipped] => cur_fire'
                 /\ Obeyed(lev', cur_fire', cmd, shipped + 1, LastSlot)
      <3>1. Obeyed(lev, cur_fire, cmd, shipped, LastSlot)
        BY <1>1, <2>2 DEF FirstLit
      <3>2. (IF Due(lev) = 0 THEN cur_fire ELSE lev[Due(lev)].fire) => cur_fire'
        BY <1>1, <1>4
      <3>3. lev' = SubSeq(lev, Due(lev) + 1, Len(lev))
        BY <1>1, <1>4
      <3> QED BY <1>1, <1>2, <2>1, <3>1, <3>2, <3>3, ShipObeyed
    <2> QED BY <1>1, <1>2, <1>4, <2>2 DEF FirstLit
  <1> QED BY <1>3, <1>4

\* Both slots of a pass.
LEMMA PassObeyed ==
    ASSUME FireInv, FirstLit, PassFirst \/ PassNext
    PROVE  /\ FirstLit'
           /\ base = Depth /\ gate_seen' /\ cmd'[shipped] => last_lit' \/ crowded
  <1>1. CASE PassNext
    <2>1. ShipTick(lev, cur_fire, gate_seen) /\ cmd' = cmd /\ ~failed /\ gate_seen' = gate_seen
      BY <1>1 DEF PassNext, ShipTick
    <2> QED BY <2>1, ShipsObeyed
  <1>2. CASE PassFirst
    <2>1. /\ ShipTick(LevGated, cur_fire /\ ~GateFalls, fire_gate) /\ cmd' = CmdGated /\ ~failed
          /\ gate_seen' = fire_gate
      BY <1>2 DEF PassFirst, ShipTick
    <2>2. CASE GateFalls
      <3>1. \A k \in 0 .. MaxIdx : ~CmdGated[k]
        BY <2>2 DEF CmdGated
      <3> QED BY <2>1, <3>1, EdgeForm, ShipsObeyed
    <2>3. CASE ~GateFalls
      <3>1. LevGated = lev /\ CmdGated = cmd /\ (cur_fire /\ ~GateFalls) = cur_fire
        BY <2>3 DEF LevGated, CmdGated, FireInv, ShipFlags
      <3> QED BY <2>1, <3>1, ShipsObeyed
    <2> QED BY <2>2, <2>3
  <1> QED BY <1>1, <1>2

\* What the first cycle's queue lights.
LEMMA FirstLitStep == ASSUME FireInv, LitInv, [Next]_vars PROVE FirstLit'
  <1>1. CASE \/ UNCHANGED vars
             \/ Disarm \/ (\E b \in BOOLEAN : Arm(b)) \/ (\E b \in BOOLEAN : FireGate(b))
             \/ Tick \/ PassEnd \/ ResetPad \/ Clear \/ (\E b \in BOOLEAN : Jog(b))
    <2>1. UNCHANGED <<streaming, failed, crowded, base, produced, shipped, lev, cur_fire, cmd>>
      BY <1>1, JogForm DEF Disarm, Arm, FireGate, Tick, PassEnd, ResetPad, Clear, Jog, vars
    <2> QED BY <2>1 DEF LitInv, FirstLit, LastSlot
  <1>2. CASE Pulse
    <2>1. /\ UNCHANGED <<streaming, crowded, base, shipped, lev, cur_fire, cmd>>
          /\ streaming /\ ~failed
      BY <1>2 DEF Pulse
    <2> QED BY <2>1 DEF LitInv, FirstLit, LastSlot
  <1>3. CASE StreamReset
    <2>1. CASE streaming \/ killed \/ failed
      <3>1. ~streaming' /\ shipped' = shipped /\ produced' = shipped
        BY <1>3, <2>1 DEF StreamReset
      <3> QED BY <3>1 DEF FirstLit, FireInv, Grid
    <2>2. CASE ~(streaming \/ killed \/ failed)
      <3>1. /\ UNCHANGED <<crowded, base, produced, shipped, lev, cmd>> /\ ~streaming' /\ ~failed'
            /\ (cur_fire' <=> cur_fire) /\ cur_fire' \in BOOLEAN
        BY <1>3, <2>2 DEF StreamReset
      <3>2. cur_fire' = cur_fire
        BY <3>1 DEF FireInv, ShipFlags
      <3> QED BY <2>2, <3>1, <3>2 DEF LitInv, FirstLit, LastSlot
    <2> QED BY <2>1, <2>2
  <1>4. CASE \E b \in BOOLEAN : Laser(b)
    BY <1>4, LaserObeyed DEF LitInv
  <1>5. CASE \E b \in BOOLEAN : GoIdle(b)
    BY <1>5, GoIdleObeyed DEF LitInv
  <1>6. CASE \E due \in 0 .. MaxIdx, level \in BOOLEAN : Wakeup(due, level)
    BY <1>6, WakeupObeyed DEF LitInv
  <1>7. CASE PassFirst \/ PassNext
    BY <1>7, PassObeyed DEF LitInv
  <1>8. CASE StreamEnd
    <2>1. /\ ~streaming' /\ (shipped' = shipped \/ shipped' = shipped + 1)
          /\ \/ produced' = shipped'
             \/ produced' = produced /\ shipped' = shipped /\ shipped >= produced
      BY <1>8 DEF StreamEnd
    <2> QED BY <2>1 DEF FirstLit, FireInv, Grid
  <1>9. CASE FaultPad \/ StreamFault
    <2>1. failed'
      BY <1>9 DEF FaultPad, StreamFault
    <2> QED BY <2>1 DEF FirstLit
  <1> QED
    BY <1>1, <1>2, <1>3, <1>4, <1>5, <1>6, <1>7, <1>8, <1>9 DEF Next, Core, Shipper

\* In the first cycle of a fresh stream a tick the core commanded lit leaves lit
\* while the gate is open, for every grid, depth and length of the queue, until
\* a full queue merges a transition of that stream (gf_stream_wakeup,
\* laser_event_locked, gf_stream_go_idle, ship_pass).
THEOREM FirstCycleIsLit == Spec => FirstCycleLit
  <1>1. ASSUME Init PROVE LitInv
    BY <1>1 DEF Init, LitInv, Stepped, FirstLit
  <1>2. ASSUME FireInv, LitInv, [Next]_vars PROVE LitInv'
    BY <1>2, SteppedStep, FirstLitStep DEF LitInv
  <1>3. ASSUME FireInv, LitInv, [Next]_vars
        PROVE  [(shipped' = shipped + 1 /\ spc' = "pass" /\ base = Depth /\ gate_seen'
                   /\ cmd'[shipped]) => last_lit' \/ crowded]_vars
    <2>1. CASE PassFirst \/ PassNext
      BY <1>3, <2>1, PassObeyed DEF LitInv
    <2>2. CASE \E due \in 0 .. MaxIdx, level \in BOOLEAN : Wakeup(due, level)
      BY <1>3, <2>2 DEF Wakeup, FireInv, Grid
    <2>3. CASE StreamEnd
      BY <1>3, <2>3 DEF StreamEnd
    <2>4. CASE \/ UNCHANGED vars
               \/ Disarm \/ Tick \/ Pulse \/ StreamReset \/ (\E b \in BOOLEAN : Arm(b))
               \/ (\E b \in BOOLEAN : FireGate(b)) \/ (\E b \in BOOLEAN : Laser(b))
               \/ (\E b \in BOOLEAN : Jog(b)) \/ (\E b \in BOOLEAN : GoIdle(b)) \/ PassEnd
               \/ FaultPad \/ ResetPad \/ Clear \/ StreamFault
      <3>1. shipped' = shipped
        BY <2>4 DEF Disarm, Tick, Pulse, StreamReset, Arm, FireGate, Laser, Jog, GoIdle,
           PassEnd, FaultPad, ResetPad, Clear, StreamFault, vars
      <3> QED BY <1>3, <3>1 DEF FireInv, Grid
    <2> QED
      BY <1>3, <2>1, <2>2, <2>3, <2>4 DEF Next, Core, Shipper
  <1> QED BY <1>1, <1>2, <1>3, FireInvariant, PTL DEF Spec, FirstCycleLit

=============================================================================
