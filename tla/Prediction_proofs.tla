------------------------- MODULE Prediction_proofs -------------------------
(***************************************************************************)
(* For any rooms and walls, any distances of the steps and any bounds: the *)
(* client starts with usable settings, its history of inputs has no gap,   *)
(* and neither side has the player in a wall.                              *)
(*                                                                         *)
(* The settings: loading keeps the types of all fields line by line, and   *)
(* the validator makes typed settings usable.                              *)
(*                                                                         *)
(* The history: the k-th input from its end is k inputs old, or k + 1      *)
(* while the one just sent is not recorded, so that it has no gap; and it  *)
(* reaches back to where it started over or to what the server has         *)
(* processed.                                                              *)
(*                                                                         *)
(* The places: a move along an axis ends before every wall that it meets,  *)
(* so that a step from a clear place ends in one, and so does a replay of  *)
(* any number of steps.  What is under way to the client is clear in the   *)
(* room it is of, and the client knows that room when it moves.            *)
(***************************************************************************)
EXTENDS Prediction, WellFoundedInduction, TLAPS

-----------------------------------------------------------------------------
(* The order of the natural numbers, and induction as the provers can use it *)

\* The order of the natural numbers is well founded.
LEMMA LessIsWellFounded ==
    \E R : IsWellFoundedOn(R, Nat) /\ \A x, y \in Nat : <<x, y>> \in R <=> x < y
<1>1. IsWellFoundedOn(OpToRel(<, Nat), Nat)
  BY NatLessThanWellFounded, Zenon
<1>2. \A x, y \in Nat : <<x, y>> \in OpToRel(<, Nat) <=> x < y
  BY Zenon DEF OpToRel
<1> QED
  BY <1>1, <1>2

\* A set of naturals has a member below which it has none.
LEMMA MinimalNatural ==
    ASSUME NEW R, IsWellFoundedOn(R, Nat), NEW T, T \subseteq Nat, T # {}
    PROVE  \E x \in T : \A y \in T : ~ (<<y, x>> \in R)
BY WFMin, Zenon

\* A set of naturals that is not empty has a least member.
LEMMA LeastNatural ==
    ASSUME NEW T, T \subseteq Nat, T # {}
    PROVE  \E m \in T : \A n \in T : m <= n
<1>1. PICK R : IsWellFoundedOn(R, Nat) /\ \A x, y \in Nat : <<x, y>> \in R <=> x < y
  BY LessIsWellFounded
<1>2. \E x \in T : \A y \in T : ~ (<<y, x>> \in R)
  BY <1>1, MinimalNatural
<1>. PICK m \in T : \A y \in T : ~ (<<y, m>> \in R)
  BY <1>2
<1>3. \A n \in T : n \in Nat /\ m \in Nat
  OBVIOUS
<1>4. \A n \in T : ~ (n < m)
  BY <1>1, <1>3, Zenon
<1> QED
  BY <1>3, <1>4

\* What holds of 0 and of the successor of whatever it holds of holds of all.
LEMMA Induction ==
    ASSUME NEW S, 0 \in S, \A n \in Nat : n \in S => n + 1 \in S
    PROVE  Nat \subseteq S
<1> SUFFICES ASSUME Nat \ S # {} PROVE FALSE
  OBVIOUS
<1>1. PICK m \in Nat \ S : \A n \in Nat \ S : m <= n
  BY LeastNatural
<1>2. m - 1 \in Nat /\ m - 1 \in S
  BY <1>1
<1> QED
  BY <1>1, <1>2

\* So has a set of integers that is bounded from below, and Min finds it.
LEMMA MinOfBounded ==
    ASSUME NEW T, T \subseteq Int, T # {}, NEW low \in Int, \A n \in T : low <= n
    PROVE  Min(T) \in T /\ \A n \in T : Min(T) <= n
<1> DEFINE above == {n - low : n \in T}
<1>1. above \subseteq Nat /\ above # {}
  <2>1. \A n \in T : n - low \in Nat
    OBVIOUS
  <2> QED
    BY <2>1
<1>2. PICK a \in above : \A n \in above : a <= n
  BY <1>1, LeastNatural
<1>3. PICK m \in T : a = m - low
  OBVIOUS
<1>4. \A n \in T : m - low <= n - low
  BY <1>2, <1>3
<1>5. \A n \in T : m <= n
  BY <1>3, <1>4
<1> QED
  BY <1>3, <1>5 DEF Min

\* Max finds the greatest member of a set that is bounded from above.
LEMMA MaxOfBounded ==
    ASSUME NEW T, T \subseteq Int, T # {}, NEW high \in Int, \A n \in T : n <= high
    PROVE  Max(T) \in T /\ \A n \in T : n <= Max(T)
<1> DEFINE below == {high - n : n \in T}
<1>1. below \subseteq Nat /\ below # {}
  <2>1. \A n \in T : high - n \in Nat
    OBVIOUS
  <2> QED
    BY <2>1
<1>2. PICK a \in below : \A n \in below : a <= n
  BY <1>1, LeastNatural
<1>3. PICK m \in T : a = high - m
  OBVIOUS
<1>4. \A n \in T : high - m <= high - n
  BY <1>2, <1>3
<1>5. \A n \in T : n <= m
  BY <1>3, <1>4
<1> QED
  BY <1>3, <1>5 DEF Max

-----------------------------------------------------------------------------
(* Movement *)

\* The corners of a wall, or of the world, are whole numbers.
LEMMA Corners ==
    ASSUME NEW w \in Rectangle, NEW axis \in 1 .. 2
    PROVE  w.min[axis] \in Int /\ w.max[axis] \in Int
<1>1. w.min \in Int \X Int /\ w.max \in Int \X Int
  BY DEF Rectangle
<1> QED
  BY <1>1

\* There are two axes, and a place has a coordinate on each.
LEMMA Coordinates ==
    ASSUME NEW p \in Int \X Int, NEW axis \in 1 .. 2
    PROVE  p[axis] \in Int /\ 3 - axis \in 1 .. 2 /\ 3 - axis # axis
OBVIOUS

\* Inside brings a coordinate into the world and leaves one that is there.
LEMMA InsideClamps ==
    ASSUME NEW c \in Int, NEW axis \in 1 .. 2
    PROVE  LET low == World.min[axis] + HalfExtent
               high == World.max[axis] - HalfExtent
           IN  /\ Inside(c, axis) \in low .. high
               /\ low <= high
               /\ c \in low .. high => Inside(c, axis) = c
               /\ c <= low => Inside(c, axis) = low
               /\ high <= c => Inside(c, axis) = high
<1> DEFINE low == World.min[axis] + HalfExtent
           high == World.max[axis] - HalfExtent
<1>1. low \in Int /\ high \in Int /\ low <= high
  BY Corners, MovementAssumption
<1> HIDE DEF low, high
<1>2. Min({high, c}) \in {high, c} /\ Min({high, c}) <= high /\ Min({high, c}) <= c
  <2>1. \E b \in {high, c} : \A n \in {high, c} : b <= n
    BY <1>1
  <2> QED
    BY <2>1 DEF Min
<1>3. \A m \in Int : Max({low, m}) \in {low, m} /\ low <= Max({low, m}) /\ m <= Max({low, m})
  <2> TAKE m \in Int
  <2>1. \E b \in {low, m} : \A n \in {low, m} : n <= b
    BY <1>1
  <2> QED
    BY <2>1 DEF Max
<1>4. Inside(c, axis) = Max({low, Min({high, c})})
  BY DEF Inside, low, high
<1>5. Min({high, c}) \in Int
  BY <1>1, <1>2
<1>6. /\ Inside(c, axis) \in low .. high
      /\ low <= high
      /\ c \in low .. high => Inside(c, axis) = c
      /\ c <= low => Inside(c, axis) = low
      /\ high <= c => Inside(c, axis) = high
  BY <1>1, <1>2, <1>3, <1>4, <1>5
<1> QED
  BY <1>6 DEF low, high

\* A step along an axis to the right or down ends before every wall that it meets,
\* and not before where it began.
Ahead(axis, position, walls) ==
    {c \in {w.min[axis] - HalfExtent : w \in {w \in walls : IsBeside(w, position, axis)}} :
        position[axis] <= c}

Behind(axis, position, walls) ==
    {c \in {w.max[axis] + HalfExtent : w \in {w \in walls : IsBeside(w, position, axis)}} :
        position[axis] >= c}

\* The size of a player, and the world.
LEMMA HalfExtentTyped == HalfExtent \in Nat /\ World \in Rectangle
BY MovementAssumption

\* A move to the right or down goes no further than its target and than any wall met.
LEMMA StopsAhead ==
    ASSUME NEW axis \in 1 .. 2, NEW p \in Int \X Int, NEW walls, walls \subseteq Rectangle,
           NEW target \in Int
    PROVE  LET c == Min(Ahead(axis, p, walls) \cup {target})
           IN  /\ c \in Int /\ c <= target
               /\ p[axis] <= target => p[axis] <= c
               /\ target <= p[axis] => c = target
               /\ \A w \in walls : IsBeside(w, p, axis) /\ p[axis] <= w.min[axis] - HalfExtent
                    => c <= w.min[axis] - HalfExtent
<1> DEFINE T == Ahead(axis, p, walls) \cup {target}
<1>1. p[axis] \in Int
  BY Coordinates
<1>2. \A w \in walls : w.min[axis] - HalfExtent \in Int
  BY Corners, HalfExtentTyped
<1>3. Ahead(axis, p, walls) \subseteq Int /\ \A n \in Ahead(axis, p, walls) : p[axis] <= n
  BY <1>2 DEF Ahead
<1>4. T \subseteq Int /\ T # {}
  BY <1>3
<1>5. \E low \in Int : \A n \in T : low <= n
  <2>1. CASE p[axis] <= target
    BY <2>1, <1>1, <1>3
  <2>2. CASE target <= p[axis]
    <3>1. \A n \in T : target <= n
      BY <2>2, <1>1, <1>3
    <3> QED
      BY <3>1
  <2> QED
    BY <2>1, <2>2, <1>1
<1>6. Min(T) \in T /\ \A n \in T : Min(T) <= n
  BY <1>4, <1>5, MinOfBounded
<1>7. \A w \in walls : IsBeside(w, p, axis) /\ p[axis] <= w.min[axis] - HalfExtent
          => w.min[axis] - HalfExtent \in T
  BY DEF Ahead
<1>8. Min(T) \in Int /\ Min(T) <= target
  BY <1>4, <1>6
<1>9. p[axis] <= target => p[axis] <= Min(T)
  BY <1>1, <1>3, <1>6
<1>10. target <= p[axis] => Min(T) = target
  <2> SUFFICES ASSUME target <= p[axis] PROVE Min(T) = target
    OBVIOUS
  <2>1. \A n \in T : target <= n
    BY <1>1, <1>3
  <2> QED
    BY <2>1, <1>6, <1>8
<1> QED
  BY <1>6, <1>7, <1>8, <1>9, <1>10

\* A move to the left or up goes no further than its target and than any wall met.
LEMMA StopsBehind ==
    ASSUME NEW axis \in 1 .. 2, NEW p \in Int \X Int, NEW walls, walls \subseteq Rectangle,
           NEW target \in Int
    PROVE  LET c == Max(Behind(axis, p, walls) \cup {target})
           IN  /\ c \in Int /\ target <= c
               /\ target <= p[axis] => c <= p[axis]
               /\ p[axis] <= target => c = target
               /\ \A w \in walls : IsBeside(w, p, axis) /\ p[axis] >= w.max[axis] + HalfExtent
                    => w.max[axis] + HalfExtent <= c
<1> DEFINE T == Behind(axis, p, walls) \cup {target}
<1>1. p[axis] \in Int
  BY Coordinates
<1>2. \A w \in walls : w.max[axis] + HalfExtent \in Int
  BY Corners, HalfExtentTyped
<1>3. Behind(axis, p, walls) \subseteq Int /\ \A n \in Behind(axis, p, walls) : n <= p[axis]
  BY <1>1, <1>2 DEF Behind
<1>4. T \subseteq Int /\ T # {}
  BY <1>3
<1>5. \E high \in Int : \A n \in T : n <= high
  <2>1. CASE target <= p[axis]
    BY <2>1, <1>1, <1>3
  <2>2. CASE p[axis] <= target
    <3>1. \A n \in T : n <= target
      BY <2>2, <1>1, <1>3
    <3> QED
      BY <3>1
  <2> QED
    BY <2>1, <2>2, <1>1
<1>6. Max(T) \in T /\ \A n \in T : n <= Max(T)
  BY <1>4, <1>5, MaxOfBounded
<1>7. \A w \in walls : IsBeside(w, p, axis) /\ p[axis] >= w.max[axis] + HalfExtent
          => w.max[axis] + HalfExtent \in T
  BY DEF Behind
<1>8. Max(T) \in Int /\ target <= Max(T)
  BY <1>4, <1>6
<1>9. target <= p[axis] => Max(T) <= p[axis]
  BY <1>1, <1>3, <1>6
<1>10. p[axis] <= target => Max(T) = target
  <2> SUFFICES ASSUME p[axis] <= target PROVE Max(T) = target
    OBVIOUS
  <2>1. \A n \in T : n <= target
    BY <1>1, <1>3
  <2> QED
    BY <2>1, <1>6, <1>8
<1> QED
  BY <1>6, <1>7, <1>8, <1>9, <1>10

\* Where the position may be along an axis, and what holds of a move along it.
Within(p, axis) == p[axis] \in World.min[axis] + HalfExtent .. World.max[axis] - HalfExtent

InWorld(p) == \A axis \in 1 .. 2 : p[axis] \in World.min[axis] .. World.max[axis]

\* From p to q along the axis, at most past walls.
IsMove(axis, p, q, walls) ==
    /\ q \in Int \X Int
    /\ q[3 - axis] = p[3 - axis]
    /\ Within(p, axis) => Within(q, axis)
    /\ p[axis] \in World.min[axis] .. World.max[axis]
          => q[axis] \in World.min[axis] .. World.max[axis]
    /\ Within(p, axis) =>
          \A w \in walls : IsBeside(w, p, axis) =>
              /\ p[axis] <= w.min[axis] - HalfExtent => q[axis] <= w.min[axis] - HalfExtent
              /\ p[axis] >= w.max[axis] + HalfExtent => q[axis] >= w.max[axis] + HalfExtent

\* A place of which one coordinate is changed.
LEMMA Changed ==
    ASSUME NEW axis \in 1 .. 2, NEW p \in Int \X Int, NEW c \in Int
    PROVE  LET q == [p EXCEPT ![axis] = c]
           IN  q \in Int \X Int /\ q[3 - axis] = p[3 - axis] /\ q[axis] = c
<1>1. CASE axis = 1
  BY <1>1
<1>2. CASE axis = 2
  BY <1>2
<1> QED
  BY <1>1, <1>2

\* MoveAlong stays in the world and goes past no wall.
LEMMA MoveAlongMoves ==
    ASSUME NEW axis \in 1 .. 2, NEW p \in Int \X Int, NEW delta \in Int,
           NEW walls, walls \subseteq Rectangle
    PROVE  IsMove(axis, p, MoveAlong(axis, p, delta, walls), walls)
<1> DEFINE target == Inside(p[axis] + delta, axis)
           low == World.min[axis] + HalfExtent
           high == World.max[axis] - HalfExtent
           q == MoveAlong(axis, p, delta, walls)
<1>0. /\ p[axis] \in Int /\ p[axis] + delta \in Int /\ low \in Int /\ high \in Int
      /\ World.min[axis] \in Int /\ World.max[axis] \in Int /\ HalfExtent \in Nat
  BY Coordinates, Corners, HalfExtentTyped
<1>w. \A w \in walls : w.min[axis] - HalfExtent \in Int /\ w.max[axis] + HalfExtent \in Int
  BY Corners, HalfExtentTyped
<1>1. /\ target \in low .. high /\ low <= high
      /\ p[axis] + delta \in low .. high => target = p[axis] + delta
      /\ p[axis] + delta <= low => target = low
      /\ high <= p[axis] + delta => target = high
  BY <1>0, InsideClamps
<1>2. target \in Int
  BY <1>0, <1>1
<1> HIDE DEF target
<1>3. CASE delta = 0
  <2>1. q = p
    BY <1>3 DEF MoveAlong
  <2> QED
    BY <2>1, <1>0, <1>w DEF IsMove
<1>4. CASE delta > 0
  <2> DEFINE c == Min(Ahead(axis, p, walls) \cup {target})
  <2>1. q = [p EXCEPT ![axis] = c]
    BY <1>4 DEF MoveAlong, Ahead, target
  <2>2. /\ c \in Int /\ c <= target
        /\ p[axis] <= target => p[axis] <= c
        /\ target <= p[axis] => c = target
        /\ \A w \in walls : IsBeside(w, p, axis) /\ p[axis] <= w.min[axis] - HalfExtent
             => c <= w.min[axis] - HalfExtent
    BY <1>2, StopsAhead
  <2> HIDE DEF c
  <2>3. q \in Int \X Int /\ q[3 - axis] = p[3 - axis] /\ q[axis] = c
    BY <2>1, <2>2, Changed
  <2>4. Within(p, axis) => p[axis] <= target /\ p[axis] <= c
    BY <1>0, <1>1, <1>2, <1>4, <2>2 DEF Within
  <2>5. Within(p, axis) => Within(q, axis)
    BY <1>0, <1>1, <1>2, <2>2, <2>3, <2>4 DEF Within
  <2>6. p[axis] \in World.min[axis] .. World.max[axis]
          => q[axis] \in World.min[axis] .. World.max[axis]
    BY <1>0, <1>1, <1>2, <2>2, <2>3
  <2>7. ASSUME Within(p, axis), NEW w \in walls, IsBeside(w, p, axis)
        PROVE  /\ p[axis] <= w.min[axis] - HalfExtent => q[axis] <= w.min[axis] - HalfExtent
               /\ p[axis] >= w.max[axis] + HalfExtent => q[axis] >= w.max[axis] + HalfExtent
    BY <2>7, <1>0, <1>w, <2>2, <2>3, <2>4
  <2> QED
    BY <2>3, <2>5, <2>6, <2>7 DEF IsMove
<1>5. CASE delta < 0
  <2> DEFINE c == Max(Behind(axis, p, walls) \cup {target})
  <2>1. q = [p EXCEPT ![axis] = c]
    BY <1>5 DEF MoveAlong, Behind, target
  <2>2. /\ c \in Int /\ target <= c
        /\ target <= p[axis] => c <= p[axis]
        /\ p[axis] <= target => c = target
        /\ \A w \in walls : IsBeside(w, p, axis) /\ p[axis] >= w.max[axis] + HalfExtent
             => w.max[axis] + HalfExtent <= c
    BY <1>2, StopsBehind
  <2> HIDE DEF c
  <2>3. q \in Int \X Int /\ q[3 - axis] = p[3 - axis] /\ q[axis] = c
    BY <2>1, <2>2, Changed
  <2>4. Within(p, axis) => target <= p[axis] /\ c <= p[axis]
    BY <1>0, <1>1, <1>2, <1>5, <2>2 DEF Within
  <2>5. Within(p, axis) => Within(q, axis)
    BY <1>0, <1>1, <1>2, <2>2, <2>3, <2>4 DEF Within
  <2>6. p[axis] \in World.min[axis] .. World.max[axis]
          => q[axis] \in World.min[axis] .. World.max[axis]
    BY <1>0, <1>1, <1>2, <2>2, <2>3
  <2>7. ASSUME Within(p, axis), NEW w \in walls, IsBeside(w, p, axis)
        PROVE  /\ p[axis] <= w.min[axis] - HalfExtent => q[axis] <= w.min[axis] - HalfExtent
               /\ p[axis] >= w.max[axis] + HalfExtent => q[axis] >= w.max[axis] + HalfExtent
    BY <2>7, <1>0, <1>w, <2>2, <2>3, <2>4
  <2> QED
    BY <2>3, <2>5, <2>6, <2>7 DEF IsMove
<1> QED
  BY <1>3, <1>4, <1>5

\* Overlapping is being beside on both axes.
LEMMA ClearMeans ==
    ASSUME NEW p \in Int \X Int, NEW walls, walls \subseteq Rectangle
    PROVE  IsClear(p, walls) <=>
             /\ Within(p, 1) /\ Within(p, 2)
             /\ \A w \in walls : \E axis \in 1 .. 2 :
                  p[axis] <= w.min[axis] - HalfExtent \/ p[axis] >= w.max[axis] + HalfExtent
<1>1. \A axis \in 1 .. 2 : p[axis] = Inside(p[axis], axis) <=> Within(p, axis)
  <2> TAKE axis \in 1 .. 2
  <2>1. p[axis] \in Int
    BY Coordinates
  <2>2. World.min[axis] \in Int /\ World.max[axis] \in Int /\ HalfExtent \in Nat
    BY Corners, HalfExtentTyped
  <2> QED
    BY <2>1, <2>2, InsideClamps DEF Within
<1>2. \A w \in walls : ~ IsOverlapping(p, w) <=> \E axis \in 1 .. 2 :
          p[axis] <= w.min[axis] - HalfExtent \/ p[axis] >= w.max[axis] + HalfExtent
  <2> TAKE w \in walls
  <2>1. \A axis \in 1 .. 2 : /\ p[axis] \in Int /\ w.min[axis] \in Int /\ w.max[axis] \in Int
                             /\ HalfExtent \in Nat
    BY Coordinates, Corners, HalfExtentTyped
  <2>2. \A axis \in 1 .. 2 :
          (p[axis] - HalfExtent < w.max[axis] /\ p[axis] + HalfExtent > w.min[axis])
          <=> ~ (p[axis] <= w.min[axis] - HalfExtent \/ p[axis] >= w.max[axis] + HalfExtent)
    BY <2>1
  <2> QED
    BY <2>2, Zenon DEF IsOverlapping
<1>3. (\A axis \in 1 .. 2 : Within(p, axis)) <=> Within(p, 1) /\ Within(p, 2)
  OBVIOUS
<1> QED
  BY <1>1, <1>2, <1>3 DEF IsClear

\* Moving along an axis keeps a clear position clear.
LEMMA MoveKeepsClear ==
    ASSUME NEW axis \in 1 .. 2, NEW p \in Int \X Int, NEW q,
           NEW walls, walls \subseteq Rectangle,
           IsMove(axis, p, q, walls), IsClear(p, walls)
    PROVE  IsClear(q, walls)
<1>1. q \in Int \X Int /\ q[3 - axis] = p[3 - axis]
  BY DEF IsMove
<1>2. Within(p, axis) /\ Within(p, 3 - axis)
  BY ClearMeans
<1>3. Within(q, axis) /\ Within(q, 3 - axis)
  BY <1>1, <1>2 DEF IsMove, Within
<1>4. Within(q, 1) /\ Within(q, 2)
  BY <1>3
<1>5. ASSUME NEW w \in walls
      PROVE  \E a \in 1 .. 2 : q[a] <= w.min[a] - HalfExtent \/ q[a] >= w.max[a] + HalfExtent
  <2>1. PICK a \in 1 .. 2 : p[a] <= w.min[a] - HalfExtent \/ p[a] >= w.max[a] + HalfExtent
    BY ClearMeans
  <2>2. CASE a = axis /\ IsBeside(w, p, axis)
    BY <1>2, <2>1, <2>2 DEF IsMove
  <2>3. CASE ~ IsBeside(w, p, axis)
    <3>1. 3 - axis \in 1 .. 2
      OBVIOUS
    <3>2. /\ p[3 - axis] \in Int /\ w.min[3 - axis] \in Int /\ w.max[3 - axis] \in Int
          /\ HalfExtent \in Nat
      BY <3>1, Coordinates, Corners, HalfExtentTyped
    <3>3. p[3 - axis] <= w.min[3 - axis] - HalfExtent
          \/ p[3 - axis] >= w.max[3 - axis] + HalfExtent
      BY <2>3, <3>2 DEF IsBeside
    <3> QED
      BY <1>1, <3>1, <3>3
  <2>4. CASE a = 3 - axis
    BY <1>1, <2>1, <2>4
  <2> QED
    BY <2>2, <2>3, <2>4
<1> QED
  BY <1>1, <1>4, <1>5, ClearMeans

\* However many keys are held, a step leads somewhere.
LEMMA DisplacementTyped ==
    ASSUME NEW keys, NEW distance \in Nat
    PROVE  Displacement(keys, distance) \in Int \X Int
<1>1. \A less, more : Direction(keys, less, more) \in {-1, 0, 1}
  BY DEF Direction
<1>2. (7 * distance) \div 10 \in Int
  OBVIOUS
<1>3. \A x \in {-1, 0, 1}, n \in Int : x * n \in Int
  OBVIOUS
<1> DEFINE x == Direction(keys, "Left", "Right")
           y == Direction(keys, "Up", "Down")
           along == IF x # 0 /\ y # 0 THEN (7 * distance) \div 10 ELSE distance
<1>4. x \in {-1, 0, 1} /\ y \in {-1, 0, 1} /\ along \in Int
  BY <1>1, <1>2
<1>5. x * along \in Int /\ y * along \in Int
  BY <1>3, <1>4
<1>6. Displacement(keys, distance) = <<x * along, y * along>>
  BY DEF Displacement
<1> QED
  BY <1>5, <1>6

\* A player that moves stays in the world, and out of walls that it was not in.
LEMMA MovingStaysClear ==
    ASSUME NEW p \in Int \X Int, NEW keys, NEW distance \in Nat,
           NEW walls, walls \subseteq Rectangle
    PROVE  LET q == MovePlayerWithWallCollision(p, keys, distance, walls)
           IN  /\ q \in Int \X Int
               /\ InWorld(p) => InWorld(q)
               /\ IsClear(p, walls) => IsClear(q, walls)
<1> DEFINE delta == Displacement(keys, distance)
           h == MoveAlong(1, p, delta[1], walls)
           q == MoveAlong(2, h, delta[2], walls)
<1>1. delta[1] \in Int /\ delta[2] \in Int
  BY DisplacementTyped
<1> HIDE DEF delta
<1>2. IsMove(1, p, h, walls)
  BY <1>1, MoveAlongMoves
<1>3. h \in Int \X Int
  BY <1>2 DEF IsMove
<1>4. IsMove(2, h, q, walls)
  BY <1>1, <1>3, MoveAlongMoves
<1> HIDE DEF h, q
<1>5. q \in Int \X Int
  BY <1>4 DEF IsMove
<1>6. InWorld(p) => InWorld(q)
  BY <1>2, <1>4 DEF IsMove, InWorld
<1>7. IsClear(p, walls) => IsClear(q, walls)
  BY <1>2, <1>3, <1>4, MoveKeepsClear
<1> QED
  BY <1>5, <1>6, <1>7 DEF MovePlayerWithWallCollision, delta, h, q

-----------------------------------------------------------------------------
(* The settings of the client *)

\* The provers do not see that a literal is a string.
Literals == {"", "127.0.0.1", "trace", "debug", "info", "warning", "error"}
Strings == STRING \cup Literals
AnyText == [form : {"number", "fraction", "word"}, n : Int, word : Strings]

TimingFields == {"updateSleepInterval", "accountLoginRetryInterval", "joinRetryInterval",
                 "keepAliveInterval", "roomJoinInterval", "interpolationAdjustStep"}

NetworkSettings ==
    [serverIp : AnyText, serverPort : 1 .. ShortMax, transportType : {"socket", "iocp"},
     iocpWorkerThreadCount : Int, iocpRecvContextCount : Int]
AccountSettings == [loginName : AnyText, passwordHash : AnyText]
TimingSettings == [TimingFields -> Int]
InterpolationSettings == [enabled : Int, defaultDelay : Int, minDelay : Int, maxDelay : Int]
SnapshotSettings == [assemblyTimeout : Int]
SimulationSettings == [tickInterval : Int, deltaSeconds : Int]
DiagnosticsSettings == [logLevel : Strings, asyncLogWorkerThreadCount : Int]

Settings ==
    [network : NetworkSettings, account : AccountSettings, timing : TimingSettings,
     interpolation : InterpolationSettings, snapshot : SnapshotSettings,
     simulation : SimulationSettings, diagnostics : DiagnosticsSettings]

\* The widths of the types, of which the defaults are within.
LEMMA WidthsTyped ==
    /\ ShortMax \in Nat /\ ShortMax >= 9000
    /\ LongMax \in Nat /\ LongMax >= 2000 /\ Infinity \in Nat
BY WidthAssumption, DefaultAssumption

\* The defaults have the types of the settings.
LEMMA DefaultTyped == Default \in Settings
<1>1. \A w \in Literals : Word(w) \in AnyText
  BY DEF Word, AnyText, Strings
<1>2. 9000 \in 1 .. ShortMax
  BY WidthsTyped
<1>3. Word("127.0.0.1") \in AnyText /\ Word("") \in AnyText
  BY <1>1 DEF Literals
<1>4. Default.network \in NetworkSettings
  <2> DEFINE ip == Word("127.0.0.1")
  <2>1. Default.network =
          [serverIp |-> ip, serverPort |-> 9000, transportType |-> "socket",
           iocpWorkerThreadCount |-> 1, iocpRecvContextCount |-> 4]
    BY DEF Default
  <2>2. ip \in AnyText
    BY <1>3
  <2> HIDE DEF ip
  <2> QED
    BY <1>2, <2>1, <2>2 DEF NetworkSettings
<1>5. Default.account \in AccountSettings
  <2>1. Default.account = [loginName |-> Word(""), passwordHash |-> Word("")]
    BY DEF Default
  <2>2. \A v \in AnyText : [loginName |-> v, passwordHash |-> v] \in AccountSettings
    BY DEF AccountSettings
  <2> QED
    BY <1>3, <2>1, <2>2
<1>6. Default.timing \in TimingSettings
  BY DEF Default, TimingSettings, TimingFields
<1>7. Default.interpolation \in InterpolationSettings /\ Default.snapshot \in SnapshotSettings
  BY DEF Default, InterpolationSettings, SnapshotSettings
<1>8. Default.simulation \in SimulationSettings
  BY DEF Default, SimulationSettings
<1>9. Default.diagnostics \in DiagnosticsSettings
  <2>1. Default.diagnostics = [logLevel |-> "info", asyncLogWorkerThreadCount |-> 1]
    BY DEF Default
  <2>2. "info" \in Strings
    BY DEF Strings, Literals
  <2> QED
    BY <2>1, <2>2 DEF DiagnosticsSettings
<1>10. Default = [network |-> Default.network, account |-> Default.account,
                  timing |-> Default.timing, interpolation |-> Default.interpolation,
                  snapshot |-> Default.snapshot, simulation |-> Default.simulation,
                  diagnostics |-> Default.diagnostics]
  BY DEF Default
<1> QED
  BY <1>4, <1>5, <1>6, <1>7, <1>8, <1>9, <1>10 DEF Settings

\* What a line may say can be kept as a setting.
LEMMA TextsAreTexts == Text \subseteq AnyText
BY DEF Text, AnyText, Strings

\* A setting keeps its type if what was parsed has it.
LEMMA KeptIsTyped ==
    ASSUME NEW S, NEW values, values \subseteq S, NEW d \in S
    PROVE  Kept(values, d) \in S
<1>1. CASE values = {}
  BY <1>1 DEF Kept
<1>2. CASE values # {}
  <2>1. (CHOOSE v \in values : TRUE) \in values
    BY <1>2
  <2> QED
    BY <1>2, <2>1 DEF Kept
<1> QED
  BY <1>1, <1>2

\* What the parsers return, whatever the text.
LEMMA ParsersTyped ==
    ASSUME NEW text \in Text
    PROVE  /\ TryParseUnsigned(text) \subseteq Int
           /\ \A n \in Int : ToCount(n) \in Int
           /\ PositiveMilliseconds(text) \subseteq Int
           /\ TryParseFloat(text) \subseteq Int
           /\ TryParseBool(text) \subseteq Int
           /\ TryParseLogLevel(text) \subseteq Strings
           /\ TryParseClientTransportType(text) \subseteq {"socket", "iocp"}
<1>1. text.n \in Int /\ text.form \in {"number", "fraction", "word"} /\ text.word \in STRING
  BY DEF Text
<1>2. TryParseUnsigned(text) \subseteq Int
  BY <1>1 DEF TryParseUnsigned
<1>3. \A n \in Int : ToCount(n) \in Int
  <2> TAKE n \in Int
  <2>1. 2 * (LongMax + 1) \in Nat /\ 2 * (LongMax + 1) > 0 /\ n + LongMax + 1 \in Int
    BY WidthsTyped
  <2>2. \A a \in Int, b \in Nat : b > 0 => a % b \in Int
    OBVIOUS
  <2>3. (n + LongMax + 1) % (2 * (LongMax + 1)) \in Int
    BY <2>1, <2>2
  <2> QED
    BY <2>3, WidthsTyped DEF ToCount, Wrapped
<1>4. PositiveMilliseconds(text) \subseteq Int
  BY <1>2, <1>3 DEF PositiveMilliseconds, Positive
<1>5. TryParseFloat(text) \subseteq Int
  BY <1>1, WidthsTyped DEF TryParseFloat
<1>6. TryParseBool(text) \subseteq Int
  BY <1>1 DEF TryParseBool
<1>7. TryParseLogLevel(text) \subseteq Strings
  <2>1. {"trace", "debug", "info", "warning", "error"} \subseteq Strings
    BY DEF Strings, Literals
  <2>2. TryParseLogLevel(text) \subseteq {"trace", "debug", "info", "warning", "error"}
    BY Zenon DEF TryParseLogLevel
  <2> QED
    BY <2>1, <2>2
<1>8. TryParseClientTransportType(text) \subseteq {"socket", "iocp"}
  BY DEF TryParseClientTransportType
<1> QED
  BY <1>2, <1>3, <1>4, <1>5, <1>6, <1>7, <1>8

\* A value of [Network] keeps the types.
LEMMA NetworkValueTyped ==
    ASSUME NEW c \in Settings, NEW key, NEW text \in Text
    PROVE  ApplyNetworkValue(c, key, text) \in Settings
<1> DEFINE count == Positive(TryParseUnsigned(text))
           n == c.network
<1>1. n \in NetworkSettings
  BY DEF Settings
<1>2. /\ n.serverIp \in AnyText /\ n.serverPort \in 1 .. ShortMax
      /\ n.transportType \in {"socket", "iocp"}
      /\ n.iocpWorkerThreadCount \in Int /\ n.iocpRecvContextCount \in Int
  BY <1>1 DEF NetworkSettings
<1>3. count \subseteq Int /\ {m \in count : m <= ShortMax} \subseteq 1 .. ShortMax
  BY ParsersTyped, WidthsTyped DEF Positive
<1>4. \A v \in AnyText : [c EXCEPT !.network.serverIp = v] \in Settings
  BY <1>1 DEF Settings, NetworkSettings
<1>5. \A v \in 1 .. ShortMax : [c EXCEPT !.network.serverPort = v] \in Settings
  BY <1>1 DEF Settings, NetworkSettings
<1>6. \A v \in {"socket", "iocp"} : [c EXCEPT !.network.transportType = v] \in Settings
  BY <1>1 DEF Settings, NetworkSettings
<1>7. \A v \in Int : /\ [c EXCEPT !.network.iocpWorkerThreadCount = v] \in Settings
                     /\ [c EXCEPT !.network.iocpRecvContextCount = v] \in Settings
  BY <1>1 DEF Settings, NetworkSettings
<1> HIDE DEF count
<1>8. /\ (IF text = Word("") THEN n.serverIp ELSE text) \in AnyText
      /\ Kept({m \in count : m <= ShortMax}, n.serverPort) \in 1 .. ShortMax
      /\ Kept(TryParseClientTransportType(text), n.transportType) \in {"socket", "iocp"}
      /\ Kept(count, n.iocpWorkerThreadCount) \in Int
      /\ Kept(count, n.iocpRecvContextCount) \in Int
  <2>1. TryParseClientTransportType(text) \subseteq {"socket", "iocp"}
    BY ParsersTyped
  <2>2. Kept({m \in count : m <= ShortMax}, n.serverPort) \in 1 .. ShortMax
    BY <1>2, <1>3, KeptIsTyped, Zenon
  <2>3. Kept(TryParseClientTransportType(text), n.transportType) \in {"socket", "iocp"}
    BY <1>2, <2>1, KeptIsTyped, Zenon
  <2>4. /\ Kept(count, n.iocpWorkerThreadCount) \in Int
        /\ Kept(count, n.iocpRecvContextCount) \in Int
    BY <1>2, <1>3, KeptIsTyped, Zenon
  <2> QED
    BY <1>2, <2>2, <2>3, <2>4, TextsAreTexts
<1> QED
  BY <1>4, <1>5, <1>6, <1>7, <1>8 DEF ApplyNetworkValue, count

\* A value of [Account] keeps the types.
LEMMA AccountValueTyped ==
    ASSUME NEW c \in Settings, NEW key, NEW text \in Text
    PROVE  ApplyAccountValue(c, key, text) \in Settings
BY TextsAreTexts DEF ApplyAccountValue, Settings, AccountSettings

\* A value of [Timing] keeps the types.
LEMMA TimingValueTyped ==
    ASSUME NEW c \in Settings, NEW key, NEW text \in Text
    PROVE  ApplyTimingValue(c, key, text) \in Settings
<1>1. c.timing \in [TimingFields -> Int]
  BY DEF Settings, TimingSettings
<1>2. key \in DOMAIN TimingOf => TimingOf[key] \in TimingFields
  BY DEF TimingOf, TimingFields
<1>3. \A f \in TimingFields, v \in Int : [c EXCEPT !.timing[f] = v] \in Settings
  BY <1>1 DEF Settings, TimingSettings
<1>4. \A f \in TimingFields : Kept(PositiveMilliseconds(text), c.timing[f]) \in Int
  <2> TAKE f \in TimingFields
  <2>1. c.timing[f] \in Int /\ PositiveMilliseconds(text) \subseteq Int
    BY <1>1, ParsersTyped
  <2> QED
    BY <2>1, KeptIsTyped, Zenon
<1> QED
  BY <1>2, <1>3, <1>4 DEF ApplyTimingValue

\* A value of [Interpolation] keeps the types.
LEMMA InterpolationValueTyped ==
    ASSUME NEW c \in Settings, NEW key, NEW text \in Text
    PROVE  ApplyInterpolationValue(c, key, text) \in Settings
<1> DEFINE delay == {ToCount(n) : n \in TryParseUnsigned(text)}
           i == c.interpolation
<1>1. i \in InterpolationSettings
  BY DEF Settings
<1>2. i.enabled \in Int /\ i.defaultDelay \in Int /\ i.minDelay \in Int /\ i.maxDelay \in Int
  BY <1>1 DEF InterpolationSettings
<1>3. delay \subseteq Int /\ TryParseBool(text) \subseteq Int
  BY ParsersTyped
<1>4. \A v \in Int : /\ [c EXCEPT !.interpolation.enabled = v] \in Settings
                     /\ [c EXCEPT !.interpolation.defaultDelay = v] \in Settings
                     /\ [c EXCEPT !.interpolation.minDelay = v] \in Settings
                     /\ [c EXCEPT !.interpolation.maxDelay = v] \in Settings
  BY <1>1 DEF Settings, InterpolationSettings
<1> HIDE DEF delay
<1>5. /\ Kept(TryParseBool(text), i.enabled) \in Int
      /\ Kept(delay, i.defaultDelay) \in Int
      /\ Kept(delay, i.minDelay) \in Int /\ Kept(delay, i.maxDelay) \in Int
  BY <1>2, <1>3, KeptIsTyped, Zenon
<1> QED
  BY <1>4, <1>5 DEF ApplyInterpolationValue, delay

\* A value of [Snapshot] keeps the types.
LEMMA SnapshotValueTyped ==
    ASSUME NEW c \in Settings, NEW key, NEW text \in Text
    PROVE  ApplySnapshotValue(c, key, text) \in Settings
<1>1. c.snapshot \in SnapshotSettings /\ c.snapshot.assemblyTimeout \in Int
  BY DEF Settings, SnapshotSettings
<1>2. \A v \in Int : [c EXCEPT !.snapshot.assemblyTimeout = v] \in Settings
  BY <1>1 DEF Settings, SnapshotSettings
<1>3. PositiveMilliseconds(text) \subseteq Int
  BY ParsersTyped
<1>4. Kept(PositiveMilliseconds(text), c.snapshot.assemblyTimeout) \in Int
  BY <1>1, <1>3, KeptIsTyped, Zenon
<1> QED
  BY <1>2, <1>4 DEF ApplySnapshotValue

\* A value of [Simulation] keeps the types.
LEMMA SimulationValueTyped ==
    ASSUME NEW c \in Settings, NEW key, NEW text \in Text
    PROVE  ApplySimulationValue(c, key, text) \in Settings
<1>1. c.simulation \in SimulationSettings /\ c.simulation.tickInterval \in Int
      /\ c.simulation.deltaSeconds \in Int
  BY DEF Settings, SimulationSettings
<1>2. \A v \in Int : /\ [c EXCEPT !.simulation.tickInterval = v] \in Settings
                     /\ [c EXCEPT !.simulation.deltaSeconds = v] \in Settings
  BY <1>1 DEF Settings, SimulationSettings
<1>3. PositiveMilliseconds(text) \subseteq Int /\ Positive(TryParseFloat(text)) \subseteq Int
  BY ParsersTyped DEF Positive
<1>4. /\ Kept(PositiveMilliseconds(text), c.simulation.tickInterval) \in Int
      /\ Kept(Positive(TryParseFloat(text)), c.simulation.deltaSeconds) \in Int
  BY <1>1, <1>3, KeptIsTyped, Zenon
<1> QED
  BY <1>2, <1>4 DEF ApplySimulationValue

\* A value of [Diagnostics] keeps the types.
LEMMA DiagnosticsValueTyped ==
    ASSUME NEW c \in Settings, NEW key, NEW text \in Text
    PROVE  ApplyDiagnosticsValue(c, key, text) \in Settings
<1>1. c.diagnostics \in DiagnosticsSettings /\ c.diagnostics.logLevel \in Strings
      /\ c.diagnostics.asyncLogWorkerThreadCount \in Int
  BY DEF Settings, DiagnosticsSettings
<1>2. /\ \A v \in Strings : [c EXCEPT !.diagnostics.logLevel = v] \in Settings
      /\ \A v \in Int : [c EXCEPT !.diagnostics.asyncLogWorkerThreadCount = v] \in Settings
  BY <1>1 DEF Settings, DiagnosticsSettings
<1>3. /\ TryParseLogLevel(text) \subseteq Strings
      /\ Positive(TryParseUnsigned(text)) \subseteq Int
  BY ParsersTyped DEF Positive
<1>4. /\ Kept(TryParseLogLevel(text), c.diagnostics.logLevel) \in Strings
      /\ Kept(Positive(TryParseUnsigned(text)), c.diagnostics.asyncLogWorkerThreadCount)
            \in Int
  BY <1>1, <1>3, KeptIsTyped, Zenon
<1> QED
  BY <1>2, <1>4 DEF ApplyDiagnosticsValue

\* Whatever a line says, the settings keep their types.
LEMMA LineKeepsTypes ==
    ASSUME NEW c \in Settings, NEW s \in Strings, NEW line \in Lines
    PROVE  /\ LoadLine([section |-> s, config |-> c], line).config \in Settings
           /\ LoadLine([section |-> s, config |-> c], line) =
                [section |-> LoadLine([section |-> s, config |-> c], line).section,
                 config |-> LoadLine([section |-> s, config |-> c], line).config]
           /\ LoadLine([section |-> s, config |-> c], line).section \in Strings
<1> DEFINE loaded == [section |-> s, config |-> c]
<1>1. CASE line.form = "section"
  <2>1. line.name \in Strings
    BY <1>1 DEF Lines, Strings
  <2>2. LoadLine(loaded, line) = [section |-> line.name, config |-> c]
    BY <1>1 DEF LoadLine
  <2> QED
    BY <2>1, <2>2
<1>2. CASE line.form = "value"
  <2>1. line.text \in Text
    BY <1>2 DEF Lines
  <2>2. ApplyConfigValue(c, s, line.key, line.text) \in Settings
    BY <2>1, NetworkValueTyped, AccountValueTyped, TimingValueTyped, InterpolationValueTyped,
       SnapshotValueTyped, SimulationValueTyped, DiagnosticsValueTyped DEF ApplyConfigValue
  <2>3. LoadLine(loaded, line) \in
          {loaded, [section |-> s, config |-> ApplyConfigValue(c, s, line.key, line.text)]}
    BY <1>2 DEF LoadLine
  <2> QED
    BY <2>2, <2>3
<1>3. line.form \in {"section", "value"}
  BY DEF Lines
<1> QED
  BY <1>1, <1>2, <1>3

States == [section : Strings, config : Settings]
Start == [section |-> "", config |-> Default]

\* The loading is what its definition says, for a file of any length.
LEMMA LoadIsDefined ==
    ASSUME NEW lines, NEW n \in Nat
    PROVE  \E loaded : loaded = [k \in 0 .. n |->
               IF k = 0 THEN Start ELSE LoadLine(loaded[k - 1], lines[k])]
<1> DEFINE Next1(f, k) == IF k = 0 THEN Start ELSE LoadLine(f[k - 1], lines[k])
           S == {m \in Nat : \E f : f = [k \in 0 .. m |-> Next1(f, k)]}
<1>1. 0 \in S
  <2> DEFINE f == [k \in 0 .. 0 |-> Start]
  <2>1. f = [k \in 0 .. 0 |-> Next1(f, k)]
    OBVIOUS
  <2> QED
    BY <2>1
<1>2. ASSUME NEW m \in Nat, m \in S PROVE m + 1 \in S
  <2>1. PICK f : f = [k \in 0 .. m |-> Next1(f, k)]
    BY <1>2
  <2> DEFINE last == LoadLine(f[m], lines[m + 1])
             g == [k \in 0 .. m + 1 |-> IF k = m + 1 THEN last ELSE f[k]]
  <2>2. ASSUME NEW k \in 0 .. m + 1 PROVE g[k] = Next1(g, k)
    <3>1. CASE k = m + 1
      <4>1. g[k] = last /\ k - 1 = m /\ g[m] = f[m] /\ k # 0
        BY <3>1
      <4> QED
        BY <4>1, <3>1
    <3>2. CASE k # m + 1
      <4>1. g[k] = f[k] /\ k \in 0 .. m
        BY <3>2
      <4>2. k # 0 => g[k - 1] = f[k - 1]
        BY <3>2
      <4>3. f[k] = Next1(f, k)
        BY <2>1, <4>1
      <4> QED
        BY <4>1, <4>2, <4>3
    <3> QED
      BY <3>1, <3>2
  <2>3. g = [k \in 0 .. m + 1 |-> Next1(g, k)]
    BY <2>2
  <2> HIDE DEF g
  <2>4. \E f1 : f1 = [k \in 0 .. m + 1 |-> Next1(f1, k)]
    BY <2>3, Zenon
  <2>5. m + 1 \in Nat
    OBVIOUS
  <2> HIDE DEF Next1
  <2> QED
    BY <2>4, <2>5
<1>3. n \in S
  BY <1>1, <1>2, Induction
<1> QED
  BY <1>3

\* The same of a line, for the section and the settings together.
LEMMA LineKeepsStates ==
    ASSUME NEW loaded \in States, NEW line \in Lines
    PROVE  LoadLine(loaded, line) \in States
<1> DEFINE s == loaded.section
           c == loaded.config
<1>1. s \in Strings /\ c \in Settings /\ loaded = [section |-> s, config |-> c]
  BY DEF States
<1> HIDE DEF s, c
<1>2. /\ LoadLine([section |-> s, config |-> c], line).config \in Settings
      /\ LoadLine([section |-> s, config |-> c], line) =
                [section |-> LoadLine([section |-> s, config |-> c], line).section,
                 config |-> LoadLine([section |-> s, config |-> c], line).config]
      /\ LoadLine([section |-> s, config |-> c], line).section \in Strings
  BY <1>1, LineKeepsTypes
<1> DEFINE r == LoadLine([section |-> s, config |-> c], line)
<1>3. /\ r.config \in Settings /\ r.section \in Strings
      /\ r = [section |-> r.section, config |-> r.config]
  BY <1>2
<1> HIDE DEF r
<1>4. r \in States
  BY <1>3 DEF States
<1> QED
  BY <1>1, <1>4 DEF r

\* Whatever a file holds, what is loaded from it has the types of the settings.
LEMMA LoadKeepsTypes ==
    ASSUME NEW lines \in Seq(Lines)
    PROVE  Load(lines) \in Settings
<1> DEFINE n == Len(lines)
           loaded == CHOOSE loaded : loaded = [k \in 0 .. Len(lines) |->
               IF k = 0 THEN Start ELSE LoadLine(loaded[k - 1], lines[k])]
           S == {k \in Nat : k <= n => loaded[k] \in States}
<1>0. n \in Nat
  OBVIOUS
<1>1. Start \in States
  <2>1. "" \in Strings
    BY DEF Strings, Literals
  <2> QED
    BY <2>1, DefaultTyped DEF States, Start
<1>2. Load(lines) = loaded[n].config
  BY DEF Load, Start
<1>3. loaded = [k \in 0 .. Len(lines) |->
               IF k = 0 THEN Start ELSE LoadLine(loaded[k - 1], lines[k])]
  <2>1. \E f : f = [k \in 0 .. Len(lines) |->
               IF k = 0 THEN Start ELSE LoadLine(f[k - 1], lines[k])]
    BY <1>0, LoadIsDefined, Zenon
  <2> QED
    BY <2>1, Zenon
<1> HIDE DEF loaded
<1>4. 0 \in S
  BY <1>0, <1>1, <1>3
<1>5. ASSUME NEW k \in Nat, k \in S PROVE k + 1 \in S
  <2> SUFFICES ASSUME k + 1 <= n PROVE loaded[k + 1] \in States
    OBVIOUS
  <2>1. loaded[k] \in States
    BY <1>0, <1>5
  <2>2. loaded[k + 1] = LoadLine(loaded[k], lines[k + 1])
    <3>1. k + 1 \in 0 .. Len(lines) /\ k + 1 # 0 /\ (k + 1) - 1 = k
      BY <1>0
    <3> QED
      BY <1>3, <3>1
  <2>3. lines[k + 1] \in Lines
    BY <1>0
  <2> QED
    BY <2>1, <2>2, <2>3, LineKeepsStates
<1>6. n \in S
  <2>1. Nat \subseteq S
    BY <1>4, <1>5, Induction
  <2> QED
    BY <1>0, <2>1
<1>7. loaded[n] \in States
  BY <1>0, <1>6
<1> QED
  BY <1>2, <1>7 DEF States

\* The defaults that the validator falls back on.
LEMMA DefaultParts ==
    /\ Default.network.serverPort = 9000
    /\ Default.network.iocpWorkerThreadCount = 1 /\ Default.network.iocpRecvContextCount = 4
    /\ \A f \in TimingFields : Default.timing[f] \in Int /\ Default.timing[f] > 0
    /\ DOMAIN Default.timing = TimingFields
    /\ Default.interpolation.minDelay = 0 /\ Default.interpolation.maxDelay = 500
    /\ Default.snapshot.assemblyTimeout = 500
    /\ Default.simulation.tickInterval = 50 /\ Default.simulation.deltaSeconds = 50
    /\ Default.diagnostics.asyncLogWorkerThreadCount = 1
<1>2. /\ Default.network.serverPort = 9000
      /\ Default.network.iocpWorkerThreadCount = 1 /\ Default.network.iocpRecvContextCount = 4
  BY DEF Default
<1>3. /\ \A f \in TimingFields : Default.timing[f] \in Int /\ Default.timing[f] > 0
      /\ DOMAIN Default.timing = TimingFields
  BY DEF Default, TimingFields
<1>4. /\ Default.interpolation.minDelay = 0 /\ Default.interpolation.maxDelay = 500
      /\ Default.snapshot.assemblyTimeout = 500
      /\ Default.simulation.tickInterval = 50 /\ Default.simulation.deltaSeconds = 50
      /\ Default.diagnostics.asyncLogWorkerThreadCount = 1
  BY DEF Default
<1> QED
  BY <1>2, <1>3, <1>4

\* The default address is not empty.
LEMMA LoopbackIsAnAddress == Default.network.serverIp # Word("")
<1> DEFINE a == "127.0.0.1"
<1>1. a # ""
  OBVIOUS
<1>2. Default.network.serverIp = Word(a)
  BY DEF Default
<1> HIDE DEF a
<1>3. Word(a) # Word("")
  BY <1>1 DEF Word
<1> QED
  BY <1>2, <1>3

\* The validator puts a default in the place of what is not positive.
LEMMA AboveZeroMeans ==
    ASSUME NEW v \in Int, NEW d \in Int, d > 0
    PROVE  /\ AboveZero(v, d) \in Int /\ AboveZero(v, d) > 0
           /\ v > 0 => AboveZero(v, d) = v
           /\ AboveZero(v, d) \in {v, d}
BY DEF AboveZero

\* It leaves what is positive.
LEMMA AboveZeroKeeps ==
    ASSUME NEW v \in Int, v > 0, NEW d
    PROVE  AboveZero(v, d) = v
BY DEF AboveZero

\* The validator makes settings usable, and leaves usable ones as they are.
LEMMA ValidatedIsUsable ==
    ASSUME NEW c \in Settings
    PROVE  Validated(c) \in Settings /\ Usable(Validated(c))
<1> DEFINE v == Validated(c)
<1>1. /\ c.network \in NetworkSettings /\ c.account \in AccountSettings
      /\ c.timing \in TimingSettings /\ c.interpolation \in InterpolationSettings
      /\ c.snapshot \in SnapshotSettings /\ c.simulation \in SimulationSettings
      /\ c.diagnostics \in DiagnosticsSettings
  BY DEF Settings
<1>2. /\ ValidatedNetwork(c.network) \in NetworkSettings
      /\ ValidatedNetwork(c.network).serverIp # Word("")
      /\ ValidatedNetwork(c.network).iocpWorkerThreadCount > 0
      /\ ValidatedNetwork(c.network).iocpRecvContextCount > 0
  <2> DEFINE n == c.network
             ip == IF n.serverIp = Word("") THEN Default.network.serverIp ELSE n.serverIp
             port == AboveZero(n.serverPort, Default.network.serverPort)
             workers == AboveZero(n.iocpWorkerThreadCount,
                                  Default.network.iocpWorkerThreadCount)
             contexts == AboveZero(n.iocpRecvContextCount,
                                   Default.network.iocpRecvContextCount)
  <2>1. /\ n.serverIp \in AnyText /\ n.serverPort \in 1 .. ShortMax
        /\ n.transportType \in {"socket", "iocp"}
        /\ n.iocpWorkerThreadCount \in Int /\ n.iocpRecvContextCount \in Int
    BY <1>1 DEF NetworkSettings
  <2>2. ip \in AnyText /\ ip # Word("")
    <3>1. Default.network.serverIp \in AnyText
      BY DefaultTyped DEF Settings, NetworkSettings
    <3>2. Default.network.serverIp # Word("")
      BY LoopbackIsAnAddress
    <3> HIDE DEF n
    <3> QED
      BY <2>1, <3>1, <3>2, Zenon
  <2>3. port \in 1 .. ShortMax
    BY <2>1, DefaultParts, WidthsTyped DEF AboveZero
  <2>4. workers \in Int /\ workers > 0 /\ contexts \in Int /\ contexts > 0
    BY <2>1, DefaultParts DEF AboveZero
  <2>5. ValidatedNetwork(n) =
          [serverIp |-> ip, serverPort |-> port, transportType |-> n.transportType,
           iocpWorkerThreadCount |-> workers, iocpRecvContextCount |-> contexts]
    BY Zenon DEF ValidatedNetwork
  <2> DEFINE t == n.transportType
             r == ValidatedNetwork(n)
  <2>6. t \in {"socket", "iocp"}
    BY <2>1
  <2>7. r = [serverIp |-> ip, serverPort |-> port, transportType |-> t,
             iocpWorkerThreadCount |-> workers, iocpRecvContextCount |-> contexts]
    BY <2>5, Zenon
  <2> HIDE DEF ip, port, workers, contexts, t, r
  <2>8. r \in NetworkSettings
    BY <2>2, <2>3, <2>4, <2>6, <2>7 DEF NetworkSettings
  <2>9. /\ r.serverIp = ip /\ r.iocpWorkerThreadCount = workers
        /\ r.iocpRecvContextCount = contexts
    BY <2>7
  <2> QED
    BY <2>2, <2>4, <2>8, <2>9 DEF r
<1>3. /\ ValidatedTiming(c.timing) \in TimingSettings
      /\ \A f \in TimingFields : ValidatedTiming(c.timing)[f] > 0
  BY <1>1, DefaultParts, AboveZeroMeans DEF ValidatedTiming, TimingSettings
<1>4. /\ ValidatedInterpolation(c.interpolation) \in InterpolationSettings
      /\ ValidatedInterpolation(c.interpolation).minDelay
            <= ValidatedInterpolation(c.interpolation).defaultDelay
      /\ ValidatedInterpolation(c.interpolation).defaultDelay
            <= ValidatedInterpolation(c.interpolation).maxDelay
  <2>1. /\ c.interpolation.enabled \in Int /\ c.interpolation.defaultDelay \in Int
        /\ c.interpolation.minDelay \in Int /\ c.interpolation.maxDelay \in Int
    BY <1>1 DEF InterpolationSettings
  <2> QED
    BY <2>1, DefaultParts DEF ValidatedInterpolation, InterpolationSettings
<1>5. /\ v.snapshot \in SnapshotSettings /\ v.snapshot.assemblyTimeout > 0
  <2>1. c.snapshot.assemblyTimeout \in Int
    BY <1>1 DEF SnapshotSettings
  <2> QED
    BY <2>1, DefaultParts DEF Validated, SnapshotSettings, AboveZero
<1>6. /\ ValidatedSimulation(c.simulation) \in SimulationSettings
      /\ ValidatedSimulation(c.simulation).tickInterval > 0
      /\ ValidatedSimulation(c.simulation).deltaSeconds > 0
  <2>1. /\ c.simulation.tickInterval \in Int /\ c.simulation.deltaSeconds \in Int
        /\ DOMAIN c.simulation = {"tickInterval", "deltaSeconds"}
    BY <1>1 DEF SimulationSettings
  <2> QED
    BY <2>1, DefaultParts DEF ValidatedSimulation, SimulationSettings, AboveZero
<1>7. /\ v.diagnostics \in DiagnosticsSettings
      /\ v.diagnostics.asyncLogWorkerThreadCount > 0
  <2>1. \A n \in Int :
          [c.diagnostics EXCEPT !.asyncLogWorkerThreadCount = n] \in DiagnosticsSettings
    BY <1>1 DEF DiagnosticsSettings
  <2>2. c.diagnostics.asyncLogWorkerThreadCount \in Int
        /\ "asyncLogWorkerThreadCount" \in DOMAIN c.diagnostics
    BY <1>1 DEF DiagnosticsSettings
  <2>3. v.diagnostics = [c.diagnostics EXCEPT !.asyncLogWorkerThreadCount =
                            AboveZero(@, Default.diagnostics.asyncLogWorkerThreadCount)]
    BY DEF Validated
  <2>4. AboveZero(c.diagnostics.asyncLogWorkerThreadCount, 1) \in Int
        /\ AboveZero(c.diagnostics.asyncLogWorkerThreadCount, 1) > 0
    BY <2>2 DEF AboveZero
  <2> QED
    BY <2>1, <2>2, <2>3, <2>4, DefaultParts
<1>8. v = [network |-> ValidatedNetwork(c.network), account |-> c.account,
           timing |-> ValidatedTiming(c.timing),
           interpolation |-> ValidatedInterpolation(c.interpolation),
           snapshot |-> v.snapshot, simulation |-> ValidatedSimulation(c.simulation),
           diagnostics |-> v.diagnostics]
  BY DEF Validated
<1> DEFINE net == ValidatedNetwork(c.network)
           timing == ValidatedTiming(c.timing)
           interpolation == ValidatedInterpolation(c.interpolation)
           simulation == ValidatedSimulation(c.simulation)
           snapshot == v.snapshot
           diagnostics == v.diagnostics
           account == c.account
<1>9. v \in Settings
  <2>1. v = [network |-> net, account |-> account, timing |-> timing,
             interpolation |-> interpolation, snapshot |-> snapshot,
             simulation |-> simulation, diagnostics |-> diagnostics]
    BY <1>8, Zenon
  <2>2. /\ net \in NetworkSettings /\ account \in AccountSettings
        /\ timing \in TimingSettings /\ interpolation \in InterpolationSettings
        /\ snapshot \in SnapshotSettings /\ simulation \in SimulationSettings
        /\ diagnostics \in DiagnosticsSettings
    BY <1>1, <1>2, <1>3, <1>4, <1>5, <1>6, <1>7
  <2> HIDE DEF v, net, account, timing, interpolation, snapshot, simulation, diagnostics
  <2> QED
    BY <2>1, <2>2 DEF Settings
<1> HIDE DEF v
<1>10. /\ v.network = ValidatedNetwork(c.network) /\ v.timing = ValidatedTiming(c.timing)
       /\ v.interpolation = ValidatedInterpolation(c.interpolation)
       /\ v.simulation = ValidatedSimulation(c.simulation)
  BY <1>8
<1>11. v.network.serverPort \in 1 .. ShortMax /\ DOMAIN v.timing = TimingFields
  BY <1>9 DEF Settings, NetworkSettings, TimingSettings
<1>12. Usable(v)
  BY <1>2, <1>3, <1>4, <1>5, <1>6, <1>7, <1>10, <1>11 DEF Usable
<1> QED
  BY <1>9, <1>12 DEF v

\* The validator leaves usable settings as they are.
LEMMA UsableIsKept ==
    ASSUME NEW c \in Settings, Usable(c)
    PROVE  Validated(c) = c
<1>1. /\ c.network \in NetworkSettings /\ c.account \in AccountSettings
      /\ c.timing \in TimingSettings /\ c.interpolation \in InterpolationSettings
      /\ c.snapshot \in SnapshotSettings /\ c.simulation \in SimulationSettings
      /\ c.diagnostics \in DiagnosticsSettings
  BY DEF Settings
<1>0. /\ c.network.serverIp # Word("") /\ c.network.serverPort \in 1 .. ShortMax
      /\ c.network.iocpWorkerThreadCount > 0 /\ c.network.iocpRecvContextCount > 0
      /\ \A f \in DOMAIN c.timing : c.timing[f] > 0
      /\ c.snapshot.assemblyTimeout > 0
      /\ c.simulation.tickInterval > 0 /\ c.simulation.deltaSeconds > 0
      /\ c.diagnostics.asyncLogWorkerThreadCount > 0
  BY Zenon DEF Usable
<1>2. ValidatedNetwork(c.network) = c.network
  <2> DEFINE n == c.network
  <2>1. /\ n.serverIp # Word("") /\ n.serverPort > 0 /\ n.serverPort \in Int
        /\ n.iocpWorkerThreadCount \in Int /\ n.iocpWorkerThreadCount > 0
        /\ n.iocpRecvContextCount \in Int /\ n.iocpRecvContextCount > 0
    <3>1. n.serverPort \in Int /\ n.serverPort > 0
      <4>1. \A p \in 1 .. ShortMax : p \in Int /\ p > 0
        BY WidthsTyped
      <4>2. n.serverPort \in 1 .. ShortMax
        BY <1>0, Zenon
      <4> HIDE DEF n
      <4> QED
        BY <4>1, <4>2
    <3>2. n.iocpWorkerThreadCount \in Int /\ n.iocpRecvContextCount \in Int
      BY <1>1 DEF NetworkSettings
    <3> QED
      BY <1>0, <3>1, <3>2
  <2>2. n = [serverIp |-> n.serverIp, serverPort |-> n.serverPort,
             transportType |-> n.transportType,
             iocpWorkerThreadCount |-> n.iocpWorkerThreadCount,
             iocpRecvContextCount |-> n.iocpRecvContextCount]
    BY <1>1 DEF NetworkSettings
  <2>3. /\ AboveZero(n.serverPort, Default.network.serverPort) = n.serverPort
        /\ AboveZero(n.iocpWorkerThreadCount, Default.network.iocpWorkerThreadCount)
              = n.iocpWorkerThreadCount
        /\ AboveZero(n.iocpRecvContextCount, Default.network.iocpRecvContextCount)
              = n.iocpRecvContextCount
    BY <2>1, AboveZeroKeeps
  <2> HIDE DEF n
  <2>4. ValidatedNetwork(n) = n
    BY <2>1, <2>2, <2>3, Zenon DEF ValidatedNetwork
  <2> QED
    BY <2>4 DEF n
<1>3. ValidatedTiming(c.timing) = c.timing
  <2>1. DOMAIN c.timing = TimingFields /\ \A f \in TimingFields : c.timing[f] \in Int
    BY <1>1 DEF TimingSettings
  <2>2. \A f \in TimingFields : AboveZero(c.timing[f], Default.timing[f]) = c.timing[f]
    BY <1>0, <2>1, AboveZeroKeeps
  <2>3. c.timing = [f \in TimingFields |-> c.timing[f]]
    BY <1>1 DEF TimingSettings
  <2> QED
    BY <2>1, <2>2, <2>3, Zenon DEF ValidatedTiming
<1>4. ValidatedInterpolation(c.interpolation) = c.interpolation
  <2>1. /\ c.interpolation.enabled \in Int /\ c.interpolation.defaultDelay \in Int
        /\ c.interpolation.minDelay \in Int /\ c.interpolation.maxDelay \in Int
    BY <1>1 DEF InterpolationSettings
  <2>2. c.interpolation.minDelay <= c.interpolation.defaultDelay
        /\ c.interpolation.defaultDelay <= c.interpolation.maxDelay
    BY DEF Usable
  <2>3. ValidatedInterpolation(c.interpolation) =
          [enabled |-> c.interpolation.enabled, defaultDelay |-> c.interpolation.defaultDelay,
           minDelay |-> c.interpolation.minDelay, maxDelay |-> c.interpolation.maxDelay]
    BY <2>1, <2>2 DEF ValidatedInterpolation
  <2> QED
    BY <1>1, <2>3 DEF InterpolationSettings
<1>5. [assemblyTimeout |-> AboveZero(c.snapshot.assemblyTimeout,
                                     Default.snapshot.assemblyTimeout)] = c.snapshot
  <2>1. c.snapshot.assemblyTimeout \in Int
        /\ c.snapshot = [assemblyTimeout |-> c.snapshot.assemblyTimeout]
    BY <1>1 DEF SnapshotSettings
  <2>2. AboveZero(c.snapshot.assemblyTimeout, Default.snapshot.assemblyTimeout)
            = c.snapshot.assemblyTimeout
    BY <1>0, <2>1, AboveZeroKeeps
  <2> QED
    BY <2>1, <2>2, Zenon
<1>6. ValidatedSimulation(c.simulation) = c.simulation
  <2> DEFINE s == c.simulation
             fields == {"tickInterval", "deltaSeconds"}
  <2>1. DOMAIN s = fields /\ s = [f \in fields |-> s[f]]
        /\ s.tickInterval \in Int /\ s.deltaSeconds \in Int
    BY <1>1 DEF SimulationSettings
  <2>2. \A f \in fields : s[f] \in Int /\ s[f] > 0
    BY <1>0, <2>1
  <2>3. \A f \in fields : AboveZero(s[f], Default.simulation[f]) = s[f]
    BY <2>2, AboveZeroKeeps
  <2> HIDE DEF s, fields
  <2>4. ValidatedSimulation(s) = s
    BY <2>1, <2>3, Zenon DEF ValidatedSimulation
  <2> QED
    BY <2>4 DEF s
<1>7. [c.diagnostics EXCEPT !.asyncLogWorkerThreadCount =
            AboveZero(@, Default.diagnostics.asyncLogWorkerThreadCount)] = c.diagnostics
  <2>1. /\ c.diagnostics.asyncLogWorkerThreadCount \in Int
        /\ [c.diagnostics EXCEPT !.asyncLogWorkerThreadCount =
               c.diagnostics.asyncLogWorkerThreadCount] = c.diagnostics
    BY <1>1 DEF DiagnosticsSettings
  <2>2. AboveZero(c.diagnostics.asyncLogWorkerThreadCount,
                  Default.diagnostics.asyncLogWorkerThreadCount)
            = c.diagnostics.asyncLogWorkerThreadCount
    BY <1>0, <2>1, AboveZeroKeeps
  <2> QED
    BY <2>1, <2>2, Zenon
<1>8. c = [network |-> c.network, account |-> c.account, timing |-> c.timing,
           interpolation |-> c.interpolation, snapshot |-> c.snapshot,
           simulation |-> c.simulation, diagnostics |-> c.diagnostics]
  BY DEF Settings
<1> QED
  BY <1>2, <1>3, <1>4, <1>5, <1>6, <1>7, <1>8 DEF Validated

\* What is laid over usable settings from the command line keeps them usable.
LEMMA BuiltIsUsable ==
    ASSUME NEW lines \in Seq(Lines), NEW ip \in Text, NEW port \in 0 .. ShortMax
    PROVE  /\ Usable(BuildClientConfig(lines, ip, port))
           /\ Validated(BuildClientConfig(lines, ip, port))
                 = BuildClientConfig(lines, ip, port)
<1> DEFINE c == LoadValidated(lines)
           b == BuildClientConfig(lines, ip, port)
           newIp == IF ip = Word("") THEN c.network.serverIp ELSE ip
           newPort == IF port = 0 THEN c.network.serverPort ELSE port
<1>1. c \in Settings /\ Usable(c)
  BY LoadKeepsTypes, ValidatedIsUsable DEF LoadValidated
<1> HIDE DEF c
<1>2. c.network \in NetworkSettings /\ c.network.serverIp # Word("")
      /\ c.network.serverPort \in 1 .. ShortMax /\ c.network.serverIp \in AnyText
  BY <1>1 DEF Settings, NetworkSettings, Usable
<1>3. newIp \in AnyText /\ newIp # Word("")
  BY <1>2, TextsAreTexts, Zenon
<1>4. newPort \in 1 .. ShortMax
  <2>1. CASE port = 0
    BY <1>2, <2>1
  <2>2. CASE port # 0
    <3>1. port \in 1 .. ShortMax
      BY <2>2, WidthsTyped
    <3> QED
      BY <2>2, <3>1
  <2> QED
    BY <2>1, <2>2
<1>5. \A i \in AnyText, p \in 1 .. ShortMax :
          [c EXCEPT !.network.serverIp = i, !.network.serverPort = p] \in Settings
  BY <1>1, <1>2 DEF Settings, NetworkSettings
<1>6. b = [c EXCEPT !.network.serverIp = newIp, !.network.serverPort = newPort]
  BY <1>1 DEF BuildClientConfig, c, Settings, NetworkSettings
<1> HIDE DEF b, newIp, newPort
<1>7. b \in Settings
  BY <1>3, <1>4, <1>5, <1>6
<1>8. /\ b.network = [c.network EXCEPT !.serverIp = newIp, !.serverPort = newPort]
      /\ b.timing = c.timing /\ b.interpolation = c.interpolation /\ b.snapshot = c.snapshot
      /\ b.simulation = c.simulation /\ b.diagnostics = c.diagnostics
  BY <1>1, <1>6 DEF Settings
<1>9. /\ b.network.serverIp = newIp /\ b.network.serverPort = newPort
      /\ b.network.iocpWorkerThreadCount = c.network.iocpWorkerThreadCount
      /\ b.network.iocpRecvContextCount = c.network.iocpRecvContextCount
  BY <1>2, <1>8 DEF NetworkSettings
<1>10. Usable(b)
  BY <1>1, <1>3, <1>4, <1>8, <1>9 DEF Usable
<1>11. Validated(b) = b
  BY <1>7, <1>10, UsableIsKept
<1> QED
  BY <1>10, <1>11 DEF b

\* Whatever the file and the command line say, the settings are usable when the client
\* starts with them, and validating them again would change nothing.
THEOREM ClientStartsWithUsableSettings == Spec => []ClientConfigIsUsable
<1>1. Init => ClientConfigIsUsable
  BY DEF Init, ClientConfigIsUsable
<1>2. ClientConfigIsUsable /\ [Next]_vars => ClientConfigIsUsable'
  <2> SUFFICES ASSUME ClientConfigIsUsable, [Next]_vars PROVE ClientConfigIsUsable'
    OBVIOUS
  <2>1. CASE Configure
    <3>1. PICK file \in Files, address \in Addresses, port \in Ports :
                config' = BuildClientConfig(file, address, port)
      BY <2>1 DEF Configure
    <3>2. file \in Seq(Lines) /\ address \in Text /\ port \in 0 .. ShortMax
      BY PredictionAssumption
    <3>3. /\ Usable(BuildClientConfig(file, address, port))
          /\ Validated(BuildClientConfig(file, address, port))
                = BuildClientConfig(file, address, port)
      BY <3>2, BuiltIsUsable
    <3> QED
      BY <3>1, <3>3, Zenon DEF ClientConfigIsUsable
  <2>2. CASE StartRuntime
    BY <2>2 DEF StartRuntime, ClientConfigIsUsable
  <2>3. CASE UNCHANGED app
    BY <2>3 DEF app, ClientConfigIsUsable
  <2>4. UpdateThread => UNCHANGED app
    BY DEF UpdateThread, TogglePrediction, ToggleReconciliation, BeginRecovery,
       RestartTransport, BeginTicks, SendInput, ApplyLocalPredictionTick
  <2>5. ReceiveThread => UNCHANGED app
    BY DEF ReceiveThread, HandleJoinResponse, HandleJoinRoomResponse, ResetPrediction,
       HandlePlayerJoined, HandlePlayerSnapshot
  <2>6. Server => UNCHANGED app
    BY DEF Server, AcceptInput, Tick, MarkRecoverable, AnswerJoin, ChangeRoom,
       BroadcastPlayerJoined
  <2>7. (\E a \in announced : LosePlayerJoined(a)) => UNCHANGED app
    BY DEF LosePlayerJoined
  <2> QED
    BY <2>1, <2>2, <2>3, <2>4, <2>5, <2>6, <2>7 DEF Next, vars
<1> QED
  BY <1>1, <1>2, PTL DEF Spec

-----------------------------------------------------------------------------
(* The prediction: its invariant, part by part *)

Places == Place \cup {NoPlace}
Snapshots == [place : Place, room : Room, dead : BOOLEAN, processed : Ages]
Responses == [type : {"Join", "JoinRoom"}, room : Room, place : Place]
Updates == [phase : {"Idle", "Restarting", "Ticks", "Sent"}, ticks : 0 .. MaxTicksPerUpdate,
            keys : KeySets]

AppTyped ==
    /\ stage \in {"Loading", "Configured", "Running"}
    /\ stride \in Nat
    /\ stage = "Running" => stride \in Distances
    /\ update \in Updates
    /\ update.phase # "Idle" => stage = "Running"

ServerTyped ==
    /\ place \in Place /\ room \in Room /\ held \in KeySets /\ dead \in BOOLEAN
    /\ accepted \in Ages
    /\ connection \in {"Connected", "Silent", "Recoverable"}

NetworkTyped ==
    /\ inputs \subseteq Inputs
    /\ snapshots \in Seq(Snapshots) /\ Len(snapshots) <= MaxSnapshots
    /\ response \in Responses \cup {NoResponse}
    /\ unsent \subseteq Joinings /\ announced \subseteq Joinings

ClientTyped ==
    /\ joined \in BOOLEAN /\ valid \in BOOLEAN /\ shownDead \in BOOLEAN
    /\ predictionOn \in BOOLEAN /\ reconciliationOn \in BOOLEAN
    /\ currentRoom \in Room \cup {NoRoom}
    /\ predicted \in Places /\ latest \in Places
    /\ pending \in Seq(Inputs) /\ Len(pending) <= MaxPendingInputs
    /\ resets \in Seq(Place) /\ Len(resets) <= 2
    /\ settled \in Ages

Typed == AppTyped /\ ServerTyped /\ NetworkTyped /\ ClientTyped

\* A client that shows its player somewhere knows the room of that place.
RoomIsKnown ==
    /\ joined => predicted # NoPlace
    /\ (joined \/ predicted # NoPlace \/ resets # <<>>) => currentRoom \in Room

IsClearIn(p, r) == IsClear(p, WallsOf[r])

\* Every place that a player may be put at is clear in the room it is of.
PlacesAreClear ==
    /\ IsClearIn(place, room)
    /\ response # NoResponse => IsClearIn(response.place, response.room)
    /\ \A k \in DOMAIN snapshots : IsClearIn(snapshots[k].place, snapshots[k].room)
    /\ \A k \in DOMAIN resets : IsClearIn(resets[k], currentRoom)
    /\ \A a \in unsent \cup announced : IsClearIn(a.place, a.room)
    /\ resets = <<>> /\ predicted # NoPlace =>
          \A p \in {predicted, latest} : p # NoPlace => IsClearIn(p, currentRoom)

\* The input whose tick is under way has been sent but not recorded.
Unrecorded == IF update.phase = "Sent" THEN 1 ELSE 0

\* The history is that of the last inputs sent, without a gap, and reaches back to
\* where it started over or to what the server has processed.
HistoryIsWhole ==
    /\ \A k \in DOMAIN pending : pending[k].age = Len(pending) - k + Unrecorded
    /\ ~ Predicts => pending = <<>>
    /\ Predicts => settled <= Len(pending) + Unrecorded

IInv == Typed /\ RoomIsKnown /\ PlacesAreClear /\ HistoryIsWhole

-----------------------------------------------------------------------------
\* The constants, as far as the proofs need them.
LEMMA ConstantsTyped ==
    /\ InitialRoom \in Room /\ NoRoom \notin Room
    /\ \A r \in Room : WallsOf[r] \subseteq Rectangle
    /\ \A r \in Room : \A p \in SpawnsOf[r] : p \in Int \X Int /\ IsClear(p, WallsOf[r])
    /\ {} \in KeySets
    /\ MaxPendingInputs \in Nat /\ MaxPendingInputs > 0
    /\ MaxTicksPerUpdate \in Nat /\ MaxTicksPerUpdate > 0
    /\ MaxSnapshots \in Nat /\ MaxSnapshots > 0
    /\ MaxAge \in Nat /\ MaxAge >= MaxPendingInputs /\ MaxLag \in 0 .. MaxAge
    /\ Long \in Nat /\ Long = MaxAge + 1
    /\ ServerDelta \in Nat /\ Deltas \subseteq Nat
BY PredictionAssumption DEF Long

\* The distances of the steps are naturals.
LEMMA DistancesTyped == Distances \subseteq Nat
<1>1. \A d \in Nat : MoveDistance(d) \in Nat
  <2> TAKE d \in Nat
  <2>1. MoveSpeed \in Nat
    BY MovementAssumption
  <2>2. MoveSpeed * d \in Nat
    BY <2>1
  <2>3. \A n \in Nat : n \div 1000 \in Nat
    OBVIOUS
  <2> QED
    BY <2>2, <2>3 DEF MoveDistance
<1> QED
  BY <1>1, ConstantsTyped DEF Distances

\* The places are the points of the world.
LEMMA PlaceMeans ==
    ASSUME NEW p
    PROVE  p \in Place <=> p \in Int \X Int /\ InWorld(p)
<1>1. /\ World.min[1] \in Int /\ World.min[2] \in Int
      /\ World.max[1] \in Int /\ World.max[2] \in Int
  BY Corners, HalfExtentTyped
<1> QED
  BY <1>1 DEF Place, InWorld

\* A place without walls in the way is one of the world.
LEMMA ClearIsPlace ==
    ASSUME NEW p \in Int \X Int, NEW walls, walls \subseteq Rectangle, IsClear(p, walls)
    PROVE  p \in Place
<1>1. Within(p, 1) /\ Within(p, 2)
  BY ClearMeans
<1>2. \A axis \in 1 .. 2 :
          World.min[axis] \in Int /\ World.max[axis] \in Int /\ HalfExtent \in Nat
  BY Corners, HalfExtentTyped
<1>3. \A axis \in 1 .. 2 : p[axis] \in Int
  BY Coordinates
<1>4. InWorld(p)
  BY <1>1, <1>2, <1>3 DEF Within, InWorld
<1> QED
  BY <1>4, PlaceMeans

\* A spawn is a place, and clear in its room.
LEMMA SpawnsAreClear ==
    ASSUME NEW r \in Room, NEW p \in SpawnsOf[r]
    PROVE  p \in Place /\ IsClearIn(p, r)
BY ConstantsTyped, ClearIsPlace DEF IsClearIn

\* A step leads to a place, which is clear if it began in a clear one.
LEMMA StepMoves ==
    ASSUME NEW p \in Place, NEW keys \in KeySets, NEW d \in Distances, NEW r \in Room
    PROVE  /\ Step(p, keys, d, r) \in Place
           /\ IsClearIn(p, r) => IsClearIn(Step(p, keys, d, r), r)
<1>1. Step(p, keys, d, r) = MovePlayerWithWallCollision(p, keys, d, WallsOf[r])
  BY DEF Step, Steps
<1>2. p \in Int \X Int /\ InWorld(p) /\ d \in Nat /\ WallsOf[r] \subseteq Rectangle
  BY PlaceMeans, DistancesTyped, ConstantsTyped
<1>3. LET q == MovePlayerWithWallCollision(p, keys, d, WallsOf[r])
      IN  /\ q \in Int \X Int
          /\ InWorld(p) => InWorld(q)
          /\ IsClear(p, WallsOf[r]) => IsClear(q, WallsOf[r])
  BY <1>2, MovingStaysClear
<1> QED
  BY <1>1, <1>2, <1>3, PlaceMeans DEF IsClearIn

\* The replay is what its definition says, for a list of any length.
LEMMA ReplayIsDefined ==
    ASSUME NEW p \in Place, NEW list \in Seq(Inputs)
    PROVE  \E f : f = [k \in 0 .. Len(list) |->
               IF k = 0 THEN p ELSE Step(f[k - 1], list[k].keys, stride, currentRoom)]
<1> DEFINE Next1(f, k) == IF k = 0 THEN p
                          ELSE Step(f[k - 1], list[k].keys, stride, currentRoom)
           S == {m \in Nat : \E after : after = [k \in 0 .. m |-> Next1(after, k)]}
<1>1. 0 \in S
  <2> DEFINE f == [k \in 0 .. 0 |-> p]
  <2>1. f = [k \in 0 .. 0 |-> Next1(f, k)]
    OBVIOUS
  <2> QED
    BY <2>1
<1>2. ASSUME NEW m \in Nat, m \in S PROVE m + 1 \in S
  <2>1. PICK f : f = [k \in 0 .. m |-> Next1(f, k)]
    BY <1>2
  <2> DEFINE last == Step(f[m], list[m + 1].keys, stride, currentRoom)
             g == [k \in 0 .. m + 1 |-> IF k = m + 1 THEN last ELSE f[k]]
  <2>2. ASSUME NEW k \in 0 .. m + 1 PROVE g[k] = Next1(g, k)
    <3>1. CASE k = m + 1
      <4>1. g[k] = last /\ k - 1 = m /\ g[m] = f[m] /\ k # 0
        BY <3>1
      <4> QED
        BY <4>1, <3>1
    <3>2. CASE k # m + 1
      <4>1. g[k] = f[k] /\ k \in 0 .. m
        BY <3>2
      <4>2. k # 0 => g[k - 1] = f[k - 1]
        BY <3>2
      <4>3. f[k] = Next1(f, k)
        BY <2>1, <4>1
      <4> QED
        BY <4>1, <4>2, <4>3
    <3> QED
      BY <3>1, <3>2
  <2>3. g = [k \in 0 .. m + 1 |-> Next1(g, k)]
    BY <2>2
  <2> HIDE DEF g
  <2>4. \E after : after = [k \in 0 .. m + 1 |-> Next1(after, k)]
    BY <2>3, Zenon
  <2>5. m + 1 \in Nat
    OBVIOUS
  <2> HIDE DEF Next1
  <2> QED
    BY <2>4, <2>5
<1>3. Len(list) \in S
  <2> HIDE DEF S
  <2>1. Nat \subseteq S
    BY <1>1, <1>2, Induction
  <2>2. Len(list) \in Nat
    OBVIOUS
  <2> QED
    BY <2>1, <2>2
<1> QED
  BY <1>3

\* A replay stays in the world, and out of walls if it begins out of them.
LEMMA ReplayStaysClear ==
    ASSUME NEW p \in Place, NEW list \in Seq(Inputs),
           stride \in Distances, currentRoom \in Room, IsClearIn(p, currentRoom)
    PROVE  Replayed(p, list) \in Place /\ IsClearIn(Replayed(p, list), currentRoom)
<1>a. \E f : f = [k \in 0 .. Len(list) |->
               IF k = 0 THEN p ELSE Step(f[k - 1], list[k].keys, stride, currentRoom)]
  BY ReplayIsDefined, Zenon
<1> DEFINE n == Len(list)
           after == CHOOSE after : after = [k \in 0 .. Len(list) |->
               IF k = 0 THEN p ELSE Step(after[k - 1], list[k].keys, stride, currentRoom)]
           IsGood(k) == after[k] \in Place /\ IsClearIn(after[k], currentRoom)
           S == {k \in Nat : k <= n => IsGood(k)}
<1>0. n \in Nat
  OBVIOUS
<1>1. after = [k \in 0 .. Len(list) |->
               IF k = 0 THEN p ELSE Step(after[k - 1], list[k].keys, stride, currentRoom)]
  BY <1>a, Zenon
<1>2. Replayed(p, list) = after[n]
  BY DEF Replayed
<1> HIDE DEF after
<1>3. 0 \in S
  BY <1>0, <1>1
<1>4. ASSUME NEW k \in Nat, k \in S PROVE k + 1 \in S
  <2> SUFFICES ASSUME k + 1 <= n PROVE IsGood(k + 1)
    OBVIOUS
  <2>1. IsGood(k)
    BY <1>0, <1>4
  <2>2. after[k + 1] = Step(after[k], list[k + 1].keys, stride, currentRoom)
    <3>1. k + 1 \in 0 .. Len(list) /\ k + 1 # 0 /\ (k + 1) - 1 = k
      BY <1>0
    <3> QED
      BY <1>1, <3>1
  <2>3. list[k + 1] \in Inputs
    BY <1>0
  <2>4. list[k + 1].keys \in KeySets
    BY <2>3 DEF Inputs
  <2> QED
    BY <2>1, <2>2, <2>4, StepMoves
<1> HIDE DEF IsGood
<1>5. n \in S
  <2>1. Nat \subseteq S
    BY <1>3, <1>4, Induction
  <2> QED
    BY <1>0, <2>1
<1> QED
  BY <1>0, <1>2, <1>5 DEF IsGood

\* What is left of the history is its end, and reaches back to what was processed.
LEMMA UnprocessedIsTheEnd ==
    ASSUME pending \in Seq(Inputs), NEW off \in {0, 1}, NEW p \in Ages,
           \A k \in DOMAIN pending : pending[k].age = Len(pending) - k + off
    PROVE  /\ Unprocessed(p) \in Seq(Inputs)
           /\ Len(Unprocessed(p)) <= Len(pending)
           /\ \A k \in DOMAIN Unprocessed(p) :
                 Unprocessed(p)[k].age = Len(Unprocessed(p)) - k + off
           /\ Len(Unprocessed(p)) = Len(pending) \/ p <= Len(Unprocessed(p)) + off
<1> DEFINE n == Len(pending)
           kept == {k \in DOMAIN pending : pending[k].age < p}
           left == Unprocessed(p)
<1>1. n \in Nat /\ DOMAIN pending = 1 .. n /\ \A k \in 1 .. n : pending[k] \in Inputs
  OBVIOUS
<1>2. p \in Nat
  BY ConstantsTyped DEF Ages
<1>3. \A k \in 1 .. n : pending[k].age = n - k + off
  OBVIOUS
<1>4. CASE kept = {}
  <2>1. left = <<>>
    BY <1>4 DEF Unprocessed
  <2>2. \A k \in 1 .. n : p <= n - k + off
    <3> TAKE k \in 1 .. n
    <3>1. ~ (pending[k].age < p)
      BY <1>1, <1>4
    <3>2. pending[k].age = n - k + off
      BY <1>3
    <3> QED
      BY <1>1, <1>2, <3>1, <3>2
  <2>3. n = 0 \/ p <= off
    <3>1. CASE n \in 1 .. n
      BY <2>2, <3>1, <1>1
    <3>2. CASE n \notin 1 .. n
      BY <3>2, <1>1
    <3> QED
      BY <3>1, <3>2
  <2>4. Len(left) = 0 /\ left \in Seq(Inputs) /\ DOMAIN left = {}
    BY <2>1
  <2> QED
    BY <2>3, <2>4, <1>1
<1>5. CASE kept # {}
  <2> DEFINE m == Min(kept)
  <2>1. kept \subseteq Int /\ \A k \in kept : 1 <= k
    BY <1>1
  <2>2. m \in kept /\ \A k \in kept : m <= k
    <3>1. 1 \in Int
      OBVIOUS
    <3> HIDE DEF kept
    <3> QED
      BY <1>5, <2>1, <3>1, MinOfBounded, Zenon
  <2> HIDE DEF m
  <2>3. m \in 1 .. n /\ left = SubSeq(pending, m, n)
    BY <1>1, <1>5, <2>2 DEF Unprocessed, m
  <2>4. /\ left \in Seq(Inputs) /\ Len(left) = n - m + 1 /\ DOMAIN left = 1 .. (n - m + 1)
        /\ \A k \in 1 .. (n - m + 1) : left[k] = pending[m + k - 1]
    <3>1. \A k \in 1 .. (n - m + 1) : m + k - 1 \in 1 .. n
      BY <1>1, <2>3
    <3>2. SubSeq(pending, m, n) = [k \in 1 .. (n - m + 1) |-> pending[m + k - 1]]
      BY <1>1, <2>3
    <3>3. n - m + 1 \in Nat /\ \A k \in 1 .. (n - m + 1) : pending[m + k - 1] \in Inputs
      BY <1>1, <2>3, <3>1
    <3>4. left = [k \in 1 .. (n - m + 1) |-> pending[m + k - 1]]
      BY <2>3, <3>2
    <3> HIDE DEF left
    <3>5. Len(left) = n - m + 1 /\ DOMAIN left = 1 .. (n - m + 1)
      BY <3>3, <3>4
    <3>6. left \in Seq(Inputs)
      BY <3>3, <3>4
    <3> QED
      BY <3>4, <3>5, <3>6
  <2>5. \A k \in DOMAIN left : left[k].age = Len(left) - k + off
    <3> TAKE k \in DOMAIN left
    <3>1. k \in 1 .. (n - m + 1) /\ m + k - 1 \in 1 .. n
      BY <1>1, <2>3, <2>4
    <3>2. left[k].age = n - (m + k - 1) + off
      BY <1>3, <2>4, <3>1
    <3> QED
      BY <1>1, <2>3, <2>4, <3>1, <3>2
  <2>6. Len(left) = n \/ p <= Len(left) + off
    <3>1. CASE m = 1
      BY <1>1, <2>4, <3>1
    <3>2. CASE m # 1
      <4>1. m - 1 \in 1 .. n /\ m - 1 \notin kept
        BY <1>1, <2>2, <2>3, <3>2
      <4>2. p <= n - (m - 1) + off
        BY <1>1, <1>2, <1>3, <4>1
      <4> QED
        BY <1>1, <2>3, <2>4, <4>2
    <3> QED
      BY <3>1, <3>2
  <2> HIDE DEF left
  <2>7. Len(left) <= n
    BY <1>1, <2>3, <2>4
  <2> QED
    BY <2>4, <2>5, <2>6, <2>7 DEF left
<1> QED
  BY <1>4, <1>5

\* A function on the first naturals is a sequence.
LEMMA FunctionIsSequence ==
    ASSUME NEW S, NEW n \in Nat, NEW f \in [1 .. n -> S]
    PROVE  f \in Seq(S) /\ Len(f) = n
OBVIOUS

\* What is left of a list without its first element.
LEMMA TailIsTheRest ==
    ASSUME NEW S, NEW s \in Seq(S), s # <<>>
    PROVE  /\ 1 \in DOMAIN s /\ Head(s) = s[1] /\ Head(s) \in S
           /\ Tail(s) \in Seq(S) /\ Len(Tail(s)) = Len(s) - 1
           /\ \A k \in DOMAIN Tail(s) : k + 1 \in DOMAIN s /\ Tail(s)[k] = s[k + 1]
<1>1. Len(s) \in Nat /\ Len(s) > 0 /\ DOMAIN s = 1 .. Len(s)
  OBVIOUS
<1>2. Head(s) = s[1] /\ s[1] \in S
  BY <1>1
<1>3. Tail(s) \in Seq(S) /\ Len(Tail(s)) = Len(s) - 1 /\ DOMAIN Tail(s) = 1 .. Len(s) - 1
  BY <1>1
<1>4. \A k \in 1 .. Len(s) - 1 : Tail(s)[k] = s[k + 1]
  BY <1>1
<1> QED
  BY <1>1, <1>2, <1>3, <1>4

\* Nothing is no place, and no response.
LEMMA NothingIsNone == NoPlace \notin Place /\ NoResponse \notin Responses
<1>1. NoPlace \notin Place
  <2>1. \A p \in Place : DOMAIN p = 1 .. 2
    BY DEF Place
  <2>2. DOMAIN <<>> = 1 .. 0
    OBVIOUS
  <2> QED
    BY <2>1, <2>2 DEF NoPlace
<1>2. NoResponse \notin Responses
  <2>1. \A r \in Responses : "type" \in DOMAIN r
    BY DEF Responses
  <2>2. "type" \notin DOMAIN <<>>
    OBVIOUS
  <2> QED
    BY <2>1, <2>2 DEF NoResponse
<1> QED
  BY <1>1, <1>2

\* An input gets older by one, or is too old to tell.
LEMMA OlderIsAnAge == \A a \in Ages : Older(a) \in Ages /\ Older(a) <= a + 1
BY ConstantsTyped DEF Older, Ages

\* Empty lists are within every bound.
LEMMA EmptySequences ==
    /\ <<>> \in Seq(Inputs) /\ <<>> \in Seq(Place) /\ <<>> \in Seq(Snapshots)
    /\ Len(<<>>) = 0 /\ DOMAIN <<>> = {} /\ 0 \in Ages
    /\ 0 <= MaxPendingInputs /\ 0 <= MaxSnapshots
BY ConstantsTyped DEF Ages

\* The update thread between two updates.
LEMMA IdleTyped == Idle \in Updates /\ [Idle EXCEPT !.phase = "Restarting"] \in Updates
<1>1. 0 \in 0 .. MaxTicksPerUpdate /\ {} \in KeySets
  BY ConstantsTyped
<1> QED
  BY <1>1 DEF Idle, Updates

\* A step of the client stays clear of what the client was clear of.
LEMMA ClientStepMoves ==
    ASSUME Typed, stage = "Running", currentRoom \in Room,
           NEW p \in Place, NEW keys \in KeySets
    PROVE  /\ Step(p, keys, stride, currentRoom) \in Place
           /\ IsClearIn(p, currentRoom)
                => IsClearIn(Step(p, keys, stride, currentRoom), currentRoom)
BY StepMoves DEF Typed, AppTyped

\* A history that starts over is whole.
LEMMA HistoryStartsOver ==
    ASSUME pending' = <<>>, settled' = 0 PROVE HistoryIsWhole'
<1>1. DOMAIN pending' = {} /\ Len(pending') = 0
  BY EmptySequences
<1>2. Unrecorded' \in {0, 1}
  BY DEF Unrecorded
<1>3. settled' <= Len(pending') + Unrecorded'
  <2>2. CASE Unrecorded' = 0
    BY <1>1, <2>2
  <2>3. CASE Unrecorded' = 1
    BY <1>1, <2>3
  <2> QED
    BY <1>2, <2>2, <2>3
<1> QED
  BY <1>1, <1>3 DEF HistoryIsWhole

\* A snapshot of what the server now has.
LEMMA NewSnapshotFits ==
    ASSUME IInv, NEW p \in Place, IsClearIn(p, room), NEW b \in BOOLEAN
    PROVE  LET new == WithSnapshot(p, b)
           IN  /\ new \in Seq(Snapshots) /\ Len(new) <= MaxSnapshots
               /\ \A k \in DOMAIN new : IsClearIn(new[k].place, new[k].room)
<1> DEFINE s == [place |-> p, room |-> room, dead |-> b, processed |-> accepted]
           old == IF Len(snapshots) < MaxSnapshots THEN snapshots ELSE Tail(snapshots)
           new == WithSnapshot(p, b)
           IsFine(list) == \A k \in DOMAIN list : IsClearIn(list[k].place, list[k].room)
<1>1. s \in Snapshots /\ IsClearIn(s.place, s.room)
  BY DEF Snapshots, IInv, Typed, ServerTyped
<1>2. /\ snapshots \in Seq(Snapshots) /\ Len(snapshots) <= MaxSnapshots
      /\ MaxSnapshots \in Nat /\ MaxSnapshots > 0
  BY ConstantsTyped DEF IInv, Typed, NetworkTyped
<1>3. IsFine(snapshots)
  BY DEF IInv, PlacesAreClear
<1>4. old \in Seq(Snapshots) /\ Len(old) \in Nat /\ Len(old) < MaxSnapshots /\ IsFine(old)
  <2>1. CASE Len(snapshots) < MaxSnapshots
    BY <2>1, <1>2, <1>3
  <2>2. CASE ~ (Len(snapshots) < MaxSnapshots)
    <3>1. snapshots # <<>> /\ old = Tail(snapshots)
      BY <2>2, <1>2, EmptySequences
    <3>2. /\ old \in Seq(Snapshots) /\ Len(old) = Len(snapshots) - 1
          /\ \A k \in DOMAIN old : k + 1 \in DOMAIN snapshots /\ old[k] = snapshots[k + 1]
      BY <3>1, <1>2, TailIsTheRest
    <3> HIDE DEF old
    <3>3. Len(old) \in Nat /\ Len(old) < MaxSnapshots
      BY <3>2, <1>2
    <3>4. IsFine(old)
      BY <3>2, <1>3
    <3> QED
      BY <3>2, <3>3, <3>4
  <2> QED
    BY <2>1, <2>2
<1>5. new = Append(old, s)
  BY DEF WithSnapshot
<1> HIDE DEF old, s, new
<1>6. /\ new \in Seq(Snapshots) /\ Len(new) = Len(old) + 1 /\ DOMAIN new = 1 .. Len(old) + 1
      /\ DOMAIN old = 1 .. Len(old)
      /\ \A k \in DOMAIN old : new[k] = old[k]
      /\ new[Len(old) + 1] = s
  BY <1>1, <1>4, <1>5
<1>7. IsFine(new)
  BY <1>1, <1>4, <1>6
<1>8. Len(new) <= MaxSnapshots
  BY <1>2, <1>4, <1>6
<1> QED
  BY <1>6, <1>7, <1>8 DEF new

-----------------------------------------------------------------------------
(* Every step keeps the invariant. *)

\* The file is read before anybody is in the world.
LEMMA ConfigureStep ==
    ASSUME IInv, Configure
    PROVE  IInv'
<1> USE DEF IInv, Typed, Configure, app, peer, server, network, broadcasts,
            prediction, switches, shown, threads, world
<1>1. AppTyped'
  BY DEF AppTyped
<1>2. ServerTyped'
  BY DEF ServerTyped
<1>3. NetworkTyped'
  BY DEF NetworkTyped
<1>4. ClientTyped'
  BY DEF ClientTyped
<1>5. RoomIsKnown'
  BY DEF RoomIsKnown
<1>6. PlacesAreClear'
  BY DEF PlacesAreClear
<1>7. HistoryIsWhole'
  BY DEF HistoryIsWhole, Unrecorded, Predicts
<1> QED
  BY <1>1, <1>2, <1>3, <1>4, <1>5, <1>6, <1>7

\* The distance of a step is one of those the model knows.
LEMMA StartRuntimeStep ==
    ASSUME IInv, StartRuntime
    PROVE  IInv'
<1> USE DEF IInv, Typed, StartRuntime, app, peer, server, network, broadcasts,
            prediction, switches, shown, threads, world
<1>1. AppTyped'
  BY DistancesTyped DEF AppTyped, Distances
<1>2. ServerTyped'
  BY DEF ServerTyped
<1>3. NetworkTyped'
  BY DEF NetworkTyped
<1>4. ClientTyped'
  BY DEF ClientTyped
<1>5. RoomIsKnown'
  BY DEF RoomIsKnown
<1>6. PlacesAreClear'
  BY DEF PlacesAreClear
<1>7. HistoryIsWhole'
  BY DEF HistoryIsWhole, Unrecorded, Predicts
<1> QED
  BY <1>1, <1>2, <1>3, <1>4, <1>5, <1>6, <1>7

\* A switched prediction starts its history over, at the place shown last.
LEMMA TogglePredictionStep ==
    ASSUME IInv, TogglePrediction
    PROVE  IInv'
<1> USE DEF IInv, Typed, TogglePrediction, app, peer, server, network, broadcasts, prediction,
            switches, shown, threads, world
<1>1. AppTyped'
  BY DEF AppTyped, Happens, Running
<1>2. ServerTyped'
  BY DEF ServerTyped
<1>3. NetworkTyped'
  BY DEF NetworkTyped
<1>4. ClientTyped'
  BY ConstantsTyped DEF ClientTyped, ClearHistory, Ages, IsKnown
<1>5. RoomIsKnown'
  BY DEF RoomIsKnown, ClearHistory, IsKnown
<1>6. PlacesAreClear'
  BY DEF PlacesAreClear, ClearHistory, IsKnown
<1>7. HistoryIsWhole'
  BY ConstantsTyped DEF HistoryIsWhole, ClearHistory, Unrecorded, ClientTyped
<1> QED
  BY <1>1, <1>2, <1>3, <1>4, <1>5, <1>6, <1>7

\* So does a switched reconciliation, where it is.
LEMMA ToggleReconciliationStep ==
    ASSUME IInv, ToggleReconciliation
    PROVE  IInv'
<1> USE DEF IInv, Typed, ToggleReconciliation, app, peer, server, network, broadcasts,
            prediction, switches, shown, threads, world
<1>1. AppTyped'
  BY DEF AppTyped
<1>2. ServerTyped'
  BY DEF ServerTyped
<1>3. NetworkTyped'
  BY DEF NetworkTyped
<1>4. ClientTyped'
  BY DEF ClientTyped
<1>5. RoomIsKnown'
  BY DEF RoomIsKnown
<1>6. PlacesAreClear'
  BY DEF PlacesAreClear
<1>7. HistoryIsWhole'
  BY DEF HistoryIsWhole, Unrecorded, Predicts
<1> QED
  BY <1>1, <1>2, <1>3, <1>4, <1>5, <1>6, <1>7

\* The connection is lost; what is shown stays.
LEMMA BeginRecoveryStep ==
    ASSUME IInv, BeginRecovery
    PROVE  IInv'
<1> USE DEF IInv, Typed, BeginRecovery, app, peer, server, network, broadcasts,
            prediction, switches, shown, threads, world
<1>1. AppTyped'
  BY IdleTyped DEF AppTyped, Running
<1>2. ServerTyped'
  BY DEF ServerTyped
<1>3. NetworkTyped'
  BY DEF NetworkTyped
<1>4. ClientTyped'
  BY EmptySequences DEF ClientTyped, ClearHistory
<1>5. RoomIsKnown'
  BY DEF RoomIsKnown
<1>6. PlacesAreClear'
  BY DEF PlacesAreClear
<1>7. HistoryIsWhole'
  BY DEF HistoryIsWhole, ClearHistory, Unrecorded, Predicts
<1> QED
  BY <1>1, <1>2, <1>3, <1>4, <1>5, <1>6, <1>7

\* A new socket: nothing of the old one is under way any more.
LEMMA RestartTransportStep ==
    ASSUME IInv, RestartTransport
    PROVE  IInv'
<1> USE DEF IInv, Typed, RestartTransport, app, peer, server, network, broadcasts, prediction,
            switches, shown, threads, world
<1>1. AppTyped'
  BY ConstantsTyped DEF AppTyped, Updates, Idle
<1>2. ServerTyped'
  BY DEF ServerTyped
<1>3. NetworkTyped'
  BY ConstantsTyped DEF NetworkTyped
<1>4. ClientTyped'
  BY DEF ClientTyped
<1>5. RoomIsKnown'
  BY DEF RoomIsKnown
<1>6. PlacesAreClear'
  BY DEF PlacesAreClear
<1>7. HistoryIsWhole'
  BY DEF HistoryIsWhole, Unrecorded, Predicts, Idle
<1> QED
  BY <1>1, <1>2, <1>3, <1>4, <1>5, <1>6, <1>7

\* An update of so many ticks, with the keys held.
LEMMA BeginTicksStep ==
    ASSUME IInv, NEW ticks \in 1 .. MaxTicksPerUpdate, NEW keys \in KeySets,
           BeginTicks(ticks, keys)
    PROVE  IInv'
<1> USE DEF IInv, Typed, BeginTicks, app, peer, server, network, broadcasts,
            prediction, switches, shown, threads, world
<1>1. AppTyped'
  BY DEF AppTyped, Updates, Running
<1>2. ServerTyped'
  BY DEF ServerTyped
<1>3. NetworkTyped'
  BY DEF NetworkTyped
<1>4. ClientTyped'
  BY DEF ClientTyped
<1>5. RoomIsKnown'
  BY DEF RoomIsKnown
<1>6. PlacesAreClear'
  BY DEF PlacesAreClear
<1>7. HistoryIsWhole'
  BY DEF HistoryIsWhole, Unrecorded, Predicts, Running
<1> QED
  BY <1>1, <1>2, <1>3, <1>4, <1>5, <1>6, <1>7

\* One input more is sent: all that is older ages by one.
LEMMA SendInputStep ==
    ASSUME IInv, SendInput
    PROVE  IInv'
<1> USE DEF IInv, Typed, SendInput, app, peer, server, network, broadcasts,
            prediction, switches, shown, threads, world
<1>1. AppTyped'
  <2>1. update \in Updates /\ update.ticks > 0
    BY DEF AppTyped
  <2>2. update.ticks \in 0 .. MaxTicksPerUpdate /\ update.ticks - 1 \in 0 .. MaxTicksPerUpdate
    BY <2>1, ConstantsTyped DEF Updates
  <2>3. update' \in Updates
    BY <2>1, <2>2 DEF Updates
  <2> QED
    BY <2>3 DEF AppTyped
<1>2. ServerTyped'
  BY OlderIsAnAge DEF ServerTyped
<1>3. NetworkTyped'
  <2>1. inputs' \subseteq Inputs
    <3>1. \A i \in inputs : i \in Inputs
      BY DEF NetworkTyped
    <3>2. \A i \in Inputs : i.age < MaxLag => [i EXCEPT !.age = @ + 1] \in Inputs
      BY ConstantsTyped DEF Inputs
    <3>3. [age |-> 0, keys |-> update.keys] \in Inputs
      BY ConstantsTyped DEF AppTyped, Updates, Inputs
    <3> QED
      BY <3>1, <3>2, <3>3
  <2>2. snapshots' \in Seq(Snapshots) /\ Len(snapshots') = Len(snapshots)
    <3>1. Len(snapshots) \in Nat /\ DOMAIN snapshots = 1 .. Len(snapshots)
      BY DEF NetworkTyped
    <3>2. \A k \in DOMAIN snapshots : snapshots[k] \in Snapshots
      BY DEF NetworkTyped
    <3>3. \A s \in Snapshots : [s EXCEPT !.processed = Older(@)] \in Snapshots
      BY OlderIsAnAge DEF Snapshots
    <3>4. snapshots' =
            [k \in 1 .. Len(snapshots) |-> [snapshots[k] EXCEPT !.processed = Older(@)]]
      BY <3>1
    <3> QED
      BY <3>1, <3>2, <3>3, <3>4
  <2> QED
    BY <2>1, <2>2 DEF NetworkTyped
<1>4. ClientTyped'
  <2>1. Len(pending) \in Nat /\ DOMAIN pending = 1 .. Len(pending)
    BY DEF ClientTyped
  <2>2. \A k \in DOMAIN pending : [pending[k] EXCEPT !.age = @ + 1] \in Inputs
    <3> TAKE k \in DOMAIN pending
    <3>1. pending[k] \in Inputs
      BY DEF ClientTyped
    <3>2. pending[k].age = Len(pending) - k
      BY DEF HistoryIsWhole, Unrecorded
    <3>3. Len(pending) <= MaxPendingInputs
      BY DEF ClientTyped
    <3>4. pending[k].age + 1 \in 0 .. Long - 1
      BY <2>1, <3>2, <3>3, ConstantsTyped
    <3> QED
      BY <3>1, <3>4 DEF Inputs
  <2>3. pending' = [k \in 1 .. Len(pending) |-> [pending[k] EXCEPT !.age = @ + 1]]
    BY <2>1
  <2>4. pending' \in Seq(Inputs) /\ Len(pending') = Len(pending)
    BY <2>1, <2>2, <2>3
  <2> QED
    BY <2>4, OlderIsAnAge DEF ClientTyped
<1>5. RoomIsKnown'
  BY DEF RoomIsKnown
<1>6. PlacesAreClear'
  <2>1. \A k \in DOMAIN snapshots : snapshots[k] \in Snapshots
    BY DEF NetworkTyped
  <2>2. \A a : \A s \in Snapshots : [s EXCEPT !.processed = a].place = s.place
                                 /\ [s EXCEPT !.processed = a].room = s.room
    BY DEF Snapshots
  <2>3. DOMAIN snapshots' = DOMAIN snapshots
    OBVIOUS
  <2>4. \A k \in DOMAIN snapshots : /\ snapshots'[k].place = snapshots[k].place
                                   /\ snapshots'[k].room = snapshots[k].room
    BY <2>1, <2>2
  <2> QED
    BY <2>3, <2>4 DEF PlacesAreClear, IsClearIn
<1>7. HistoryIsWhole'
  <2>1. Len(pending) \in Nat /\ DOMAIN pending = 1 .. Len(pending)
    BY DEF ClientTyped
  <2>2. pending' = [k \in 1 .. Len(pending) |-> [pending[k] EXCEPT !.age = @ + 1]]
    BY <2>1
  <2>3. Len(pending') = Len(pending) /\ DOMAIN pending' = 1 .. Len(pending)
    BY <2>1, <2>2
  <2>4. Unrecorded = 0 /\ Unrecorded' = 1
    BY DEF Unrecorded, AppTyped, Updates
  <2>5. ASSUME NEW k \in 1 .. Len(pending) PROVE pending'[k].age = Len(pending) - k + 1
    <3>1. pending[k] \in Inputs /\ pending[k].age = Len(pending) - k
      BY <2>1, <2>4 DEF ClientTyped, HistoryIsWhole
    <3> QED
      BY <2>1, <2>2, <3>1 DEF Inputs
  <2>6. ~ Predicts' => pending' = <<>>
    <3>1. Predicts' <=> Predicts
      BY DEF Predicts
    <3>2. pending = <<>> => Len(pending') = 0
      BY <2>3
    <3>3. pending = <<>> => pending' = <<>>
      BY <2>1, <2>2
    <3> QED
      BY <3>1, <3>3 DEF HistoryIsWhole
  <2>7. Predicts' => settled' <= Len(pending') + 1
    <3>1. settled \in Ages
      BY DEF ClientTyped
    <3>2. settled \in Nat /\ settled' \in Nat
      BY <3>1, OlderIsAnAge, ConstantsTyped DEF Ages
    <3>3. settled' <= settled + 1
      BY <3>1, OlderIsAnAge
    <3>4. Predicts' => settled <= Len(pending)
      BY <2>1, <2>4, <3>2 DEF HistoryIsWhole, Predicts
    <3> QED
      BY <2>1, <2>3, <3>2, <3>3, <3>4
  <2> QED
    BY <2>3, <2>4, <2>5, <2>6, <2>7 DEF HistoryIsWhole
<1> QED
  BY <1>1, <1>2, <1>3, <1>4, <1>5, <1>6, <1>7

\* The input just sent is recorded; a full history is given up.
LEMMA ApplyLocalPredictionTickStep ==
    ASSUME IInv, ApplyLocalPredictionTick
    PROVE  IInv'
<1> USE DEF IInv, Typed, ApplyLocalPredictionTick, app, peer, server, network, broadcasts,
            prediction, switches, shown, threads, world
<1> DEFINE records == joined /\ predictionOn /\ predicted # NoPlace /\ ~ shownDead
           input == [age |-> 0, keys |-> update.keys]
           isFull == valid /\ Len(pending) >= MaxPendingInputs
<1>a. /\ update \in Updates /\ update.phase = "Sent" /\ stage = "Running"
      /\ update.keys \in KeySets
  BY DEF AppTyped, Updates
<1>b. update' \in Updates /\ update'.phase \in {"Ticks", "Idle"}
  BY <1>a, IdleTyped DEF Updates, Idle
<1>c. input \in Inputs /\ input.age = 0
  BY <1>a, ConstantsTyped DEF Inputs
<1>d. pending \in Seq(Inputs) /\ Len(pending) \in Nat /\ Len(pending) <= MaxPendingInputs
      /\ DOMAIN pending = 1 .. Len(pending)
  BY DEF ClientTyped
<1>e. ~ records => UNCHANGED prediction
  OBVIOUS
<1>f. records => /\ predicted' = Step(predicted, update.keys, stride, currentRoom)
                 /\ isFull => valid' = FALSE /\ pending' = <<>>
                 /\ valid /\ ~ isFull => valid' = TRUE /\ pending' = Append(pending, input)
                 /\ ~ valid => valid' = FALSE /\ pending' = pending
  BY DEF RecordPendingInput, ClientTyped
<1>g. Append(pending, input) \in Seq(Inputs) /\ Len(Append(pending, input)) = Len(pending) + 1
      /\ DOMAIN Append(pending, input) = 1 .. Len(pending) + 1
      /\ \A k \in 1 .. Len(pending) : Append(pending, input)[k] = pending[k]
      /\ Append(pending, input)[Len(pending) + 1] = input
  BY <1>c, <1>d
<1>h. records => /\ predicted \in Place /\ currentRoom \in Room
                 /\ predicted' \in Place
                 /\ IsClearIn(predicted, currentRoom) => IsClearIn(predicted', currentRoom)
  BY <1>a, <1>f, ClientStepMoves DEF ClientTyped, Places, RoomIsKnown
<1> HIDE DEF ApplyLocalPredictionTick, records, input, isFull
<1>u. UNCHANGED <<events, app, server, network, joined, currentRoom, switches, shown, resets,
                  settled>>
  BY DEF ApplyLocalPredictionTick
<1>1. AppTyped'
  BY <1>a, <1>b, <1>u DEF AppTyped
<1>2. ServerTyped'
  BY <1>u DEF ServerTyped
<1>3. NetworkTyped'
  BY <1>u DEF NetworkTyped
<1>4. ClientTyped'
  <2>1. predicted' \in Places /\ valid' \in BOOLEAN
    BY <1>e, <1>f, <1>h DEF Places, ClientTyped, records, isFull
  <2>2. pending' \in Seq(Inputs) /\ Len(pending') <= MaxPendingInputs
    <3>1. CASE ~ records \/ ~ valid
      BY <3>1, <1>d, <1>e, <1>f
    <3>2. CASE records /\ valid /\ isFull
      BY <3>2, <1>f, EmptySequences
    <3>3. CASE records /\ valid /\ ~ isFull
      BY <3>3, <1>d, <1>f, <1>g, ConstantsTyped DEF isFull
    <3> QED
      BY <3>1, <3>2, <3>3
  <2> QED
    BY <2>1, <2>2, <1>u DEF ClientTyped
<1>5. RoomIsKnown'
  <2>1. predicted' # NoPlace <=> predicted # NoPlace
    BY <1>e, <1>h, NothingIsNone
  <2> QED
    BY <2>1, <1>u DEF RoomIsKnown
<1>6. PlacesAreClear'
  <2>1. predicted' # NoPlace <=> predicted # NoPlace
    BY <1>e, <1>h, NothingIsNone
  <2>2. IsClearIn(predicted, currentRoom) => IsClearIn(predicted', currentRoom)
    BY <1>e, <1>h
  <2> QED
    BY <2>1, <2>2, <1>u DEF PlacesAreClear, IsClearIn
<1>7. HistoryIsWhole'
  <2>1. Unrecorded = 1 /\ Unrecorded' = 0
    BY <1>a, <1>b DEF Unrecorded
  <2>2. \A k \in DOMAIN pending : pending[k].age = Len(pending) - k + 1
    BY <2>1 DEF HistoryIsWhole
  <2>3. settled \in Nat
    BY ConstantsTyped DEF ClientTyped, Ages
  <2>4. CASE ~ records
    <3>1. ~ Predicts
      BY <2>4 DEF Predicts, records, RoomIsKnown
    <3>2. ~ Predicts' /\ pending' = pending
      BY <3>1, <1>e, <1>u, <2>4 DEF Predicts
    <3>3. pending = <<>>
      BY <3>1 DEF HistoryIsWhole
    <3> QED
      BY <3>2, <3>3, EmptySequences DEF HistoryIsWhole
  <2>5. CASE records /\ (~ valid \/ isFull)
    <3>1. ~ valid' /\ pending' = <<>>
      BY <1>f, <2>5 DEF HistoryIsWhole, Predicts
    <3> QED
      BY <3>1, EmptySequences DEF HistoryIsWhole, Predicts
  <2>6. CASE records /\ valid /\ ~ isFull
    <3>1. pending' = Append(pending, input) /\ valid'
      BY <1>f, <2>6
    <3>2. Len(pending') = Len(pending) + 1 /\ DOMAIN pending' = 1 .. Len(pending) + 1
      BY <1>g, <3>1
    <3>3. ASSUME NEW k \in DOMAIN pending' PROVE pending'[k].age = Len(pending') - k
      <4>1. CASE k = Len(pending) + 1
        BY <4>1, <1>c, <1>d, <1>g, <3>1, <3>2
      <4>2. CASE k # Len(pending) + 1
        <5>1. k \in 1 .. Len(pending) /\ pending'[k] = pending[k]
          BY <4>2, <1>d, <1>g, <3>1, <3>2
        <5> QED
          BY <5>1, <1>d, <2>2, <3>2
      <4> QED
        BY <4>1, <4>2
    <3>4. Predicts /\ Predicts'
      BY <2>6, <3>1, <1>u DEF records, Predicts
    <3>5. settled <= Len(pending) + 1
      BY <3>4, <2>1 DEF HistoryIsWhole
    <3>6. settled' <= Len(pending')
      BY <3>2, <3>5, <1>u
    <3>7. Len(pending') \in Nat
      BY <3>2, <1>d
    <3> QED
      BY <2>1, <2>3, <3>2, <3>3, <3>4, <3>6, <3>7, <1>u DEF HistoryIsWhole
  <2> QED
    BY <2>4, <2>5, <2>6
<1> QED
  BY <1>1, <1>2, <1>3, <1>4, <1>5, <1>6, <1>7

\* The answer to a join puts the player where the server let it in.
LEMMA HandleJoinResponseStep ==
    ASSUME IInv, HandleJoinResponse
    PROVE  IInv'
<1> USE DEF IInv, Typed, HandleJoinResponse, app, peer, server, network, broadcasts, prediction,
            switches, shown, threads, world
<1>a. /\ response \in Responses /\ response.place \in Place /\ response.room \in Room
      /\ IsClearIn(response.place, response.room)
  BY DEF NetworkTyped, Responses, PlacesAreClear
<1>b. <<response.place>> \in Seq(Place) /\ Len(<<response.place>>) = 1
      /\ DOMAIN <<response.place>> = {1} /\ <<response.place>>[1] = response.place
      /\ <<response.place>> # <<>>
  BY <1>a
<1>1. AppTyped'
  BY DEF AppTyped
<1>2. ServerTyped'
  BY DEF ServerTyped
<1>3. NetworkTyped'
  BY DEF NetworkTyped
<1>4. ClientTyped'
  BY <1>a, <1>b, EmptySequences DEF ClientTyped, StartOver, ClearHistory, Places
<1>5. RoomIsKnown'
  BY <1>a, NothingIsNone DEF RoomIsKnown, StartOver
<1>6. PlacesAreClear'
  BY <1>a, <1>b DEF PlacesAreClear, IsClearIn
<1>7. HistoryIsWhole'
  <2>1. settled' = 0 /\ pending' = <<>> 
    BY DEF StartOver, ClearHistory
  <2> QED
    BY <2>1, HistoryStartsOver
<1> QED
  BY <1>1, <1>2, <1>3, <1>4, <1>5, <1>6, <1>7

\* The answer to a room change asks for a reset at the new place.
LEMMA HandleJoinRoomResponseStep ==
    ASSUME IInv, HandleJoinRoomResponse
    PROVE  IInv'
<1> USE DEF IInv, Typed, HandleJoinRoomResponse, app, peer, server, network, broadcasts,
            prediction, switches, shown, threads, world
<1>a. /\ response \in Responses /\ response.place \in Place /\ response.room \in Room
      /\ IsClearIn(response.place, response.room)
  BY DEF NetworkTyped, Responses, PlacesAreClear
<1> DEFINE two == <<response.place, response.place>>
<1>b. /\ two \in Seq(Place) /\ Len(two) = 2 /\ DOMAIN two = {1, 2}
      /\ two[1] = response.place /\ two[2] = response.place /\ two # <<>>
  BY <1>a
<1>1. AppTyped'
  BY DEF AppTyped
<1>2. ServerTyped'
  BY DEF ServerTyped
<1>3. NetworkTyped'
  BY DEF NetworkTyped
<1>4. ClientTyped'
  BY <1>a, <1>b DEF ClientTyped, Places
<1>5. RoomIsKnown'
  BY <1>a DEF RoomIsKnown
<1>6. PlacesAreClear'
  BY <1>a, <1>b DEF PlacesAreClear, IsClearIn
<1>7. HistoryIsWhole'
  BY DEF HistoryIsWhole, Unrecorded, Predicts
<1> QED
  BY <1>1, <1>2, <1>3, <1>4, <1>5, <1>6, <1>7

\* The update thread carries a reset out.
LEMMA ResetPredictionStep ==
    ASSUME IInv, ResetPrediction
    PROVE  IInv'
<1> USE DEF IInv, Typed, ResetPrediction, app, peer, server, network, broadcasts, prediction,
            switches, shown, threads, world
<1>a. /\ 1 \in DOMAIN resets /\ Head(resets) = resets[1] /\ Head(resets) \in Place
      /\ Tail(resets) \in Seq(Place) /\ Len(Tail(resets)) = Len(resets) - 1
      /\ \A k \in DOMAIN Tail(resets) :
            k + 1 \in DOMAIN resets /\ Tail(resets)[k] = resets[k + 1]
  BY TailIsTheRest DEF ClientTyped
<1>b. Len(resets) \in Nat /\ Len(resets) <= 2
  BY DEF ClientTyped
<1>1. AppTyped'
  BY DEF AppTyped
<1>2. ServerTyped'
  BY DEF ServerTyped
<1>3. NetworkTyped'
  BY DEF NetworkTyped
<1>4. ClientTyped'
  <2>1. Len(resets') <= 2
    BY <1>a, <1>b
  <2> QED
    BY <2>1, <1>a, EmptySequences DEF ClientTyped, StartOver, ClearHistory, Places
<1>5. RoomIsKnown'
  BY <1>a, NothingIsNone DEF RoomIsKnown, StartOver
<1>6. PlacesAreClear'
  BY <1>a DEF PlacesAreClear, IsClearIn, StartOver
<1>7. HistoryIsWhole'
  <2>1. settled' = 0 /\ pending' = <<>> 
    BY DEF StartOver, ClearHistory
  <2> QED
    BY <2>1, HistoryStartsOver
<1> QED
  BY <1>1, <1>2, <1>3, <1>4, <1>5, <1>6, <1>7

\* The client is told, perhaps late, where its player joined the room it is in.
LEMMA HandlePlayerJoinedStep ==
    ASSUME IInv, NEW a \in announced, HandlePlayerJoined(a)
    PROVE  IInv'
<1> USE DEF IInv, Typed, HandlePlayerJoined, app, peer, server, network, broadcasts,
            prediction, switches, shown, threads, world
<1>a. /\ a.place \in Place /\ a.room \in Room /\ IsClearIn(a.place, a.room)
      /\ predicted # NoPlace => currentRoom = a.room
  <2>1. a \in Joinings
    BY DEF NetworkTyped
  <2> QED
    BY <2>1, ConstantsTyped DEF Joinings, PlacesAreClear, RoomIsKnown, IsOfThisRoom
<1>b. latest' \in {latest, a.place} /\ latest' \in Places
  BY <1>a DEF Pushed, ClientTyped, Places
<1>c. \/ predicted = NoPlace /\ UNCHANGED <<prediction, settled>>
      \/ predicted # NoPlace /\ StartOver(a.place)
  BY DEF IsKnown
<1>d. UNCHANGED <<app, server, network, joined, currentRoom, switches, shownDead, threads>>
  OBVIOUS
<1> HIDE DEF HandlePlayerJoined
<1>1. AppTyped'
  BY <1>d DEF AppTyped
<1>2. ServerTyped'
  BY <1>d DEF ServerTyped
<1>3. NetworkTyped'
  BY <1>d DEF NetworkTyped
<1>4. ClientTyped'
  BY <1>a, <1>b, <1>c, <1>d, EmptySequences DEF ClientTyped, StartOver, ClearHistory, Places
<1>5. RoomIsKnown'
  BY <1>a, <1>c, <1>d, NothingIsNone DEF RoomIsKnown, StartOver
<1>6. PlacesAreClear'
  BY <1>a, <1>b, <1>c, <1>d DEF PlacesAreClear, IsClearIn, StartOver
<1>7. HistoryIsWhole'
  <2>1. CASE predicted = NoPlace /\ UNCHANGED <<prediction, settled>>
    BY <2>1, <1>d DEF HistoryIsWhole, Unrecorded, Predicts
  <2>2. CASE StartOver(a.place)
    BY <2>2, HistoryStartsOver DEF StartOver, ClearHistory
  <2> QED
    BY <2>1, <2>2, <1>c
<1> QED
  BY <1>1, <1>2, <1>3, <1>4, <1>5, <1>6, <1>7

\* A snapshot puts the player where the server had it; what the server had not
\* processed by then is replayed from there.
LEMMA HandlePlayerSnapshotStep ==
    ASSUME IInv, NEW k \in DOMAIN snapshots, HandlePlayerSnapshot(k)
    PROVE  IInv'
<1> USE DEF IInv, Typed, HandlePlayerSnapshot, app, peer, server, network, broadcasts,
            prediction, switches, shown, threads, world
<1> DEFINE s == snapshots[k]
           rest == SubSeq(snapshots, k + 1, Len(snapshots))
<1>a. /\ s \in Snapshots /\ s.place \in Place /\ s.room \in Room /\ s.processed \in Ages
      /\ s.dead \in BOOLEAN /\ IsClearIn(s.place, s.room)
  <2>1. s \in Snapshots
    BY DEF NetworkTyped
  <2> QED
    BY <2>1 DEF Snapshots, PlacesAreClear
<1>b. /\ rest \in Seq(Snapshots) /\ Len(rest) <= MaxSnapshots
      /\ \A l \in DOMAIN rest : /\ l \in Nat /\ k + l \in DOMAIN snapshots /\ k <= k + l
                                /\ rest[l] = snapshots[k + l]
  <2>1. /\ snapshots \in Seq(Snapshots) /\ Len(snapshots) \in Nat
        /\ DOMAIN snapshots = 1 .. Len(snapshots) /\ Len(snapshots) <= MaxSnapshots
        /\ MaxSnapshots \in Nat
    BY ConstantsTyped DEF NetworkTyped
  <2>2. k \in 1 .. Len(snapshots) /\ Len(snapshots) - k \in Nat
    BY <2>1
  <2>3. rest = [l \in 1 .. Len(snapshots) - k |-> snapshots[k + l]]
    <3>1. Len(snapshots) - (k + 1) + 1 = Len(snapshots) - k
      BY <2>1, <2>2
    <3>2. \A l \in 1 .. Len(snapshots) - k : (k + 1) + l - 1 = k + l
      BY <2>2
    <3>3. rest = [l \in 1 .. Len(snapshots) - k |-> snapshots[(k + 1) + l - 1]]
      BY <3>1, <2>1, <2>2
    <3> QED
      BY <3>2, <3>3
  <2> HIDE DEF rest
  <2>4. \A l \in 1 .. Len(snapshots) - k : k + l \in 1 .. Len(snapshots) /\ k <= k + l
    BY <2>1, <2>2
  <2>5. \A l \in 1 .. Len(snapshots) - k : snapshots[k + l] \in Snapshots
    BY <2>1, <2>4
  <2>6. rest \in Seq(Snapshots)
    <3>1. rest \in [1 .. Len(snapshots) - k -> Snapshots]
      BY <2>3, <2>5
    <3> QED
      BY <2>2, <3>1, FunctionIsSequence
  <2>7. Len(rest) = Len(snapshots) - k /\ DOMAIN rest = 1 .. Len(snapshots) - k
    BY <2>2, <2>3
  <2> QED
    BY <2>1, <2>2, <2>3, <2>4, <2>6, <2>7
<1>c. /\ snapshots' = rest /\ currentRoom' = s.room /\ shownDead' = s.dead
      /\ latest' \in Places /\ latest' \in {latest, s.place}
      /\ resets = <<>> /\ stage = "Running"
      /\ currentRoom = NoRoom \/ currentRoom = s.room
      /\ UNCHANGED <<threads, events, app, server, inputs, response, broadcasts, joined,
                     switches>>
  BY <1>a DEF CanReceive, IsOfThisRoom, Pushed, ClientTyped, Places
<1>d. \/ predicted = NoPlace /\ UNCHANGED <<prediction, settled>>
      \/ predicted # NoPlace /\ StartOver(s.place)
      \/ predicted # NoPlace /\ ClearHistory /\ UNCHANGED predicted
      \/ /\ predicted # NoPlace /\ shownDead' = shownDead /\ UNCHANGED valid
         /\ DiscardProcessedInputs(s.processed)
         /\ predicted' = predicted \/ predicted' = Replayed(s.place, pending')
  BY DEF Reconcile, IsKnown
<1> HIDE DEF HandlePlayerSnapshot, s, rest
<1>e. /\ Unprocessed(s.processed) \in Seq(Inputs)
      /\ Len(Unprocessed(s.processed)) <= Len(pending)
      /\ \A l \in DOMAIN Unprocessed(s.processed) :
            Unprocessed(s.processed)[l].age = Len(Unprocessed(s.processed)) - l + Unrecorded
      /\ Len(Unprocessed(s.processed)) = Len(pending)
         \/ s.processed <= Len(Unprocessed(s.processed)) + Unrecorded
  <2>1. Unrecorded \in {0, 1} /\ pending \in Seq(Inputs)
    BY DEF Unrecorded, ClientTyped
  <2>2. \A l \in DOMAIN pending : pending[l].age = Len(pending) - l + Unrecorded
    BY DEF HistoryIsWhole
  <2> QED
    BY <1>a, <2>1, <2>2, UnprocessedIsTheEnd
<1>f. predicted' = Replayed(s.place, pending') /\ pending' = Unprocessed(s.processed)
         /\ predicted # NoPlace
      => predicted' \in Place /\ IsClearIn(predicted', s.room)
  <2> SUFFICES ASSUME predicted' = Replayed(s.place, pending'), predicted # NoPlace,
                      pending' = Unprocessed(s.processed)
               PROVE  predicted' \in Place /\ IsClearIn(predicted', s.room)
    OBVIOUS
  <2>1. currentRoom = s.room /\ stride \in Distances
    BY <1>c, ConstantsTyped DEF AppTyped, RoomIsKnown
  <2>2. pending' \in Seq(Inputs)
    BY <1>e
  <2>3. predicted' = Replayed(s.place, Unprocessed(s.processed))
    OBVIOUS
  <2> QED
    BY <1>a, <1>e, <2>1, <2>3, ReplayStaysClear
<1>1. AppTyped'
  BY <1>c DEF AppTyped
<1>2. ServerTyped'
  BY <1>c DEF ServerTyped
<1>3. NetworkTyped'
  BY <1>b, <1>c DEF NetworkTyped
<1>4. ClientTyped'
  <2>1. predicted' \in Places /\ valid' \in BOOLEAN /\ settled' \in Ages
    <3>1. settled' \in {settled, 0, s.processed}
      BY <1>d DEF StartOver, ClearHistory, DiscardProcessedInputs
    <3>2. predicted' \in Places /\ valid' \in BOOLEAN
      BY <1>a, <1>d, <1>f
         DEF ClientTyped, Places, StartOver, ClearHistory, DiscardProcessedInputs
    <3> QED
      BY <3>1, <3>2, <1>a, ConstantsTyped DEF ClientTyped, Ages
  <2>2. pending' \in Seq(Inputs) /\ Len(pending') <= MaxPendingInputs
    <3>1. CASE pending' = pending
      BY <3>1 DEF ClientTyped
    <3>2. CASE pending' = <<>>
      BY <3>2, EmptySequences
    <3>3. CASE pending' = Unprocessed(s.processed)
      <4>1. Len(pending') \in Nat /\ Len(pending) \in Nat /\ Len(pending) <= MaxPendingInputs
        BY <3>3, <1>e DEF ClientTyped
      <4> QED
        BY <3>3, <4>1, <1>e, ConstantsTyped
    <3> QED
      BY <3>1, <3>2, <3>3, <1>d DEF StartOver, ClearHistory, DiscardProcessedInputs
  <2> QED
    BY <2>1, <2>2, <1>a, <1>c DEF ClientTyped, Places
<1>5. RoomIsKnown'
  <2>1. predicted # NoPlace => predicted' # NoPlace
    BY <1>a, <1>d, <1>f, NothingIsNone DEF StartOver, DiscardProcessedInputs
  <2> QED
    BY <2>1, <1>a, <1>c DEF RoomIsKnown
<1>6. PlacesAreClear'
  <2>1. predicted' # NoPlace => IsClearIn(predicted', s.room)
    <3>1. CASE predicted' = predicted
      <4>1. predicted # NoPlace => currentRoom = s.room
        BY <1>c, ConstantsTyped DEF RoomIsKnown
      <4> QED
        BY <3>1, <4>1, <1>c DEF PlacesAreClear
    <3>2. CASE predicted' # predicted
      BY <3>2, <1>a, <1>d, <1>f DEF StartOver, DiscardProcessedInputs
    <3> QED
      BY <3>1, <3>2
  <2>2. \A l \in DOMAIN snapshots' : IsClearIn(snapshots'[l].place, snapshots'[l].room)
    BY <1>b, <1>c DEF PlacesAreClear
  <2>3. predicted' # NoPlace => predicted # NoPlace /\ currentRoom = s.room
    BY <1>c, <1>d, ConstantsTyped DEF RoomIsKnown
  <2>4. predicted' # NoPlace /\ latest' # NoPlace => IsClearIn(latest', s.room)
    BY <2>3, <1>a, <1>c DEF PlacesAreClear
  <2> QED
    BY <2>1, <2>2, <2>4, <1>a, <1>c DEF PlacesAreClear, IsClearIn
<1>7. HistoryIsWhole'
  <2>1. CASE predicted = NoPlace /\ UNCHANGED <<prediction, settled>>
    <3>1. ~ joined
      BY <2>1 DEF RoomIsKnown
    <3>2. ~ Predicts /\ ~ Predicts'
      BY <3>1, <1>c DEF Predicts
    <3>3. pending = <<>> /\ pending' = <<>>
      BY <2>1, <3>2 DEF HistoryIsWhole
    <3> QED
      BY <3>2, <3>3, EmptySequences DEF HistoryIsWhole
  <2>2. CASE pending' = <<>> /\ settled' = 0
    BY <2>2, HistoryStartsOver
  <2>3. CASE /\ shownDead' = shownDead /\ UNCHANGED valid
             /\ DiscardProcessedInputs(s.processed)
    <3>. /\ pending' = Unprocessed(s.processed)
         /\ settled' = IF s.processed < settled THEN s.processed ELSE settled
      BY <2>3 DEF DiscardProcessedInputs
    <3>1. (Predicts' <=> Predicts) /\ Unrecorded' = Unrecorded /\ Unrecorded \in {0, 1}
      BY <2>3, <1>c DEF Predicts, Unrecorded
    <3>2. /\ Len(pending) \in Nat /\ Len(pending') \in Nat /\ pending' \in Seq(Inputs)
          /\ settled \in Nat /\ s.processed \in Nat
      BY <2>3, <1>a, <1>e, ConstantsTyped DEF ClientTyped, Ages
    <3>3. Len(pending') <= Len(pending)
      BY <2>3, <1>e
    <3>4. ~ Predicts' => pending' = <<>>
      <4> SUFFICES ASSUME ~ Predicts PROVE pending' = <<>>
        BY <3>1
      <4>1. Len(pending) = 0
        BY EmptySequences DEF HistoryIsWhole
      <4> QED
        BY <4>1, <3>2, <3>3
    <3>5. \A l \in DOMAIN pending' : pending'[l].age = Len(pending') - l + Unrecorded'
      BY <2>3, <3>1, <1>e
    <3>6. Predicts' => settled' <= Len(pending') + Unrecorded'
      <4> SUFFICES ASSUME Predicts PROVE settled' <= Len(pending') + Unrecorded
        BY <3>1
      <4>1. settled <= Len(pending) + Unrecorded
        BY DEF HistoryIsWhole
      <4>2. settled' <= settled /\ settled' <= s.processed
        BY <3>2
      <4>3. CASE s.processed <= Len(pending') + Unrecorded
        BY <4>2, <4>3, <3>1, <3>2
      <4>4. CASE Len(pending') = Len(pending)
        BY <4>1, <4>2, <4>4, <3>1, <3>2
      <4> QED
        BY <4>3, <4>4, <1>e
    <3> QED
      BY <3>4, <3>5, <3>6 DEF HistoryIsWhole
  <2> QED
    BY <2>1, <2>2, <2>3, <1>d DEF StartOver, ClearHistory
<1> QED
  BY <1>1, <1>2, <1>3, <1>4, <1>5, <1>6, <1>7

\* The server takes an input newer than any before.
LEMMA AcceptInputStep ==
    ASSUME IInv, NEW i \in inputs, AcceptInput(i)
    PROVE  IInv'
<1> USE DEF IInv, Typed, AcceptInput, app, peer, server, network, broadcasts,
            prediction, switches, shown, threads, world
<1>a. i \in Inputs /\ i.age \in Ages /\ i.age \in Nat /\ i.keys \in KeySets
  <2>1. i \in Inputs
    BY DEF NetworkTyped
  <2> QED
    BY <2>1, ConstantsTyped DEF Inputs, Ages
<1>1. AppTyped'
  BY DEF AppTyped
<1>2. ServerTyped'
  BY <1>a DEF ServerTyped
<1>3. NetworkTyped'
  BY DEF NetworkTyped
<1>4. ClientTyped'
  BY DEF ClientTyped
<1>5. RoomIsKnown'
  BY DEF RoomIsKnown
<1>6. PlacesAreClear'
  BY DEF PlacesAreClear
<1>7. HistoryIsWhole'
  BY DEF HistoryIsWhole, Unrecorded, Predicts
<1> QED
  BY <1>1, <1>2, <1>3, <1>4, <1>5, <1>6, <1>7

\* The server moves the player and sends a snapshot of it.
LEMMA TickStep ==
    ASSUME IInv, Tick
    PROVE  IInv'
<1> USE DEF IInv, Typed, Tick, app, peer, server, network, broadcasts, prediction, switches,
            shown, threads, world
<1>a. Moved \in Place /\ IsClearIn(Moved, room)
  <2>1. ServerDistance \in Distances
    BY DEF ServerDistance, Distances
  <2> QED
    BY <2>1, StepMoves DEF Moved, ServerTyped, PlacesAreClear
<1>b. /\ place' \in Place /\ IsClearIn(place', room) /\ dead' \in BOOLEAN
      /\ held' \in KeySets
  BY <1>a, SpawnsAreClear, ConstantsTyped DEF ServerTyped
<1>c. snapshots' = snapshots \/ snapshots' = WithSnapshot(place', dead')
  OBVIOUS
<1>d. /\ UNCHANGED <<threads, app, room, accepted, connection, inputs, response, broadcasts,
                     world, settled>>
  OBVIOUS
<1> HIDE DEF Tick
<1>e. /\ snapshots' \in Seq(Snapshots) /\ Len(snapshots') <= MaxSnapshots
      /\ \A k \in DOMAIN snapshots' : IsClearIn(snapshots'[k].place, snapshots'[k].room)
  <2>1. CASE snapshots' = snapshots
    BY <2>1 DEF NetworkTyped, PlacesAreClear
  <2>2. CASE snapshots' = WithSnapshot(place', dead')
    BY <2>2, <1>b, NewSnapshotFits
  <2> QED
    BY <1>c, <2>1, <2>2
<1>1. AppTyped'
  BY <1>d DEF AppTyped
<1>2. ServerTyped'
  BY <1>b, <1>d DEF ServerTyped
<1>3. NetworkTyped'
  BY <1>d, <1>e DEF NetworkTyped
<1>4. ClientTyped'
  BY <1>d DEF ClientTyped
<1>5. RoomIsKnown'
  BY <1>d DEF RoomIsKnown
<1>6. PlacesAreClear'
  BY <1>b, <1>d, <1>e DEF PlacesAreClear, IsClearIn
<1>7. HistoryIsWhole'
  BY <1>d DEF HistoryIsWhole, Unrecorded, Predicts
<1> QED
  BY <1>1, <1>2, <1>3, <1>4, <1>5, <1>6, <1>7

\* The server gives the client up for lost.
LEMMA MarkRecoverableStep ==
    ASSUME IInv, MarkRecoverable
    PROVE  IInv'
<1> USE DEF IInv, Typed, MarkRecoverable, app, peer, server, network, broadcasts, prediction,
            switches, shown, threads, world
<1>1. AppTyped'
  BY DEF AppTyped
<1>2. ServerTyped'
  BY ConstantsTyped DEF ServerTyped
<1>3. NetworkTyped'
  BY DEF NetworkTyped
<1>4. ClientTyped'
  BY DEF ClientTyped
<1>5. RoomIsKnown'
  BY DEF RoomIsKnown
<1>6. PlacesAreClear'
  BY DEF PlacesAreClear
<1>7. HistoryIsWhole'
  BY DEF HistoryIsWhole, Unrecorded, Predicts
<1> QED
  BY <1>1, <1>2, <1>3, <1>4, <1>5, <1>6, <1>7

\* The server lets the client in again, where its player is.
LEMMA AnswerJoinStep ==
    ASSUME IInv, AnswerJoin
    PROVE  IInv'
<1> USE DEF IInv, Typed, AnswerJoin, app, peer, server, network, broadcasts,
            prediction, switches, shown, threads, world
<1>1. AppTyped'
  BY DEF AppTyped
<1>2. ServerTyped'
  BY DEF ServerTyped
<1>3. NetworkTyped'
  BY DEF NetworkTyped, ServerTyped, Responses
<1>4. ClientTyped'
  BY DEF ClientTyped
<1>5. RoomIsKnown'
  BY DEF RoomIsKnown
<1>6. PlacesAreClear'
  BY DEF PlacesAreClear, IsClearIn
<1>7. HistoryIsWhole'
  BY DEF HistoryIsWhole, Unrecorded, Predicts
<1> QED
  BY <1>1, <1>2, <1>3, <1>4, <1>5, <1>6, <1>7

\* The server puts the player into another room, at one of its spawns.
LEMMA ChangeRoomStep ==
    ASSUME IInv, NEW to \in Room, NEW position \in SpawnsOf[to], ChangeRoom(to, position)
    PROVE  IInv'
<1> USE DEF IInv, Typed, ChangeRoom, app, peer, server, network, broadcasts,
            prediction, switches, shown, threads, world
<1>a. position \in Place /\ IsClearIn(position, to)
  BY SpawnsAreClear
<1>1. AppTyped'
  BY DEF AppTyped
<1>2. ServerTyped'
  BY <1>a, ConstantsTyped DEF ServerTyped
<1>3. NetworkTyped'
  BY <1>a DEF NetworkTyped, Responses, Joinings
<1>4. ClientTyped'
  BY DEF ClientTyped
<1>5. RoomIsKnown'
  BY DEF RoomIsKnown
<1>6. PlacesAreClear'
  BY <1>a DEF PlacesAreClear, IsClearIn
<1>7. HistoryIsWhole'
  BY DEF HistoryIsWhole, Unrecorded, Predicts
<1> QED
  BY <1>1, <1>2, <1>3, <1>4, <1>5, <1>6, <1>7

\* The server tells the room of the player, as it was when the player joined.
LEMMA BroadcastPlayerJoinedStep ==
    ASSUME IInv, BroadcastPlayerJoined
    PROVE  IInv'
<1> USE DEF IInv, Typed, BroadcastPlayerJoined, app, peer, server, network, broadcasts,
            prediction, switches, shown, threads, world
<1>1. AppTyped'
  BY DEF AppTyped
<1>2. ServerTyped'
  BY DEF ServerTyped
<1>3. NetworkTyped'
  BY DEF NetworkTyped
<1>4. ClientTyped'
  BY DEF ClientTyped
<1>5. RoomIsKnown'
  BY DEF RoomIsKnown
<1>6. PlacesAreClear'
  BY DEF PlacesAreClear, IsClearIn
<1>7. HistoryIsWhole'
  BY DEF HistoryIsWhole, Unrecorded, Predicts
<1> QED
  BY <1>1, <1>2, <1>3, <1>4, <1>5, <1>6, <1>7

\* What told the room of the player is lost.
LEMMA LosePlayerJoinedStep ==
    ASSUME IInv, NEW a \in announced, LosePlayerJoined(a)
    PROVE  IInv'
<1> USE DEF IInv, Typed, LosePlayerJoined, app, peer, server, network, broadcasts,
            prediction, switches, shown, threads, world
<1>1. AppTyped'
  BY DEF AppTyped
<1>2. ServerTyped'
  BY DEF ServerTyped
<1>3. NetworkTyped'
  BY DEF NetworkTyped
<1>4. ClientTyped'
  BY DEF ClientTyped
<1>5. RoomIsKnown'
  BY DEF RoomIsKnown
<1>6. PlacesAreClear'
  BY DEF PlacesAreClear, IsClearIn
<1>7. HistoryIsWhole'
  BY DEF HistoryIsWhole, Unrecorded, Predicts
<1> QED
  BY <1>1, <1>2, <1>3, <1>4, <1>5, <1>6, <1>7

-----------------------------------------------------------------------------
\* The invariant holds at first,
LEMMA InitIsSound == Init => IInv
<1> SUFFICES ASSUME Init PROVE IInv
  OBVIOUS
<1> USE DEF Init
<1>1. place \in Place /\ IsClearIn(place, room) /\ room \in Room
  BY SpawnsAreClear, ConstantsTyped
<1>2. Long \in Ages /\ Long \in Nat /\ {} \in KeySets
  BY ConstantsTyped DEF Ages
<1>3. AppTyped
  BY IdleTyped DEF AppTyped, Idle
<1>4. ServerTyped
  BY <1>1, <1>2 DEF ServerTyped
<1>5. NetworkTyped
  BY <1>1, EmptySequences DEF NetworkTyped, Joinings
<1>6. ClientTyped
  <2>1. pending \in Seq(Inputs) /\ Len(pending) <= MaxPendingInputs
    BY EmptySequences
  <2>2. resets \in Seq(Place) /\ Len(resets) <= 2
    BY EmptySequences
  <2>3. predicted \in Places /\ latest \in Places
    BY DEF Places
  <2> QED
    BY <1>2, <2>1, <2>2, <2>3 DEF ClientTyped
<1>7. RoomIsKnown
  BY DEF RoomIsKnown
<1>8. PlacesAreClear
  BY <1>1, EmptySequences DEF PlacesAreClear
<1>9. HistoryIsWhole
  BY EmptySequences DEF HistoryIsWhole, Predicts
<1> QED
  BY <1>3, <1>4, <1>5, <1>6, <1>7, <1>8, <1>9 DEF IInv, Typed

\* is kept by every step,
LEMMA NextKeepsIInv == IInv /\ [Next]_vars => IInv'
<1> SUFFICES ASSUME IInv, [Next]_vars PROVE IInv'
  OBVIOUS
<1>1. CASE Configure
  BY <1>1, ConfigureStep
<1>2. CASE StartRuntime
  BY <1>2, StartRuntimeStep
<1>3. CASE UpdateThread
  BY <1>3, TogglePredictionStep, ToggleReconciliationStep, BeginRecoveryStep,
     RestartTransportStep, BeginTicksStep, SendInputStep, ApplyLocalPredictionTickStep
     DEF UpdateThread
<1>4. CASE ReceiveThread
  BY <1>4, HandleJoinResponseStep, HandleJoinRoomResponseStep, ResetPredictionStep,
     HandlePlayerJoinedStep, HandlePlayerSnapshotStep DEF ReceiveThread
<1>5. CASE Server
  BY <1>5, AcceptInputStep, TickStep, MarkRecoverableStep, AnswerJoinStep, ChangeRoomStep,
     BroadcastPlayerJoinedStep DEF Server
<1>6. CASE UNCHANGED vars
  <2> USE <1>6 DEF IInv, Typed, vars, app, peer, server, network, broadcasts, prediction,
                   switches, shown, threads, world
  <2>1. AppTyped' /\ ServerTyped' /\ NetworkTyped' /\ ClientTyped'
    BY DEF AppTyped, ServerTyped, NetworkTyped, ClientTyped
  <2>2. RoomIsKnown' /\ PlacesAreClear'
    BY DEF RoomIsKnown, PlacesAreClear, IsClearIn
  <2>3. HistoryIsWhole'
    BY DEF HistoryIsWhole, Unrecorded, Predicts
  <2> QED
    BY <2>1, <2>2, <2>3
<1>7. CASE \E a \in announced : LosePlayerJoined(a)
  BY <1>7, LosePlayerJoinedStep
<1> QED
  BY <1>1, <1>2, <1>3, <1>4, <1>5, <1>6, <1>7 DEF Next

\* and so always holds.
LEMMA Invariance == Spec => []IInv
BY InitIsSound, NextKeepsIInv, PTL DEF Spec

\* It implies the types of all variables.
LEMMA IInvIsTyped == IInv => TypeOK
<1> SUFFICES ASSUME IInv PROVE TypeOK
  OBVIOUS
<1>1. AppTyped /\ ServerTyped /\ NetworkTyped /\ ClientTyped
  BY DEF IInv, Typed
<1>2. /\ update.phase \in {"Idle", "Restarting", "Ticks", "Sent"}
      /\ update.ticks \in 0 .. MaxTicksPerUpdate /\ update.keys \in KeySets
  BY <1>1 DEF AppTyped, Updates
<1>3. Range(pending) \subseteq Inputs
  BY <1>1 DEF ClientTyped, Range
<1>4. {dead, joined, valid, predictionOn, reconciliationOn, shownDead} \subseteq BOOLEAN
  BY <1>1 DEF ServerTyped, ClientTyped
<1>5. {accepted, settled} \subseteq Ages
  BY <1>1 DEF ServerTyped, ClientTyped
<1>6. unsent \cup announced \subseteq Joinings
  BY <1>1 DEF NetworkTyped
<1> QED
  BY <1>1, <1>2, <1>3, <1>4, <1>5, <1>6
     DEF TypeOK, AppTyped, ServerTyped, NetworkTyped, ClientTyped, Places

\* Every variable keeps its type: the history and what is under way stay within
\* their bounds, and nobody is put out of the world.
THEOREM TypeCorrect == Spec => []TypeOK
BY Invariance, IInvIsTyped, PTL

\* The inputs that a replay needs are in the history, each once and in order, through
\* full histories, deaths, room changes, recoveries, switches and PlayerJoined packets,
\* the last of which may come between sending and recording.
THEOREM HistoryHasNoGap == Spec => []PendingIsComplete
<1>1. IInv => PendingIsComplete
  <2> SUFFICES ASSUME IInv, Predicts
               PROVE  /\ \A a \in 0 .. MaxAge :
                            (a < settled /\ ~ (a = 0 /\ update.phase = "Sent"))
                                => \E k \in DOMAIN pending : pending[k].age = a
                      /\ \A k \in 1 .. Len(pending) - 1 : pending[k].age > pending[k + 1].age
    BY IInvIsTyped DEF PendingIsComplete
  <2> DEFINE n == Len(pending)
  <2>1. n \in Nat /\ DOMAIN pending = 1 .. n /\ settled \in Nat
    BY ConstantsTyped DEF IInv, Typed, ClientTyped, Ages
  <2>2. Unrecorded \in {0, 1} /\ (update.phase = "Sent" <=> Unrecorded = 1)
    BY DEF Unrecorded
  <2>3. /\ \A k \in 1 .. n : pending[k].age = n - k + Unrecorded
        /\ settled <= n + Unrecorded
    BY <2>1 DEF IInv, HistoryIsWhole
  <2>4. ASSUME NEW a \in 0 .. MaxAge, a < settled, ~ (a = 0 /\ update.phase = "Sent")
        PROVE  \E k \in DOMAIN pending : pending[k].age = a
    <3>1. a \in Nat /\ Unrecorded <= a /\ a < n + Unrecorded
      BY <2>1, <2>2, <2>3, <2>4, ConstantsTyped
    <3>2. n - a + Unrecorded \in 1 .. n
      BY <3>1, <2>1, <2>2
    <3>3. pending[n - a + Unrecorded].age = n - (n - a + Unrecorded) + Unrecorded
      BY <3>2, <2>3
    <3>4. n - (n - a + Unrecorded) + Unrecorded = a
      BY <3>1, <2>1, <2>2
    <3> QED
      BY <2>1, <3>2, <3>3, <3>4
  <2>5. ASSUME NEW k \in 1 .. n - 1 PROVE pending[k].age > pending[k + 1].age
    <3>1. k \in 1 .. n /\ k + 1 \in 1 .. n
      BY <2>1
    <3>2. pending[k].age = n - k + Unrecorded /\ pending[k + 1].age = n - (k + 1) + Unrecorded
      BY <2>3, <3>1
    <3> QED
      BY <2>1, <2>2, <3>1, <3>2
  <2> QED
    BY <2>4, <2>5
<1> QED
  BY <1>1, Invariance, PTL

\* Neither the server nor the prediction ever has the player in a wall or out of the
\* world, in whatever rooms and with whatever steps they move it, and however late the
\* client is told where it joined.
THEOREM PlayersAreClear == Spec => []PlayersStayClear
<1>1. IInv => PlayersStayClear
  BY DEF IInv, PlacesAreClear, PlayersStayClear, IsClearIn
<1> QED
  BY <1>1, Invariance, PTL
=============================================================================
