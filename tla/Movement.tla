------------------------------ MODULE Movement ------------------------------
(***************************************************************************)
(* How a player moves, at the server and in a client's prediction alike:   *)
(* Common/Game/Movement.h and Common/Game/WorldCollision.h.                *)
(*                                                                         *)
(* A position is <<x, y>>, the centre of the player's square; coordinates  *)
(* are whole numbers, and a room's walls are rectangles with two corners.  *)
(***************************************************************************)
EXTENDS Integers, FiniteSetsExt

CONSTANTS
    World,          \* defaultWorldBounds: [min |-> <<x, y>>, max |-> <<x, y>>]
    HalfExtent,     \* playerHalfExtent
    MoveSpeed       \* defaultMoveSpeed, per second

Rectangle == [min : Int \X Int, max : Int \X Int]

ASSUME MovementAssumption ==
    /\ World \in Rectangle
    /\ HalfExtent \in Nat /\ MoveSpeed \in Nat \ {0}
    /\ \A axis \in 1 .. 2 : World.min[axis] + 2 * HalfExtent <= World.max[axis]

Keys == {"Left", "Right", "Up", "Down"}     \* InputFlags

\* How far a player goes in a step of that many thousandths of a second.
MoveDistance(deltaSeconds) == (MoveSpeed * deltaSeconds) \div 1000

Direction(keys, less, more) ==
    (IF more \in keys THEN 1 ELSE 0) - (IF less \in keys THEN 1 ELSE 0)

\* BuildNormalizedMoveDirection, times a distance; 7/10 stands for 1/sqrt(2).
Displacement(keys, distance) ==
    LET x == Direction(keys, "Left", "Right")
        y == Direction(keys, "Up", "Down")
        along == IF x # 0 /\ y # 0 THEN (7 * distance) \div 10 ELSE distance
    IN  <<x * along, y * along>>

Inside(coordinate, axis) ==
    Max({World.min[axis] + HalfExtent, Min({World.max[axis] - HalfExtent, coordinate})})

\* The wall is in the way of a player that moves along this axis.
IsBeside(wall, position, axis) ==
    /\ position[3 - axis] - HalfExtent < wall.max[3 - axis]
    /\ position[3 - axis] + HalfExtent > wall.min[3 - axis]

\* TryMoveAlongXAxis (axis 1) and TryMoveAlongYAxis (axis 2): up to the first wall
\* on the way, however long the step.
MoveAlong(axis, position, delta, walls) ==
    LET target == Inside(position[axis] + delta, axis)
        beside == {w \in walls : IsBeside(w, position, axis)}
        below == {c \in {w.min[axis] - HalfExtent : w \in beside} : position[axis] <= c}
        above == {c \in {w.max[axis] + HalfExtent : w \in beside} : position[axis] >= c}
    IN  CASE delta = 0 -> position
          [] delta > 0 -> [position EXCEPT ![axis] = Min(below \cup {target})]
          [] delta < 0 -> [position EXCEPT ![axis] = Max(above \cup {target})]

MovePlayerWithWallCollision(position, keys, distance, walls) ==
    LET delta == Displacement(keys, distance)
    IN  MoveAlong(2, MoveAlong(1, position, delta[1], walls), delta[2], walls)

IsOverlapping(position, wall) ==
    \A axis \in 1 .. 2 : /\ position[axis] - HalfExtent < wall.max[axis]
                         /\ position[axis] + HalfExtent > wall.min[axis]

\* Within the world, and in no wall.
IsClear(position, walls) ==
    /\ \A axis \in 1 .. 2 : position[axis] = Inside(position[axis], axis)
    /\ \A wall \in walls : ~ IsOverlapping(position, wall)

LengthSquared(p, q) == (p[1] - q[1]) * (p[1] - q[1]) + (p[2] - q[2]) * (p[2] - q[2])
=============================================================================
