----------------------------- MODULE ChessTurns -----------------------------
(***************************************************************************)
(* What the two-player game promises, one atomic move at a time: the side  *)
(* to move picks one of its pieces and a square the engine accepts, the    *)
(* board changes by exactly that move, the counter goes up and the turn    *)
(* passes.  TwoPlayerGame is the threaded program that implements it.      *)
(***************************************************************************)
EXTENDS GameData, FiniteSets

CONSTANTS Touched,   \* the squares a player may choose
          MaxMoves   \* bound: the number of moves of a game

ASSUME TouchedAssumption == Touched \subseteq Squares
ASSUME MaxMovesAssumption == MaxMoves \in Nat

VARIABLES position,  \* the board between two moves
          color,     \* the side to move: 0 is white, 1 is black
          moves      \* the number of moves made

vars == <<position, color, moves>>

Side(c) == IF c = 1 THEN "black" ELSE "white"

\* The player may pick up a piece of the side to move.
Selectable(b, c, p) == b[p].PType # "empty" /\ b[p].Color = Side(c)

Init ==
    /\ position = InitBoardA
    /\ color = 0
    /\ moves = 0

Move_signDropped(p, q) ==
    /\ moves < MaxMoves /\ moves' = moves + 1
    /\ Selectable(position, color, p)
    /\ Legal(position, p, q)
    /\ position' = GoTo(position, p, q)
    /\ color' = color - 1

Move(p, q) ==
    /\ moves < MaxMoves /\ moves' = moves + 1
    /\ Selectable(position, color, p)
    /\ Legal(position, p, q)
    /\ position' = GoTo(position, p, q)
    /\ color' = Abs(color - 1)

Next == \E p, q \in Touched : Move(p, q)

Spec == Init /\ [][Next]_vars

-----------------------------------------------------------------------------
(* Properties.                                                             *)

\* The board always has an entry for each of the 64 squares, so the direct
\* lookups boardA[position]! and boardA[nextPosition]! cannot trap, and the
\* counter and the turn stay in their ranges.
TypeOK ==
    /\ position \in Boards
    /\ color \in {0, 1}
    /\ moves \in 0 .. MaxMoves

\* No pawn ever stands behind the row it started from, whatever the order of
\* moves and captures: the direction in CanGoTo follows the colour.
PawnsNeverRetreat ==
    \A s \in Squares :
        position[s].PType = "pawn" =>
            IF position[s].Color = "white" THEN Row(s) >= 1 ELSE Row(s) <= 6

SquareShade(s) == (Row(s) + Col(s)) % 2

\* The two bishops of a side never share a shade of squares: every move and
\* every capture the bishop loop accepts is diagonal.
BishopsKeepTheirShade ==
    \A s, t \in Squares :
        /\ position[s].PType = "bishop"
        /\ position[t] = position[s]
        /\ SquareShade(s) = SquareShade(t)
        => s = t

Occupied(b, c) == {s \in Squares : b[s].PType # "empty" /\ b[s].Color = c}

Count(b, c) == Cardinality(Occupied(b, c))

\* The mover's bishop was sent to the square it stood on: CanGoTo's loop is not
\* entered and answers true, and GoTo's second write deletes the piece.
BishopDeletesItself ==
    \E s \in Squares :
        /\ position[s] = [PType |-> "bishop", Color |-> Side(color)]
        /\ position' = [position EXCEPT ![s] = EmptyPiece]

\* A move takes at most one piece from the opponent, and the mover has as many
\* pieces after it as before, unless it sent a bishop to its own square: GoTo
\* and kill empty the origin and overwrite one target, which no other piece of
\* the mover holds, whichever of CanGoTo and canKill accepted it.
MaterialNeverGrows ==
    [][LET mine   == Side(color)
           theirs == Side(Abs(color - 1))
       IN  /\ Count(position', theirs) \in
                  {Count(position, theirs) - 1, Count(position, theirs)}
           /\ \/ Count(position', mine) = Count(position, mine)
              \/ BishopDeletesItself]_vars
=============================================================================
