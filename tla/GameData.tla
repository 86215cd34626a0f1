------------------------------ MODULE GameData ------------------------------
(***************************************************************************)
(* The chess engine of MyIVR: class GameData with Piece and PieceType      *)
(* (Code/MyIVR/ChessFigure).  A board is the dictionary boardA, a function *)
(* from the 64 squares (row * 8 + column, row 0 is White's home row) to    *)
(* pieces.  The field Piece.position is written once and read by nobody,   *)
(* so a piece is its type and its colour.                                  *)
(*                                                                         *)
(* CanGoTo and canKill force-unwrap boardA[...]! at computed keys.  A key  *)
(* outside 0..63 has no entry, and the unwrap traps and ends the process,  *)
(* so both return one of three verdicts instead of a Bool.                 *)
(***************************************************************************)
EXTENDS Integers

Squares == 0 .. 63

PieceTypes == {"rook", "king", "knight", "queen", "bishop", "pawn", "empty"}

Colors == {"white", "black"}

Piece == [PType : PieceTypes, Color : Colors]

\* A square without a piece holds a white piece of type empty.
EmptyPiece == [PType |-> "empty", Color |-> "white"]

Boards == [Squares -> Piece]

Verdicts == {"yes", "no", "trap"}

Row(s) == s \div 8

Col(s) == s % 8

Abs(n) == IF n < 0 THEN -n ELSE n

Sgn(n) == IF n > 0 THEN 1 ELSE IF n < 0 THEN -1 ELSE 0

\* The integers from the smaller of m and n to the larger: need[0]...need[1].
Span(m, n) == IF m <= n THEN m .. n ELSE n .. m

-----------------------------------------------------------------------------
(* The initial position.  The loops of initBoardA overlap at 16, 48 and 56; *)
(* a later assignment to the same key wins.                                 *)

HomeRank == <<"rook", "knight", "bishop", "queen",
              "king", "bishop", "knight", "rook">>

InitBoardA ==
    [s \in Squares |->
        IF s >= 56 THEN [PType |-> HomeRank[s - 55], Color |-> "black"]
        ELSE IF s >= 48 THEN [PType |-> "pawn", Color |-> "black"]
        ELSE IF s >= 16 THEN EmptyPiece
        ELSE IF s >= 8 THEN [PType |-> "pawn", Color |-> "white"]
        ELSE [PType |-> HomeRank[s + 1], Color |-> "white"]]

-----------------------------------------------------------------------------
(* Moves.                                                                  *)

(***************************************************************************)
(* The loops of CanGoTo visit the keys path[i] in the order of i and       *)
(* force-unwrap each: a missing key traps, a piece on the way ends the     *)
(* loop with false, and a loop that ends returns true.                     *)
(***************************************************************************)
Walk(b, path) ==
    LET Clear(i) == path[i] \in Squares /\ b[path[i]].PType = "empty"
    IN  IF \A i \in DOMAIN path : Clear(i) THEN "yes"
        ELSE IF \E i \in DOMAIN path :
                   /\ path[i] \notin Squares
                   /\ \A k \in DOMAIN path : k < i => Clear(k)
             THEN "trap"
             ELSE "no"

\* The key used for loop index i of the rook: 0 and 8 are patched inwards.
RookKey(i) == IF i = 0 THEN 1 ELSE IF i = 8 THEN 7 ELSE i

(***************************************************************************)
(* A rook may capture through CanGoTo itself.  The squares it inspects are *)
(* the code's: down a column it looks along a diagonal, with a key that    *)
(* can pass 63; along a row it looks down the rook's own column.           *)
(***************************************************************************)
RookCanGoTo(b, p, q) ==
    IF /\ Col(p) = Col(q) \/ Row(p) = Row(q)
       /\ b[q].PType = "empty" \/ b[q].Color # b[p].Color
    THEN IF Row(p) = Row(q)
         THEN Walk(b, [i \in Span(Col(p), Col(q)) |-> RookKey(i) * 8 + Col(p)])
         ELSE Walk(b, [i \in Span(Row(p), Row(q)) |->
                          (Row(p) + RookKey(i)) * 8 + RookKey(i)])
    ELSE "no"

PawnCanGoTo_backwards(b, p, q) ==
    IF Abs(Row(p) - Row(q)) = 1 /\ b[q].PType = "empty" THEN "yes" ELSE "no"

\* The column of the target is not looked at.
PawnCanGoTo(b, p, q) ==
    LET direction == IF b[p].Color = "black" THEN -1 ELSE 1
        startRow  == IF b[p].Color = "black" THEN 6 ELSE 1
    IN  IF /\ b[q].PType = "empty"
           /\ \/ Row(p) + direction = Row(q)
              \/ startRow = Row(p) /\ Row(p) + direction * 2 = Row(q)
        THEN "yes"
        ELSE "no"

KingCanGoTo(b, p, q) == "no"

(***************************************************************************)
(* On a diagonal the queen's loop steps by sign(row - row1) and            *)
(* sign(col - col1), away from its target, so it never meets the target:   *)
(* it ends at a piece or at a missing key.  A step changes the key by 7 or *)
(* 9, so ten steps always leave 0..63.                                     *)
(***************************************************************************)
QueenSteps == 10

QueenCanGoTo(b, p, q) ==
    IF b[q].PType # "empty" THEN "no"
    ELSE IF Row(p) = Row(q)
    THEN Walk(b, [i \in Span(Col(p), Col(q)) |-> i * 8 + Col(p)])
    ELSE IF Col(p) = Col(q)
    THEN Walk(b, [i \in Span(Row(p), Row(q)) |-> Row(q) * 8 + i])
    ELSE IF Abs(Row(p) - Row(q)) = Abs(Col(p) - Col(q))
    THEN Walk(b, [k \in 1 .. QueenSteps |->
                     p + k * (8 * Sgn(Row(p) - Row(q)) + Sgn(Col(p) - Col(q)))])
    ELSE "no"

BishopCanGoTo_targetSkipped(b, p, q) ==
    IF Abs(Row(p) - Row(q)) = Abs(Col(p) - Col(q))
    THEN Walk(b, [k \in 1 .. Abs(Row(p) - Row(q)) - 1 |->
                     p + k * (8 * Sgn(Row(q) - Row(p)) + Sgn(Col(q) - Col(p)))])
    ELSE "no"

BishopCanGoTo_eitherDistance(b, p, q) ==
    IF Abs(Row(p) - Row(q)) <= Abs(Col(p) - Col(q))
    THEN Walk(b, [k \in 1 .. Abs(Row(p) - Row(q)) |->
                     p + k * (8 * Sgn(Row(q) - Row(p)) + Sgn(Col(q) - Col(p)))])
    ELSE "no"

BishopCanGoTo_awayFromTarget(b, p, q) ==
    IF p # q /\ Abs(Row(p) - Row(q)) = Abs(Col(p) - Col(q))
    THEN Walk(b, [k \in 1 .. Abs(Row(p) - Row(q)) |->
                     p - k * (8 * Sgn(Row(q) - Row(p)) + Sgn(Col(q) - Col(p)))])
    ELSE "no"

\* With p = q the loop is not entered and the answer is true.
BishopCanGoTo(b, p, q) ==
    IF Abs(Row(p) - Row(q)) = Abs(Col(p) - Col(q))
    THEN Walk(b, [k \in 1 .. Abs(Row(p) - Row(q)) |->
                     p + k * (8 * Sgn(Row(q) - Row(p)) + Sgn(Col(q) - Col(p)))])
    ELSE "no"

KnightCanGoTo_diagonal(b, p, q) ==
    IF /\ Abs(Row(p) - Row(q)) \in {1, 2}
       /\ Abs(Col(p) - Col(q)) \in {1, 2}
       /\ b[q].PType = "empty"
    THEN "yes"
    ELSE "no"

KnightCanGoTo(b, p, q) ==
    IF /\ \/ Abs(Row(p) - Row(q)) = 2 /\ Abs(Col(p) - Col(q)) = 1
          \/ Abs(Row(p) - Row(q)) = 1 /\ Abs(Col(p) - Col(q)) = 2
       /\ b[q].PType = "empty"
    THEN "yes"
    ELSE "no"

CanGoTo(b, p, q) ==
    CASE b[p].PType = "rook"   -> RookCanGoTo(b, p, q)
      [] b[p].PType = "pawn"   -> PawnCanGoTo(b, p, q)
      [] b[p].PType = "king"   -> KingCanGoTo(b, p, q)
      [] b[p].PType = "queen"  -> QueenCanGoTo(b, p, q)
      [] b[p].PType = "bishop" -> BishopCanGoTo(b, p, q)
      [] b[p].PType = "knight" -> KnightCanGoTo(b, p, q)
      [] b[p].PType = "empty"  -> "no"

canKill_colourIgnored(b, p, q) ==
    CanGoTo([b EXCEPT ![q] = EmptyPiece], p, q)

\* Try the move on a board whose target square has been emptied.
canKill(b, p, q) ==
    IF b[q].Color # b[p].Color
    THEN CanGoTo([b EXCEPT ![q] = EmptyPiece], p, q)
    ELSE "no"

\* The callers ask CanGoTo first and canKill only when it says no.
Legal(b, p, q) ==
    \/ CanGoTo(b, p, q) = "yes"
    \/ CanGoTo(b, p, q) = "no" /\ canKill(b, p, q) = "yes"

GoTo_originKept(b, p, q) == [b EXCEPT ![q] = b[p]]

\* GoTo and kill have the same effect on the board.
GoTo(b, p, q) ==
    LET placed == [b EXCEPT ![q] = b[p]]
    IN  [placed EXCEPT ![p] = EmptyPiece]

kill(b, p, q) == GoTo(b, p, q)

\* The test for a lost king: not implemented, never true.
check(position, killerPosition) == FALSE
=============================================================================
