--------------------------- MODULE GameDataProofs ---------------------------
(***************************************************************************)
(* Facts about the engine: what a board is, what GoTo does to it and what  *)
(* Legal implies for a piece of each type.  The proofs about ChessTurns    *)
(* and TwoPlayerGame rest on them.                                         *)
(***************************************************************************)
EXTENDS GameData, TLAPS

(* The board.                                                              *)

\* A square is 8 * row + column, both below 8: the encoding buttonPressed and
\* CanGoTo share.
LEMMA SquareCoordinates ==
    ASSUME NEW s \in Squares
    PROVE  /\ Row(s) \in 0 .. 7
           /\ Col(s) \in 0 .. 7
           /\ s = 8 * Row(s) + Col(s)
  BY DEF Squares, Row, Col

\* The home rank has a type for each column.
LEMMA HomeRankType ==
    ASSUME NEW k \in 1 .. 8
    PROVE  HomeRank[k] \in PieceTypes
  <1>1. k \in {1, 2, 3, 4, 5, 6, 7, 8}
    OBVIOUS
  <1> QED
    BY <1>1 DEF HomeRank, PieceTypes

\* initBoardA fills all 64 entries with pieces.
LEMMA InitBoardAType == InitBoardA \in Boards
  <1> SUFFICES ASSUME NEW s \in Squares
               PROVE  InitBoardA[s] \in Piece
    BY DEF InitBoardA, Boards
  <1>1. CASE s >= 56
    <2>1. s - 55 \in 1 .. 8
      BY <1>1 DEF Squares
    <2>2. InitBoardA[s] = [PType |-> HomeRank[s - 55], Color |-> "black"]
      BY <1>1 DEF InitBoardA
    <2> QED
      BY <2>1, <2>2, HomeRankType DEF Piece, Colors
  <1>2. CASE s < 8
    <2>1. s + 1 \in 1 .. 8
      BY <1>2 DEF Squares
    <2>2. InitBoardA[s] = [PType |-> HomeRank[s + 1], Color |-> "white"]
      BY <1>2 DEF InitBoardA, Squares
    <2> QED
      BY <2>1, <2>2, HomeRankType DEF Piece, Colors
  <1>3. CASE s >= 8 /\ s < 56
    BY <1>3 DEF InitBoardA, Squares, EmptyPiece, Piece, PieceTypes, Colors
  <1> QED
    BY <1>1, <1>2, <1>3 DEF Squares

\* What GoTo and kill leave behind, square by square: both writes, the second
\* of which wins when a bishop is sent to its own square.
LEMMA GoToEffect ==
    ASSUME NEW b \in Boards, NEW p \in Squares, NEW q \in Squares
    PROVE  /\ GoTo(b, p, q) \in Boards
           /\ GoTo(b, p, q)[p] = EmptyPiece
           /\ q # p => GoTo(b, p, q)[q] = b[p]
           /\ \A s \in Squares \ {p, q} : GoTo(b, p, q)[s] = b[s]
  <1>1. EmptyPiece \in Piece
    BY DEF EmptyPiece, Piece, PieceTypes, Colors
  <1> QED
    BY <1>1 DEF GoTo, Boards

-----------------------------------------------------------------------------
(* What Legal implies, piece by piece.                                     *)

\* The board on which canKill asks CanGoTo: the target is empty, and the
\* piece at the origin is still there because the colours differ.
LEMMA ProbeBoard ==
    ASSUME NEW b \in Boards, NEW p \in Squares, NEW q \in Squares,
           b[q].Color # b[p].Color
    PROVE  LET e == [b EXCEPT ![q] = EmptyPiece]
           IN  e \in Boards /\ e[p] = b[p] /\ p # q
  BY DEF Boards, EmptyPiece, Piece, PieceTypes, Colors

\* Legal asks CanGoTo on the board or on a board with the same piece at p.
LEMMA LegalAsksCanGoTo ==
    ASSUME NEW b \in Boards, NEW p \in Squares, NEW q \in Squares,
           Legal(b, p, q)
    PROVE  \E e \in Boards : e[p] = b[p] /\ CanGoTo(e, p, q) = "yes"
  <1>1. CASE CanGoTo(b, p, q) = "yes"
    BY <1>1
  <1>2. CASE canKill(b, p, q) = "yes"
    <2> DEFINE e == [b EXCEPT ![q] = EmptyPiece]
    <2>1. b[q].Color # b[p].Color
      BY <1>2 DEF canKill
    <2>2. CanGoTo(e, p, q) = "yes"
      BY <1>2, <2>1 DEF canKill
    <2>3. e \in Boards /\ e[p] = b[p]
      BY <2>1, ProbeBoard
    <2> HIDE DEF e
    <2> QED
      BY <2>2, <2>3
  <1> QED
    BY <1>1, <1>2 DEF Legal

\* A pawn is only accepted one or two rows ahead in its colour's direction.
LEMMA PawnForward ==
    ASSUME NEW b \in Boards, NEW p \in Squares, NEW q \in Squares,
           Legal(b, p, q), b[p].PType = "pawn"
    PROVE  IF b[p].Color = "black" THEN Row(q) < Row(p) ELSE Row(p) < Row(q)
  <1>1. PICK e \in Boards : e[p] = b[p] /\ CanGoTo(e, p, q) = "yes"
    BY LegalAsksCanGoTo
  <1>2. PawnCanGoTo(e, p, q) = "yes"
    BY <1>1 DEF CanGoTo
  <1>3. Row(p) \in Int /\ Row(q) \in Int
    BY SquareCoordinates
  <1> QED
    BY <1>1, <1>2, <1>3 DEF PawnCanGoTo

\* A bishop is only accepted along a diagonal.
LEMMA BishopDiagonal ==
    ASSUME NEW b \in Boards, NEW p \in Squares, NEW q \in Squares,
           Legal(b, p, q), b[p].PType = "bishop"
    PROVE  Abs(Row(p) - Row(q)) = Abs(Col(p) - Col(q))
  <1>1. PICK e \in Boards : e[p] = b[p] /\ CanGoTo(e, p, q) = "yes"
    BY LegalAsksCanGoTo
  <1>2. BishopCanGoTo(e, p, q) = "yes"
    BY <1>1 DEF CanGoTo
  <1> QED
    BY <1>2 DEF BishopCanGoTo

-----------------------------------------------------------------------------
(* The loop of the bishop.                                                 *)

\* The k-th key of the bishop's loop is on the board, in the row and column
\* k steps towards the target: no key of the loop is missing.
LEMMA BishopPath ==
    ASSUME NEW p \in Squares, NEW q \in Squares,
           Abs(Row(p) - Row(q)) = Abs(Col(p) - Col(q)),
           NEW k \in 0 .. Abs(Row(p) - Row(q))
    PROVE  LET s == p + k * (8 * Sgn(Row(q) - Row(p)) + Sgn(Col(q) - Col(p)))
           IN  /\ s \in Squares
               /\ Row(s) = Row(p) + k * Sgn(Row(q) - Row(p))
               /\ Col(s) = Col(p) + k * Sgn(Col(q) - Col(p))
  <1> DEFINE r == Row(p)
             c == Col(p)
             r1 == Row(q)
             c1 == Col(q)
             dr == Sgn(r1 - r)
             dc == Sgn(c1 - c)
             s == p + k * (8 * dr + dc)
  <1>1. /\ r \in 0 .. 7 /\ c \in 0 .. 7 /\ p = 8 * r + c
        /\ r1 \in 0 .. 7 /\ c1 \in 0 .. 7
    BY SquareCoordinates
  <1>2. Abs(r - r1) = Abs(c - c1) /\ k \in 0 .. Abs(r - r1)
    OBVIOUS
  <1> HIDE DEF r, c, r1, c1
  <1>3. dr \in {-1, 0, 1} /\ dc \in {-1, 0, 1}
    BY <1>1 DEF Sgn
  <1>4. r + k * dr \in 0 .. 7 /\ c + k * dc \in 0 .. 7
    BY <1>1, <1>2 DEF Sgn, Abs
  <1>5. s = 8 * (r + k * dr) + (c + k * dc)
    <2>1. k \in Int BY <1>1, <1>2 DEF Abs
    <2> HIDE DEF dr, dc
    <2> QED BY <1>1, <1>3, <2>1
  <1> HIDE DEF dr, dc, s
  <1>6. s \in Squares /\ Row(s) = r + k * dr /\ Col(s) = c + k * dc
    BY <1>4, <1>5 DEF Squares, Row, Col
  <1> QED BY <1>6 DEF r, c, r1, c1, dr, dc, s

\* The loops answer yes exactly when every key is an empty square.
LEMMA WalkYes ==
    ASSUME NEW b, NEW path
    PROVE  Walk(b, path) = "yes" <=>
               \A i \in DOMAIN path : path[i] \in Squares /\ b[path[i]].PType = "empty"
  BY DEF Walk

\* A loop whose keys are all on the board does not trap.
LEMMA WalkStays ==
    ASSUME NEW b, NEW path, \A i \in DOMAIN path : path[i] \in Squares
    PROVE  Walk(b, path) \in {"yes", "no"}
  BY DEF Walk

\* The verdict on a bishop: never a trap, and yes exactly when the squares of
\* the diagonal up to and with the target are empty.
LEMMA BishopVerdict ==
    ASSUME NEW b \in Boards, NEW p \in Squares, NEW q \in Squares
    PROVE  /\ BishopCanGoTo(b, p, q) \in {"yes", "no"}
           /\ BishopCanGoTo(b, p, q) = "yes" <=>
                 /\ Abs(Row(p) - Row(q)) = Abs(Col(p) - Col(q))
                 /\ \A k \in 1 .. Abs(Row(p) - Row(q)) :
                       b[p + k * (8 * Sgn(Row(q) - Row(p)) + Sgn(Col(q) - Col(p)))].PType
                           = "empty"
  <1> DEFINE n == Abs(Row(p) - Row(q))
             key(k) == p + k * (8 * Sgn(Row(q) - Row(p)) + Sgn(Col(q) - Col(p)))
             path == [k \in 1 .. n |-> key(k)]
  <1>1. CASE n = Abs(Col(p) - Col(q))
    <2>1. n \in Nat
      BY SquareCoordinates DEF Abs
    <2>2. \A k \in 1 .. n : key(k) \in Squares
      <3> SUFFICES ASSUME NEW k \in 1 .. n PROVE key(k) \in Squares
        OBVIOUS
      <3>1. k \in 0 .. n
        BY <2>1
      <3> QED BY <1>1, <3>1, BishopPath
    <2>3. BishopCanGoTo(b, p, q) = Walk(b, path)
      BY <1>1 DEF BishopCanGoTo
    <2> HIDE DEF key, n
    <2>4. DOMAIN path = 1 .. n /\ \A k \in 1 .. n : path[k] = key(k)
      OBVIOUS
    <2> HIDE DEF path
    <2>5. Walk(b, path) \in {"yes", "no"}
      BY <2>2, <2>4, WalkStays
    <2>6. Walk(b, path) = "yes" <=> \A k \in 1 .. n : b[key(k)].PType = "empty"
      <3>1. Walk(b, path) = "yes" <=>
                \A i \in DOMAIN path : path[i] \in Squares /\ b[path[i]].PType = "empty"
        BY WalkYes
      <3>2. ASSUME NEW i \in 1 .. n
            PROVE  path[i] \in Squares /\ path[i] = key(i)
        BY <2>2, <2>4
      <3> QED BY <2>4, <3>1, <3>2
    <2> QED BY <1>1, <2>3, <2>5, <2>6 DEF key, n
  <1>2. CASE n # Abs(Col(p) - Col(q))
    BY <1>2 DEF BishopCanGoTo
  <1> QED BY <1>1, <1>2

\* The last square of the bishop's loop is its target.
LEMMA BishopLast ==
    ASSUME NEW b \in Boards, NEW p \in Squares, NEW q \in Squares, p # q,
           BishopCanGoTo(b, p, q) = "yes"
    PROVE  b[q].PType = "empty"
  <1> DEFINE n == Abs(Row(p) - Row(q))
             s == p + n * (8 * Sgn(Row(q) - Row(p)) + Sgn(Col(q) - Col(p)))
  <1>1. n = Abs(Col(p) - Col(q)) /\ (n \in 1 .. n => b[s].PType = "empty")
    BY BishopVerdict
  <1>2. /\ Row(p) \in 0 .. 7 /\ Col(p) \in 0 .. 7 /\ p = 8 * Row(p) + Col(p)
        /\ Row(q) \in 0 .. 7 /\ Col(q) \in 0 .. 7 /\ q = 8 * Row(q) + Col(q)
    BY SquareCoordinates
  <1>3. n \in 1 .. n
    BY <1>1, <1>2 DEF Abs
  <1>4. s \in Squares /\ Row(s) = Row(q) /\ Col(s) = Col(q)
    <2>1. /\ s \in Squares
          /\ Row(s) = Row(p) + n * Sgn(Row(q) - Row(p))
          /\ Col(s) = Col(p) + n * Sgn(Col(q) - Col(p))
      BY <1>1, <1>3, BishopPath
    <2>2. ASSUME NEW x \in 0 .. 7, NEW y \in 0 .. 7
          PROVE  x + Abs(x - y) * Sgn(y - x) = y
      BY DEF Abs, Sgn
    <2>3. Row(s) = Row(q)
      BY <1>2, <2>1, <2>2
    <2>4. Col(s) = Col(q)
      BY <1>1, <1>2, <2>1, <2>2
    <2> QED BY <2>1, <2>3, <2>4
  <1>5. s = q
    BY <1>2, <1>4, SquareCoordinates
  <1> QED BY <1>1, <1>3, <1>5

\* Only the rook and the queen have loops that leave the board.
LEMMA OthersDoNotTrap ==
    ASSUME NEW b \in Boards, NEW p \in Squares, NEW q \in Squares,
           b[p].PType \notin {"rook", "queen"}
    PROVE  CanGoTo(b, p, q) # "trap" /\ canKill(b, p, q) # "trap"
  <1>1. ASSUME NEW e \in Boards, e[p].PType \notin {"rook", "queen"}
        PROVE  CanGoTo(e, p, q) # "trap"
    <2>1. e[p].PType \in {"king", "knight", "bishop", "pawn", "empty"}
      BY <1>1 DEF Boards, Piece, PieceTypes
    <2>2. CASE e[p].PType = "bishop"
      BY <2>2, BishopVerdict DEF CanGoTo
    <2>3. CASE e[p].PType \in {"king", "empty"}
      BY <2>3 DEF CanGoTo, KingCanGoTo
    <2>4. CASE e[p].PType = "knight"
      BY <2>4 DEF CanGoTo, KnightCanGoTo
    <2>5. CASE e[p].PType = "pawn"
      BY <2>5 DEF CanGoTo, PawnCanGoTo
    <2> QED BY <2>1, <2>2, <2>3, <2>4, <2>5
  <1>2. canKill(b, p, q) # "trap"
    <2>1. CASE b[q].Color # b[p].Color
      <3> DEFINE e == [b EXCEPT ![q] = EmptyPiece]
      <3>1. e \in Boards /\ e[p] = b[p]
        BY <2>1, ProbeBoard
      <3>2. canKill(b, p, q) = CanGoTo(e, p, q)
        BY <2>1 DEF canKill
      <3> HIDE DEF e
      <3> QED BY <1>1, <3>1, <3>2
    <2>2. CASE b[q].Color = b[p].Color
      BY <2>2 DEF canKill
    <2> QED BY <2>1, <2>2
  <1> QED BY <1>1, <1>2

-----------------------------------------------------------------------------
(* The target.                                                             *)

\* CanGoTo accepts an empty target; only a rook is also accepted on a piece of
\* the other colour.
LEMMA TargetOfCanGoTo ==
    ASSUME NEW b \in Boards, NEW p \in Squares, NEW q \in Squares, p # q,
           CanGoTo(b, p, q) = "yes"
    PROVE  b[q].PType = "empty" \/ b[q].Color # b[p].Color
  <1>1. b[p].PType \in PieceTypes
    BY DEF Boards, Piece
  <1>2. CASE b[p].PType = "rook"
    BY <1>2 DEF CanGoTo, RookCanGoTo
  <1>3. CASE b[p].PType = "pawn"
    BY <1>3 DEF CanGoTo, PawnCanGoTo
  <1>4. CASE b[p].PType \in {"king", "empty"}
    BY <1>4 DEF CanGoTo, KingCanGoTo
  <1>5. CASE b[p].PType = "queen"
    BY <1>5 DEF CanGoTo, QueenCanGoTo
  <1>6. CASE b[p].PType = "knight"
    BY <1>6 DEF CanGoTo, KnightCanGoTo
  <1>7. CASE b[p].PType = "bishop"
    <2>1. BishopCanGoTo(b, p, q) = "yes"
      BY <1>7 DEF CanGoTo
    <2> QED BY <2>1, BishopLast
  <1> QED BY <1>1, <1>2, <1>3, <1>4, <1>5, <1>6, <1>7 DEF PieceTypes

\* An accepted target is empty or of the other colour.
LEMMA TargetOfLegal ==
    ASSUME NEW b \in Boards, NEW p \in Squares, NEW q \in Squares, p # q,
           Legal(b, p, q)
    PROVE  b[q].PType = "empty" \/ b[q].Color # b[p].Color
  BY TargetOfCanGoTo DEF Legal, canKill
=============================================================================
