-------------------------- MODULE ChessTurnsProofs --------------------------
(***************************************************************************)
(* Theorems about ChessTurns and RuleBook, for every set of touched        *)
(* squares and every length of the game.  Each invariant of ChessTurns is  *)
(* preserved because of one fact about the engine: what a piece of its     *)
(* type must satisfy for Legal to hold.  GameDataProofs has those facts.   *)
(* The last part shows where the engine agrees with the rules of chess.    *)
(***************************************************************************)
EXTENDS RuleBook, GameDataProofs, FiniteSetTheorems

\* A diagonal keeps the shade of the square.
LEMMA DiagonalKeepsShade ==
    ASSUME NEW p \in Squares, NEW q \in Squares,
           Abs(Row(p) - Row(q)) = Abs(Col(p) - Col(q))
    PROVE  SquareShade(p) = SquareShade(q)
  <1> DEFINE r == Row(p)
             c == Col(p)
             r1 == Row(q)
             c1 == Col(q)
  <1>1. r \in 0 .. 7 /\ c \in 0 .. 7 /\ r1 \in 0 .. 7 /\ c1 \in 0 .. 7
    BY SquareCoordinates
  <1>2. Abs(r - r1) = Abs(c - c1)
    OBVIOUS
  <1> HIDE DEF r, c, r1, c1
  <1>3. r - r1 = c - c1 \/ r - r1 = c1 - c
    BY <1>1, <1>2 DEF Abs
  <1>4. (r + c) % 2 = (r1 + c1) % 2
    <2>1. CASE r - r1 = c - c1
      BY <1>1, <2>1
    <2>2. CASE r - r1 = c1 - c
      <3>1. r + c = r1 + c1
        BY <1>1, <2>2
      <3> QED
        BY <3>1
    <2> QED
      BY <1>3, <2>1, <2>2
  <1> QED
    BY <1>4 DEF SquareShade, r, c, r1, c1

-----------------------------------------------------------------------------
(* The invariants of a game.                                               *)

\* The 64 entries of the board, the turn and the counter keep their types
\* through every move and capture of the two-player game.
THEOREM TypeCorrect == Spec => []TypeOK
  <1>1. Init => TypeOK
    BY InitBoardAType, MaxMovesAssumption DEF Init, TypeOK
  <1>2. TypeOK /\ [Next]_vars => TypeOK'
    <2> SUFFICES ASSUME TypeOK, [Next]_vars
                 PROVE  TypeOK'
      OBVIOUS
    <2>1. ASSUME NEW p \in Touched, NEW q \in Touched, Move(p, q)
          PROVE  TypeOK'
      <3>1. p \in Squares /\ q \in Squares
        BY TouchedAssumption
      <3>2. position' \in Boards
        BY <2>1, <3>1, GoToEffect DEF Move, TypeOK
      <3>3. color' \in {0, 1}
        BY <2>1 DEF Move, TypeOK, Abs
      <3>4. moves' \in 0 .. MaxMoves
        BY <2>1, MaxMovesAssumption DEF Move, TypeOK
      <3> QED
        BY <3>2, <3>3, <3>4 DEF TypeOK
    <2>2. CASE UNCHANGED vars
      BY <2>2 DEF TypeOK, vars
    <2> QED
      BY <2>1, <2>2 DEF Next
  <1> QED
    BY <1>1, <1>2, PTL DEF Spec

\* A move as the invariants see it: both squares are on the board, the origin
\* held a piece the engine accepts, and the new position is GoTo's.
LEMMA MoveFacts ==
    ASSUME TypeOK, NEW p \in Touched, NEW q \in Touched, Move(p, q)
    PROVE  /\ p \in Squares /\ q \in Squares
           /\ position \in Boards
           /\ Legal(position, p, q)
           /\ position' = GoTo(position, p, q)
           /\ \A s \in Squares :
                \/ position'[s] = EmptyPiece
                \/ s = q /\ position'[s] = position[p]
                \/ s \notin {p, q} /\ position'[s] = position[s]
  <1>1. p \in Squares /\ q \in Squares
    BY TouchedAssumption
  <1>2. position \in Boards
    BY DEF TypeOK
  <1>3. Legal(position, p, q) /\ position' = GoTo(position, p, q)
    BY DEF Move
  <1>4. /\ GoTo(position, p, q)[p] = EmptyPiece
        /\ q # p => GoTo(position, p, q)[q] = position[p]
        /\ \A s \in Squares \ {p, q} : GoTo(position, p, q)[s] = position[s]
    BY <1>1, <1>2, GoToEffect
  <1>5. ASSUME NEW s \in Squares
        PROVE  \/ position'[s] = EmptyPiece
               \/ s = q /\ position'[s] = position[p]
               \/ s \notin {p, q} /\ position'[s] = position[s]
    <2>1. CASE s = p
      BY <1>3, <1>4, <2>1
    <2>2. CASE s # p /\ s = q
      BY <1>3, <1>4, <2>2
    <2>3. CASE s \notin {p, q}
      BY <1>3, <1>4, <2>3
    <2> QED
      BY <2>1, <2>2, <2>3
  <1> QED
    BY <1>1, <1>2, <1>3, <1>5

\* An empty square holds no pawn or bishop.
LEMMA EmptyPieceType == EmptyPiece.PType = "empty"
  BY DEF EmptyPiece

\* No pawn gets behind the row it started from, in every game of any length:
\* each accepted move or capture of a pawn goes forward.
THEOREM PawnsAdvance == Spec => []PawnsNeverRetreat
  <1>1. Init => PawnsNeverRetreat
    <2> SUFFICES ASSUME NEW s \in Squares, InitBoardA[s].PType = "pawn"
                 PROVE  IF InitBoardA[s].Color = "white" THEN Row(s) >= 1
                                                         ELSE Row(s) <= 6
      BY DEF Init, PawnsNeverRetreat
    <2>1. CASE s >= 56
      <3>1. s \in {56, 57, 58, 59, 60, 61, 62, 63}
        BY <2>1 DEF Squares
      <3> QED
        BY <3>1 DEF InitBoardA, HomeRank, Squares
    <2>2. CASE s < 8
      <3>1. s \in {0, 1, 2, 3, 4, 5, 6, 7}
        BY <2>2 DEF Squares
      <3> QED
        BY <3>1 DEF InitBoardA, HomeRank, Squares
    <2>3. CASE s >= 8 /\ s < 56
      BY <2>3, SquareCoordinates DEF InitBoardA, EmptyPiece, Squares
    <2> QED
      BY <2>1, <2>2, <2>3 DEF Squares
  <1>2. TypeOK /\ PawnsNeverRetreat /\ [Next]_vars => PawnsNeverRetreat'
    <2> SUFFICES ASSUME TypeOK, PawnsNeverRetreat, [Next]_vars
                 PROVE  PawnsNeverRetreat'
      OBVIOUS
    <2>1. ASSUME NEW p \in Touched, NEW q \in Touched, Move(p, q)
          PROVE  PawnsNeverRetreat'
      <3> SUFFICES ASSUME NEW s \in Squares, position'[s].PType = "pawn"
                   PROVE  IF position'[s].Color = "white" THEN Row(s) >= 1
                                                          ELSE Row(s) <= 6
        BY DEF PawnsNeverRetreat
      <3>1. p \in Squares /\ q \in Squares /\ position \in Boards
            /\ Legal(position, p, q)
        BY <2>1, MoveFacts
      <3>2. CASE s = q /\ position'[s] = position[p]
        <4>1. position[p].PType = "pawn" /\ position[p].Color \in {"white", "black"}
          BY <3>1, <3>2 DEF Boards, Piece, Colors
        <4>2. IF position[p].Color = "black" THEN Row(q) < Row(p) ELSE Row(p) < Row(q)
          BY <3>1, <4>1, PawnForward
        <4>3. IF position[p].Color = "white" THEN Row(p) >= 1 ELSE Row(p) <= 6
          BY <3>1, <4>1 DEF PawnsNeverRetreat
        <4>4. Row(p) \in 0 .. 7 /\ Row(q) \in 0 .. 7
          BY <3>1, SquareCoordinates
        <4> QED
          BY <3>2, <4>1, <4>2, <4>3, <4>4
      <3>3. CASE s \notin {p, q} /\ position'[s] = position[s]
        BY <3>3 DEF PawnsNeverRetreat
      <3> QED
        BY <2>1, <3>2, <3>3, MoveFacts, EmptyPieceType
    <2>2. CASE UNCHANGED vars
      BY <2>2 DEF PawnsNeverRetreat, vars
    <2> QED
      BY <2>1, <2>2 DEF Next
  <1> QED
    BY <1>1, <1>2, TypeCorrect, PTL DEF Spec

\* The two bishops of a side never stand on squares of one shade, in every
\* game of any length: each accepted move of a bishop is diagonal.
THEOREM BishopsKeepShade == Spec => []BishopsKeepTheirShade
  <1>1. Init => BishopsKeepTheirShade
    <2> SUFFICES ASSUME NEW s \in Squares, NEW t \in Squares,
                        InitBoardA[s].PType = "bishop",
                        InitBoardA[t] = InitBoardA[s],
                        SquareShade(s) = SquareShade(t)
                 PROVE  s = t
      BY DEF Init, BishopsKeepTheirShade
    <2>1. ASSUME NEW u \in Squares, InitBoardA[u].PType = "bishop"
          PROVE  \/ u \in {2, 5} /\ InitBoardA[u].Color = "white"
                 \/ u \in {58, 61} /\ InitBoardA[u].Color = "black"
      <3>1. CASE u >= 56
        <4>1. u \in {56, 57, 58, 59, 60, 61, 62, 63}
          BY <3>1 DEF Squares
        <4> QED
          BY <2>1, <4>1 DEF InitBoardA, HomeRank, Squares
      <3>2. CASE u < 8
        <4>1. u \in {0, 1, 2, 3, 4, 5, 6, 7}
          BY <3>2 DEF Squares
        <4> QED
          BY <2>1, <4>1 DEF InitBoardA, HomeRank, Squares
      <3>3. CASE u >= 8 /\ u < 56
        BY <2>1, <3>3 DEF InitBoardA, EmptyPiece, Squares
      <3> QED
        BY <3>1, <3>2, <3>3 DEF Squares
    <2>2. SquareShade(2) # SquareShade(5) /\ SquareShade(58) # SquareShade(61)
      BY DEF SquareShade, Row, Col
    <2> QED
      BY <2>1, <2>2
  <1>2. TypeOK /\ BishopsKeepTheirShade /\ [Next]_vars => BishopsKeepTheirShade'
    <2> SUFFICES ASSUME TypeOK, BishopsKeepTheirShade, [Next]_vars
                 PROVE  BishopsKeepTheirShade'
      OBVIOUS
    <2>1. ASSUME NEW p \in Touched, NEW q \in Touched, Move(p, q)
          PROVE  BishopsKeepTheirShade'
      <3> SUFFICES ASSUME NEW s \in Squares, NEW t \in Squares,
                          position'[s].PType = "bishop",
                          position'[t] = position'[s],
                          SquareShade(s) = SquareShade(t)
                   PROVE  s = t
        BY DEF BishopsKeepTheirShade
      <3>1. p \in Squares /\ q \in Squares /\ position \in Boards
            /\ Legal(position, p, q)
        BY <2>1, MoveFacts
      \* Before the move the bishop on u stood on a square of u's shade.
      <3>2. ASSUME NEW u \in Squares, position'[u].PType = "bishop"
            PROVE  LET v == IF u = q THEN p ELSE u
                   IN  /\ position[v] = position'[u]
                       /\ SquareShade(v) = SquareShade(u)
                       /\ v \in Squares
                       /\ u # q => u # p
        <4>1. CASE u = q /\ position'[u] = position[p]
          <5>1. Abs(Row(p) - Row(q)) = Abs(Col(p) - Col(q))
            BY <3>1, <3>2, <4>1, BishopDiagonal
          <5>2. SquareShade(p) = SquareShade(q)
            BY <3>1, <5>1, DiagonalKeepsShade
          <5> QED
            BY <3>1, <4>1, <5>2
        <4>2. CASE u \notin {p, q} /\ position'[u] = position[u]
          BY <4>2
        <4> QED
          BY <2>1, <3>2, <4>1, <4>2, MoveFacts, EmptyPieceType
      <3> DEFINE v == IF s = q THEN p ELSE s
                 w == IF t = q THEN p ELSE t
      <3>3. /\ position[v] = position'[s] /\ SquareShade(v) = SquareShade(s)
            /\ v \in Squares /\ (s # q => s # p)
        BY <3>2
      <3>4. /\ position[w] = position'[t] /\ SquareShade(w) = SquareShade(t)
            /\ w \in Squares /\ (t # q => t # p)
        BY <3>2
      <3>5. v = w
        BY <3>3, <3>4 DEF BishopsKeepTheirShade
      <3> QED
        BY <3>3, <3>4, <3>5
    <2>2. CASE UNCHANGED vars
      BY <2>2 DEF BishopsKeepTheirShade, vars
    <2> QED
      BY <2>1, <2>2 DEF Next
  <1> QED
    BY <1>1, <1>2, TypeCorrect, PTL DEF Spec

-----------------------------------------------------------------------------
(* Material.                                                               *)

\* Each side's pieces stand on finitely many squares.
LEMMA OccupiedFinite ==
    ASSUME NEW b, NEW c
    PROVE  IsFiniteSet(Occupied(b, c))
  <1>1. IsFiniteSet(Squares)
    <2>1. 0 \in Int /\ 63 \in Int
      OBVIOUS
    <2> QED BY <2>1, FS_Interval, Zenon DEF Squares
  <1>2. Occupied(b, c) \in SUBSET Squares
    BY DEF Occupied
  <1> QED BY <1>1, <1>2, FS_Subset

\* The only piece that is accepted on its own square is a bishop.
LEMMA OwnSquare ==
    ASSUME NEW b \in Boards, NEW p \in Squares, b[p].PType # "empty", Legal(b, p, p)
    PROVE  b[p].PType = "bishop"
  <1>1. CanGoTo(b, p, p) = "yes"
    BY DEF Legal, canKill
  <1>2. b[p].PType \in PieceTypes
    BY DEF Boards, Piece
  <1>3. Row(p) \in Int /\ Col(p) \in Int
    BY SquareCoordinates
  <1>4. CASE b[p].PType = "rook"
    BY <1>1, <1>4 DEF CanGoTo, RookCanGoTo
  <1>5. CASE b[p].PType = "pawn"
    BY <1>1, <1>5 DEF CanGoTo, PawnCanGoTo
  <1>6. CASE b[p].PType = "king"
    BY <1>1, <1>6 DEF CanGoTo, KingCanGoTo
  <1>7. CASE b[p].PType = "queen"
    BY <1>1, <1>7 DEF CanGoTo, QueenCanGoTo
  <1>8. CASE b[p].PType = "knight"
    BY <1>1, <1>8 DEF CanGoTo, KnightCanGoTo
  <1> QED BY <1>2, <1>4, <1>5, <1>6, <1>7, <1>8 DEF PieceTypes

\* What a move does to the squares of the two sides: the mover leaves p for q,
\* or loses the bishop it sent to its own square; the other side loses q.
LEMMA OccupiedAfterMove ==
    ASSUME NEW p \in Touched, NEW q \in Touched, Move(p, q), TypeOK
    PROVE  LET mine   == Side(color)
               theirs == Side(Abs(color - 1))
               B == Occupied(position, mine)
               A == Occupied(position', mine)
           IN  /\ \/ A = (B \ {p}) \cup {q} /\ p \in B /\ q \notin B
                  \/ BishopDeletesItself
               /\ Occupied(position', theirs) = Occupied(position, theirs) \ {q}
  <1> DEFINE mine   == Side(color)
             theirs == Side(Abs(color - 1))
  <1>1. /\ p \in Squares /\ q \in Squares /\ position \in Boards
        /\ Legal(position, p, q)
        /\ position[p].PType # "empty" /\ position[p].Color = mine
        /\ position' = GoTo(position, p, q)
    BY TouchedAssumption DEF Move, TypeOK, Selectable
  <1>2. /\ position'[p] = EmptyPiece
        /\ q # p => position'[q] = position[p]
        /\ \A s \in Squares \ {p, q} : position'[s] = position[s]
    BY <1>1, GoToEffect
  <1>3. mine # theirs
    BY DEF TypeOK, Side, Abs
  <1> HIDE DEF mine, theirs
  <1>4. ASSUME NEW c
        PROVE  /\ p \notin Occupied(position', c)
               /\ \A s \in Squares \ {p, q} :
                     s \in Occupied(position', c) <=> s \in Occupied(position, c)
               /\ Occupied(position', c) \subseteq Squares
               /\ Occupied(position, c) \subseteq Squares
    BY <1>2, EmptyPieceType DEF Occupied
  <1>5. ASSUME p = q
        PROVE  BishopDeletesItself
    <2>1. position[p].PType = "bishop"
      BY <1>1, <1>5, OwnSquare
    <2>2. position[p] = [PType |-> "bishop", Color |-> mine]
      BY <1>1, <2>1 DEF Boards, Piece
    <2>3. position' = [position EXCEPT ![p] = EmptyPiece]
      BY <1>1, <1>5 DEF GoTo, Boards
    <2> QED BY <1>1, <2>2, <2>3 DEF BishopDeletesItself, mine
  <1>6. ASSUME p # q
        PROVE  LET B == Occupied(position, mine)
                   A == Occupied(position', mine)
               IN  A = (B \ {p}) \cup {q} /\ p \in B /\ q \notin B
    <2> DEFINE B == Occupied(position, mine)
               A == Occupied(position', mine)
    <2>1. q \notin B
      BY <1>1, <1>6, TargetOfLegal DEF Occupied
    <2>2. q \in A /\ p \in B
      BY <1>1, <1>2, <1>6 DEF Occupied
    <2>3. /\ p \notin A /\ A \subseteq Squares /\ B \subseteq Squares
          /\ \A s \in Squares \ {p, q} : s \in A <=> s \in B
      BY <1>4
    <2>4. A = (B \ {p}) \cup {q}
      <3> HIDE DEF A, B
      <3> QED BY <1>1, <1>6, <2>2, <2>3
    <2> QED BY <2>1, <2>2, <2>4
  <1>7. Occupied(position', theirs) = Occupied(position, theirs) \ {q}
    <2> DEFINE B == Occupied(position, theirs)
               A == Occupied(position', theirs)
    <2>1. p \notin B
      BY <1>1, <1>3 DEF Occupied
    <2>2. q \notin A
      BY <1>1, <1>2, <1>3, <1>4 DEF Occupied
    <2>3. /\ p \notin A /\ A \subseteq Squares /\ B \subseteq Squares
          /\ \A s \in Squares \ {p, q} : s \in A <=> s \in B
      BY <1>4
    <2> HIDE DEF A, B
    <2>4. A = B \ {q}
      BY <2>1, <2>2, <2>3
    <2> QED BY <2>4 DEF A, B
  <1> QED BY <1>5, <1>6, <1>7 DEF mine, theirs

\* In every game a move takes at most one piece from the opponent, and nothing
\* from the mover but a bishop sent to its own square: GoTo and kill write two
\* squares, and an accepted target never holds another piece of the mover.
THEOREM MaterialShrinks == Spec => MaterialNeverGrows
  <1> DEFINE Kept ==
        LET mine   == Side(color)
            theirs == Side(Abs(color - 1))
        IN  /\ Count(position', theirs) \in
                   {Count(position, theirs) - 1, Count(position, theirs)}
            /\ \/ Count(position', mine) = Count(position, mine)
               \/ BishopDeletesItself
  <1>1. ASSUME TypeOK, NEW p \in Touched, NEW q \in Touched, Move(p, q)
        PROVE  Kept
    <2> DEFINE mine   == Side(color)
               theirs == Side(Abs(color - 1))
               B == Occupied(position, mine)
               A == Occupied(position', mine)
               O == Occupied(position, theirs)
    <2>1. /\ \/ A = (B \ {p}) \cup {q} /\ p \in B /\ q \notin B
             \/ BishopDeletesItself
          /\ Occupied(position', theirs) = O \ {q}
      BY <1>1, OccupiedAfterMove
    <2>2. IsFiniteSet(B) /\ Cardinality(B) \in Nat
      BY OccupiedFinite, FS_CardinalityType
    <2>3. IsFiniteSet(O) /\ Cardinality(O) \in Nat
      BY OccupiedFinite, FS_CardinalityType
    <2>4. Count(position', theirs) \in
              {Count(position, theirs) - 1, Count(position, theirs)}
      <3> HIDE DEF O
      <3>1. Cardinality(O \ {q}) \in {Cardinality(O) - 1, Cardinality(O)}
        BY <2>3, FS_RemoveElement
      <3> QED BY <2>1, <3>1 DEF Count, O
    <2>5. CASE A = (B \ {p}) \cup {q} /\ p \in B /\ q \notin B
      <3> HIDE DEF A, B
      <3>1. IsFiniteSet(B \ {p}) /\ Cardinality(B \ {p}) = Cardinality(B) - 1
        BY <2>2, <2>5, FS_RemoveElement
      <3>2. Cardinality((B \ {p}) \cup {q}) = Cardinality(B \ {p}) + 1
        BY <2>5, <3>1, FS_AddElement
      <3>3. Cardinality(A) = Cardinality(B \ {p}) + 1
        BY <2>5, <3>2, Zenon
      <3>4. Cardinality(A) = Cardinality(B)
        BY <2>2, <3>1, <3>3
      <3> QED BY <2>4, <3>4 DEF Count, A, B
    <2> QED BY <2>1, <2>4, <2>5
  <1>2. TypeOK /\ [Next]_vars => [Kept]_vars
    BY <1>1 DEF Next
  <1> QED BY <1>2, TypeCorrect, PTL DEF Spec, MaterialNeverGrows

-----------------------------------------------------------------------------
(* The engine and the rules of chess.  The facts are about every board, not *)
(* only those a game reaches: TypeOK is all the theorems need of Spec.      *)

\* The distance between two rows or columns has no direction.
LEMMA AbsSymmetric ==
    ASSUME NEW x \in Int, NEW y \in Int
    PROVE  Abs(x - y) = Abs(y - x) /\ Abs(x - y) \in Nat
  BY DEF Abs

\* Legal, spelled out for a piece whose CanGoTo never traps and accepts only an
\* empty target: the geometry may be asked on the board itself for a move and
\* on the probe board for a capture.
LEMMA LegalOfOthers ==
    ASSUME NEW b \in Boards, NEW p \in Squares, NEW q \in Squares, p # q,
           b[p].PType \in {"bishop", "knight"}
    PROVE  LET e == [b EXCEPT ![q] = EmptyPiece]
           IN  Legal(b, p, q) <=>
                   \/ CanGoTo(b, p, q) = "yes"
                   \/ b[q].Color # b[p].Color /\ CanGoTo(e, p, q) = "yes"
  <1>1. CanGoTo(b, p, q) \in {"yes", "no"}
    <2>1. CASE b[p].PType = "bishop"
      BY <2>1, BishopVerdict DEF CanGoTo
    <2>2. CASE b[p].PType = "knight"
      BY <2>2 DEF CanGoTo, KnightCanGoTo
    <2> QED BY <2>1, <2>2
  <1> QED BY <1>1 DEF Legal, canKill

\* A knight's jump, as the code measures it and as the rules state it.
LEMMA KnightJump ==
    ASSUME NEW p \in Squares, NEW q \in Squares
    PROVE  {Abs(Rise(p, q)), Abs(Run(p, q))} = {1, 2} <=>
               \/ Abs(Row(p) - Row(q)) = 2 /\ Abs(Col(p) - Col(q)) = 1
               \/ Abs(Row(p) - Row(q)) = 1 /\ Abs(Col(p) - Col(q)) = 2
  <1> DEFINE x == Abs(Row(p) - Row(q))
             y == Abs(Col(p) - Col(q))
  <1>1. /\ Row(p) \in Int /\ Row(q) \in Int
        /\ Col(p) \in Int /\ Col(q) \in Int
    BY SquareCoordinates
  <1>2. Abs(Rise(p, q)) = x /\ Abs(Run(p, q)) = y /\ x \in Nat /\ y \in Nat
    BY <1>1, AbsSymmetric DEF Rise, Run
  <1> HIDE DEF x, y
  <1>3. {x, y} = {1, 2} <=> (x = 2 /\ y = 1) \/ (x = 1 /\ y = 2)
    BY <1>2
  <1> QED BY <1>2, <1>3 DEF x, y

\* On every board the engine accepts exactly a knight's moves and captures.
LEMMA KnightRule ==
    ASSUME NEW b \in Boards, NEW p \in Squares, NEW q \in Squares, p # q,
           b[p].PType = "knight"
    PROVE  Legal(b, p, q) <=> Rule(b, p, q)
  <1> DEFINE e == [b EXCEPT ![q] = EmptyPiece]
             G == {Abs(Rise(p, q)), Abs(Run(p, q))} = {1, 2}
  <1>1. CanGoTo(b, p, q) = "yes" <=> G /\ b[q].PType = "empty"
    BY KnightJump DEF CanGoTo, KnightCanGoTo
  <1>2. e[p] = b[p] /\ e[q].PType = "empty"
    BY DEF Boards, EmptyPiece
  <1> HIDE DEF e
  <1>3. CanGoTo(e, p, q) = "yes" <=> G
    BY <1>2, KnightJump DEF CanGoTo, KnightCanGoTo
  <1>4. Legal(b, p, q) <=>
            \/ CanGoTo(b, p, q) = "yes"
            \/ b[q].Color # b[p].Color /\ CanGoTo(e, p, q) = "yes"
    BY LegalOfOthers DEF e
  <1>5. Rule(b, p, q) <=> G /\ Landing(b, p, q)
    BY DEF Rule
  <1> HIDE DEF G
  <1> QED BY <1>1, <1>3, <1>4, <1>5 DEF Landing, Enemies

\* Two displacements of the board with the same multiple are equal.
LEMMA Cancel ==
    ASSUME NEW x \in -7 .. 7, NEW y \in -7 .. 7, NEW d \in -7 .. 7, d # 0,
           x * d = y * d
    PROVE  x = y
  OBVIOUS

\* The squares of the bishop's loop are those of the segment: the keys before
\* the last are the squares between, and the last is the target.
LEMMA BishopSegment ==
    ASSUME NEW p \in Squares, NEW q \in Squares, p # q,
           Abs(Row(p) - Row(q)) = Abs(Col(p) - Col(q))
    PROVE  LET n == Abs(Row(p) - Row(q))
               key(k) == p + k * (8 * Sgn(Row(q) - Row(p)) + Sgn(Col(q) - Col(p)))
           IN  /\ n \in Nat /\ n > 0
               /\ key(n) = q
               /\ \A k \in 1 .. n - 1 : key(k) \in Between(p, q)
               /\ \A s \in Between(p, q) : \E k \in 1 .. n - 1 : s = key(k)
  <1> DEFINE n == Abs(Row(p) - Row(q))
             dr == Sgn(Row(q) - Row(p))
             dc == Sgn(Col(q) - Col(p))
             key(k) == p + k * (8 * dr + dc)
             r == Row(p)
             c == Col(p)
             r1 == Row(q)
             c1 == Col(q)
  <1>1. /\ r \in 0 .. 7 /\ c \in 0 .. 7 /\ p = 8 * r + c
        /\ r1 \in 0 .. 7 /\ c1 \in 0 .. 7 /\ q = 8 * r1 + c1
    BY SquareCoordinates
  <1>2. n = Abs(c - c1) /\ n = Abs(r - r1) /\ dr = Sgn(r1 - r) /\ dc = Sgn(c1 - c)
    OBVIOUS
  <1>3. ASSUME NEW k \in 0 .. n
        PROVE  /\ key(k) \in Squares
               /\ Row(key(k)) = r + k * dr
               /\ Col(key(k)) = c + k * dc
    BY <1>3, BishopPath
  <1> HIDE DEF r, c, r1, c1, dr, dc, n
  <1>4. n \in 1 .. 7 /\ dr \in {-1, 1} /\ dc \in {-1, 1}
    BY <1>1, <1>2 DEF Abs, Sgn
  <1>5. r1 = r + n * dr /\ c1 = c + n * dc
    BY <1>1, <1>2 DEF Abs, Sgn
  <1>6. Rise(p, q) = n * dr /\ Run(p, q) = n * dc
    BY <1>1, <1>4, <1>5 DEF Rise, Run, r, c, r1, c1
  <1>7. key(n) = q
    <2>1. key(n) \in Squares /\ Row(key(n)) = r1 /\ Col(key(n)) = c1
      BY <1>3, <1>4, <1>5
    <2> HIDE DEF key
    <2>2. key(n) = 8 * Row(key(n)) + Col(key(n))
      BY <2>1, SquareCoordinates
    <2> QED BY <1>1, <2>1, <2>2
  <1>8. ASSUME NEW k \in 1 .. n - 1
        PROVE  key(k) \in Between(p, q)
    <2>1. /\ key(k) \in Squares
          /\ Row(key(k)) = r + k * dr /\ Col(key(k)) = c + k * dc
      BY <1>3, <1>4
    <2> HIDE DEF key
    <2>2. Row(key(k)) \in Span(r, r1) /\ Col(key(k)) \in Span(c, c1)
      BY <1>1, <1>4, <1>5, <2>1 DEF Span
    <2>3. key(k) # p /\ key(k) # q
      <3>1. Row(key(k)) # r /\ Row(key(k)) # r1
        BY <1>1, <1>4, <1>5, <2>1
      <3> QED BY <3>1 DEF r, r1
    <2>4. Rise(p, key(k)) = k * dr /\ Run(p, key(k)) = k * dc
      BY <1>1, <1>4, <2>1 DEF Rise, Run, r, c
    <2>5. (k * dr) * (n * dc) = (k * dc) * (n * dr)
      BY <1>4
    <2> QED BY <1>6, <2>1, <2>2, <2>3, <2>4, <2>5 DEF Between, r, c, r1, c1
  <1>9. ASSUME NEW s \in Between(p, q)
        PROVE  \E k \in 1 .. n - 1 : s = key(k)
    <2> DEFINE x == Row(s) - r
               y == Col(s) - c
    <2>1. /\ s \in Squares /\ s # p /\ s # q
          /\ Row(s) \in Span(r, r1) /\ Col(s) \in Span(c, c1)
          /\ x * (n * dc) = y * (n * dr)
      BY <1>6 DEF Between, Rise, Run, r, c, r1, c1
    <2>2. /\ Row(s) \in 0 .. 7 /\ Col(s) \in 0 .. 7
          /\ s = 8 * Row(s) + Col(s)
      BY <2>1, SquareCoordinates
    <2>3. x \in -7 .. 7 /\ y \in -7 .. 7
      BY <1>1, <2>2
    <2>4. x * dc = y * dr
      <3>1. x * dc \in -7 .. 7 /\ y * dr \in -7 .. 7
        BY <1>4, <2>3
      <3>2. (x * dc) * n = (y * dr) * n
        BY <1>4, <2>1, <2>3
      <3> QED BY <1>4, <3>1, <3>2, Cancel
    <2> DEFINE k == x * dr
    <2>5. k \in Int /\ x = k * dr /\ y = k * dc
      BY <1>4, <2>3, <2>4
    <2>6. k \in 0 .. n
      BY <1>1, <1>4, <1>5, <2>1, <2>2 DEF Span
    <2>7. Row(s) = r + k * dr /\ Col(s) = c + k * dc
      BY <1>1, <2>2, <2>5
    <2> HIDE DEF k, x, y
    <2>8. s = key(k)
      BY <1>1, <1>4, <2>2, <2>5, <2>7
    <2>9. k # 0 /\ k # n
      BY <1>1, <1>4, <1>7, <2>1, <2>8
    <2> QED BY <1>4, <2>6, <2>8, <2>9
  <1> QED BY <1>4, <1>7, <1>8, <1>9 DEF n, key, dr, dc

\* The bishop's verdict in the words of the rules, on any board.
LEMMA BishopCanGoToRule ==
    ASSUME NEW b \in Boards, NEW p \in Squares, NEW q \in Squares, p # q
    PROVE  BishopCanGoTo(b, p, q) = "yes" <=>
               Diagonal(p, q) /\ Free(b, p, q) /\ b[q].PType = "empty"
  <1> DEFINE n == Abs(Row(p) - Row(q))
             key(k) == p + k * (8 * Sgn(Row(q) - Row(p)) + Sgn(Col(q) - Col(p)))
             D == n = Abs(Col(p) - Col(q))
  <1>1. Diagonal(p, q) <=> D
    <2>1. /\ Row(p) \in Int /\ Row(q) \in Int
          /\ Col(p) \in Int /\ Col(q) \in Int
      BY SquareCoordinates
    <2> QED BY <2>1, AbsSymmetric DEF Diagonal, Rise, Run
  <1>2. BishopCanGoTo(b, p, q) = "yes" <=>
            D /\ \A k \in 1 .. n : b[key(k)].PType = "empty"
    BY BishopVerdict
  <1>3. D => /\ n \in Nat /\ n > 0
             /\ key(n) = q
             /\ \A k \in 1 .. n - 1 : key(k) \in Between(p, q)
             /\ \A s \in Between(p, q) : \E k \in 1 .. n - 1 : s = key(k)
    BY BishopSegment
  <1> HIDE DEF n, key, D
  <1>4. ASSUME D
        PROVE  (\A k \in 1 .. n : b[key(k)].PType = "empty") <=>
                   Free(b, p, q) /\ b[q].PType = "empty"
    <2>1. ASSUME \A k \in 1 .. n : b[key(k)].PType = "empty"
          PROVE  Free(b, p, q) /\ b[q].PType = "empty"
      <3>1. b[q].PType = "empty"
        BY <1>3, <1>4, <2>1
      <3>2. ASSUME NEW s \in Between(p, q)
            PROVE  b[s].PType = "empty"
        <4>1. PICK k \in 1 .. n - 1 : s = key(k)
          BY <1>3, <1>4
        <4>2. k \in 1 .. n
          BY <1>3, <1>4
        <4> QED BY <2>1, <4>1, <4>2
      <3> QED BY <3>1, <3>2 DEF Free
    <2>2. ASSUME Free(b, p, q), b[q].PType = "empty", NEW k \in 1 .. n
          PROVE  b[key(k)].PType = "empty"
      <3>1. CASE k = n
        BY <1>3, <1>4, <2>2, <3>1
      <3>2. CASE k # n
        <4>1. k \in 1 .. n - 1
          BY <1>3, <1>4, <3>2
        <4> QED BY <1>3, <1>4, <2>2, <4>1 DEF Free
      <3> QED BY <3>1, <3>2
    <2> QED BY <2>1, <2>2
  <1> QED BY <1>1, <1>2, <1>4

\* On every board the engine accepts exactly a bishop's moves and captures.
LEMMA BishopRule ==
    ASSUME NEW b \in Boards, NEW p \in Squares, NEW q \in Squares, p # q,
           b[p].PType = "bishop"
    PROVE  Legal(b, p, q) <=> Rule(b, p, q)
  <1> DEFINE e == [b EXCEPT ![q] = EmptyPiece]
  <1>1. CanGoTo(b, p, q) = "yes" <=>
            Diagonal(p, q) /\ Free(b, p, q) /\ b[q].PType = "empty"
    BY BishopCanGoToRule DEF CanGoTo
  <1>2. /\ e \in Boards /\ e[p] = b[p] /\ e[q].PType = "empty"
        /\ \A s \in Squares \ {q} : e[s] = b[s]
    BY DEF Boards, EmptyPiece, Piece, PieceTypes, Colors
  <1>3. Legal(b, p, q) <=>
            \/ CanGoTo(b, p, q) = "yes"
            \/ b[q].Color # b[p].Color /\ CanGoTo(e, p, q) = "yes"
    BY LegalOfOthers
  <1> HIDE DEF e
  \* The target is not between the squares: emptying it frees nothing.
  <1>4. Free(e, p, q) <=> Free(b, p, q)
    BY <1>2 DEF Free, Between
  <1>5. CanGoTo(e, p, q) = "yes" <=> Diagonal(p, q) /\ Free(b, p, q)
    <2>1. CanGoTo(e, p, q) = BishopCanGoTo(e, p, q)
      BY <1>2 DEF CanGoTo
    <2>2. BishopCanGoTo(e, p, q) = "yes" <=>
              Diagonal(p, q) /\ Free(e, p, q) /\ e[q].PType = "empty"
      BY <1>2, BishopCanGoToRule
    <2> QED BY <1>2, <1>4, <2>1, <2>2
  <1>6. Rule(b, p, q) <=> Diagonal(p, q) /\ Free(b, p, q) /\ Landing(b, p, q)
    BY DEF Rule
  <1> QED BY <1>1, <1>3, <1>5, <1>6 DEF Landing, Enemies

\* In every position of every game the engine's bishop moves are exactly those
\* of the rules of chess: CanGoTo's loop visits the squares between and the
\* target, and canKill's probe changes nothing but the target.
THEOREM BishopsAreRight == Spec => []BishopsFollowTheRules
  <1>1. TypeOK => BishopsFollowTheRules
    BY BishopRule DEF TypeOK, BishopsFollowTheRules, Follows
  <1> QED BY <1>1, TypeCorrect, PTL

\* The same for the knight.
THEOREM KnightsAreRight == Spec => []KnightsFollowTheRules
  <1>1. TypeOK => KnightsFollowTheRules
    BY KnightRule DEF TypeOK, KnightsFollowTheRules, Follows
  <1> QED BY <1>1, TypeCorrect, PTL

\* No accepted move of any piece lands on another piece of its side, in any
\* position of any game: what CanGoTo and canKill ask of the target agrees.
THEOREM OwnPiecesAreSafe == Spec => []NoPieceTakesItsOwn
  <1>1. TypeOK => NoPieceTakesItsOwn
    BY TargetOfLegal DEF TypeOK, NoPieceTakesItsOwn, Landing, Enemies
  <1> QED BY <1>1, TypeCorrect, PTL

\* Only a rook's or a queen's question can reach a missing key of boardA and
\* end the process: for every other piece CanGoTo and canKill answer.
THEOREM OthersNeverTrap == Spec => []OnlyRooksAndQueensTrap
  <1>1. TypeOK => OnlyRooksAndQueensTrap
    BY OthersDoNotTrap DEF TypeOK, OnlyRooksAndQueensTrap
  <1> QED BY <1>1, TypeCorrect, PTL
=============================================================================
