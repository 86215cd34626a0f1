------------------------ MODULE TwoPlayerGameProofs ------------------------
(***************************************************************************)
(* The threaded game for every set of taps and every bound.  The inductive *)
(* invariant says, for each place the worker can be at, how the shared     *)
(* board differs from the position of the game and what the engine has     *)
(* already answered: without it nothing excludes that the second question  *)
(* of the worker (choose) is answered differently from the first (judge).  *)
(***************************************************************************)
EXTENDS TwoPlayerGame, GameDataProofs, SequenceTheorems

TapRows == {Row(t) : t \in Taps}
TapCols == {Col(t) : t \in Taps}

\* The worker holds a chosen piece; it holds a target as well.
WithPiece == {"waitTo", "readRow1", "readCol1", "judge", "judgeKill", "choose",
              "chooseKill", "goTo", "kill", "goToVacate", "killVacate", "finish"}
WithTarget == {"judge", "judgeKill", "choose", "chooseKill", "goTo", "kill",
               "goToVacate", "killVacate", "finish"}

\* What the worker has read comes from taps.
ReadFromTaps ==
    /\ taps > 0 => number \in Taps
    /\ pc \in WithPiece => row \in TapRows /\ col \in TapCols
    /\ pc = "readCol" => row \in TapRows
    /\ pc \in WithTarget => row1 \in TapRows /\ col1 \in TapCols
    /\ pc = "readCol1" => row1 \in TapRows
    /\ blocks # <<>> => /\ row \in 0 .. 7 /\ col \in 0 .. 7
                        /\ row1 \in 0 .. 7 /\ col1 \in 0 .. 7

\* The chosen piece is of the side to move, in the position of the game.
PieceOfTheSide ==
    pc \in WithPiece =>
        settled[From].PType # "empty" /\ settled[From].Color = Side(color)

\* How the board differs from the position, and what is known of the move.
BoardOfTheTurn ==
    /\ Quiet => board = settled
    /\ pc \in {"judgeKill", "chooseKill"} =>
          /\ board = [settled EXCEPT ![To] = EmptyPiece]
          /\ held = settled[To]
          /\ settled[To].Color # settled[From].Color
          /\ CanGoTo(settled, From, To) = "no"
    /\ pc \in {"choose", "chooseKill", "goTo", "kill", "goToVacate",
               "killVacate", "finish"} => Legal(settled, From, To)
    /\ pc \in {"goToVacate", "killVacate"} =>
          board = [settled EXCEPT ![To] = settled[From]]
    /\ pc = "finish" => board = GoTo(settled, From, To)
    /\ \A s \in Squares : s \notin {From, To} => board[s] = settled[s]

GameGoesOn == winner /\ pc # "over"

GameInv == /\ TypeOK /\ TapsStayOnTheBoard /\ TapsPayForMoves
           /\ ReadFromTaps /\ PieceOfTheSide /\ BoardOfTheTurn /\ GameGoesOn

-----------------------------------------------------------------------------
(* Squares and frames.                                                     *)

\* A row and a column read from taps make a square.
LEMMA ReadSquare ==
    ASSUME NEW r \in TapRows, NEW c \in TapCols
    PROVE  /\ r \in 0 .. 7 /\ c \in 0 .. 7
           /\ r * 8 + c \in Squares
           /\ r * 8 + c \in Readable
  <1>1. PICK s \in Taps : r = Row(s)
    BY DEF TapRows
  <1>2. PICK t \in Taps : c = Col(t)
    BY DEF TapCols
  <1>3. r \in 0 .. 7 /\ c \in 0 .. 7
    BY <1>1, <1>2, TapsAssumption, SquareCoordinates
  <1>4. r * 8 + c \in Squares
    BY <1>3 DEF Squares
  <1>5. r * 8 + c \in Readable
    BY <1>1, <1>2 DEF Readable
  <1> QED
    BY <1>3, <1>4, <1>5

\* buttonPressed inverts paint: the centre of the frame of a square gives the
\* square back.
LEMMA FrameRoundTrip ==
    ASSUME NEW s \in Squares
    PROVE  NumberAt(FrameOf(s)) = s /\ FrameOf(s) \in Int \X Int
  <1> DEFINE r == Row(s)
             c == Col(s)
  <1>1. r \in 0 .. 7 /\ c \in 0 .. 7 /\ s = 8 * r + c
    BY SquareCoordinates
  <1>2. FrameOf(s) = <<42 + 38 * c, 439 - 38 * r>>
    BY DEF FrameOf
  <1> HIDE DEF r, c
  <1>3. /\ (42 + 38 * c + 19) - 19 - 42 = 38 * c
        /\ -(439 - 38 * r + 19) + 19 + 439 = 38 * r
    BY <1>1
  <1>4. (38 * c) \div 38 = c /\ (38 * r) \div 38 = r
    BY <1>1
  <1>5. c % 8 = c
    BY <1>1
  <1>6. NumberAt(FrameOf(s)) = c + r * 8
    BY <1>2, <1>3, <1>4, <1>5 DEF NumberAt
  <1> QED
    BY <1>1, <1>2, <1>6

\* Every button is drawn on a square and reports it.
OnGrid(f) ==
    /\ f \in [Buttons -> Int \X Int]
    /\ \A k \in Buttons : NumberAt(f[k]) \in Squares /\ f[k] = FrameOf(NumberAt(f[k]))

\* Moving one button to a square of the grid keeps every button on the grid.
LEMMA SetFrameKeepsGrid ==
    ASSUME NEW f, NEW id, NEW s \in Squares, OnGrid(f)
    PROVE  OnGrid(SetFrame(f, id, FrameOf(s)))
  <1> DEFINE g == SetFrame(f, id, FrameOf(s))
  <1>1. \A k \in Buttons : g[k] = FrameOf(s) \/ g[k] = f[k]
    BY DEF SetFrame
  <1>2. g \in [Buttons -> Int \X Int]
    BY FrameRoundTrip DEF SetFrame, OnGrid
  <1>3. NumberAt(FrameOf(s)) = s
    BY FrameRoundTrip
  <1> QED
    BY <1>1, <1>2, <1>3 DEF OnGrid

-----------------------------------------------------------------------------
(* The main thread: each event keeps the invariant.                        *)

\* A tap preserves the invariant: it overwrites number under the worker and
\* adds one permit, paid for by the tap itself.
LEMMA ButtonPressedStep ==
    ASSUME GameInv, NEW sender \in Buttons, buttonPressed(sender)
    PROVE  GameInv'
  <1>1. number' \in Squares /\ number' \in Taps
    BY TapsAssumption DEF buttonPressed
  <1>2. /\ permits' = permits + 1 /\ taps' = taps + 1 /\ taps < MaxTaps
        /\ UNCHANGED <<board, pc, row, col, row1, col1, held, color, moves, winner,
                       settled, blocks, line, seen, boardButton, frame, saved, saves>>
    BY DEF buttonPressed, workerVars, viewVars
  <1>3. TapsPayForMoves'
    BY <1>2 DEF GameInv, TypeOK, TapsPayForMoves, Used
  <1>4. Used \in 0 .. 2
    BY DEF Used
  <1>5. permits' \in 0 .. MaxTaps /\ taps' \in 0 .. MaxTaps
    BY <1>2, <1>4, MaxTapsAssumption DEF GameInv, TypeOK, TapsPayForMoves
  <1>6. TypeOK'
    BY <1>1, <1>2, <1>5 DEF GameInv, TypeOK
  <1>7. TapsStayOnTheBoard'
    BY <1>2 DEF GameInv, TapsStayOnTheBoard
  <1>8. ReadFromTaps'
    BY <1>1, <1>2 DEF GameInv, ReadFromTaps
  <1>9. PieceOfTheSide'
    BY <1>2 DEF GameInv, PieceOfTheSide, From
  <1>10. BoardOfTheTurn'
    BY <1>2 DEF GameInv, BoardOfTheTurn, Quiet, From, To
  <1>11. GameGoesOn'
    BY <1>2 DEF GameInv, GameGoesOn
  <1> QED
    BY <1>3, <1>6, <1>7, <1>8, <1>9, <1>10, <1>11 DEF GameInv

\* A press of the save button preserves the invariant, also when its read of
\* the board races with the worker.
LEMMA SaveGameStep ==
    ASSUME GameInv, saveGame
    PROVE  GameInv'
  <1>1. /\ UNCHANGED <<board, number, permits, row, col, row1, col1, held, color, moves,
                       winner, settled, blocks, line, seen, boardButton, frame, taps>>
        /\ saves' = saves + 1 /\ saves < MaxSaves
        /\ pc' = pc \/ pc' = "crashed"
        /\ saved' \in [moves : Nat \cup {-1}, board : Boards]
    BY DEF saveGame, workerVars, viewVars, GameInv, TypeOK
  <1>2. TypeOK'
    BY <1>1, MaxSavesAssumption DEF GameInv, TypeOK, PCs
  <1>3. TapsStayOnTheBoard'
    BY <1>1 DEF GameInv, TapsStayOnTheBoard
  <1>4. TapsPayForMoves'
    BY <1>1 DEF GameInv, TypeOK, TapsPayForMoves, Used
  <1>5. ReadFromTaps'
    BY <1>1 DEF GameInv, ReadFromTaps, WithPiece, WithTarget
  <1>6. PieceOfTheSide'
    BY <1>1 DEF GameInv, PieceOfTheSide, From, WithPiece
  <1>7. BoardOfTheTurn'
    BY <1>1 DEF GameInv, BoardOfTheTurn, Quiet, From, To
  <1>8. GameGoesOn'
    BY <1>1 DEF GameInv, GameGoesOn
  <1> QED
    BY <1>2, <1>3, <1>4, <1>5, <1>6, <1>7, <1>8 DEF GameInv

\* The blocks of the main queue change buttons and frames only.
LEMMA ViewStep ==
    ASSUME GameInv,
           UNCHANGED <<board, permits, pc, workerVars, userVars>>,
           line' \in 0 .. 3, seen' \in Seq(0 .. 7),
           blocks' \in Seq(Blocks), blocks = <<>> => blocks' = <<>>,
           boardButton' \in [Squares -> Buttons \cup {Detached}],
           frame' \in [Buttons -> Int \X Int],
           TapsStayOnTheBoard'
    PROVE  GameInv'
  <1>1. UNCHANGED <<board, permits, pc, row, col, row1, col1, held, color, moves, winner,
                    settled, number, saved, taps, saves>>
    BY DEF workerVars, userVars
  <1>2. TypeOK'
    BY <1>1 DEF GameInv, TypeOK
  <1>3. TapsPayForMoves'
    BY <1>1 DEF GameInv, TapsPayForMoves, Used
  <1>4. ReadFromTaps'
    BY <1>1 DEF GameInv, ReadFromTaps
  <1>5. PieceOfTheSide'
    BY <1>1 DEF GameInv, PieceOfTheSide, From
  <1>6. BoardOfTheTurn'
    BY <1>1 DEF GameInv, BoardOfTheTurn, Quiet, From, To
  <1>7. GameGoesOn'
    BY <1>1 DEF GameInv, GameGoesOn
  <1> QED
    BY <1>2, <1>3, <1>4, <1>5, <1>6, <1>7 DEF GameInv

\* The block of replaceButton preserves the invariant: both frames it sets are
\* frames of squares.
LEMMA RunReplaceStep ==
    ASSUME GameInv, RunReplace
    PROVE  GameInv'
  <1> DEFINE p == Head(blocks).from
             q == Head(blocks).to
             f == SetFrame(frame, boardButton[p], FrameOf(q))
  <1>1. /\ blocks # <<>> /\ blocks \in Seq(Blocks) /\ Head(blocks).kind = "replace"
        /\ blocks' = Tail(blocks) /\ line' = line /\ line \in 0 .. 3
        /\ seen' \in Seq(0 .. 7)
        /\ frame' = SetFrame(f, boardButton[q], FrameOf(p))
        /\ boardButton' = [boardButton EXCEPT ![q] = boardButton[p], ![p] = boardButton[q]]
        /\ boardButton \in [Squares -> Buttons \cup {Detached}]
        /\ frame \in [Buttons -> Int \X Int]
    BY DEF RunReplace, Swapped, GameInv, TypeOK
  <1>2. Head(blocks) \in Blocks /\ blocks' \in Seq(Blocks)
    BY <1>1, HeadTailProperties
  <1>3. p \in Squares /\ q \in Squares
    BY <1>1, <1>2 DEF Blocks
  <1>4. boardButton' \in [Squares -> Buttons \cup {Detached}]
    BY <1>1, <1>3
  <1>5. OnGrid(frame)
    BY <1>1 DEF GameInv, TapsStayOnTheBoard, OnGrid
  <1>6. OnGrid(f)
    BY <1>3, <1>5, SetFrameKeepsGrid
  <1> HIDE DEF f, p, q
  <1>7. OnGrid(frame')
    BY <1>1, <1>3, <1>6, SetFrameKeepsGrid
  <1>8. TapsStayOnTheBoard' /\ frame' \in [Buttons -> Int \X Int]
    BY <1>7 DEF OnGrid, TapsStayOnTheBoard, NumberAt, FrameOf
  <1>9. UNCHANGED <<board, permits, pc, workerVars, userVars>>
    BY DEF RunReplace, Swapped
  <1> QED
    BY <1>1, <1>2, <1>4, <1>8, <1>9, ViewStep

\* The four variables a capture block reads are rows and columns of squares:
\* they have been written before the block was posted.
LEMMA OperandType ==
    ASSUME GameInv, blocks # <<>>
    PROVE  /\ row \in 0 .. 7 /\ col \in 0 .. 7 /\ row1 \in 0 .. 7 /\ col1 \in 0 .. 7
           /\ From \in Squares /\ To \in Squares
           /\ Operands(line) \in Seq(0 .. 7)
           /\ Len(Operands(line)) = IF line = 2 THEN 2 ELSE 4
  <1>1. row \in 0 .. 7 /\ col \in 0 .. 7 /\ row1 \in 0 .. 7 /\ col1 \in 0 .. 7
    BY DEF GameInv, ReadFromTaps
  <1>2. From \in Squares /\ To \in Squares
    BY <1>1 DEF From, To, Squares
  <1>3. line \in 0 .. 3
    BY DEF GameInv, TypeOK
  <1>4. /\ line = 0 => Operands(line) = <<row, col, col1, row1>>
        /\ line = 1 => Operands(line) = <<row1, col1, row, col>>
        /\ line = 2 => Operands(line) = <<row, col>>
        /\ line = 3 => Operands(line) = <<row, col, col, row>>
    BY DEF Operands
  <1>5. CASE line = 2
    <2>1. <<row, col>> \in Seq(0 .. 7) /\ Len(<<row, col>>) = 2
      BY <1>1
    <2> QED BY <1>1, <1>2, <1>4, <1>5, <2>1
  <1>6. CASE line # 2
    <2>1. CASE line = 0
      <3>1. <<row, col, col1, row1>> \in Seq(0 .. 7) /\ Len(<<row, col, col1, row1>>) = 4
        BY <1>1
      <3> QED BY <1>1, <1>2, <1>4, <2>1, <3>1
    <2>2. CASE line = 1
      <3>1. <<row1, col1, row, col>> \in Seq(0 .. 7) /\ Len(<<row1, col1, row, col>>) = 4
        BY <1>1
      <3> QED BY <1>1, <1>2, <1>4, <2>2, <3>1
    <2>3. CASE line = 3
      <3>1. <<row, col, col, row>> \in Seq(0 .. 7) /\ Len(<<row, col, col, row>>) = 4
        BY <1>1
      <3> QED BY <1>1, <1>2, <1>4, <2>3, <3>1
    <2> QED BY <1>3, <1>6, <2>1, <2>2, <2>3
  <1> QED BY <1>5, <1>6

\* A read of the capture block preserves the invariant: it changes only what
\* the block keeps for itself.
LEMMA ReadOperandStep ==
    ASSUME GameInv, ReadOperand
    PROVE  GameInv'
  <1>1. /\ blocks # <<>> /\ seen \in Seq(0 .. 7) /\ Len(seen) < Len(Operands(line))
        /\ seen' = Append(seen, Operands(line)[Len(seen) + 1])
        /\ UNCHANGED <<board, permits, pc, workerVars, userVars, line, blocks,
                       boardButton, frame>>
    BY DEF ReadOperand, KillRuns, GameInv, TypeOK
  <1>2. Operands(line) \in Seq(0 .. 7)
    BY <1>1, OperandType
  <1>3. seen' \in Seq(0 .. 7)
    <2>1. Len(seen) + 1 \in 1 .. Len(Operands(line))
      BY <1>1, <1>2
    <2>2. Operands(line)[Len(seen) + 1] \in 0 .. 7
      BY <1>2, <2>1
    <2> QED BY <1>1, <2>2
  <1>4. TapsStayOnTheBoard'
    BY <1>1 DEF GameInv, TapsStayOnTheBoard
  <1> QED BY <1>1, <1>3, <1>4, ViewStep DEF GameInv, TypeOK

\* Each statement of the capture block preserves the invariant, whatever mix of
\* rows and columns it has read.
LEMMA RunKillStep ==
    ASSUME GameInv, RunKill
    PROVE  GameInv'
  <1>1. /\ blocks # <<>> /\ blocks \in Seq(Blocks) /\ KillStatement(line)
        /\ blocks' = (IF line = 3 THEN Tail(blocks) ELSE blocks)
        /\ line' = (line + 1) % 4 /\ line \in 0 .. 3
        /\ seen \in Seq(0 .. 7) /\ Len(seen) = Len(Operands(line)) /\ seen' = <<>>
        /\ boardButton \in [Squares -> Buttons \cup {Detached}]
        /\ frame \in [Buttons -> Int \X Int]
    BY DEF RunKill, KillRuns, GameInv, TypeOK
  <1>2. blocks' \in Seq(Blocks)
    BY <1>1, HeadTailProperties
  <1>3. /\ Subscript \in Squares
        /\ line # 2 => Source \in Squares /\ FrameAt \in Squares
    <2>1. Len(seen) = IF line = 2 THEN 2 ELSE 4
      BY <1>1, OperandType
    <2>2. /\ seen[1] \in 0 .. 7 /\ seen[2] \in 0 .. 7
          /\ line # 2 => seen[3] \in 0 .. 7 /\ seen[4] \in 0 .. 7
      BY <1>1, <2>1
    <2> QED
      BY <2>2 DEF Subscript, Source, FrameAt, Squares
  <1>4. OnGrid(frame)
    BY <1>1 DEF GameInv, TapsStayOnTheBoard, OnGrid
  <1>5. boardButton' \in [Squares -> Buttons \cup {Detached}]
    <2>1. CASE line \in {0, 3}
      BY <1>1, <2>1 DEF KillStatement
    <2>2. CASE line = 1
      <3>1. boardButton' = [boardButton EXCEPT ![Subscript] = boardButton[Source]]
        BY <1>1, <2>2 DEF KillStatement, Captured
      <3>2. Subscript \in Squares /\ Source \in Squares
        BY <1>3, <2>2
      <3>3. boardButton[Source] \in Buttons \cup {Detached}
        BY <1>1, <3>2
      <3> QED BY <1>1, <3>1, <3>2, <3>3
    <2>3. CASE line = 2
      BY <1>1, <1>3, <2>3 DEF KillStatement
    <2> QED BY <1>1, <2>1, <2>2, <2>3
  <1>6. \/ frame' = frame
        \/ line # 2 /\ frame' = SetFrame(frame, boardButton[Subscript], FrameOf(FrameAt))
    BY <1>1 DEF KillStatement
  <1>7. OnGrid(frame')
    <2>1. CASE frame' = frame
      BY <1>4, <2>1
    <2>2. CASE /\ line # 2
               /\ frame' = SetFrame(frame, boardButton[Subscript], FrameOf(FrameAt))
      BY <1>3, <1>4, <2>2, SetFrameKeepsGrid
    <2> QED
      BY <1>6, <2>1, <2>2
  <1>8. TapsStayOnTheBoard' /\ frame' \in [Buttons -> Int \X Int]
    BY <1>7 DEF OnGrid, TapsStayOnTheBoard, NumberAt, FrameOf
  <1>9. /\ UNCHANGED <<board, permits, pc, workerVars, userVars>>
        /\ line' \in 0 .. 3 /\ seen' \in Seq(0 .. 7)
    BY <1>1 DEF RunKill
  <1> QED
    BY <1>1, <1>2, <1>5, <1>8, <1>9, ViewStep

-----------------------------------------------------------------------------
(* The worker: each step keeps the invariant.                              *)

\* A step that neither touches the view nor takes a tap keeps what is said of
\* both, so long as it does not owe more taps.
LEMMA WorkerKeepsView ==
    ASSUME GameInv, Elsewhere, permits' = permits, moves' = moves, Used' <= Used,
           Used' \in 0 .. 2
    PROVE  TapsStayOnTheBoard' /\ TapsPayForMoves'
  <1>1. UNCHANGED <<number, saved, taps, saves, line, seen, boardButton, frame>>
    BY DEF Elsewhere, userVars, viewVars
  <1>2. Used \in 0 .. 2
    BY DEF Used
  <1>3. TapsStayOnTheBoard'
    BY <1>1 DEF GameInv, TapsStayOnTheBoard
  <1>4. TapsPayForMoves'
    <2>1. permits \in Int /\ taps \in Int /\ moves \in Int
      BY MaxTapsAssumption DEF GameInv, TypeOK
    <2>2. 2 * moves + Used + permits <= taps
      BY DEF GameInv, TapsPayForMoves
    <2>3. \A u \in 0 .. 2 : u <= Used => 2 * moves + u + permits <= taps
      BY <1>2, <2>1, <2>2
    <2>4. 2 * moves + Used' + permits <= taps
      BY <2>3, Zenon
    <2> QED
      BY <1>1, <2>4, Zenon DEF TapsPayForMoves
  <1> QED
    BY <1>3, <1>4

\* A wait that returns preserves the invariant: the permit it takes becomes a
\* tap used by the turn.
LEMMA WaitStep ==
    ASSUME GameInv, Wait
    PROVE  GameInv'
  <1>1. /\ UNCHANGED <<number, saved, taps, saves, line, seen, boardButton, frame, board, row, col,
                       row1, col1, held, color, moves, winner, settled, blocks>>
        /\ permits > 0 /\ permits' = permits - 1
        /\ \/ pc = "waitFrom" /\ pc' = "readRow"
           \/ pc = "waitTo" /\ pc' = "readRow1"
    BY DEF Wait, PermitsAfterWait, Elsewhere, userVars, viewVars, workerVars
  <1>2. TypeOK'
    BY <1>1, MaxTapsAssumption DEF GameInv, TypeOK, PCs
  <1>3. TapsStayOnTheBoard'
    BY <1>1 DEF GameInv, TapsStayOnTheBoard
  <1>4. TapsPayForMoves'
    BY <1>1 DEF GameInv, TypeOK, TapsPayForMoves, Used
  <1>5. ReadFromTaps'
    BY <1>1 DEF GameInv, ReadFromTaps, WithPiece, WithTarget
  <1>6. PieceOfTheSide'
    BY <1>1 DEF GameInv, PieceOfTheSide, From, WithPiece
  <1>7. BoardOfTheTurn'
    BY <1>1 DEF GameInv, BoardOfTheTurn, Quiet, From, To
  <1>8. GameGoesOn'
    BY <1>1 DEF GameInv, GameGoesOn
  <1> QED
    BY <1>2, <1>3, <1>4, <1>5, <1>6, <1>7, <1>8 DEF GameInv

\* A tap has been taken before number is read, so number is a tapped square.
LEMMA NumberIsTapped ==
    ASSUME GameInv, pc \in {"readRow", "readCol", "readRow1", "readCol1"}
    PROVE  /\ Row(number) \in TapRows /\ Col(number) \in TapCols
           /\ Row(number) \in 0 .. 7 /\ Col(number) \in 0 .. 7
  <1>1. Used >= 1
    BY DEF Used
  <1>2. taps > 0
    BY <1>1 DEF GameInv, TypeOK, TapsPayForMoves, Used
  <1>3. number \in Taps
    BY <1>2 DEF GameInv, ReadFromTaps
  <1>4. Row(number) \in TapRows /\ Col(number) \in TapCols
    BY <1>3 DEF TapRows, TapCols
  <1> QED
    BY <1>4, ReadSquare

\* Reading the row of the piece preserves the invariant.
LEMMA ReadRowStep ==
    ASSUME GameInv, ReadRow
    PROVE  GameInv'
  <1>1. /\ UNCHANGED <<number, saved, taps, saves, line, seen, boardButton, frame, board, permits,
                       col, row1, col1, held, color, moves, winner, settled, blocks>>
        /\ pc = "readRow" /\ pc' = "readCol" /\ row' = Row(number)
    BY DEF ReadRow, Elsewhere, userVars, viewVars
  <1>2. row' \in TapRows /\ row' \in 0 .. 7
    BY <1>1, NumberIsTapped
  <1>3. TypeOK'
    BY <1>1, <1>2 DEF GameInv, TypeOK, PCs
  <1>4. TapsStayOnTheBoard' /\ TapsPayForMoves'
    BY <1>1, WorkerKeepsView DEF Used, ReadRow
  <1>5. ReadFromTaps'
    BY <1>1, <1>2 DEF GameInv, ReadFromTaps, WithPiece, WithTarget
  <1>6. PieceOfTheSide'
    BY <1>1 DEF PieceOfTheSide, WithPiece
  <1>7. BoardOfTheTurn'
    BY <1>1 DEF GameInv, BoardOfTheTurn, Quiet
  <1>8. GameGoesOn'
    BY <1>1 DEF GameInv, GameGoesOn
  <1> QED
    BY <1>3, <1>4, <1>5, <1>6, <1>7, <1>8 DEF GameInv

\* Reading the column and testing the choice preserves the invariant: it is
\* here that the chosen square is known to hold a piece of the side to move.
LEMMA ReadColStep ==
    ASSUME GameInv, ReadCol
    PROVE  GameInv'
  <1>1. /\ UNCHANGED <<number, saved, taps, saves, line, seen, boardButton, frame, board, permits,
                       row, row1, col1, held, color, moves, winner, settled, blocks>>
        /\ pc = "readCol" /\ col' = Col(number)
        /\ \/ pc' = "waitFrom"
           \/ /\ pc' = "waitTo"
              /\ board[row * 8 + col'].PType # "empty"
              /\ board[row * 8 + col'].Color = Side(color)
    BY DEF ReadCol, NotChoosable, Refused, Elsewhere, userVars, viewVars
  <1>2. col' \in TapCols /\ col' \in 0 .. 7
    BY <1>1, NumberIsTapped
  <1>3. TypeOK'
    BY <1>1, <1>2 DEF GameInv, TypeOK, PCs
  <1>4. TapsStayOnTheBoard' /\ TapsPayForMoves'
    BY <1>1, WorkerKeepsView DEF Used, ReadCol, Refused
  <1>5. ReadFromTaps'
    BY <1>1, <1>2 DEF GameInv, ReadFromTaps, WithPiece, WithTarget
  <1>6. board = settled
    BY <1>1 DEF GameInv, BoardOfTheTurn, Quiet
  <1>7. PieceOfTheSide'
    BY <1>1, <1>6 DEF PieceOfTheSide, WithPiece, From, Side
  <1>8. BoardOfTheTurn'
    BY <1>1, <1>6 DEF BoardOfTheTurn
  <1>9. GameGoesOn'
    BY <1>1 DEF GameInv, GameGoesOn
  <1> QED
    BY <1>3, <1>4, <1>5, <1>7, <1>8, <1>9 DEF GameInv

\* Reading the row of the target preserves the invariant.
LEMMA ReadRow1Step ==
    ASSUME GameInv, ReadRow1
    PROVE  GameInv'
  <1>1. /\ UNCHANGED <<number, saved, taps, saves, line, seen, boardButton, frame, board, permits,
                       row, col, col1, held, color, moves, winner, settled, blocks>>
        /\ pc = "readRow1" /\ pc' = "readCol1" /\ row1' = Row(number)
    BY DEF ReadRow1, Elsewhere, userVars, viewVars
  <1>2. row1' \in TapRows /\ row1' \in 0 .. 7
    BY <1>1, NumberIsTapped
  <1>3. TypeOK'
    BY <1>1, <1>2 DEF GameInv, TypeOK, PCs
  <1>4. TapsStayOnTheBoard' /\ TapsPayForMoves'
    BY <1>1, WorkerKeepsView DEF Used, ReadRow1
  <1>5. ReadFromTaps'
    BY <1>1, <1>2 DEF GameInv, ReadFromTaps, WithPiece, WithTarget
  <1>6. PieceOfTheSide'
    BY <1>1 DEF GameInv, PieceOfTheSide, WithPiece, From
  <1>7. BoardOfTheTurn'
    BY <1>1 DEF GameInv, BoardOfTheTurn, Quiet
  <1>8. GameGoesOn'
    BY <1>1 DEF GameInv, GameGoesOn
  <1> QED
    BY <1>3, <1>4, <1>5, <1>6, <1>7, <1>8 DEF GameInv

\* Reading the column of the target preserves the invariant.
LEMMA ReadCol1Step ==
    ASSUME GameInv, ReadCol1
    PROVE  GameInv'
  <1>1. /\ UNCHANGED <<number, saved, taps, saves, line, seen, boardButton, frame, board, permits,
                       row, col, row1, held, color, moves, winner, settled, blocks>>
        /\ pc = "readCol1" /\ pc' = "judge" /\ col1' = Col(number)
    BY DEF ReadCol1, Elsewhere, userVars, viewVars
  <1>2. col1' \in TapCols /\ col1' \in 0 .. 7
    BY <1>1, NumberIsTapped
  <1>3. TypeOK'
    BY <1>1, <1>2 DEF GameInv, TypeOK, PCs
  <1>4. TapsStayOnTheBoard' /\ TapsPayForMoves'
    BY <1>1, WorkerKeepsView DEF Used, ReadCol1
  <1>5. ReadFromTaps'
    BY <1>1, <1>2 DEF GameInv, ReadFromTaps, WithPiece, WithTarget
  <1>6. PieceOfTheSide'
    BY <1>1 DEF GameInv, PieceOfTheSide, WithPiece, From
  <1>7. BoardOfTheTurn'
    BY <1>1 DEF GameInv, BoardOfTheTurn, Quiet
  <1>8. GameGoesOn'
    BY <1>1 DEF GameInv, GameGoesOn
  <1> QED
    BY <1>3, <1>4, <1>5, <1>6, <1>7, <1>8 DEF GameInv

\* Where a move is known, its squares are on the board.
LEMMA MoveSquares ==
    ASSUME GameInv, pc \in WithTarget
    PROVE  /\ From \in Squares /\ To \in Squares
           /\ From \in Readable /\ To \in Readable
           /\ row \in 0 .. 7 /\ col \in 0 .. 7 /\ row1 \in 0 .. 7 /\ col1 \in 0 .. 7
           /\ board \in Boards /\ settled \in Boards
  <1>1. row \in TapRows /\ col \in TapCols /\ row1 \in TapRows /\ col1 \in TapCols
    BY DEF GameInv, ReadFromTaps, WithPiece, WithTarget
  <1>2. board \in Boards /\ settled \in Boards
    BY DEF GameInv, TypeOK
  <1> QED
    BY <1>1, <1>2, ReadSquare DEF From, To

\* The empty piece is a piece.
LEMMA EmptyPieceIsPiece == EmptyPiece \in Piece
  BY DEF EmptyPiece, Piece, PieceTypes, Colors

\* A step from one place of the judging of a move to another, or to a crash,
\* on the same piece and target: what is left to show is the board.
LEMMA JudgingStep ==
    ASSUME GameInv, Elsewhere, pc \in WithTarget,
           UNCHANGED <<permits, row, col, row1, col1, color, moves, winner, settled>>,
           pc' \in WithTarget \cup {"waitTo", "crashed"},
           board' \in Boards, held' \in Piece,
           blocks' \in Seq(Blocks),
           BoardOfTheTurn'
    PROVE  GameInv'
  <1>1. UNCHANGED <<number, saved, taps, saves, line, seen, boardButton, frame>>
    BY DEF Elsewhere, userVars, viewVars
  <1>2. TypeOK'
    BY <1>1 DEF GameInv, TypeOK, PCs, WithTarget
  <1>3. Used = 2 /\ Used' \in {0, 1, 2}
    BY DEF Used, WithTarget
  <1>4. Used' <= Used /\ Used' \in 0 .. 2
    BY <1>3
  <1>5. TapsStayOnTheBoard' /\ TapsPayForMoves'
    BY <1>4, WorkerKeepsView
  <1>6. ReadFromTaps'
    <2>1. row \in 0 .. 7 /\ col \in 0 .. 7 /\ row1 \in 0 .. 7 /\ col1 \in 0 .. 7
      BY MoveSquares
    <2> QED
      BY <1>1, <2>1 DEF GameInv, ReadFromTaps, WithPiece, WithTarget
  <1>7. PieceOfTheSide'
    BY DEF GameInv, PieceOfTheSide, WithPiece, WithTarget, From
  <1>8. GameGoesOn'
    BY DEF GameInv, GameGoesOn, WithTarget
  <1> QED
    BY <1>2, <1>5, <1>6, <1>7, <1>8 DEF GameInv

\* The first half of a verdict preserves the invariant: a probe it opens keeps
\* the target's piece in held.
LEMMA EvaluateStep ==
    ASSUME GameInv, Evaluate
    PROVE  GameInv'
  <1> DEFINE verdict == CanGoTo(board, From, To)
             probes  == verdict = "no" /\ board[To].Color # board[From].Color
  <1>1. /\ pc \in {"judge", "choose"} /\ pc \in WithTarget
        /\ UNCHANGED <<permits, row, col, row1, col1, color, moves, winner, settled, blocks>>
        /\ Elsewhere
        /\ board' = (IF probes THEN [board EXCEPT ![To] = EmptyPiece] ELSE board)
        /\ held' = (IF probes THEN board[To] ELSE held)
        /\ pc' = IF verdict = "trap" THEN "crashed"
                 ELSE IF verdict = "yes"
                 THEN IF pc = "judge" THEN "choose" ELSE "goTo"
                 ELSE IF probes
                 THEN IF pc = "judge" THEN "judgeKill" ELSE "chooseKill"
                 ELSE IF pc = "judge" THEN "waitTo" ELSE "finish"
    BY DEF Evaluate, WithTarget
  <1>2. board = settled
    BY <1>1 DEF GameInv, BoardOfTheTurn, Quiet
  <1>3. From \in Squares /\ To \in Squares /\ board \in Boards /\ held \in Piece
    BY <1>1, MoveSquares DEF GameInv, TypeOK
  <1>4. From' = From /\ To' = To /\ settled' = settled
    BY <1>1 DEF From, To
  <1>5. board' \in Boards /\ held' \in Piece
    BY <1>1, <1>3, EmptyPieceIsPiece DEF Boards
  <1>6. pc = "choose" => Legal(settled, From, To)
    BY DEF GameInv, BoardOfTheTurn
  <1>7. BoardOfTheTurn'
    <2>1. CASE verdict = "trap"
      BY <1>1, <1>2, <2>1 DEF BoardOfTheTurn, Quiet
    <2>2. CASE verdict = "yes"
      <3>1. Legal(settled, From, To)
        BY <1>2, <2>2 DEF Legal
      <3>2. pc' \in {"choose", "goTo"} /\ board' = settled'
        BY <1>1, <1>2, <2>2
      <3> QED
        BY <1>4, <3>1, <3>2 DEF BoardOfTheTurn, Quiet
    <2>3. CASE probes
      <3>1. /\ pc' \in {"judgeKill", "chooseKill"}
            /\ pc' = "chooseKill" => Legal(settled, From, To)
            /\ board' = [settled EXCEPT ![To] = EmptyPiece]
            /\ held' = settled[To]
            /\ settled[To].Color # settled[From].Color
            /\ CanGoTo(settled, From, To) = "no"
        BY <1>1, <1>2, <1>6, <2>3
      <3>2. \A s \in Squares : s \notin {From, To} => board'[s] = settled[s]
        BY <1>2, <1>3, <3>1 DEF Boards
      <3> QED
        BY <1>4, <3>1, <3>2 DEF BoardOfTheTurn, Quiet
    <2>4. CASE verdict # "trap" /\ verdict # "yes" /\ ~probes
      <3>1. pc = "judge"
        <4> SUFFICES ASSUME pc = "choose" PROVE FALSE
          BY <1>1
        <4>1. verdict = "no" /\ canKill(board, From, To) = "yes"
          BY <1>2, <1>6, <2>4 DEF Legal
        <4>2. board[To].Color # board[From].Color
          BY <4>1 DEF canKill
        <4> QED
          BY <2>4, <4>1, <4>2
      <3>2. pc' = "waitTo" /\ board' = settled'
        BY <1>1, <1>2, <2>4, <3>1
      <3> QED
        BY <3>2 DEF BoardOfTheTurn
    <2> QED
      BY <2>1, <2>2, <2>3, <2>4
  <1>8. pc' \in WithTarget \cup {"waitTo", "crashed"}
    BY <1>1 DEF WithTarget
  <1>9. blocks' \in Seq(Blocks)
    BY <1>1 DEF GameInv, TypeOK
  <1> QED
    BY <1>1, <1>5, <1>7, <1>8, <1>9, JudgingStep

\* The second half of a verdict preserves the invariant: a probe that does not
\* trap leaves the board as the position.
LEMMA ProbeStep ==
    ASSUME GameInv, Probe
    PROVE  GameInv'
  <1> DEFINE verdict == CanGoTo(board, From, To)
  <1>1. /\ pc \in {"judgeKill", "chooseKill"} /\ pc \in WithTarget
        /\ UNCHANGED <<permits, row, col, row1, col1, held, color, moves, winner, settled,
                       blocks>>
        /\ Elsewhere
        /\ board' = IF verdict = "trap" THEN board ELSE [board EXCEPT ![To] = held]
        /\ pc' = IF verdict = "trap" THEN "crashed"
                 ELSE IF verdict = "yes"
                 THEN IF pc = "judgeKill" THEN "choose" ELSE "kill"
                 ELSE IF pc = "judgeKill" THEN "waitTo" ELSE "finish"
    BY DEF Probe, Restored, WithTarget, workerVars
  <1>2. /\ board = [settled EXCEPT ![To] = EmptyPiece] /\ held = settled[To]
        /\ settled[To].Color # settled[From].Color
        /\ CanGoTo(settled, From, To) = "no"
        /\ pc = "chooseKill" => Legal(settled, From, To)
        /\ \A s \in Squares : s \notin {From, To} => board[s] = settled[s]
    BY <1>1 DEF GameInv, BoardOfTheTurn
  <1>3. /\ From \in Squares /\ To \in Squares /\ board \in Boards /\ settled \in Boards
        /\ held \in Piece
    BY <1>1, MoveSquares DEF GameInv, TypeOK
  <1>4. From' = From /\ To' = To /\ settled' = settled
    BY <1>1 DEF From, To
  <1>5. [board EXCEPT ![To] = held] = settled
    BY <1>2, <1>3 DEF Boards
  <1>6. verdict = canKill(settled, From, To)
    BY <1>2 DEF canKill
  <1>7. BoardOfTheTurn'
    <2>1. CASE verdict = "trap"
      BY <1>1, <1>2, <1>4, <2>1 DEF BoardOfTheTurn, Quiet
    <2>2. CASE verdict = "yes"
      <3>1. Legal(settled, From, To)
        BY <1>2, <1>6, <2>2 DEF Legal
      <3>2. pc' \in {"choose", "kill"} /\ board' = settled'
        BY <1>1, <1>4, <1>5, <2>2
      <3> QED
        BY <1>4, <3>1, <3>2 DEF BoardOfTheTurn, Quiet
    <2>3. CASE verdict # "trap" /\ verdict # "yes"
      <3>1. pc = "judgeKill"
        BY <1>1, <1>2, <1>6, <2>3 DEF Legal
      <3>2. pc' = "waitTo" /\ board' = settled'
        BY <1>1, <1>4, <1>5, <2>3, <3>1
      <3> QED
        BY <3>2 DEF BoardOfTheTurn
    <2> QED
      BY <2>1, <2>2, <2>3
  <1>8. board' \in Boards /\ held' \in Piece
    BY <1>1, <1>3, <1>5
  <1>9. pc' \in WithTarget \cup {"waitTo", "crashed"} /\ blocks' \in Seq(Blocks)
    BY <1>1 DEF WithTarget, GameInv, TypeOK
  <1> QED
    BY <1>1, <1>7, <1>8, <1>9, JudgingStep

\* The first write of a move preserves the invariant.
LEMMA PlaceStep ==
    ASSUME GameInv, Place
    PROVE  GameInv'
  <1>1. /\ pc \in {"goTo", "kill"} /\ pc \in WithTarget
        /\ UNCHANGED <<permits, row, col, row1, col1, held, color, moves, winner, settled,
                       blocks>>
        /\ Elsewhere
        /\ board' = [board EXCEPT ![To] = board[From]]
        /\ pc' \in {"goToVacate", "killVacate"}
    BY DEF Place, WithTarget, workerVars
  <1>2. board = settled /\ Legal(settled, From, To)
    BY <1>1 DEF GameInv, BoardOfTheTurn, Quiet
  <1>3. From \in Squares /\ To \in Squares /\ board \in Boards /\ held \in Piece
    BY <1>1, MoveSquares DEF GameInv, TypeOK
  <1>4. From' = From /\ To' = To /\ settled' = settled
    BY <1>1 DEF From, To
  <1>5. board' \in Boards /\ \A s \in Squares : s \notin {From, To} => board'[s] = settled[s]
    BY <1>1, <1>2, <1>3 DEF Boards
  <1>6. BoardOfTheTurn'
    BY <1>1, <1>2, <1>4, <1>5 DEF BoardOfTheTurn, Quiet
  <1>7. pc' \in WithTarget \cup {"waitTo", "crashed"} /\ blocks' \in Seq(Blocks)
        /\ held' \in Piece
    BY <1>1, <1>3 DEF WithTarget, GameInv, TypeOK
  <1> QED
    BY <1>1, <1>5, <1>6, <1>7, JudgingStep

\* The second write of a move preserves the invariant: the board is then the
\* position after the move.
LEMMA VacateStep ==
    ASSUME GameInv, Vacate
    PROVE  GameInv'
  <1> DEFINE block == IF pc = "goToVacate" THEN ReplaceBlock(From, To) ELSE KillBlock
  <1>1. /\ pc \in {"goToVacate", "killVacate"} /\ pc \in WithTarget
        /\ UNCHANGED <<permits, row, col, row1, col1, held, color, moves, winner, settled>>
        /\ Elsewhere
        /\ board' = [board EXCEPT ![From] = EmptyPiece]
        /\ blocks' = Append(blocks, block)
        /\ pc' = "finish"
    BY DEF Vacate, WithTarget, workerVars
  <1>2. board = [settled EXCEPT ![To] = settled[From]] /\ Legal(settled, From, To)
    BY <1>1 DEF GameInv, BoardOfTheTurn
  <1>3. /\ From \in Squares /\ To \in Squares /\ board \in Boards /\ settled \in Boards
        /\ held \in Piece /\ blocks \in Seq(Blocks)
    BY <1>1, MoveSquares DEF GameInv, TypeOK
  <1>4. From' = From /\ To' = To /\ settled' = settled
    BY <1>1 DEF From, To
  <1>5. board' = GoTo(settled, From, To)
    BY <1>1, <1>2 DEF GoTo
  <1>6. board' \in Boards /\ \A s \in Squares : s \notin {From, To} => board'[s] = settled[s]
    <2>1. /\ GoTo(settled, From, To) \in Boards
          /\ \A s \in Squares \ {From, To} : GoTo(settled, From, To)[s] = settled[s]
      BY <1>3, GoToEffect
    <2> QED
      BY <1>5, <2>1, Zenon
  <1>7. BoardOfTheTurn'
    BY <1>1, <1>2, <1>4, <1>5, <1>6 DEF BoardOfTheTurn, Quiet
  <1>8. block \in Blocks
    BY <1>3 DEF Blocks, ReplaceBlock, KillBlock
  <1>9. blocks' \in Seq(Blocks)
    BY <1>1, <1>3, <1>8, AppendProperties
  <1>10. pc' \in WithTarget \cup {"waitTo", "crashed"} /\ held' \in Piece
    BY <1>1, <1>3 DEF WithTarget
  <1> QED
    BY <1>1, <1>6, <1>7, <1>9, <1>10, JudgingStep

\* The end of a turn preserves the invariant: the counter and the two taps of
\* the turn change together.
LEMMA FinishStep ==
    ASSUME GameInv, Finish
    PROVE  GameInv'
  <1>1. /\ UNCHANGED <<number, saved, taps, saves, line, seen, boardButton, frame, board, permits,
                       row, col, row1, col1, held, blocks>>
        /\ pc = "finish" /\ pc \in WithTarget
        /\ winner' = (winner /\ ~\E i \in Squares :
                          /\ board[i].PType = "king"
                          /\ board[i].Color # board[To].Color
                          /\ check(i, To))
        /\ moves' = moves + 1
        /\ color' = Abs(color - 1)
        /\ settled' = board
        /\ pc' = IF winner' THEN "waitFrom" ELSE "over"
    BY DEF Finish, NextColor, Elsewhere, userVars, viewVars, WithTarget
  <1>2. winner' = TRUE /\ pc' = "waitFrom"
    <2>1. winner
      BY DEF GameInv, GameGoesOn
    <2>2. winner'
      BY <1>1, <2>1, Zenon DEF check
    <2>3. winner' \in BOOLEAN
      BY <1>1, Zenon
    <2> QED
      BY <1>1, <2>2, <2>3
  <1>3. color' \in {0, 1}
    BY <1>1 DEF GameInv, TypeOK, Abs
  <1>4. TypeOK'
    BY <1>1, <1>2, <1>3 DEF GameInv, TypeOK, PCs
  <1>5. TapsStayOnTheBoard'
    BY <1>1 DEF GameInv, TapsStayOnTheBoard
  <1>6. TapsPayForMoves'
    BY <1>1, <1>2, MaxTapsAssumption DEF GameInv, TypeOK, TapsPayForMoves, Used
  <1>7. ReadFromTaps'
    BY <1>1, <1>2 DEF GameInv, ReadFromTaps, WithPiece, WithTarget
  <1>8. PieceOfTheSide'
    BY <1>2 DEF PieceOfTheSide, WithPiece
  <1>9. BoardOfTheTurn'
    BY <1>1, <1>2 DEF BoardOfTheTurn
  <1>10. GameGoesOn'
    BY <1>2 DEF GameGoesOn
  <1> QED
    BY <1>4, <1>5, <1>6, <1>7, <1>8, <1>9, <1>10 DEF GameInv

-----------------------------------------------------------------------------
(* The theorems.                                                           *)

\* The invariant holds when startNewGame has set the game up.
LEMMA InitGameInv == Init => GameInv
  <1> SUFFICES ASSUME Init PROVE GameInv
    OBVIOUS
  <1>1. InitBoardA \in Boards
    BY InitBoardAType
  <1>2. OnGrid(frame)
    BY FrameRoundTrip DEF Init, OnGrid, Buttons
  <1>3. blocks \in Seq(Blocks) /\ blocks = <<>>
    BY EmptySeq DEF Init
  <1>4. saved \in [moves : Nat \cup {-1}, board : Boards]
    BY <1>1 DEF Init, NoSave
  <1>5. boardButton \in [Squares -> Buttons \cup {Detached}]
    BY DEF Init, Buttons
  <1>6. TypeOK
    BY <1>1, <1>2, <1>3, <1>4, <1>5, EmptyPieceIsPiece, MaxTapsAssumption,
       MaxSavesAssumption
       DEF Init, TypeOK, PCs, Squares, OnGrid
  <1>7. TapsStayOnTheBoard
    BY <1>2 DEF OnGrid, TapsStayOnTheBoard
  <1>8. TapsPayForMoves
    BY DEF Init, TapsPayForMoves, Used
  <1>9. ReadFromTaps
    BY DEF Init, ReadFromTaps, WithPiece, WithTarget
  <1>10. PieceOfTheSide
    BY DEF Init, PieceOfTheSide, WithPiece
  <1>11. BoardOfTheTurn
    BY DEF Init, BoardOfTheTurn
  <1>12. GameGoesOn
    BY DEF Init, GameGoesOn
  <1> QED
    BY <1>6, <1>7, <1>8, <1>9, <1>10, <1>11, <1>12 DEF GameInv

\* A step that changes no variable preserves the invariant.
LEMMA StutterGameInv ==
    ASSUME GameInv, UNCHANGED vars
    PROVE  GameInv'
  <1>1. UNCHANGED <<board, permits, pc, workerVars, userVars, line, seen, blocks,
                    boardButton, frame>>
    BY DEF vars, workerVars, userVars
  <1>2. TapsStayOnTheBoard'
    BY <1>1 DEF GameInv, TapsStayOnTheBoard
  <1> QED
    BY <1>1, <1>2, ViewStep DEF GameInv, TypeOK

\* Every step of either thread preserves the invariant.
LEMMA NextGameInv ==
    ASSUME GameInv, [Next]_vars
    PROVE  GameInv'
  <1>1. ASSUME NEW sender \in Buttons, buttonPressed(sender)
        PROVE  GameInv'
    BY <1>1, ButtonPressedStep
  <1>2. CASE saveGame
    BY <1>2, SaveGameStep
  <1>3. CASE RunBlock
    BY <1>3, RunReplaceStep, ReadOperandStep, RunKillStep DEF RunBlock
  <1>4. CASE Worker
    BY <1>4, WaitStep, ReadRowStep, ReadColStep, ReadRow1Step, ReadCol1Step,
       EvaluateStep, ProbeStep, PlaceStep, VacateStep, FinishStep DEF Worker
  <1>5. CASE UNCHANGED vars
    BY <1>5, StutterGameInv
  <1> QED
    BY <1>1, <1>2, <1>3, <1>4, <1>5 DEF Next

\* The invariant of the two threads holds in every game, for any taps, any
\* number of saves and patient or hasty players.
THEOREM GameInvariant == Spec => []GameInv
  <1>1. Init => GameInv
    BY InitGameInv
  <1>2. GameInv /\ [Next]_vars => GameInv'
    BY NextGameInv
  <1> QED
    BY <1>1, <1>2, PTL DEF Spec

\* Every variable of the two threads keeps its type, however their steps
\* interleave.
THEOREM GameTypes == Spec => []TypeOK
  <1>1. GameInv => TypeOK
    BY DEF GameInv
  <1> QED
    BY <1>1, GameInvariant, PTL

\* The shared board is the position of the game outside a probe of canKill
\* and the writes of a move, and differs from it on two squares inside them.
THEOREM NoTrace == Spec => []ProbesLeaveNoTrace
  <1>1. GameInv => ProbesLeaveNoTrace
    BY DEF GameInv, BoardOfTheTurn, ProbesLeaveNoTrace
  <1> QED
    BY <1>1, GameInvariant, PTL

\* No move is made without two taps of its own.
THEOREM MovesArePaid == Spec => []TapsPayForMoves
  <1>1. GameInv => TapsPayForMoves
    BY DEF GameInv
  <1> QED
    BY <1>1, GameInvariant, PTL

\* Every painted button stays on the grid and reports its square, also when
\* capture blocks run on values the worker has overwritten.
THEOREM ButtonsOnGrid == Spec => []TapsStayOnTheBoard
  <1>1. GameInv => TapsStayOnTheBoard
    BY DEF GameInv
  <1> QED
    BY <1>1, GameInvariant, PTL

\* The piece the worker is about to move is one of the side to move.
THEOREM ChosenOwn == Spec => []ChosenPieceIsOwn
  <1>1. GameInv => ChosenPieceIsOwn
    <2> SUFFICES ASSUME GameInv,
                        pc \in {"waitTo", "readRow1", "readCol1", "judge", "judgeKill",
                                "choose", "chooseKill", "goTo", "kill"}
                 PROVE  board[From].PType # "empty" /\ board[From].Color = Side(color)
      BY DEF ChosenPieceIsOwn
    <2>1. settled[From].PType # "empty" /\ settled[From].Color = Side(color)
      BY DEF GameInv, PieceOfTheSide, WithPiece
    <2>2. CASE pc \in {"judgeKill", "chooseKill"}
      <3>1. /\ board = [settled EXCEPT ![To] = EmptyPiece]
            /\ settled[To].Color # settled[From].Color
        BY <2>2 DEF GameInv, BoardOfTheTurn
      <3>2. From \in Squares /\ settled \in Boards
        BY <2>2, MoveSquares DEF WithTarget
      <3> QED
        BY <2>1, <3>1, <3>2 DEF Boards
    <2>3. CASE pc \notin {"judgeKill", "chooseKill"}
      <3>1. board = settled
        BY <2>3 DEF GameInv, BoardOfTheTurn, Quiet
      <3> QED
        BY <2>1, <3>1
    <2> QED
      BY <2>2, <2>3
  <1> QED
    BY <1>1, GameInvariant, PTL

\* The engine the instance of ChessTurns uses is the engine of this module.
LEMMA SameEngine ==
    ASSUME NEW b, NEW p, NEW q
    PROVE  /\ Turns!InitBoardA = InitBoardA
           /\ Turns!Legal(b, p, q) = Legal(b, p, q)
           /\ Turns!GoTo(b, p, q) = GoTo(b, p, q)
           /\ Turns!Abs(p) = Abs(p)
  <1>1. Turns!InitBoardA = InitBoardA
    BY DEF InitBoardA, Turns!InitBoardA, HomeRank, Turns!HomeRank, EmptyPiece,
           Turns!EmptyPiece, Squares, Turns!Squares
  <1>2. ASSUME NEW e
        PROVE  Turns!CanGoTo(e, p, q) = CanGoTo(e, p, q)
    BY DEF CanGoTo, Turns!CanGoTo, RookCanGoTo, Turns!RookCanGoTo, PawnCanGoTo,
           Turns!PawnCanGoTo, KingCanGoTo, Turns!KingCanGoTo,
           QueenCanGoTo, Turns!QueenCanGoTo, BishopCanGoTo,
           Turns!BishopCanGoTo, KnightCanGoTo, Turns!KnightCanGoTo,
           RookKey, Turns!RookKey, QueenSteps, Turns!QueenSteps, Walk,
           Turns!Walk, Span, Turns!Span, Row, Turns!Row, Col,
           Turns!Col, Abs, Turns!Abs, Sgn, Turns!Sgn, Squares,
           Turns!Squares
  <1>3. Turns!canKill(b, p, q) = canKill(b, p, q)
    BY <1>2 DEF canKill, Turns!canKill, EmptyPiece, Turns!EmptyPiece
  <1>4. Turns!Legal(b, p, q) = Legal(b, p, q)
    BY <1>2, <1>3 DEF Legal, Turns!Legal
  <1>5. Turns!GoTo(b, p, q) = GoTo(b, p, q) /\ Turns!Abs(p) = Abs(p)
    BY DEF GoTo, Turns!GoTo, EmptyPiece, Turns!EmptyPiece, Abs, Turns!Abs
  <1> QED
    BY <1>1, <1>4, <1>5

\* The threaded game implements ChessTurns: the end of a turn is a legal move
\* between two squares read off the taps, and every other step of the two
\* threads leaves the game as it is.
THEOREM Refinement == Spec => ImplementsChessTurns
  <1>1. Init => Turns!Init
    BY SameEngine DEF Init, Turns!Init
  <1>2. GameInv /\ [Next]_vars => [Turns!Next]_(Turns!vars)
    <2> SUFFICES ASSUME GameInv, [Next]_vars
                 PROVE  Turns!Next \/ UNCHANGED <<settled, color, moves>>
      BY DEF Turns!vars
    <2>1. CASE Finish
      <3>1. pc = "finish" /\ pc \in WithTarget
        BY <2>1 DEF Finish, WithTarget
      <3>2. From \in Readable /\ To \in Readable
        BY <3>1, MoveSquares
      <3>3. moves < MaxTaps \div 2
        <4>1. 2 * moves + 2 + permits <= taps
          BY <3>1 DEF GameInv, TapsPayForMoves, Used
        <4> QED
          BY <4>1, MaxTapsAssumption DEF GameInv, TypeOK
      <3>4. Turns!Selectable(settled, color, From)
        BY <3>1 DEF GameInv, PieceOfTheSide, WithPiece, Turns!Selectable, Turns!Side, Side
      <3>5. Legal(settled, From, To) /\ board = GoTo(settled, From, To)
        BY <3>1 DEF GameInv, BoardOfTheTurn
      <3>6. settled' = board /\ moves' = moves + 1 /\ color' = Abs(color - 1)
        BY <2>1 DEF Finish, NextColor
      <3>7. Turns!Move(From, To)
        BY <3>3, <3>4, <3>5, <3>6, SameEngine DEF Turns!Move
      <3> QED
        BY <3>2, <3>7 DEF Turns!Next
    <2>2. CASE ~Finish
      <3>1. CASE \E sender \in Buttons : buttonPressed(sender)
        BY <3>1 DEF buttonPressed, workerVars
      <3>2. CASE saveGame
        BY <3>2 DEF saveGame, workerVars
      <3>3. CASE RunBlock
        BY <3>3 DEF RunBlock, RunReplace, ReadOperand, RunKill, workerVars
      <3>4. CASE Worker
        BY <2>2, <3>4 DEF Worker, Wait, ReadRow, ReadCol, ReadRow1, ReadCol1,
                          Evaluate, Probe, Place, Vacate, workerVars
      <3>5. CASE UNCHANGED vars
        BY <3>5 DEF vars
      <3> QED
        BY <3>1, <3>2, <3>3, <3>4, <3>5 DEF Next
    <2> QED
      BY <2>1, <2>2
  <1> QED
    BY <1>1, <1>2, GameInvariant, PTL DEF Spec, ImplementsChessTurns, Turns!Spec
-----------------------------------------------------------------------------
(* The screen of patient players.  Each player waits for the blocks of the  *)
(* last move before tapping, so at most one block is ever waiting and the   *)
(* row, col, row1 and col1 a capture block reads are those of its own move. *)
(* The invariant follows the block statement by statement.                  *)

\* The entries of the dictionary at the squares of S are drawn where they say
\* and are different buttons.
Follow(buttons, f, S) ==
    \A s \in S : buttons[s] # Detached =>
        /\ f[buttons[s]] = FrameOf(s)
        /\ \A t \in S : buttons[t] = buttons[s] => t = s

\* The pieces that b has on the squares of S are shown.
Shown(b, buttons, f, S) ==
    \A s \in S : b[s].PType # "empty" =>
        /\ buttons[s] # Detached
        /\ ImageOf(buttons[s]) = b[s]
        /\ f[buttons[s]] = FrameOf(s)

\* No block is waiting: the screen shows the last turn that has ended, or the
\* one about to end.
ScreenInStep ==
    /\ line = 0
    /\ Follow(boardButton, frame, Squares)
    /\ Shown(IF pc = "finish" THEN board ELSE settled, boardButton, frame, Squares)

\* The entry of the origin is the button of the piece that has moved.
MoverAtOrigin ==
    boardButton[From] # Detached /\ ImageOf(boardButton[From]) = board[To]

\* A block is waiting or half run: which one, and what it has done so far.
BlockOfTheTurn ==
    /\ \/ blocks = <<ReplaceBlock(From, To)>> /\ line = 0
       \/ blocks = <<KillBlock>> /\ From # To
    /\ board[From].PType = "empty"
    /\ Shown(board, boardButton, frame, Squares \ {From, To})
    /\ line = 0 => /\ Follow(boardButton, frame, Squares)
                   /\ From # To => MoverAtOrigin
    /\ line = 1 => /\ Follow(boardButton, frame, Squares \ {From})
                   /\ MoverAtOrigin
                   /\ frame[boardButton[From]] = FrameOf(To)
                   /\ \A s \in Squares \ {From} : boardButton[s] # boardButton[From]
    /\ line \in {2, 3} => /\ Follow(boardButton, frame, Squares \ {From})
                          /\ Shown(board, boardButton, frame, {To})
    /\ line = 3 => boardButton[From] = Detached

\* A tap waits only for an idle worker, a block only where the worker posted
\* it or waits for the next choice, and a capture is of another square.
OneThingAtATime ==
    /\ permits > 0 => permits = 1 /\ pc \in {"waitFrom", "waitTo"} /\ blocks = <<>>
    /\ pc \notin {"finish", "waitFrom"} => blocks = <<>>
    /\ pc \in {"kill", "killVacate"} => From # To

\* What a capture block has read are the values the variables still have: no
\* statement mixes the squares of two moves.
ReadInStep ==
    /\ blocks = <<>> => seen = <<>>
    /\ \A k \in 1 .. Len(seen) : seen[k] = Operands(line)[k]

ScreenInv == /\ OneThingAtATime
             /\ ReadInStep
             /\ blocks = <<>> => ScreenInStep
             /\ blocks # <<>> => BlockOfTheTurn

\* A block that has read nothing is in step.
LEMMA NothingRead == seen = <<>> => ReadInStep
  <1>1. seen = <<>> => Len(seen) = 0
    OBVIOUS
  <1> QED BY <1>1 DEF ReadInStep

\* The same of the next state.
LEMMA NothingReadNext == seen' = <<>> => ReadInStep'
  <1>1. seen' = <<>> => Len(seen') = 0
    OBVIOUS
  <1> QED BY <1>1 DEF ReadInStep

\* What swapping two buttons and their frames does to the screen.
LEMMA SwapScreen ==
    ASSUME NEW bb \in [Squares -> Buttons \cup {Detached}], NEW f \in [Buttons -> Int \X Int],
           NEW p \in Squares, NEW q \in Squares, Follow(bb, f, Squares)
    PROVE  LET cc == Swapped(bb, p, q)
               g  == SetFrame(SetFrame(f, bb[p], FrameOf(q)), bb[q], FrameOf(p))
           IN  /\ Follow(cc, g, Squares)
               /\ \A s \in Squares \ {p, q} :
                     cc[s] = bb[s] /\ (bb[s] # Detached => g[bb[s]] = f[bb[s]])
               /\ cc[q] = bb[p] /\ (bb[p] # Detached => g[bb[p]] = FrameOf(q))
  <1> DEFINE cc == Swapped(bb, p, q)
             g  == SetFrame(SetFrame(f, bb[p], FrameOf(q)), bb[q], FrameOf(p))
  <1>1. /\ cc[q] = bb[p] /\ cc[p] = bb[q]
        /\ \A s \in Squares \ {p, q} : cc[s] = bb[s]
    BY DEF Swapped
  <1>2. \A s \in Squares : bb[s] # Detached => bb[s] \in Buttons
    OBVIOUS
  <1>3. \A k \in Buttons : g[k] = IF k = bb[q] THEN FrameOf(p)
                                  ELSE IF k = bb[p] THEN FrameOf(q) ELSE f[k]
    BY DEF SetFrame
  <1>4. \A s, t \in Squares : bb[s] # Detached /\ bb[t] = bb[s] => t = s
    BY DEF Follow
  <1> HIDE DEF cc, g
  <1>5. bb[p] # Detached => g[bb[p]] = FrameOf(q)
    BY <1>2, <1>3, <1>4
  <1>6. bb[q] # Detached => g[bb[q]] = FrameOf(p)
    BY <1>2, <1>3, <1>4
  <1>7. \A s \in Squares \ {p, q} : bb[s] # Detached => g[bb[s]] = f[bb[s]]
    BY <1>2, <1>3, <1>4
  <1>8. Follow(cc, g, Squares)
    <2> SUFFICES ASSUME NEW s \in Squares, cc[s] # Detached
                 PROVE  /\ g[cc[s]] = FrameOf(s)
                        /\ \A t \in Squares : cc[t] = cc[s] => t = s
      BY DEF Follow
    <2>1. g[cc[s]] = FrameOf(s)
      <3>1. CASE s = q
        BY <1>1, <1>5, <3>1
      <3>2. CASE s = p
        BY <1>1, <1>6, <3>2
      <3>3. CASE s \notin {p, q}
        BY <1>1, <1>7, <3>3 DEF Follow
      <3> QED BY <3>1, <3>2, <3>3
    <2>2. ASSUME NEW t \in Squares, cc[t] = cc[s]
          PROVE  t = s
      BY <1>1, <1>4, <2>2
    <2> QED BY <2>1, <2>2
  <1> QED BY <1>1, <1>5, <1>7, <1>8 DEF cc, g

\* The screen when the game is set up: every button on its own square.
LEMMA InitScreenInv == Init => ScreenInv
  <1> SUFFICES ASSUME Init PROVE ScreenInv
    OBVIOUS
  <1>1. /\ pc = "waitFrom" /\ permits = 0 /\ blocks = <<>> /\ line = 0 /\ seen = <<>>
        /\ settled = InitBoardA
        /\ boardButton = [s \in Squares |-> s]
        /\ frame = [id \in Buttons |-> FrameOf(id)]
    BY DEF Init
  <1>2. \A s \in Squares : /\ boardButton[s] = s /\ frame[boardButton[s]] = FrameOf(s)
                           /\ s # Detached
    <2>1. \A s \in Squares : boardButton[s] = s /\ frame[s] = FrameOf(s)
      BY <1>1 DEF Buttons
    <2>2. \A s \in Squares : s # Detached
      BY DEF Squares, Detached
    <2> QED BY <2>1, <2>2
  <1>3. Follow(boardButton, frame, Squares)
    BY <1>2 DEF Follow
  <1>4. Shown(settled, boardButton, frame, Squares)
    BY <1>1, <1>2 DEF Shown, ImageOf
  <1>5. ScreenInStep
    BY <1>1, <1>3, <1>4 DEF ScreenInStep
  <1>6. ReadInStep
    BY <1>1, NothingRead
  <1> QED BY <1>1, <1>5, <1>6 DEF ScreenInv, OneThingAtATime

\* A step that leaves the screen, the board and the move alone.
LEMMA ScreenKept ==
    ASSUME ScreenInv, OneThingAtATime',
           UNCHANGED <<board, settled, row, col, row1, col1, blocks, line, seen, boardButton, frame>>,
           pc' # "finish" <=> pc # "finish"
    PROVE  ScreenInv'
  <1>1. (blocks = <<>> => ScreenInStep) => (blocks = <<>> => ScreenInStep)'
    BY DEF ScreenInStep
  <1>2. From' = From /\ To' = To
    BY DEF From, To
  <1>3. (blocks # <<>> => BlockOfTheTurn) => (blocks # <<>> => BlockOfTheTurn)'
    BY <1>2 DEF BlockOfTheTurn, MoverAtOrigin
  <1>4. ReadInStep => ReadInStep'
    BY DEF ReadInStep, Operands
  <1> QED BY <1>1, <1>3, <1>4 DEF ScreenInv

\* A step of the worker before the turn ends: no block waits, and the screen
\* still shows the position.
LEMMA ScreenDuringTurn ==
    ASSUME ScreenInv, Elsewhere, blocks = <<>>, blocks' = blocks,
           permits = 0, permits' = permits, settled' = settled,
           pc # "finish", pc' # "finish",
           pc' \in {"kill", "killVacate"} => From' # To'
    PROVE  ScreenInv'
  <1>1. line' = line /\ seen' = seen /\ boardButton' = boardButton /\ frame' = frame
    BY DEF Elsewhere, viewVars
  <1>2. ScreenInStep
    BY DEF ScreenInv
  <1>3. ScreenInStep'
    BY <1>1, <1>2 DEF ScreenInStep
  <1>4. OneThingAtATime'
    BY DEF OneThingAtATime
  <1>5. ReadInStep'
    BY <1>1, NothingReadNext DEF ScreenInv, ReadInStep
  <1> QED BY <1>3, <1>4, <1>5 DEF ScreenInv

\* The block of replaceButton brings the screen in step.
LEMMA ReplaceScreen ==
    ASSUME GameInv, ScreenInv, RunReplace
    PROVE  ScreenInv'
  <1>1. /\ blocks # <<>> /\ Head(blocks).kind = "replace" /\ line = 0
        /\ UNCHANGED <<board, permits, pc, row, col, row1, col1, settled, line>>
        /\ seen' = <<>>
    BY DEF RunReplace, MainFree, workerVars
  <1>2. BlockOfTheTurn
    BY <1>1 DEF ScreenInv
  <1>3. blocks = <<ReplaceBlock(From, To)>>
    <2>1. KillBlock.kind # "replace"
      BY DEF KillBlock
    <2>2. blocks = <<KillBlock>> => Head(blocks) = KillBlock
      OBVIOUS
    <2> QED BY <1>1, <1>2, <2>1, <2>2 DEF BlockOfTheTurn
  <1>4. Head(blocks).from = From /\ Head(blocks).to = To /\ blocks' = <<>>
    <2>1. Head(blocks) = ReplaceBlock(From, To) /\ Tail(blocks) = <<>>
      BY <1>3
    <2> QED BY <2>1 DEF RunReplace, ReplaceBlock
  <1>5. /\ frame' = SetFrame(SetFrame(frame, boardButton[From], FrameOf(To)),
                             boardButton[To], FrameOf(From))
        /\ boardButton' = Swapped(boardButton, From, To)
    BY <1>4 DEF RunReplace
  <1>6. From \in Squares /\ To \in Squares
    <2>1. row \in 0 .. 7 /\ col \in 0 .. 7 /\ row1 \in 0 .. 7 /\ col1 \in 0 .. 7
      BY <1>1 DEF GameInv, ReadFromTaps
    <2> QED BY <2>1 DEF From, To, Squares
  <1>7. /\ boardButton \in [Squares -> Buttons \cup {Detached}]
        /\ frame \in [Buttons -> Int \X Int]
    BY DEF GameInv, TypeOK
  <1>8. Follow(boardButton, frame, Squares) /\ (From # To => MoverAtOrigin)
    BY <1>1, <1>2 DEF BlockOfTheTurn
  <1>9. /\ Follow(boardButton', frame', Squares)
        /\ \A s \in Squares \ {From, To} :
              /\ boardButton'[s] = boardButton[s]
              /\ boardButton[s] # Detached => frame'[boardButton[s]] = frame[boardButton[s]]
        /\ boardButton'[To] = boardButton[From]
        /\ boardButton[From] # Detached => frame'[boardButton[From]] = FrameOf(To)
    BY <1>5, <1>6, <1>7, <1>8, SwapScreen
  <1>10. Shown(board, boardButton', frame', Squares)
    <2> SUFFICES ASSUME NEW s \in Squares, board[s].PType # "empty"
                 PROVE  /\ boardButton'[s] # Detached
                        /\ ImageOf(boardButton'[s]) = board[s]
                        /\ frame'[boardButton'[s]] = FrameOf(s)
      BY DEF Shown
    <2>1. s # From
      BY <1>2 DEF BlockOfTheTurn
    <2>2. CASE s = To
      BY <1>8, <1>9, <2>1, <2>2 DEF MoverAtOrigin
    <2>3. CASE s # To
      <3>1. /\ boardButton[s] # Detached
            /\ ImageOf(boardButton[s]) = board[s]
            /\ frame[boardButton[s]] = FrameOf(s)
        BY <1>2, <2>1, <2>3 DEF BlockOfTheTurn, Shown
      <3> QED BY <1>9, <2>1, <2>3, <3>1
    <2> QED BY <2>2, <2>3
  <1>11. OneThingAtATime
    BY DEF ScreenInv
  <1>12. OneThingAtATime'
    BY <1>1, <1>4, <1>11 DEF OneThingAtATime, From, To
  <1>13. pc # "finish" => board = settled
    BY <1>1, <1>11 DEF OneThingAtATime, GameInv, BoardOfTheTurn, Quiet
  <1>14. ScreenInStep'
    BY <1>1, <1>9, <1>10, <1>13 DEF ScreenInStep
  <1>15. ReadInStep'
    BY <1>1, NothingReadNext
  <1> QED BY <1>4, <1>12, <1>14, <1>15 DEF ScreenInv

\* A read of the capture block leaves the screen alone, and reads what the
\* worker last wrote: the worker waits for a tap that has not come.
LEMMA ReadOperandScreen ==
    ASSUME GameInv, ScreenInv, ReadOperand
    PROVE  ScreenInv'
  <1>1. /\ blocks # <<>> /\ seen \in Seq(0 .. 7) /\ Len(seen) < Len(Operands(line))
        /\ seen' = Append(seen, Operands(line)[Len(seen) + 1])
        /\ UNCHANGED <<board, permits, pc, row, col, row1, col1, settled, blocks, line,
                       boardButton, frame>>
    BY DEF ReadOperand, KillRuns, workerVars, GameInv, TypeOK
  <1>2. From' = From /\ To' = To /\ Operands(line)' = Operands(line)
    BY <1>1 DEF From, To, Operands
  <1>3. OneThingAtATime'
    BY <1>1, <1>2 DEF ScreenInv, OneThingAtATime
  <1>4. BlockOfTheTurn'
    BY <1>1, <1>2 DEF ScreenInv, BlockOfTheTurn, MoverAtOrigin
  <1>5. ReadInStep'
    <2>1. \A k \in 1 .. Len(seen) : seen[k] = Operands(line)[k]
      BY DEF ScreenInv, ReadInStep
    <2>2. /\ Len(seen') = Len(seen) + 1
          /\ \A k \in 1 .. Len(seen) : seen'[k] = seen[k]
          /\ seen'[Len(seen) + 1] = Operands(line)[Len(seen) + 1]
      BY <1>1
    <2>3. \A k \in 1 .. Len(seen') : seen'[k] = Operands(line)[k]
      BY <1>1, <2>1, <2>2
    <2> QED BY <1>1, <1>2, <2>3 DEF ReadInStep
  <1> QED BY <1>1, <1>3, <1>4, <1>5 DEF ScreenInv

\* Each statement of the capture block keeps its part of the invariant, and
\* the last brings the screen in step.
LEMMA KillScreen ==
    ASSUME GameInv, ScreenInv, RunKill
    PROVE  ScreenInv'
  <1> DEFINE bb == boardButton
             f  == frame
  <1>1. /\ blocks # <<>> /\ Head(blocks).kind = "kill" /\ line \in 0 .. 3
        /\ UNCHANGED <<board, permits, pc, row, col, row1, col1, settled>>
        /\ line' = (line + 1) % 4 /\ seen' = <<>>
        /\ KillStatement(line)
        /\ blocks' = IF line = 3 THEN Tail(blocks) ELSE blocks
        /\ seen \in Seq(0 .. 7) /\ Len(seen) = Len(Operands(line))
    BY DEF RunKill, KillRuns, workerVars, GameInv, TypeOK
  <1>2. BlockOfTheTurn
    BY <1>1 DEF ScreenInv
  <1>3. blocks = <<KillBlock>> /\ From # To
    <2>1. ReplaceBlock(From, To).kind # "kill"
      BY DEF ReplaceBlock
    <2>2. blocks = <<ReplaceBlock(From, To)>> => Head(blocks) = ReplaceBlock(From, To)
      OBVIOUS
    <2> QED BY <1>1, <1>2, <2>1, <2>2 DEF BlockOfTheTurn
  <1>4. /\ line = 3 => blocks' = <<>>
        /\ line # 3 => blocks' = <<KillBlock>> /\ blocks' # <<>>
    BY <1>1, <1>3
  <1>5. From \in Squares /\ To \in Squares
    BY <1>1, OperandType
  \* The statement has read the squares of the move.
  <1>15. /\ line = 0 => Subscript = From /\ FrameAt = To
         /\ line = 1 => Subscript = To /\ Source = From
         /\ line = 2 => Subscript = From
         /\ line = 3 => Subscript = From /\ FrameAt = From
    <2>1. /\ Len(seen) = IF line = 2 THEN 2 ELSE 4
          /\ \A k \in 1 .. Len(seen) : seen[k] = Operands(line)[k]
      BY <1>1, OperandType DEF ScreenInv, ReadInStep
    <2>2. /\ seen[1] = Operands(line)[1] /\ seen[2] = Operands(line)[2]
          /\ line # 2 => /\ seen[3] = Operands(line)[3]
                         /\ seen[4] = Operands(line)[4]
      BY <2>1
    <2> QED BY <2>2 DEF Operands, Subscript, Source, FrameAt, From, To
  <1>16. ReadInStep'
    BY <1>1, NothingReadNext
  <1>6. /\ bb \in [Squares -> Buttons \cup {Detached}]
        /\ f \in [Buttons -> Int \X Int]
        /\ Detached \notin Buttons
    BY DEF GameInv, TypeOK, Detached, Buttons, Squares
  <1>7. From' = From /\ To' = To /\ board' = board /\ settled' = settled /\ pc' = pc
    BY <1>1 DEF From, To
  <1>8. OneThingAtATime
    BY DEF ScreenInv
  <1>9. OneThingAtATime'
    BY <1>1, <1>4, <1>7, <1>8 DEF OneThingAtATime
  <1>10. /\ board[From].PType = "empty"
         /\ Shown(board, bb, f, Squares \ {From, To})
    BY <1>2 DEF BlockOfTheTurn
  \* The frame of the moved button goes to the target.
  <1>11. CASE line = 0
    <2>1. /\ frame' = SetFrame(f, bb[From], FrameOf(To)) /\ boardButton' = bb
          /\ line' = 1
      BY <1>1, <1>11, <1>15 DEF KillStatement
    <2>2. Follow(bb, f, Squares) /\ MoverAtOrigin
      BY <1>2, <1>3, <1>11 DEF BlockOfTheTurn
    <2>3. bb[From] \in Buttons
      BY <1>5, <1>6, <2>2 DEF MoverAtOrigin
    <2>4. \A s \in Squares \ {From} : bb[s] # bb[From]
      BY <1>5, <2>2 DEF Follow, MoverAtOrigin
    <2>5. /\ frame'[bb[From]] = FrameOf(To)
          /\ \A s \in Squares \ {From} : bb[s] # Detached => frame'[bb[s]] = f[bb[s]]
      BY <1>6, <2>1, <2>3, <2>4 DEF SetFrame
    <2>6. Follow(bb, frame', Squares \ {From})
      BY <2>2, <2>5 DEF Follow
    <2>7. Shown(board, bb, frame', Squares \ {From, To})
      BY <1>10, <2>5 DEF Shown
    <2>8. MoverAtOrigin'
      BY <1>7, <2>1, <2>2 DEF MoverAtOrigin
    <2>9. BlockOfTheTurn'
      BY <1>3, <1>4, <1>7, <1>10, <1>11, <2>1, <2>4, <2>5, <2>6, <2>7, <2>8
         DEF BlockOfTheTurn
    <2> QED BY <1>4, <1>9, <1>16, <1>11, <2>9 DEF ScreenInv
  \* The entry of the target becomes the moved button.
  <1>12. CASE line = 1
    <2>1. frame' = f /\ boardButton' = [bb EXCEPT ![To] = bb[From]] /\ line' = 2
      BY <1>1, <1>12, <1>15 DEF KillStatement, Captured
    <2>2. /\ Follow(bb, f, Squares \ {From}) /\ MoverAtOrigin
          /\ f[bb[From]] = FrameOf(To)
          /\ \A s \in Squares \ {From} : bb[s] # bb[From]
      BY <1>2, <1>12 DEF BlockOfTheTurn
    <2>3. /\ boardButton'[To] = bb[From]
          /\ \A s \in Squares \ {To} : boardButton'[s] = bb[s]
      BY <1>5, <1>6, <2>1
    <2>4. Follow(boardButton', f, Squares \ {From})
      BY <2>2, <2>3 DEF Follow
    <2>5. Shown(board, boardButton', f, Squares \ {From, To})
      BY <1>10, <2>3 DEF Shown
    <2>6. Shown(board, boardButton', f, {To})
      BY <2>2, <2>3 DEF Shown, MoverAtOrigin
    <2>7. BlockOfTheTurn'
      BY <1>3, <1>4, <1>7, <1>10, <1>12, <2>1, <2>4, <2>5, <2>6 DEF BlockOfTheTurn
    <2> QED BY <1>4, <1>9, <1>16, <1>12, <2>7 DEF ScreenInv
  \* The entry of the origin becomes a new button, never added to the view.
  <1>13. CASE line = 2
    <2>1. frame' = f /\ boardButton' = [bb EXCEPT ![From] = Detached] /\ line' = 3
      BY <1>1, <1>13, <1>15 DEF KillStatement
    <2>2. /\ Follow(bb, f, Squares \ {From})
          /\ Shown(board, bb, f, {To})
      BY <1>2, <1>13 DEF BlockOfTheTurn
    <2>3. /\ boardButton'[From] = Detached
          /\ \A s \in Squares \ {From} : boardButton'[s] = bb[s]
      BY <1>5, <1>6, <2>1
    <2>4. Follow(boardButton', f, Squares \ {From})
      BY <2>2, <2>3 DEF Follow
    <2>5. Shown(board, boardButton', f, Squares \ {From, To})
      BY <1>10, <2>3 DEF Shown
    <2>6. Shown(board, boardButton', f, {To})
      BY <1>3, <1>5, <2>2, <2>3 DEF Shown
    <2>7. BlockOfTheTurn'
      BY <1>3, <1>4, <1>7, <1>10, <1>13, <2>1, <2>3, <2>4, <2>5, <2>6 DEF BlockOfTheTurn
    <2> QED BY <1>4, <1>9, <1>16, <1>13, <2>7 DEF ScreenInv
  \* The new button gets a frame, which moves nothing on the screen.
  <1>14. CASE line = 3
    <2>1. /\ bb[From] = Detached
          /\ Follow(bb, f, Squares \ {From})
          /\ Shown(board, bb, f, {To})
      BY <1>2, <1>14 DEF BlockOfTheTurn
    <2>2. frame' = SetFrame(f, Detached, FrameOf(From)) /\ boardButton' = bb /\ line' = 0
      BY <1>1, <1>14, <1>15, <2>1 DEF KillStatement
    <2>3. frame' = f
      BY <1>6, <2>2 DEF SetFrame
    <2>4. Follow(bb, f, Squares)
      BY <2>1 DEF Follow
    <2>5. Shown(board, bb, f, Squares)
      BY <1>10, <2>1 DEF Shown
    <2>6. pc # "finish" => board = settled
      BY <1>1, <1>8 DEF OneThingAtATime, GameInv, BoardOfTheTurn, Quiet
    <2>7. ScreenInStep'
      BY <1>7, <2>2, <2>3, <2>4, <2>5, <2>6 DEF ScreenInStep
    <2> QED BY <1>4, <1>9, <1>16, <1>14, <2>7 DEF ScreenInv
  <1> QED BY <1>1, <1>11, <1>12, <1>13, <1>14

\* A patient tap finds the screen in step and leaves it so.
LEMMA TapScreen ==
    ASSUME GameInv, ScreenInv, Patient, NEW sender \in Buttons, buttonPressed(sender)
    PROVE  ScreenInv'
  <1>1. /\ UNCHANGED <<board, pc, row, col, row1, col1, settled, blocks, line, seen, boardButton, frame>>
        /\ permits' = permits + 1
        /\ Idle
    BY DEF buttonPressed, workerVars, viewVars
  <1>2. OneThingAtATime'
    BY <1>1 DEF OneThingAtATime, Idle
  <1> QED BY <1>1, <1>2, ScreenKept

\* A press of the save button leaves the screen alone; a crash it causes is
\* not at the end of a turn.
LEMMA SaveScreen ==
    ASSUME GameInv, ScreenInv, saveGame
    PROVE  ScreenInv'
  <1>1. /\ UNCHANGED <<board, permits, row, col, row1, col1, settled, blocks, line, seen,
                       boardButton, frame>>
        /\ pc' = pc \/ (Writing /\ pc' = "crashed")
    BY DEF saveGame, workerVars, viewVars
  <1>2. OneThingAtATime
    BY DEF ScreenInv
  <1>3. OneThingAtATime' /\ (pc' # "finish" <=> pc # "finish")
    BY <1>1, <1>2 DEF OneThingAtATime, Writing, From, To
  <1> QED BY <1>1, <1>3, ScreenKept

\* The wait of the worker takes the one permit.
LEMMA WaitScreen ==
    ASSUME GameInv, ScreenInv, Wait
    PROVE  ScreenInv'
  <1>1. /\ UNCHANGED <<board, row, col, row1, col1, settled, blocks, line, seen, boardButton, frame>>
        /\ permits > 0 /\ permits' = permits - 1
        /\ pc \in {"waitFrom", "waitTo"} /\ pc' \in {"readRow", "readRow1"}
    BY DEF Wait, PermitsAfterWait, workerVars, Elsewhere, viewVars
  <1>2. OneThingAtATime
    BY DEF ScreenInv
  <1>3. permits' = 0 /\ blocks' = <<>>
    BY <1>1, <1>2 DEF OneThingAtATime
  <1>4. OneThingAtATime'
    BY <1>1, <1>3 DEF OneThingAtATime
  <1> QED BY <1>1, <1>4, ScreenKept

\* While the worker reads a choice and judges it, no tap and no block wait.
LEMMA BusyWorker ==
    ASSUME GameInv, ScreenInv, pc \notin {"waitFrom", "waitTo", "finish"}
    PROVE  permits = 0 /\ blocks = <<>>
  <1>1. OneThingAtATime /\ permits \in Nat
    BY MaxTapsAssumption DEF ScreenInv, GameInv, TypeOK
  <1> QED BY <1>1 DEF OneThingAtATime

\* Reading a choice does not touch the screen.
LEMMA ReadScreen ==
    ASSUME GameInv, ScreenInv, ReadRow \/ ReadCol \/ ReadRow1 \/ ReadCol1
    PROVE  ScreenInv'
  <1>1. /\ permits' = permits /\ blocks' = blocks /\ settled' = settled /\ Elsewhere
        /\ pc \in {"readRow", "readCol", "readRow1", "readCol1"}
        /\ pc' \in {"readCol", "waitFrom", "waitTo", "readCol1", "judge"}
    BY DEF ReadRow, ReadCol, ReadRow1, ReadCol1, Refused
  <1>2. permits = 0 /\ blocks = <<>>
    BY <1>1, BusyWorker
  <1> QED BY <1>1, <1>2, ScreenDuringTurn

\* Judging a move does not touch the screen and never ends a turn without a
\* move: the second question is answered like the first.
LEMMA JudgeScreen ==
    ASSUME GameInv, ScreenInv, Evaluate \/ Probe
    PROVE  ScreenInv'
  <1>1. /\ permits' = permits /\ blocks' = blocks /\ settled' = settled /\ Elsewhere
        /\ pc \in {"judge", "choose", "judgeKill", "chooseKill"}
        /\ From' = From /\ To' = To
    BY DEF Evaluate, Probe, workerVars, From, To
  <1>2. permits = 0 /\ blocks = <<>>
    BY <1>1, BusyWorker
  <1>3. CASE Evaluate
    <2> DEFINE verdict == CanGoTo(board, From, To)
               probes  == verdict = "no" /\ board[To].Color # board[From].Color
    <2>1. /\ pc \in {"judge", "choose"}
          /\ pc' = IF verdict = "trap" THEN "crashed"
                   ELSE IF verdict = "yes"
                   THEN IF pc = "judge" THEN "choose" ELSE "goTo"
                   ELSE IF probes
                   THEN IF pc = "judge" THEN "judgeKill" ELSE "chooseKill"
                   ELSE IF pc = "judge" THEN "waitTo" ELSE "finish"
      BY <1>3 DEF Evaluate
    <2>2. pc = "choose" => verdict = "yes" \/ probes
      <3>1. pc = "choose" => board = settled /\ Legal(settled, From, To)
        BY DEF GameInv, BoardOfTheTurn, Quiet
      <3> QED BY <3>1 DEF Legal, canKill
    <2> HIDE DEF verdict, probes
    <2>3. pc' \notin {"finish", "kill", "killVacate"}
      BY <2>1, <2>2
    <2> QED BY <1>1, <1>2, <2>3, ScreenDuringTurn
  <1>4. CASE Probe
    <2> DEFINE verdict == CanGoTo(board, From, To)
    <2>1. /\ pc \in {"judgeKill", "chooseKill"}
          /\ pc' = IF verdict = "trap" THEN "crashed"
                   ELSE IF verdict = "yes"
                   THEN IF pc = "judgeKill" THEN "choose" ELSE "kill"
                   ELSE IF pc = "judgeKill" THEN "waitTo" ELSE "finish"
      BY <1>4 DEF Probe
    <2>2. /\ board = [settled EXCEPT ![To] = EmptyPiece]
          /\ settled[To].Color # settled[From].Color
          /\ CanGoTo(settled, From, To) = "no"
          /\ pc = "chooseKill" => Legal(settled, From, To)
      BY <2>1 DEF GameInv, BoardOfTheTurn
    <2>3. pc = "chooseKill" => verdict = "yes"
      BY <2>2 DEF Legal, canKill
    <2>4. From # To
      BY <2>2
    <2> HIDE DEF verdict
    <2>5. pc' # "finish"
      BY <2>1, <2>3
    <2> QED BY <1>1, <1>2, <2>4, <2>5, ScreenDuringTurn
  <1> QED BY <1>3, <1>4

\* The first write of a move does not touch the screen.
LEMMA PlaceScreen ==
    ASSUME GameInv, ScreenInv, Place
    PROVE  ScreenInv'
  <1>1. /\ permits' = permits /\ blocks' = blocks /\ settled' = settled /\ Elsewhere
        /\ pc \in {"goTo", "kill"} /\ From' = From /\ To' = To
        /\ pc' = IF pc = "goTo" THEN "goToVacate" ELSE "killVacate"
    BY DEF Place, workerVars, From, To
  <1>2. permits = 0 /\ blocks = <<>>
    BY <1>1, BusyWorker
  <1>3. pc' = "killVacate" => From' # To'
    BY <1>1 DEF ScreenInv, OneThingAtATime
  <1> QED BY <1>1, <1>2, <1>3, ScreenDuringTurn

\* The second write posts the block, whose move the screen does not show yet.
LEMMA VacateScreen ==
    ASSUME GameInv, ScreenInv, GameInv', Vacate
    PROVE  ScreenInv'
  <1> DEFINE block == IF pc = "goToVacate" THEN ReplaceBlock(From, To) ELSE KillBlock
  <1>1. /\ pc \in {"goToVacate", "killVacate"} /\ pc \in WithTarget
        /\ UNCHANGED <<permits, settled, row, col, row1, col1, line, seen, boardButton, frame>>
        /\ blocks' = Append(blocks, block)
        /\ pc' = "finish"
    BY DEF Vacate, WithTarget, workerVars, Elsewhere, viewVars
  <1>2. permits = 0 /\ blocks = <<>>
    BY <1>1, BusyWorker
  <1>3. blocks' = <<block>> /\ blocks' # <<>>
    BY <1>1, <1>2
  <1>4. From' = From /\ To' = To
    BY <1>1 DEF From, To
  <1>5. From \in Squares /\ To \in Squares /\ settled \in Boards
    BY <1>1, MoveSquares
  <1>6. board' = GoTo(settled, From, To)
    BY <1>1, <1>4 DEF GameInv, BoardOfTheTurn
  <1>7. /\ board'[From] = EmptyPiece
        /\ To # From => board'[To] = settled[From]
        /\ \A s \in Squares \ {From, To} : board'[s] = settled[s]
    BY <1>5, <1>6, GoToEffect, Zenon
  <1>8. /\ line = 0 /\ Follow(boardButton, frame, Squares)
        /\ Shown(settled, boardButton, frame, Squares)
    BY <1>1, <1>2 DEF ScreenInv, ScreenInStep
  <1>9. settled[From].PType # "empty"
    BY <1>1 DEF GameInv, PieceOfTheSide, WithPiece
  <1>10. boardButton[From] # Detached /\ ImageOf(boardButton[From]) = settled[From]
    BY <1>5, <1>8, <1>9 DEF Shown
  <1>11. From # To => MoverAtOrigin'
    BY <1>1, <1>4, <1>7, <1>10 DEF MoverAtOrigin
  <1>12. Shown(board', boardButton, frame, Squares \ {From, To})
    BY <1>7, <1>8 DEF Shown
  <1>13. board'[From].PType = "empty"
    BY <1>7 DEF EmptyPiece
  <1>14. \/ blocks' = <<ReplaceBlock(From, To)>>
         \/ blocks' = <<KillBlock>> /\ From # To
    BY <1>1, <1>3 DEF ScreenInv, OneThingAtATime
  <1>15. ReplaceBlock(From, To)' = ReplaceBlock(From, To) /\ KillBlock' = KillBlock
    BY <1>4 DEF ReplaceBlock, KillBlock
  <1>16. BlockOfTheTurn'
    BY <1>1, <1>4, <1>8, <1>11, <1>12, <1>13, <1>14, <1>15 DEF BlockOfTheTurn
  <1>17. OneThingAtATime'
    BY <1>1, <1>2 DEF OneThingAtATime
  <1>18. ReadInStep'
    BY <1>1, <1>2, NothingReadNext DEF ScreenInv, ReadInStep
  <1> QED BY <1>3, <1>16, <1>17, <1>18 DEF ScreenInv

\* The end of a turn may find its block waiting, half run or run.
LEMMA FinishScreen ==
    ASSUME GameInv, ScreenInv, GameInv', Finish
    PROVE  ScreenInv'
  <1>1. /\ UNCHANGED <<board, permits, row, col, row1, col1, blocks, line, seen, boardButton, frame>>
        /\ settled' = board /\ pc = "finish" /\ pc' \in {"waitFrom", "over"}
    BY DEF Finish, Elsewhere, viewVars
  <1>2. pc' = "waitFrom"
    BY <1>1 DEF GameInv, GameGoesOn
  <1>3. OneThingAtATime /\ permits \in Nat
    BY MaxTapsAssumption DEF ScreenInv, GameInv, TypeOK
  <1>4. OneThingAtATime'
    BY <1>1, <1>2, <1>3 DEF OneThingAtATime
  <1>5. (blocks = <<>> => ScreenInStep) => (blocks = <<>> => ScreenInStep)'
    BY <1>1, <1>2 DEF ScreenInStep
  <1>6. From' = From /\ To' = To
    BY <1>1 DEF From, To
  <1>7. (blocks # <<>> => BlockOfTheTurn) => (blocks # <<>> => BlockOfTheTurn)'
    BY <1>1, <1>6 DEF BlockOfTheTurn, MoverAtOrigin
  <1>8. ReadInStep => ReadInStep'
    BY <1>1 DEF ReadInStep, Operands
  <1> QED BY <1>4, <1>5, <1>7, <1>8 DEF ScreenInv

\* When the players are patient, the screen invariant holds in every game, for
\* any taps and any number of saves.
THEOREM PatientScreen == Spec => [](Patient => ScreenInv)
  <1>1. Init => (Patient => ScreenInv)
    BY InitScreenInv
  <1>2. /\ GameInv /\ GameInv' /\ [Next]_vars
        /\ Patient => ScreenInv
        => (Patient => ScreenInv)'
    <2> SUFFICES ASSUME GameInv, GameInv', [Next]_vars, Patient, ScreenInv
                 PROVE  ScreenInv'
      OBVIOUS
    <2>1. ASSUME NEW sender \in Buttons, buttonPressed(sender)
          PROVE  ScreenInv'
      BY <2>1, TapScreen
    <2>2. CASE saveGame
      BY <2>2, SaveScreen
    <2>3. CASE RunBlock
      BY <2>3, ReplaceScreen, ReadOperandScreen, KillScreen DEF RunBlock
    <2>4. CASE Worker
      BY <2>4, WaitScreen, ReadScreen, JudgeScreen, PlaceScreen, VacateScreen,
         FinishScreen DEF Worker
    <2>5. CASE UNCHANGED vars
      <3>1. /\ UNCHANGED <<board, settled, row, col, row1, col1, blocks, line, seen,
                           boardButton, frame, permits, pc>>
            /\ OneThingAtATime
        BY <2>5 DEF vars, ScreenInv
      <3>2. OneThingAtATime'
        BY <3>1 DEF OneThingAtATime, From, To
      <3> QED BY <3>1, <3>2, ScreenKept
    <2> QED BY <2>1, <2>2, <2>3, <2>4, <2>5 DEF Next
  <1> QED BY <1>1, <1>2, GameInvariant, PTL DEF Spec

\* Patient players miss no piece: once the screen has settled, after any
\* sequence of moves and captures, each piece of the board has its own button
\* in the view, on its square and with its image.  A hasty tap is the only way
\* a piece of the board loses its button.
THEOREM PatientPlayersMissNoPiece == Spec => [](Patient => NoPieceIsMissing)
  <1>1. GameInv /\ (Patient => ScreenInv) => (Patient => NoPieceIsMissing)
    <2> SUFFICES ASSUME GameInv, ScreenInv, Idle
                 PROVE  Shown(board, boardButton, frame, Squares)
      BY DEF NoPieceIsMissing, Shown
    <2>1. blocks = <<>> /\ pc \in {"waitFrom", "waitTo"}
      BY DEF Idle
    <2>2. board = settled
      BY <2>1 DEF GameInv, BoardOfTheTurn, Quiet
    <2> QED BY <2>1, <2>2 DEF ScreenInv, ScreenInStep
  <1> QED BY <1>1, GameInvariant, PatientScreen, PTL

\* With patient players the dictionary of buttons names a button of the view at
\* most once and by the square it is drawn on, whenever no capture block is half
\* run.
THEOREM PatientButtons == Spec => [](Patient => ButtonsFollowTheirSquares)
  <1>1. (Patient => ScreenInv) => (Patient => ButtonsFollowTheirSquares)
    <2> SUFFICES ASSUME ScreenInv, line = 0
                 PROVE  Follow(boardButton, frame, Squares)
      BY DEF ButtonsFollowTheirSquares, Follow
    <2> QED BY DEF ScreenInv, ScreenInStep, BlockOfTheTurn
  <1> QED BY <1>1, PatientScreen, PTL

-----------------------------------------------------------------------------
(* What ChessTurns promises, of the threaded game.                         *)

\* The theorems about ChessTurns, under the refinement mapping of Turns.
Chess == INSTANCE ChessTurnsProofs
         WITH position <- settled, Touched <- Readable, MaxMoves <- MaxTaps \div 2

\* The constants of the mapping are as ChessTurns assumes.
LEMMA MappedConstants ==
    Readable \subseteq Chess!Squares /\ MaxTaps \div 2 \in Nat
  <1>1. ASSUME NEW s \in Taps, NEW t \in Taps
        PROVE  Row(s) * 8 + Col(t) \in Squares
    BY TapsAssumption, ReadSquare DEF TapRows, TapCols
  <1> QED BY <1>1, MaxTapsAssumption DEF Readable, Squares, Chess!Squares

\* Both instances of ChessTurns are the same specification.
LEMMA SameTurns == Turns!Spec <=> Chess!Spec
  <1>1. Turns!Init <=> Chess!Init
    BY DEF Turns!Init, Chess!Init, Turns!InitBoardA, Chess!InitBoardA,
           Turns!Squares, Chess!Squares, Turns!HomeRank, Chess!HomeRank,
           Turns!EmptyPiece, Chess!EmptyPiece
  <1>2. [Turns!Next]_(Turns!vars) <=> [Chess!Next]_(Chess!vars)
    BY DEF Turns!Next, Chess!Next, Turns!Move, Chess!Move, Turns!Selectable,
           Chess!Selectable, Turns!Side, Chess!Side, Turns!vars, Chess!vars,
           Turns!Legal, Chess!Legal, Turns!CanGoTo, Chess!CanGoTo,
           Turns!canKill, Chess!canKill, Turns!RookCanGoTo,
           Chess!RookCanGoTo, Turns!PawnCanGoTo, Chess!PawnCanGoTo,
           Turns!KingCanGoTo, Chess!KingCanGoTo, Turns!QueenCanGoTo,
           Chess!QueenCanGoTo, Turns!BishopCanGoTo, Chess!BishopCanGoTo,
           Turns!KnightCanGoTo, Chess!KnightCanGoTo, Turns!Walk, Chess!Walk,
           Turns!RookKey, Chess!RookKey, Turns!QueenSteps, Chess!QueenSteps,
           Turns!Span, Chess!Span, Turns!Row, Chess!Row, Turns!Col,
           Chess!Col, Turns!Abs, Chess!Abs, Turns!Sgn, Chess!Sgn,
           Turns!Squares, Chess!Squares, Turns!GoTo, Chess!GoTo,
           Turns!EmptyPiece, Chess!EmptyPiece
  <1> QED BY <1>1, <1>2, PTL DEF Turns!Spec, Chess!Spec

\* However taps, saves and posted blocks interleave, pawns never retreat and
\* bishops keep their shade on the boards the worker's turns end with: the
\* threads cannot make a position the atomic game excludes.
THEOREM ThreadsKeepTheGame ==
    Spec => [](Turns!PawnsNeverRetreat /\ Turns!BishopsKeepTheirShade)
  <1>1. Chess!Spec => []Chess!PawnsNeverRetreat
    BY MappedConstants, Chess!PawnsAdvance, PTL
  <1>2. Chess!Spec => []Chess!BishopsKeepTheirShade
    BY MappedConstants, Chess!BishopsKeepShade, PTL
  <1>3. Chess!PawnsNeverRetreat <=> Turns!PawnsNeverRetreat
    BY DEF Chess!PawnsNeverRetreat, Turns!PawnsNeverRetreat, Chess!Squares,
           Turns!Squares, Chess!Row, Turns!Row
  <1>4. Chess!BishopsKeepTheirShade <=> Turns!BishopsKeepTheirShade
    BY DEF Chess!BishopsKeepTheirShade, Turns!BishopsKeepTheirShade, Chess!Squares,
           Turns!Squares, Chess!SquareShade, Turns!SquareShade, Chess!Row, Turns!Row,
           Chess!Col, Turns!Col
  <1> QED BY <1>1, <1>2, <1>3, <1>4, SameTurns, Refinement, PTL
             DEF ImplementsChessTurns

\* From the end of one turn of the worker to the end of the next, at most one
\* piece of the opponent is lost, and none of the mover but a bishop sent to its
\* own square.
THEOREM ThreadsKeepMaterial == Spec => Turns!MaterialNeverGrows
  <1>1. Chess!Spec => Chess!MaterialNeverGrows
    BY MappedConstants, Chess!MaterialShrinks, PTL
  <1>2. Chess!MaterialNeverGrows <=> Turns!MaterialNeverGrows
    <2>1. \A b, c : Chess!Count(b, c) = Turns!Count(b, c)
      <3>1. \A b, c : Chess!Occupied(b, c) = Turns!Occupied(b, c)
        BY DEF Chess!Occupied, Turns!Occupied, Chess!Squares, Turns!Squares
      <3>2. \A S : Chess!Cardinality(S) = Turns!Cardinality(S)
        BY DEF Chess!Cardinality, Turns!Cardinality
      <3> QED BY <3>1, <3>2 DEF Chess!Count, Turns!Count
    <2>2. /\ \A c : Chess!Side(c) = Turns!Side(c)
          /\ \A n : Chess!Abs(n) = Turns!Abs(n)
      BY DEF Chess!Side, Turns!Side, Chess!Abs, Turns!Abs
    <2>3. Chess!BishopDeletesItself <=> Turns!BishopDeletesItself
      BY <2>2 DEF Chess!BishopDeletesItself, Turns!BishopDeletesItself, Chess!Squares,
                  Turns!Squares, Chess!EmptyPiece, Turns!EmptyPiece
    <2>4. [LET mine   == Chess!Side(color)
               theirs == Chess!Side(Chess!Abs(color - 1))
           IN  /\ Chess!Count(settled', theirs) \in
                      {Chess!Count(settled, theirs) - 1, Chess!Count(settled, theirs)}
               /\ \/ Chess!Count(settled', mine) = Chess!Count(settled, mine)
                  \/ Chess!BishopDeletesItself]_(Chess!vars)
          <=>
          [LET mine   == Turns!Side(color)
               theirs == Turns!Side(Turns!Abs(color - 1))
           IN  /\ Turns!Count(settled', theirs) \in
                      {Turns!Count(settled, theirs) - 1, Turns!Count(settled, theirs)}
               /\ \/ Turns!Count(settled', mine) = Turns!Count(settled, mine)
                  \/ Turns!BishopDeletesItself]_(Turns!vars)
      BY <2>1, <2>2, <2>3 DEF Chess!vars, Turns!vars
    <2> QED BY <2>4, PTL DEF Chess!MaterialNeverGrows, Turns!MaterialNeverGrows
  <1> QED BY <1>1, <1>2, SameTurns, Refinement, PTL DEF ImplementsChessTurns
=============================================================================
