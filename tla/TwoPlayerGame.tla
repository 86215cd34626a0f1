--------------------------- MODULE TwoPlayerGame ---------------------------
(***************************************************************************)
(* The two-player screen (Controllers/TwoPlayerGame.swift) as it runs: two *)
(* threads over shared, unlocked state.                                    *)
(*                                                                         *)
(*  - The main thread handles taps (buttonPressed), the save button        *)
(*    (saveGame) and the blocks posted with DispatchQueue.main.async, one  *)
(*    at a time.                                                           *)
(*  - The worker of startNewGame waits on the semaphore for taps, reads    *)
(*    the property number, judges the move, changes the board and posts    *)
(*    the block that moves the buttons.                                    *)
(*                                                                         *)
(* One action is one step another thread can see.  A tap writes number and *)
(* signals; reading number for the row and for the column are two reads;   *)
(* canKill empties the target square of the shared board while it asks     *)
(* CanGoTo; GoTo and kill write the board twice.  A block posted by        *)
(* replaceButton carries the two squares by value; the block posted after  *)
(* a capture reads the worker's own row, col, row1, col1 when it runs, one *)
(* read and one statement at a time.                                       *)
(***************************************************************************)
EXTENDS GameData, Sequences

CONSTANTS Taps,      \* the squares the players touch
          MaxTaps,   \* bound: the number of taps
          MaxSaves,  \* bound: the number of presses of the save button
          Patient    \* TRUE: a player waits until the screen has settled

ASSUME TapsAssumption == Taps \subseteq Squares
ASSUME MaxTapsAssumption == MaxTaps \in Nat
ASSUME MaxSavesAssumption == MaxSaves \in Nat
ASSUME PatientAssumption == Patient \in BOOLEAN

VARIABLES
    board,        \* verf.boardA, also reached as coppy.boardA
    number,       \* the square of the last tap
    permits,      \* the count of the semaphore
    pc,           \* where the worker is
    row, col,     \* the worker's chosen piece ...
    row1, col1,   \* ... and its target
    held,         \* the piece canKill keeps in its local a
    color,        \* the side to move: 0 is white, 1 is black
    moves,        \* the number of moves made
    winner,       \* the condition of the worker's loop
    blocks,       \* the main queue: blocks not yet run
    line,         \* statements already run of the capture block at its head
    seen,         \* what the next statement of that block has read so far
    boardButton,  \* the dictionary of buttons
    frame,        \* the frame of each button painted at the start
    saved,        \* what the save button last handed to DataService
    taps, saves,  \* taps and presses of save so far
    settled       \* observer: the board when the last turn ended

workerVars == <<row, col, row1, col1, held, color, moves, winner, settled>>
viewVars == <<boardButton, frame, seen>>
userVars == <<number, saved, taps, saves>>
vars == <<board, number, permits, pc, row, col, row1, col1, held, color, moves,
          winner, blocks, line, seen, boardButton, frame, saved, taps, saves, settled>>

-----------------------------------------------------------------------------
(* The screen.                                                             *)

\* The buttons painted at the start are named by their first square.  Every
\* UIButton() a capture creates is never added to the view and never gets a
\* target; all of them are Detached.
Buttons == Squares
Detached == 64

\* The image of a button is set once, by paint.
ImageOf(id) == InitBoardA[id]

\* The origin of the frame of square s, in points; a frame is 38 by 38.
FrameOf(s) == <<42 + 38 * Col(s), 439 - 38 * Row(s)>>

NumberAt_centreAsOrigin(f) ==
    LET cx == f[1] + 19
        cy == f[2] + 19
    IN  (((cx - 42) \div 38) % 8) + ((-cy + 439) \div 38) * 8

\* The square buttonPressed computes from the centre of its sender.
NumberAt(f) ==
    LET cx == f[1] + 19
        cy == f[2] + 19
    IN  (((cx - 19 - 42) \div 38) % 8) + ((-cy + 19 + 439) \div 38) * 8

\* boardButton[...]?.frame = r, of which only painted buttons are tracked.
SetFrame(f, id, r) == [k \in Buttons |-> IF k = id THEN r ELSE f[k]]

-----------------------------------------------------------------------------
(* The worker.                                                             *)

PCs == {"waitFrom", "readRow", "readCol", "waitTo", "readRow1", "readCol1",
        "judge", "judgeKill", "choose", "chooseKill", "goTo", "kill",
        "goToVacate", "killVacate", "finish", "over", "crashed"}

Alive == pc # "crashed"

Side(c) == IF c = 1 THEN "black" ELSE "white"

From == row * 8 + col
To == row1 * 8 + col1

\* Nothing is going on: the worker waits for a tap that has not come, and no
\* block is left to run.
Idle == pc \in {"waitFrom", "waitTo"} /\ permits = 0 /\ blocks = <<>>

NoSave == [moves |-> -1, board |-> InitBoardA]

Init ==
    /\ board = InitBoardA
    /\ settled = InitBoardA
    /\ number = 0
    /\ permits = 0
    /\ pc = "waitFrom"
    /\ row = -1 /\ col = -1 /\ row1 = -1 /\ col1 = -1
    /\ held = EmptyPiece
    /\ color = 0
    /\ moves = 0
    /\ winner = TRUE
    /\ blocks = <<>>
    /\ line = 0
    /\ seen = <<>>
    /\ boardButton = [s \in Squares |-> s]
    /\ frame = [id \in Buttons |-> FrameOf(id)]
    /\ saved = NoSave
    /\ taps = 0
    /\ saves = 0

-----------------------------------------------------------------------------
(* The main thread.                                                        *)

\* The main thread is between two events.
MainFree == Alive /\ line = 0 /\ seen = <<>>

buttonPressed(sender) ==
    /\ MainFree
    /\ taps < MaxTaps
    /\ Patient => Idle
    /\ NumberAt(frame[sender]) \in Taps
    /\ number' = NumberAt(frame[sender])
    /\ permits' = permits + 1
    /\ taps' = taps + 1
    /\ UNCHANGED <<board, pc, workerVars, blocks, line, viewVars, saved, saves>>

\* The worker is about to write the board.
Writing == pc \in {"judge", "judgeKill", "choose", "chooseKill",
                   "goTo", "kill", "goToVacate", "killVacate"}

(***************************************************************************)
(* The save button passes coppy.boardA, the live board, by value.  Nothing *)
(* orders this read with the worker's writes: it finds the board before or *)
(* after a write, or, as a race on the dictionary, ends the process.       *)
(***************************************************************************)
saveGame ==
    /\ MainFree
    /\ saves < MaxSaves
    /\ saves' = saves + 1
    /\ \/ /\ saved' = [moves |-> moves, board |-> board]
          /\ UNCHANGED pc
       \/ /\ Writing
          /\ pc' = "crashed"
          /\ UNCHANGED saved
    /\ UNCHANGED <<board, number, permits, workerVars, blocks, line, viewVars, taps>>

ReplaceBlock(p, q) == [kind |-> "replace", from |-> p, to |-> q]
KillBlock == [kind |-> "kill"]

Swapped_kept(buttons, p, q) == buttons

\* The dictionary with two entries swapped.
Swapped(buttons, p, q) ==
    [buttons EXCEPT ![q] = buttons[p], ![p] = buttons[q]]

\* The block of replaceButton: swap the two buttons and their frames.
RunReplace ==
    /\ MainFree
    /\ blocks # <<>>
    /\ Head(blocks).kind = "replace"
    /\ LET p == Head(blocks).from
           q == Head(blocks).to
       IN  /\ frame' = SetFrame(SetFrame(frame, boardButton[p], FrameOf(q)),
                                boardButton[q], FrameOf(p))
           /\ boardButton' = Swapped(boardButton, p, q)
    /\ blocks' = Tail(blocks)
    /\ UNCHANGED <<board, permits, pc, workerVars, line, seen, userVars>>

\* What statement n of the block posted after a capture reads, in order, of the
\* variables of the worker.  Each is read again for every use; of the reads in
\* a CGRect only col1 of x and row1 of y (col and row in the last statement)
\* reach the frame.
Operands(n) ==
    << <<row, col, col1, row1>>, <<row1, col1, row, col>>,
       <<row, col>>, <<row, col, col, row>> >>[n + 1]

\* A capture block is at the head of the queue.
KillRuns == Alive /\ blocks # <<>> /\ Head(blocks).kind = "kill"

\* The next read of the statement.  Nothing keeps the worker from writing the
\* variables between two of them.
ReadOperand ==
    /\ KillRuns
    /\ Len(seen) < Len(Operands(line))
    /\ seen' = Append(seen, Operands(line)[Len(seen) + 1])
    /\ UNCHANGED <<board, permits, pc, workerVars, blocks, line, boardButton, frame,
                   userVars>>

\* The squares the reads name: the subscript on the left of the assignment, the
\* subscript on its right, and the square of the CGRect.
Subscript == seen[1] * 8 + seen[2]
Source    == seen[3] * 8 + seen[4]
FrameAt   == seen[4] * 8 + seen[3]

Captured_targetKept(buttons) == buttons

\* The dictionary with the entry of the origin also at the target.
Captured(buttons) == [buttons EXCEPT ![Subscript] = buttons[Source]]

\* The four statements of the block, on what each has read.
KillStatement(n) ==
    \/ /\ n \in {0, 3}
       /\ frame' = SetFrame(frame, boardButton[Subscript], FrameOf(FrameAt))
       /\ UNCHANGED boardButton
    \/ /\ n = 1
       /\ boardButton' = Captured(boardButton)
       /\ UNCHANGED frame
    \/ /\ n = 2
       /\ boardButton' = [boardButton EXCEPT ![Subscript] = Detached]
       /\ UNCHANGED frame

RunKill ==
    /\ KillRuns
    /\ Len(seen) = Len(Operands(line))
    /\ KillStatement(line)
    /\ seen' = <<>>
    /\ line' = (line + 1) % 4
    /\ blocks' = IF line = 3 THEN Tail(blocks) ELSE blocks
    /\ UNCHANGED <<board, permits, pc, workerVars, userVars>>

RunBlock == RunReplace \/ ReadOperand \/ RunKill

-----------------------------------------------------------------------------
(* The worker's turn.                                                      *)

\* What a step of the worker that touches neither the main thread's state nor
\* the board leaves alone.
Elsewhere == UNCHANGED <<userVars, line, viewVars>>

\* A worker that signals the semaphore again after its wait.
PermitsAfterWait_resignalled(n) == n

PermitsAfterWait(n) == n - 1

\* semaphore.wait before a choice of a piece and before a choice of a target,
\* for the first tap and for the taps after a refused one.
Wait ==
    /\ permits > 0
    /\ \/ pc = "waitFrom" /\ pc' = "readRow"
       \/ pc = "waitTo"   /\ pc' = "readRow1"
    /\ permits' = PermitsAfterWait(permits)
    /\ UNCHANGED <<board, workerVars, blocks>> /\ Elsewhere

ReadRow ==
    /\ pc = "readRow"
    /\ row' = Row(number)
    /\ pc' = "readCol"
    /\ UNCHANGED <<board, permits, col, row1, col1, held, color, moves, winner,
                   settled, blocks>> /\ Elsewhere

NotChoosable_anyColour(b, s) == b[s].PType = "empty"

NotChoosable(b, s) == b[s].PType = "empty" \/ b[s].Color # Side(color)

Refused_withoutWaiting == "readRow"

\* Where a refused choice sends the worker.
Refused == "waitFrom"

\* Read the column and test the choice: an empty square or a piece of the
\* other side sends the worker back to wait for another tap.
ReadCol ==
    /\ pc = "readCol"
    /\ col' = Col(number)
    /\ pc' = IF NotChoosable(board, row * 8 + col') THEN Refused ELSE "waitTo"
    /\ UNCHANGED <<board, permits, row, row1, col1, held, color, moves, winner,
                   settled, blocks>> /\ Elsewhere

ReadRow1 ==
    /\ pc = "readRow1"
    /\ row1' = Row(number)
    /\ pc' = "readCol1"
    /\ UNCHANGED <<board, permits, row, col, col1, held, color, moves, winner,
                   settled, blocks>> /\ Elsewhere

ReadCol1 ==
    /\ pc = "readCol1"
    /\ col1' = Col(number)
    /\ pc' = "judge"
    /\ UNCHANGED <<board, permits, row, col, row1, held, color, moves, winner,
                   settled, blocks>> /\ Elsewhere

(***************************************************************************)
(* The first half of the loop condition !CanGoTo && !canKill (judge), and  *)
(* of the if that follows the loop and asks again (choose).  When CanGoTo  *)
(* says no and the colours differ, canKill empties the target.             *)
(***************************************************************************)
Evaluate ==
    /\ pc \in {"judge", "choose"}
    /\ LET verdict == CanGoTo(board, From, To)
           probes  == verdict = "no" /\ board[To].Color # board[From].Color
       IN  /\ board' = IF probes THEN [board EXCEPT ![To] = EmptyPiece] ELSE board
           /\ held' = IF probes THEN board[To] ELSE held
           /\ pc' = IF verdict = "trap" THEN "crashed"
                    ELSE IF verdict = "yes"
                    THEN IF pc = "judge" THEN "choose" ELSE "goTo"
                    ELSE IF probes
                    THEN IF pc = "judge" THEN "judgeKill" ELSE "chooseKill"
                    ELSE IF pc = "judge" THEN "waitTo" ELSE "finish"
    /\ UNCHANGED <<permits, row, col, row1, col1, color, moves, winner, settled,
                   blocks>> /\ Elsewhere

Restored_onSuccessOnly(verdict) ==
    IF verdict = "yes" THEN [board EXCEPT ![To] = held] ELSE board

\* The board when canKill returns; a trap leaves the target empty.
Restored(verdict) ==
    IF verdict = "trap" THEN board ELSE [board EXCEPT ![To] = held]

\* The second half: canKill asks CanGoTo about the emptied target and puts the
\* piece back.
Probe ==
    /\ pc \in {"judgeKill", "chooseKill"}
    /\ LET verdict == CanGoTo(board, From, To)
       IN  /\ board' = Restored(verdict)
           /\ pc' = IF verdict = "trap" THEN "crashed"
                    ELSE IF verdict = "yes"
                    THEN IF pc = "judgeKill" THEN "choose" ELSE "kill"
                    ELSE IF pc = "judgeKill" THEN "waitTo" ELSE "finish"
    /\ UNCHANGED <<permits, workerVars, blocks>> /\ Elsewhere

\* The first write of GoTo and of kill.
Place ==
    /\ pc \in {"goTo", "kill"}
    /\ board' = [board EXCEPT ![To] = board[From]]
    /\ pc' = IF pc = "goTo" THEN "goToVacate" ELSE "killVacate"
    /\ UNCHANGED <<permits, workerVars, blocks>> /\ Elsewhere

\* The second write, and the block for the main thread.
Vacate ==
    /\ pc \in {"goToVacate", "killVacate"}
    /\ board' = [board EXCEPT ![From] = EmptyPiece]
    /\ blocks' = Append(blocks, IF pc = "goToVacate" THEN ReplaceBlock(From, To)
                                                     ELSE KillBlock)
    /\ pc' = "finish"
    /\ UNCHANGED <<permits, workerVars>> /\ Elsewhere

NextColor_signDropped(c) == c - 1

NextColor_turnKept(c) == c

NextColor(c) == Abs(c - 1)

\* The end of a turn: look for a lost king, count the move, pass the turn.
Finish ==
    /\ pc = "finish"
    /\ winner' = (winner /\ ~\E i \in Squares :
                      /\ board[i].PType = "king"
                      /\ board[i].Color # board[To].Color
                      /\ check(i, To))
    /\ moves' = moves + 1
    /\ color' = NextColor(color)
    /\ settled' = board
    /\ pc' = IF winner' THEN "waitFrom" ELSE "over"
    /\ UNCHANGED <<board, permits, row, col, row1, col1, held, blocks>> /\ Elsewhere

Worker == \/ Wait \/ ReadRow \/ ReadCol \/ ReadRow1 \/ ReadCol1
          \/ Evaluate \/ Probe \/ Place \/ Vacate \/ Finish

Next == \/ \E sender \in Buttons : buttonPressed(sender)
        \/ saveGame
        \/ RunBlock
        \/ Worker

\* GCD runs both queues as long as they have work; nobody makes a player tap
\* or save.
Fairness == WF_vars(Worker) /\ WF_vars(RunBlock)

Spec == Init /\ [][Next]_vars /\ Fairness

-----------------------------------------------------------------------------
(* Properties.                                                             *)

Blocks == [kind : {"replace"}, from : Squares, to : Squares] \cup [kind : {"kill"}]

\* Every variable keeps its type; in particular the board keeps an entry for
\* each of the 64 squares whatever the two threads do.
TypeOK ==
    /\ board \in Boards /\ settled \in Boards
    /\ number \in Squares
    /\ permits \in 0 .. MaxTaps
    /\ pc \in PCs
    /\ row \in -1 .. 7 /\ col \in -1 .. 7
    /\ row1 \in -1 .. 7 /\ col1 \in -1 .. 7
    /\ held \in Piece
    /\ color \in {0, 1}
    /\ moves \in Nat
    /\ winner \in BOOLEAN
    /\ blocks \in Seq(Blocks)
    /\ line \in 0 .. 3
    /\ seen \in Seq(0 .. 7)
    /\ boardButton \in [Squares -> Buttons \cup {Detached}]
    /\ frame \in [Buttons -> Int \X Int]
    /\ saved \in [moves : Nat \cup {-1}, board : Boards]
    /\ taps \in 0 .. MaxTaps
    /\ saves \in 0 .. MaxSaves

\* A row of one tapped square with a column of another: what the worker can
\* make of the taps, since it reads number once for each.
Readable == {Row(s) * 8 + Col(t) : s, t \in Taps}

Turns == INSTANCE ChessTurns
         WITH position <- settled, Touched <- Readable, MaxMoves <- MaxTaps \div 2

\* The threaded game implements the atomic one: however taps, saves and posted
\* blocks interleave with the worker, the boards at the ends of the worker's
\* turns are a game of ChessTurns, legal moves of alternating sides between
\* squares that can be read off the taps.
ImplementsChessTurns == Turns!Spec

\* The worker has not begun to write this turn's move, and no probe of canKill
\* is open.
Quiet == pc \in {"waitFrom", "readRow", "readCol", "waitTo", "readRow1",
                 "readCol1", "judge", "choose", "goTo", "kill", "over"}

\* Outside a probe of canKill and the two writes of a move the shared board is
\* the position of the game, and inside them it differs from it on no square
\* but the chosen piece's and its target: whatever saveGame reads, it reads
\* that.
ProbesLeaveNoTrace ==
    /\ Quiet => board = settled
    /\ \A s \in Squares : s \notin {From, To} => board[s] = settled[s]

\* From the moment a choice is accepted until its piece is moved, the chosen
\* square holds a piece of the side to move, although the main thread goes on
\* changing number under the worker.
ChosenPieceIsOwn ==
    pc \in {"waitTo", "readRow1", "readCol1", "judge", "judgeKill",
            "choose", "chooseKill", "goTo", "kill"} =>
        board[From].PType # "empty" /\ board[From].Color = Side(color)

\* The taps this turn has certainly used.
Used == IF pc \in {"waitFrom", "over", "crashed"} THEN 0
        ELSE IF pc \in {"readRow", "readCol", "waitTo"} THEN 1
        ELSE 2

\* No move without its own two taps: the semaphore never lets the worker use
\* a tap twice, so the moves made, the taps used this turn and the taps still
\* waiting are all paid for.
TapsPayForMoves == 2 * moves + Used + permits <= taps

\* Every painted button stays on the grid of paint and reports the square it
\* is drawn on, even when a capture block runs on values the worker has
\* already overwritten: number always names a square.
TapsStayOnTheBoard ==
    \A id \in Buttons :
        /\ NumberAt(frame[id]) \in Squares
        /\ frame[id] = FrameOf(NumberAt(frame[id]))

\* Every tap is eventually taken by the worker, also the taps it refuses.
TapsAreTaken == (permits > 0) ~> (permits = 0 \/ ~Alive)

\* Once the screen has settled, no piece is missing from it: the dictionary
\* entry of its square is a button in the view, drawn on that square, with its
\* image.  What else is drawn there or on empty squares is not said.
NoPieceIsMissing ==
    Idle => \A s \in Squares :
        board[s].PType # "empty" =>
            /\ boardButton[s] # Detached
            /\ ImageOf(boardButton[s]) = board[s]
            /\ frame[boardButton[s]] = FrameOf(s)

\* The dictionary names a button of the view at most once and by the square it
\* is drawn on.  A captured button stays in the view and is named no more; the
\* entry a capture leaves at the origin names a button that is not in the view.
ButtonsFollowTheirSquares ==
    line = 0 => \A s \in Squares :
        boardButton[s] # Detached =>
            /\ frame[boardButton[s]] = FrameOf(s)
            /\ \A t \in Squares : boardButton[t] = boardButton[s] => t = s

-----------------------------------------------------------------------------
(* What the user scripts and the comments say, and the code does not do.   *)

\* A saved game is the position of the game when save was pressed
\* (scenario 8).
SavedGameIsThePosition ==
    [][saved' # saved => saved'.board = settled]_vars

\* The images of the buttons of the view that are drawn on square s.  paint adds
\* every button to the view and nothing removes one.
Images(s) == {ImageOf(id) : id \in {k \in Buttons : frame[k] = FrameOf(s)}} \ {EmptyPiece}

\* The settled screen shows the board and nothing else (scenario 5: the piece is
\* moved to the chosen point).
ScreenShowsTheBoard ==
    Idle => \A s \in Squares : Images(s) = {board[s]} \ {EmptyPiece}
=============================================================================
