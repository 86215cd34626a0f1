# MyIVR: TLA+ models, checks and proofs

MyIVR ("Smart chess") is an iOS chess application written in Swift
(`Code/MyIVR`). It has a chess engine, a two-player game on one device, games
saved in a Firebase database through the client in `Code/Pods/FirebaseDatabase`,
and the beginnings of a four-player game over the network. This directory models
the parts that carry its logic, checks them with TLC on small instances and
proves the main results with TLAPS for every value of the constants.

## 1. Inventory

| Component | State | Operations | What makes it correct |
|---|---|---|---|
| Chess engine (`ChessFigure/GameData.swift`, `Piece.swift`, `PieceType.swift`) | `boardA`, a dictionary from 0...63 to pieces | `initBoardA`, `CanGoTo`, `canKill`, `GoTo`, `kill`, `check` | moves by the rules; no lookup of a missing key; a probe leaves the board as it was; a move changes two squares |
| Two-player game (`Controllers/TwoPlayerGame.swift`) | `number`, the semaphore, the worker's locals, `boardButton` and the frames of the buttons, `moves` | taps, the save button, the worker of `startNewGame`, blocks posted to the main queue | legal moves of alternating sides whatever is tapped when; no tap used twice; no tap left waiting; every piece can be seen and tapped where it stands |
| Saved games (`DataService.saveGame`, `checkSaves`, `loadGame`) | nodes `games/saves/<id>`, links `users/<uid>/userSaves` | one save is 69 unawaited writes | a save `checkSaves` reports is whole; what is saved can be loaded |
| Firebase client connection (`Core/FPersistentConnection.m`, `Core/Utilities/FIRRetryHelper.m`, `Realtime/FConnection.m`, `Core/FRepo.m`) | connection state, interrupt reasons, a scheduled retry, token fetches, listens, outstanding puts, acks held back | open, interrupt, resume, retry, authenticate, listen, put, resend, acknowledge | no assertion fires; never stranded, never back while interrupted; writes arrive in order, without a gap, and are answered once |
| Accounts (`AuthController.swift`) | form fields, requests under way, the current user | register, sign in, skip | a profile is that of its account; who passes the form as a user is one behind it |
| Setup of a two-player game (`StartTwoPlayerGame.swift`) | `info` = [players, colour] and two controls | two switches, start | the game starts as the controls show |
| Lobby (`DataService.createGame`, `searchGame`, `enterGame`; `StartFourPlayerGame`, `SearchGameController`) | nodes `games/<id>`, the `uid` a screen has read | create a game, the table of games | a created game has a creator and starts |
| Four-player game (`FourPlayersGame.swift`, `DataService.makeMove`, `updateGame`) | the loop of `waitPlayers`; behind it two boards and the last moves | wait for players; behind it poll, judge, send | the wait ends |
| Skins, unused classes, the rest of `Code/Pods` | | | not part of the core |

How they interact. `TwoPlayerGame` creates a `GameData` and starts a worker on a
background queue. The main thread writes the property `number` and signals the
semaphore at each tap; the worker waits on it, reads `number`, asks the engine,
changes `boardA` and posts blocks to the main queue that move the buttons. The
save button reads the same `boardA` on the main thread and hands it to
`DataService`. No lock protects any of this. `DataService` hands its writes to
the Firebase client, which runs everything on one serial queue and keeps each
write until the server has acknowledged it, over as many connections as that
takes. `AuthController` asks the auth service and is called back on the main
thread; the other screens read the current user, some when they are created and
some when a button is pressed. `waitPlayers` holds the main thread itself.

What is hard. The interleavings of the two threads (a tap between the two reads
of `number`, a tap before a posted block has run, a save during a move); the
board that `canKill` changes and restores; the blocks that read variables the
worker goes on changing; force-unwrapped lookups at computed keys; a save cut in
half by the end of the process; writes sent twice over two connections, tokens
and replies that arrive after an interruption, completions held back for a
reply that is lost; requests answered after the form has changed, or after the
user has passed it unanswered; a main thread that waits for itself. `PROJECT.json` lists these hazards with their
lines and the properties aimed at them.

## 2. Modules

| Module | Models |
|---|---|
| `GameData` | the engine, as operators on a board |
| `ChessTurns` | the abstract game: one atomic move of one side after the other |
| `RuleBook` | the rules of chess, stated without the engine's loops, against the engine on the positions of `ChessTurns` |
| `TwoPlayerGame` | the two threads of the two-player screen; implements `ChessTurns` |
| `Saves` | saving and loading over Firebase |
| `FPersistentConnection` | the connection of the Firebase client, the network, the server and the end of the process |
| `SavesOverFirebase` | `saveGame` composed with the client; implements `Saves` |
| `Screens` | accounts, setup, lobby, the wait for players and the navigation between them, on one main thread |
| `GameDataProofs`, `ChessTurnsProofs`, `TwoPlayerGameProofs`, `SavesProofs`, `FPersistentConnectionProofs`, `DeliveryProofs`, `SavesOverFirebaseProofs`, `ScreensProofs` | the proofs |
| `MCRuleBook`, `MCTwoPlayerGame`, `MCSaves`, `MCFPersistentConnection`, `MCSavesOverFirebase`, `MCScreens` | the modules TLC runs |

Operators whose names carry a suffix after an underscore (`PawnCanGoTo_backwards`)
are wrong variants of the definition before the underscore, one for each checked
property: with the variant in its place TLC finds the property violated.

### GameData

A board is a function from the 64 squares to records of a type and a colour;
`Piece.position` is never read. The loops of `CanGoTo` force-unwrap
`boardA[key]!`; since the key can leave 0...63, `CanGoTo` and `canKill` return
"yes", "no" or "trap", where "trap" ends the process. `Walk` is the common shape
of those loops: keys visited in order, a missing one traps, a piece stops with
"no". The paths are the code's own, also where they are not those of chess: the
rook along a row looks down its own column, the queen on a diagonal steps away
from its target (ten steps always leave the board, hence `QueenSteps`). A rook
captures through `CanGoTo`, every other piece through the probe in `canKill`. An
empty square counts as white, as in the code. `check` is a stub and never true.

### ChessTurns and RuleBook

`ChessTurns` is the promise of the two-player screen: the side to move picks one
of its pieces and a target the engine accepts; the board changes by that move, the
counter goes up, the turn passes. `Touched` is the set of squares a player may
choose and `MaxMoves` bounds a game. `RuleBook` defines where a piece may go from
geometry alone: the squares `Between` two squares are those on the segment that
joins them. Castling, en passant, promotion and check are left out of the
reference, as the engine has none of them.

### TwoPlayerGame

One action is one step the other thread can observe.

| Action | Code |
|---|---|
| `buttonPressed` | a tap: the square from the centre of the button, written to `number`, and a signal. One step: the signal only adds a permit, so whatever the worker does between the write and the signal it can do just as well after both |
| `saveGame` | the save button: reads the live board. A dictionary read that races with a write is undefined in Swift: it finds the board before or after the write, or the process ends |
| `RunReplace` | the block of `replaceButton`, whose squares are constants of the block |
| `ReadOperand` | one read of `row`, `col`, `row1` or `col1` by the next statement of the block posted after a capture; the worker may write them between two reads |
| `RunKill` | one of the four statements of that block, on what it has read |
| `Wait` | the four calls of `semaphore.wait` |
| `ReadRow`, `ReadCol`, `ReadRow1`, `ReadCol1` | the separate reads of `number`; `ReadCol` includes the test of the choice |
| `Evaluate`, `Probe` | `CanGoTo` and `canKill`, asked in the loop condition ("judge") and again in the if ("choose"); between them the target of the shared board is empty |
| `Place`, `Vacate` | the two writes of `GoTo` or `kill`, and the block posted after them |
| `Finish` | the scan for a lost king, the counter, the turn |

The main thread runs one event at a time, so a tap does not come between two
statements of a block (`MainFree`). The frames of the buttons are kept in points
as `paint` sets them, and `NumberAt` is the arithmetic of `buttonPressed` on the
centre of a frame. The button a capture creates is never added to the view: all
of those are `Detached`. `settled` is an observer: the board at the end of the
last turn. `Patient` restricts the players, not the program: TRUE means that a
player taps only when the screen has come to rest.

### Saves

One call of `saveGame` appends its writes to `pending` under a fresh key: the
squares, players, moves, date, color, and then the link. Firebase is external: its
client applies the writes of one client in the order they were issued, and, as
the application never enables disk persistence, forgets the unsent ones when the
process ends (`Terminate`). Every part is stored as a String except color, an
Int. `loadGame` reads every node under `saves`, whatever id it is given, and casts
every part to String. `LastSquare` is 63 in the code.

### FPersistentConnection

Every method and callback of the client runs as a block of one serial queue
(`sharedQueue`), so an action is a whole block and what interleaves is the order
of the blocks: timers, token callbacks, replies, calls of the application,
notifications of the system.

| Action | Code |
|---|---|
| `open`, `interruptForReason`, `resumeForReason`, `enteringForeground` | the calls of `FRepo` and the notifications; an interruption closes the connection or cancels the retry |
| `retry`, `fetchCallback` | the scheduled task of `FIRRetryHelper` and the two branches of the token callback |
| `onReady`, `onAuthReply`, `onAuthRevoked`, `refreshAuthToken` | the handshake, authentication and what `restoreState` sends again |
| `close`, `onKill` | the connection is lost, or the server sends the client away |
| `listen`, `unlisten`, `onListenReply` | reads; the reply that brings `unackedListensCount` to zero releases the completions held back |
| `setValue`, `putInternal`, `onPutReply` | a write: dispatched, registered and sent if possible, acknowledged |
| `serve`, `serveLingering` | the server (external) reads the open connection in order, or what was still in flight on a closed one |
| `terminate`, `launch` | the process ends and everything of the client is lost; it starts again |

A write is named by its place in the order of issue (`issued`), which is the order
of the keys of `outstandingPuts`. `up` and `down` are the two directions of the open
connection. A connection keeps its order but can be lost with any part of it
read; `lingering` holds what the server may still read after the client has given
it up. `launch` assumes that by then the server has read whatever it will ever read
of an earlier process (`lingering' = {}`). That is an assumption about the network
and the server: nothing in the client ensures it, and `ImplementsSaves` rests on it. `MaxFaults` counts what the environment does to the
client: losses, failed fetches, failed authentications, interruptions, changes
of the user, ends of the process. The back-off of `FIRRetryHelper` is only a
delay and is left out. A request with a callback is on `up` or `down` exactly as
long as its callback is registered, so the callbacks are not kept apart.

### SavesOverFirebase

`saveGame` issues the writes of `Saves!Writes` to the client; all other steps are
the client's. The refinement mapping to `Saves` reads off what the server knows:
`Settled` is the number of writes, of this process and of earlier ones, that will
not be applied for the first time any more; `Remaining`, the rest of `issued`, is
the queue of `Saves`, and `SavedNodes` and `SavedLinks` are what the applied writes
have stored. A write applied a second time stutters; so does everything the
connection does.

### Screens

The main thread is running, spinning or trapped. A request to the auth service
(external, modelled from its use: an address can be registered once and opens
with its password) is answered in two steps, `handle` by the service and
`callback` on the main thread. `ask` captures the fields as they are at the press,
as the closures of `register` and `signIn` do, or brings up the alert of a field
left empty. `skip` stands for the two buttons whose storyboard segues go past the
form. What `AuthController` presents covers it: a segue from a late answer then
does nothing (`leaveAuth`), and the `dismiss` of a late answer to the return key
takes the whole stack of screens away and returns to the form (`dismiss`). `guest`
is an observer: the present stack was entered with nobody signed in. `open` and `back` are the segues and the
back button; a screen that is created reads what its properties are initialised
with (`uid`). `waitPlayers` is one turn of the loop in `viewDidLoad`: it leaves when
`sucsess` is set, and otherwise posts a block to the main queue and goes on;
`mainQueue` runs such a block, or a callback, only when the thread is
free. The database, at this level, only stores.

## 3. Runs

| Run | Shows | Bounds |
|---|---|---|
| `chess` | pawns never stand behind their first row, the bishops of a side keep different shades, a move takes at most one piece from the opponent and none from its own side but a bishop sent to its own square; bishops and knights move exactly by the rules, nobody takes an own piece, only rooks and queens can trap | five moves among 14 squares, enough for either bishop to come out, pieces to be exchanged and the black king to be captured; the comparison with the rules ranges over all 64 x 64 pairs of squares on each position (1,539 states) |
| `fast` | with taps and a save at any moment: probes leave no trace, the chosen piece stays of the side to move, no tap is used twice, buttons stay on the grid, the threaded game implements `ChessTurns`, and every tap is taken | six taps on four squares: two moves and a capture, or any number of refused choices; one save (131,164 states) |
| `patient` | when the screen rests no piece is missing from it: each has its button in the view, on its square; the dictionary names a button at most once, by the square it is drawn on. Neither says that nothing else is drawn | ten taps on seven squares: five moves with a capture and a recapture on one square, refused choices and refused targets (95,289 states) |
| `saves` | a linked save is complete, wherever the process ended | three saves of two contents, a board of three squares (the proof is for any size) |
| `client` | no assertion of the client fires; it is never stranded, nor back while interrupted; listens are counted; writes arrive in order and are answered truthfully; every write gets through; a completion held back is released as long as anything is listened to | two writes, one query, two faults: a write can be sent, lost, sent again beside the second and lost again (124,503 states) |
| `saves_client` | the composition implements `Saves`, and a linked save is whole | two saves of a one-square board, six writes each, and one fault at any moment (183,655 states); the proof has no bound |
| `screens` | a profile matches its account, a game starts as its controls show, and the unwrap of a missing user fails only behind a form that was passed with nobody signed in | two addresses, two passwords, two requests under way at once, one game, relaunches (2.3 million states) |

Six-tap games are the shortest with a capture, since no capture is possible
before the third move.

Runs that are expected to end in a violation state what the user scripts, a
comment or a cast of the code says and show that the code does otherwise:

| Run | What TLC finds |
|---|---|
| `race` | a tap taken by the worker before the block of a capture has run makes the block move another button: a piece is missing from its square after everything has come to rest |
| `ghosts` | patient players too see pieces that are not on the board: nothing takes a captured button out of the view, and it lies above the winner when `paint` added it later |
| `save` | a save in the middle of a move stores the moving piece twice |
| `load` | loading any complete save ends the process, at the cast of color |
| `wait` | a created four-player game never starts: `waitPlayers` holds the main thread until a block sets `sucsess`, and the block needs that thread |

The engine also departs from the rules of chess where it is unfinished: kings
refuse every target, a pawn's move compares rows only, rooks and queens look at
squares that are not on their way and may leave the board, a bishop accepts its
own square and is deleted there. `GameData` keeps all of this as it is, and `chess`
states what is still true of it. The comparison of bishops with the rules, and
`NoPieceTakesItsOwn`, leave out the piece's own square; `MaterialNeverGrows` has
that case and names the bishop that deletes itself as its one exception.
`OnlyRooksAndQueensTrap` says nothing of the two pieces it names, which do trap,
the queen at its first diagonal choice.

Three more departures from the user scripts are visible in
`TwoPlayerGame` without a run of their own: `number` is read twice, so a tap in
between can choose a square nobody tapped (`ChosenPieceIsOwn` says what the choice
is nevertheless); the button a capture puts on the square it left is never added
to the view, so that square cannot be tapped until a later move puts another
button there; and a rook, which captures through `replaceButton`, swaps the image
of the captured piece onto the square it left.

Two limits of the other passing runs are of the same kind. `CompletionsAreCalled` is
about a client that listens to something: `onDisconnect` sets the count of
unanswered listens to zero without releasing the completions held back for them,
and when the listen has been removed by then nothing releases them before the
next one is answered. `OnlyGuestsMissTheUser` is about the moment the form is
passed: a user who sends the form, skips it and opens the lobby before the answer
is signed in by then, and the lobby still unwraps the nil it has read.

Deadlock is checked in `client` and `screens`; in the other runs a game stops when
the players stop tapping, and the models stop at their bounds.

Fairness. Two-player game: weak fairness of the worker and of the main queue, as
the dispatch queues run whatever is ready; nothing makes a player tap or save.
Client: the serial queue runs its blocks, the timer of a retry fires, the auth
service answers, a connection that is being opened gets its handshake and the
server reads an open connection; nobody has to issue, interrupt, resume, listen
or relaunch, and what is in flight on a closed connection need not be read. Since
faults are bounded, `WritesGetThrough` says that a write gets through once faults
stop. Screens: the auth service answers and the main thread runs what it is
given; the user does as he likes.

## 4. Proofs

No bound on taps, saves, moves, squares or contents is assumed beyond the named
assumptions in the modules (`Taps` and `Touched` are squares, the bounds are
natural numbers, `Queries` is finite, `NoGame` is not a game, the writes of a save
are payloads).

`ChessTurnsProofs`: `TypeCorrect`, `PawnsAdvance`, `BishopsKeepShade`.
Each is an induction on moves from lemmas of `GameDataProofs` on the engine: what
`GoTo` does to a square, that an accepted move was accepted by `CanGoTo` on the
board or on the board with its target emptied, and what `CanGoTo` says of a pawn
and a bishop. With the types each of the three is inductive as it stands.
`MaterialShrinks`: for a target other than the origin the mover's squares
afterwards are those before without the origin and with the target, which held no
other piece of the mover, and the opponent's are those before without the target.
Only a bishop is accepted on its own square (`OwnSquare`), and the move then
deletes it, the exception the statement names.

The same module compares the engine with `RuleBook`: `BishopsAreRight`,
`KnightsAreRight`, `OwnPiecesAreSafe`, `OthersNeverTrap`. Their lemmas hold on
every board, reachable or not, and the invariant supplies only that the board is
one; this is more than the run shows, which compares the two on the positions it
reaches. For a knight the rule and the code are two ways to write one condition.
For a bishop and a target other than its own square they are not: the reference
asks for the squares on the segment, the code walks a sequence of keys, a step
of 7 or 9 at a time. `BishopPath` shows that the keys stay on the board and on
the diagonal, `BishopSegment` that they are the squares between origin and
target, with the target last; so the walk answers "yes" exactly when the rule
does (`BishopRule`). `OthersDoNotTrap` rests on the same lemma: the only loop of
a piece that is neither a rook nor a queen is the bishop's.

`TwoPlayerGameProofs`: the invariant `GameInv` says, for each place the worker
can be at, how the shared board differs from the position (`BoardOfTheTurn`),
that what it read comes from taps (`ReadFromTaps`), that its piece is of the side
to move (`PieceOfTheSide`) and what the engine has answered. None of the checked
properties is inductive without it: in particular the worker asks the engine
twice, and only `BoardOfTheTurn` shows that the second answer is the first. From
it follow `NoTrace`, `ChosenOwn`, `MovesArePaid`, `ButtonsOnGrid` and
`Refinement`, in which `Finish` is the move of `ChessTurns` and every other step
stutters. By `Refinement`, and an instance of `ChessTurnsProofs` under the mapping,
the results on the abstract game are results on the threads: `ThreadsKeepTheGame`
(`PawnsNeverRetreat` and `BishopsKeepTheirShade` of the settled board) and `ThreadsKeepMaterial`.

The screen: `PatientPlayersMissNoPiece` and `PatientButtons` say that
`NoPieceIsMissing` and `ButtonsFollowTheirSquares` hold whenever `Patient` is
TRUE. The hypothesis is that of the run `patient`, and it is needed: without it
the run `race` refutes the first. The stronger claim that the screen shows the
board and nothing else is not proved, as the run `ghosts` refutes it even so. Neither is inductive, as between a move and
the block that shows it the two really differ. `ScreenInv` says how: a tap and a
posted block never wait together (`OneThingAtATime`); with no block waiting the
screen shows the last turn (`ScreenInStep`); with a block waiting or half run,
there is only that one, it is of the worker's own move, so the variables a
capture's block reads are still those of its move, and dictionary and frames are
as the statements run so far leave them (`BlockOfTheTurn`); what the next
statement has read is what a reader at one instant would find (`ReadInStep`). An
impatient tap destroys the last two of these. TLC checked `ScreenInv` on the instance of `patient`
before it was proved.

`SavesProofs`: the invariant `SavesInv` says that every pending write carries the
content its key was saved with and that when a link is pending, every part of
its save is on the server or pending before it. `LinkedSavesWhole` follows.

`FPersistentConnectionProofs`: `ConnInv` joins `AssertionsHold`, `NeverStranded`
and `InterruptedStaysAway` with the types of the connection and with
`ChannelsNeedConnection`: nothing is in flight without a connection, and a process
that does not run waits for `open`. None of the three is inductive alone: a
resume keeps the client from being stranded only because an interrupted one is
disconnected, and a retry keeps the assertions only because it finds the client
disconnected with no attempt newer than its own.

`DeliveryProofs`: `DeliveryInv` describes where every write is. `StreamsInOrder`
says of a put on a connection, open or closed, that each earlier write of the
process is applied or before it on the same connection; `NothingForgotten` that
every write whose block has run is applied or outstanding, and on the open
connection once that is connected; `RepliesAreTrue` that a reply carries an
applied write; `AuthFirst` that the first reply of a connection that authenticates
is the one that restores the state. From them follow
`WritesArriveInOrder`, `AcksAreTrue` and `ListensAreCounted`, for any number of
writes, connections and faults. The lemma on `SortedPuts` (the k-th element has
k elements up to it) is what makes resending keep the order.

`SavesOverFirebaseProofs`: `SavesImplemented`. `WritesArriveInOrder` makes the applied
writes of a process a prefix of those it issued, so applying a new one is taking
the head of `Remaining` (`SettledFacts`); the launch after the end of a process
moves `base` past what is left of it. `IssuedInv` says that no part of a save is
written twice, so what the server holds is determined by which writes it has
applied. `LinkedSavesWholeOverFirebase` then instantiates `SavesProofs` under the
mapping: what `LinkedSavesWhole` says of `Saves` holds over the client, for any size
of board and any number of saves, connections, losses and relaunches.

`ScreensProofs`: `ScreensInv` joins the types, the three properties the run
`screens` checks and two facts they need. `RequestsAreFilled` says that what is
under way carries an address and a password, and that an answer which granted a
request carries the password of its account; so the profile a callback writes is
that of the account, whatever the form holds by then. `UserIsKnown` says that
behind an `AuthController` that was not passed as a guest there is a user and the
lobby has read it, and that a block of `waitPlayers` waits only while its loop
holds the main thread. The theorems are `ScreensTypes`, `ProfilesAlwaysMatch`,
`SetupIsAlwaysShown` and `KnownUsersAreNeverMissed`, for any sets of addresses and
passwords and any number of requests under way. The last is about the moment the
form is passed: a guest whom a late answer signs in is still a guest.

Only model-checked: liveness (`TapsAreTaken`, `WritesGetThrough`,
`CompletionsAreCalled`), which is out of reach of the prover. Every safety invariant
and action property that a passing run checks is stated by a theorem.

## 5. Not modelled, and the plan

- Behind `waitPlayers` (`FourPlayersGame.startNewGames`, `playGame`, `cheking`,
  `makeMove`, `DataService.makeMove`, `updateGame`): the wait never ends, so no
  run of the program reaches this code. The run `wait` shows it.
- `DataService.searchGame`, `enterGame`, `setBoard`, `setFigure`: no caller, or the
  only call is commented out. The rating switch writes a value nobody reads.
- `DataService.checkSaves` and `loadGame` have no caller in the app: the screen of
  saved games is still empty. They are modelled all the same, since they are the
  other half of `saveGame`; what is said of a save that is seen or loaded (the runs
  `saves` and `load`) is about these functions, not about a screen.
- An account whose profile was never written, because the process ended between
  the two: `Screens` contains it, no property forbids it and the code does not
  repair it.
- The callbacks of `TwoPlayerGame.viewDidLoad`, which choose image names, and the
  application delegates, which are templates.
- Classes nobody uses: `Board`, `DefaultFigure`, `Knight`, `Pawn`, `Rook`,
  `GameDataFourPlayer`, `Piece.isValidMove`, `GameData.correctCoords`.
- Of the Firebase client: transactions, `onDisconnect` operations, purging of
  outstanding writes, listens the server denies or revokes, disk persistence
  and the local view of the data (sync tree). The application uses none of
  these but the last, which it sees only through single reads.
- The rejection of a write by the database, which depends on rules that are not
  in the repository.
- The other vendored libraries under `Code/Pods` (leveldb, nanopb, the Facebook
  SDK, GTMSessionFetcher, the rest of Firebase). They are by far the most lines
  of the repository and none of its logic: the application does not call them, or
  calls them only through what is modelled here. leveldb in particular is behind
  disk persistence, which the application never turns on. A model of them would
  be a model of another program, so they stay out although this leaves most
  lines of the repository without a model.

What could follow: an exact account of what rooks and queens accept, which `RuleBook`
leaves out because it is not the rule of chess; a model of the four-player game
once `waitPlayers` leaves the main thread.
