------------------------------- MODULE Saves -------------------------------
(***************************************************************************)
(* Saved games (DataService.saveGame, checkSaves, loadGame) over Firebase. *)
(* A save is one node games/saves/<id> filled by a series of independent   *)
(* updates, and one link to it under the user's userSaves.                 *)
(*                                                                         *)
(* Firebase is external.  Its client keeps the writes of the app in the    *)
(* order they were issued and sends them in that order whenever there is a *)
(* connection.  The app never turns disk persistence on, so the writes not *)
(* yet sent are lost when the process ends.                                *)
(***************************************************************************)
EXTENDS Integers, Sequences

CONSTANTS Ids,         \* keys childByAutoId can hand out
          Games,       \* contents of a save: a board, players, moves, colour
          NoGame,      \* no content
          LastSquare   \* the last square of the board: 63 in the code

ASSUME NoGameAssumption == NoGame \notin Games
ASSUME LastSquareAssumption == LastSquare \in Nat

VARIABLES made,     \* observer: the content each key was saved with
          pending,  \* writes issued and not yet applied by the server
          server,   \* the nodes games/saves/<id>, part by part
          links     \* the values under users/<uid>/userSaves

vars == <<made, pending, server, links>>

-----------------------------------------------------------------------------

\* The parts of a save, in the order of the writes: the squares (type and
\* colour of a piece in one update), players, moves, date and color.
PlayersPart == LastSquare + 1
MovesPart   == LastSquare + 2
DatePart    == LastSquare + 3
ColorPart   == LastSquare + 4
Parts       == 0 .. ColorPart

\* The write that follows them: the link to the save.
LinkWrite == LastSquare + 5

\* What is stored for a part: everything is turned into a String first,
\* except color, which is stored as the Int it is.
Stored(g, part) ==
    [type |-> IF part = ColorPart THEN "Int" ELSE "String", game |-> g]

Missing == [type |-> "NSNull", game |-> NoGame]

Values == [type : {"String", "Int", "NSNull"}, game : Games \cup {NoGame}]

Writes_linkBeforeColor(id, g) ==
    [k \in 1 .. LinkWrite + 1 |->
        LET part == IF k = LinkWrite + 1 THEN ColorPart
                    ELSE IF k = LinkWrite THEN LinkWrite ELSE k - 1
        IN  [id |-> id, part |-> part, value |-> Stored(g, part)]]

Writes_onePartMore(id, g) ==
    [k \in 1 .. LinkWrite + 2 |->
        [id |-> id, part |-> k - 1, value |-> Stored(g, k - 1)]]

Writes(id, g) ==
    [k \in 1 .. LinkWrite + 1 |->
        [id |-> id, part |-> k - 1, value |-> Stored(g, k - 1)]]

Init ==
    /\ made = [id \in Ids |-> NoGame]
    /\ pending = <<>>
    /\ server = [id \in Ids |-> [part \in Parts |-> Missing]]
    /\ links = {}

\* The whole call: every write is issued under a fresh key, none is awaited.
saveGame(id, g) ==
    /\ made[id] = NoGame
    /\ made' = [made EXCEPT ![id] = g]
    /\ pending' = pending \o Writes(id, g)
    /\ UNCHANGED <<server, links>>

\* The server applies the oldest write.
Apply ==
    /\ pending # <<>>
    /\ LET w == Head(pending)
       IN  IF w.part = LinkWrite
           THEN /\ links' = links \cup {w.id}
                /\ UNCHANGED server
           ELSE /\ server' = [server EXCEPT ![w.id][w.part] = w.value]
                /\ UNCHANGED links
    /\ pending' = Tail(pending)
    /\ UNCHANGED made

\* The process ends (by the user, the system or a trap) and is started again.
Terminate ==
    /\ pending # <<>>
    /\ pending' = <<>>
    /\ UNCHANGED <<made, server, links>>

Next == \/ \E id \in Ids, g \in Games : saveGame(id, g)
        \/ Apply
        \/ Terminate

Spec == Init /\ [][Next]_vars

-----------------------------------------------------------------------------
(* Loading.                                                                *)

\* The keys checkSaves hands to its handler.
checkSaves == links

\* The nodes under games/saves: a node exists once a part of it is written.
Nodes == {id \in Ids : \E part \in Parts : server[id][part] # Missing}

\* loadGame reads every node, whatever gameID says, and casts every part to
\* String with as!: a part that is missing or not a String ends the process.
loadGame(gameID) ==
    IF \A id \in Nodes, part \in Parts : server[id][part].type = "String"
    THEN "handled"
    ELSE "trap"

-----------------------------------------------------------------------------
(* Properties.                                                             *)

\* Every variable keeps its type: no write outside the parts of a save is
\* ever pending.
TypeOK ==
    /\ made \in [Ids -> Games \cup {NoGame}]
    /\ pending \in Seq([id : Ids, part : 0 .. LinkWrite, value : Values])
    /\ server \in [Ids -> [Parts -> Values]]
    /\ links \subseteq Ids

\* A save the user can see is whole: when checkSaves reports a key, every
\* square and every number of that save is on the server with the content it
\* was saved with, wherever the process was ended and however many saves were
\* on their way.
LinkedSavesAreComplete ==
    \A id \in links : /\ made[id] \in Games
                      /\ \A part \in Parts : server[id][part] = Stored(made[id], part)

-----------------------------------------------------------------------------
(* What the code says of loading, and does not hold.                       *)

\* A save the user can see can be loaded: the casts of loadGame assume that
\* every part is stored as a String.
LinkedSavesLoad == \A id \in checkSaves : loadGame(id) = "handled"
=============================================================================
