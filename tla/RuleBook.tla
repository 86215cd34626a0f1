------------------------------ MODULE RuleBook ------------------------------
(***************************************************************************)
(* The engine against the rules of chess, on the positions of ChessTurns.  *)
(* The reference says where a piece may go by geometry, without the        *)
(* engine's loops: the squares between two squares are those of the        *)
(* segment that joins them.  Castling, en passant, promotion and the duty  *)
(* to answer check are left out of the reference: the engine has none.     *)
(***************************************************************************)
EXTENDS ChessTurns

Rise(p, q) == Row(q) - Row(p)
Run(p, q) == Col(q) - Col(p)

Straight(p, q) == p # q /\ (Rise(p, q) = 0 \/ Run(p, q) = 0)
Diagonal(p, q) == p # q /\ Abs(Rise(p, q)) = Abs(Run(p, q))

Between(p, q) ==
    {s \in Squares \ {p, q} :
        /\ Row(s) \in Span(Row(p), Row(q))
        /\ Col(s) \in Span(Col(p), Col(q))
        /\ Rise(p, s) * Run(p, q) = Run(p, s) * Rise(p, q)}

Free(b, p, q) == \A s \in Between(p, q) : b[s].PType = "empty"

Enemies(b, p, q) == b[q].PType # "empty" /\ b[q].Color # b[p].Color

Landing(b, p, q) == b[q].PType = "empty" \/ Enemies(b, p, q)

Forward(b, p) == IF b[p].Color = "white" THEN 1 ELSE -1

PawnRule(b, p, q) ==
    \/ Enemies(b, p, q) /\ Rise(p, q) = Forward(b, p) /\ Abs(Run(p, q)) = 1
    \/ /\ b[q].PType = "empty"
       /\ Run(p, q) = 0
       /\ \/ Rise(p, q) = Forward(b, p)
          \/ /\ Rise(p, q) = 2 * Forward(b, p)
             /\ Row(p) = IF b[p].Color = "white" THEN 1 ELSE 6
             /\ Free(b, p, q)

Rule(b, p, q) ==
    CASE b[p].PType = "bishop" -> Diagonal(p, q) /\ Free(b, p, q) /\ Landing(b, p, q)
      [] b[p].PType = "rook"   -> Straight(p, q) /\ Free(b, p, q) /\ Landing(b, p, q)
      [] b[p].PType = "queen"  -> /\ Straight(p, q) \/ Diagonal(p, q)
                                  /\ Free(b, p, q) /\ Landing(b, p, q)
      [] b[p].PType = "knight" -> /\ {Abs(Rise(p, q)), Abs(Run(p, q))} = {1, 2}
                                  /\ Landing(b, p, q)
      [] b[p].PType = "king"   -> /\ p # q
                                  /\ Abs(Rise(p, q)) <= 1 /\ Abs(Run(p, q)) <= 1
                                  /\ Landing(b, p, q)
      [] b[p].PType = "pawn"   -> PawnRule(b, p, q)

\* The engine accepts exactly the moves the rules give a piece of type t.
Follows(t) ==
    \A p \in Squares : position[p].PType = t =>
        \A q \in Squares \ {p} : Legal(position, p, q) <=> Rule(position, p, q)

-----------------------------------------------------------------------------
(* What holds.                                                             *)

\* For a bishop, on every position of a game and every other square, CanGoTo
\* and canKill together accept exactly the moves and captures of the rules.
BishopsFollowTheRules == Follows("bishop")

\* The same for a knight.
KnightsFollowTheRules == Follows("knight")

\* No move or capture that CanGoTo or canKill accepts lands on another piece
\* of the mover's own side, although a rook captures through CanGoTo and the
\* others through a probe that empties the target first.
NoPieceTakesItsOwn ==
    \A p \in Squares : position[p].PType # "empty" =>
        \A q \in Squares \ {p} : Legal(position, p, q) => Landing(position, p, q)

\* The loops of CanGoTo leave the board, and so trap on a missing key, only
\* for a rook or a queen: for the other pieces every key is computed from
\* squares between the two given ones.
OnlyRooksAndQueensTrap ==
    \A p \in Squares : position[p].PType \notin {"rook", "queen"} =>
        \A q \in Squares :
            CanGoTo(position, p, q) # "trap" /\ canKill(position, p, q) # "trap"
=============================================================================
