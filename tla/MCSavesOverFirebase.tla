------------------------ MODULE MCSavesOverFirebase ------------------------
(* Model-checking instance of SavesOverFirebase.                           *)
EXTENDS SavesOverFirebase

\* The writes of the saves of Games.
MCPayloads ==
    UNION {{Saved!Writes(id, g)[k] : k \in 1 .. LastSquare + 6} : id \in Ids, g \in Games}
=============================================================================
