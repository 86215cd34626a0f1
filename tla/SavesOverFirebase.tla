------------------------- MODULE SavesOverFirebase -------------------------
(***************************************************************************)
(* DataService.saveGame on top of the Firebase client: the writes of a     *)
(* save go through the client's queue, over connections that come and go.  *)
(* The composition implements Saves, whose one queue and whose loss of all *)
(* pending writes at the end of the process are what the client provides.  *)
(***************************************************************************)
EXTENDS FPersistentConnection

CONSTANTS Ids, Games, NoGame, LastSquare  \* as in Saves

ASSUME SavesAssumption == NoGame \notin Games /\ LastSquare \in Nat

VARIABLE made  \* observer: the content each key was saved with

savesVars == <<vars, made>>

\* The number of writes of this process, and of the ones before, that the
\* server will not apply for the first time any more.
Settled == base + Cardinality({w \in applied : w > base})

\* The writes still to be applied.
Remaining == SubSeq(issued, Settled + 1, Len(issued))

\* What the server was told to hold under a key, part by part.
Holds(id, part) == {issued[w].value : w \in {v \in applied : /\ issued[v].id = id
                                                             /\ issued[v].part = part}}

OneOf(values) == CHOOSE v \in values : TRUE

SavedPart(id, part) ==
    IF Holds(id, part) = {} THEN [type |-> "NSNull", game |-> NoGame]
                            ELSE OneOf(Holds(id, part))

SavedNodes == [id \in Ids |-> [part \in 0 .. LastSquare + 4 |-> SavedPart(id, part)]]

SavedLinks == {issued[w].id : w \in {v \in applied : issued[v].part = LastSquare + 5}}

Saved == INSTANCE Saves WITH
    pending <- Remaining, server <- SavedNodes, links <- SavedLinks

\* The writes of a save are writes of the app.
ASSUME PayloadsAssumption ==
    \A id \in Ids, g \in Games : Saved!Writes(id, g) \in Seq(Payloads)

SavesInit == Init /\ made = [id \in Ids |-> NoGame]

saveGame_linkFirst(id, g) ==
    /\ made[id] = NoGame
    /\ made' = [made EXCEPT ![id] = g]
    /\ LET ws == Saved!Writes(id, g)
       IN  issue(<<ws[Len(ws)]>> \o SubSeq(ws, 1, Len(ws) - 1))
    /\ UNCHANGED <<alive, connectionVars, interruptReasons, retryVars, authToken,
                   outstandingPuts, putsToAck, completed, listens, applied, base, faults>>

\* The whole call: the writes are issued one after the other, none is awaited.
saveGame(id, g) ==
    /\ made[id] = NoGame
    /\ made' = [made EXCEPT ![id] = g]
    /\ issue(Saved!Writes(id, g))
    /\ UNCHANGED <<alive, connectionVars, interruptReasons, retryVars, authToken,
                   outstandingPuts, putsToAck, completed, listens, applied, base, faults>>

SavesNext ==
    \/ \E id \in Ids, g \in Games : saveGame(id, g)
    \/ ClientNext /\ UNCHANGED made

SavesSpec == SavesInit /\ [][SavesNext]_savesVars

-----------------------------------------------------------------------------
(* Properties.                                                             *)

\* Saves is implemented: seen from the app, writes wait in one queue and are
\* applied once each in the order they were issued, however often the client
\* sends them again; only the end of the process loses the rest.
ImplementsSaves == Saved!Spec

\* A save the user can see is whole, over the real client too.
LinkedSavesAreComplete == Saved!LinkedSavesAreComplete
=============================================================================
