---------------------------- MODULE SavesProofs ----------------------------
(***************************************************************************)
(* A save the user can see is whole, for every number of saves, contents   *)
(* and squares.  LinkedSavesAreComplete is not inductive: a link arrives   *)
(* from the queue, so the invariant must say that the queue holds, before  *)
(* each link, every part of that save the server does not have yet.        *)
(***************************************************************************)
EXTENDS Saves, SequenceTheorems, TLAPS

\* Every write on its way belongs to a save that was made and carries what
\* that save must store.
PendingIsOwn ==
    \A i \in 1 .. Len(pending) :
        /\ made[pending[i].id] \in Games
        /\ pending[i].value = Stored(made[pending[i].id], pending[i].part)

\* The part of the save is on the server.
Arrived(id, part) == server[id][part] = Stored(made[id], part)

\* A write of the part is among the first n on their way.
OnItsWay(id, part, n) ==
    \E j \in 1 .. n : pending[j].id = id /\ pending[j].part = part

\* Every link on its way comes after the parts it stands for.
LinksComeLast ==
    \A i \in 1 .. Len(pending) :
        pending[i].part = LinkWrite =>
            \A part \in Parts :
                \/ Arrived(pending[i].id, part)
                \/ OnItsWay(pending[i].id, part, i - 1)

SavesInv == TypeOK /\ PendingIsOwn /\ LinksComeLast /\ LinkedSavesAreComplete

-----------------------------------------------------------------------------
(* The parts.                                                              *)

\* The numbers that name parts and the link are where they should be.
LEMMA PartNumbers ==
    /\ LinkWrite \in Nat
    /\ ColorPart \in Nat
    /\ LinkWrite = ColorPart + 1
    /\ Parts = 0 .. LinkWrite - 1
  BY LastSquareAssumption DEF LinkWrite, ColorPart, Parts

\* What is stored is a value.
LEMMA StoredType ==
    ASSUME NEW g \in Games, NEW part
    PROVE  Stored(g, part) \in Values
  BY DEF Stored, Values

Write == [id : Ids, part : 0 .. LinkWrite, value : Values]

\* The writes of one call: the parts in order, the link at the end.
LEMMA WritesFacts ==
    ASSUME NEW id \in Ids, NEW g \in Games
    PROVE  /\ Writes(id, g) \in Seq(Write)
           /\ Len(Writes(id, g)) = LinkWrite + 1
           /\ \A k \in 1 .. LinkWrite + 1 :
                 Writes(id, g)[k] = [id |-> id, part |-> k - 1, value |-> Stored(g, k - 1)]
  <1> DEFINE N == LinkWrite + 1
  <1>1. N \in Nat
    BY PartNumbers
  <1>2. ASSUME NEW k \in 1 .. N
        PROVE  [id |-> id, part |-> k - 1, value |-> Stored(g, k - 1)] \in Write
    <2>1. k - 1 \in 0 .. LinkWrite
      BY PartNumbers
    <2>2. Stored(g, k - 1) \in Values
      BY StoredType
    <2> QED
      BY <2>1, <2>2 DEF Write
  <1>3. Writes(id, g) \in [1 .. N -> Write]
    BY <1>2 DEF Writes
  <1>4. Writes(id, g) \in Seq(Write)
    BY <1>1, <1>3, SeqDef
  <1>5. Len(Writes(id, g)) = N
    <2>1. DOMAIN Writes(id, g) = 1 .. N
      BY <1>3
    <2>2. DOMAIN Writes(id, g) = 1 .. Len(Writes(id, g)) /\ Len(Writes(id, g)) \in Nat
      BY <1>4, LenProperties
    <2> QED
      BY <1>1, <2>1, <2>2
  <1> QED
    BY <1>4, <1>5 DEF Writes

-----------------------------------------------------------------------------
(* The inductive steps, one lemma for each action.                         *)

\* A call of saveGame, whose writes end with the link and all carry a fresh
\* key, preserves the invariant.
LEMMA SaveGameStep ==
    ASSUME SavesInv, NEW id \in Ids, NEW g \in Games, saveGame(id, g)
    PROVE  SavesInv'
  <1> DEFINE w == Writes(id, g)
             n == Len(pending)
  <1>1. /\ made \in [Ids -> Games \cup {NoGame}] /\ made[id] = NoGame
        /\ made' = [made EXCEPT ![id] = g]
        /\ pending \in Seq(Write) /\ pending' = pending \o w
        /\ server' = server /\ links' = links /\ links \subseteq Ids
    BY DEF SavesInv, TypeOK, saveGame, Write
  <1>2. /\ w \in Seq(Write) /\ Len(w) = LinkWrite + 1
        /\ \A k \in 1 .. LinkWrite + 1 :
              w[k] = [id |-> id, part |-> k - 1, value |-> Stored(g, k - 1)]
    BY WritesFacts
  <1> HIDE DEF w
  <1>3. /\ n \in Nat /\ Len(pending') = n + LinkWrite + 1
        /\ \A i \in 1 .. n : pending'[i] = pending[i]
        /\ \A k \in 1 .. LinkWrite + 1 : pending'[n + k] = w[k]
        /\ pending' \in Seq(Write)
    <2>1. n \in Nat
      BY <1>1, LenProperties
    <2>2. /\ pending' \in Seq(Write)
          /\ Len(pending') = n + Len(w)
          /\ \A i \in 1 .. n + Len(w) :
                pending'[i] = IF i <= n THEN pending[i] ELSE w[i - n]
      BY <1>1, <1>2, ConcatProperties
    <2>3. ASSUME NEW k \in 1 .. LinkWrite + 1
          PROVE  pending'[n + k] = w[k]
      <3>1. n + k \in 1 .. n + Len(w) /\ ~(n + k <= n) /\ (n + k) - n = k
        BY <1>2, <2>1, PartNumbers
      <3> QED
        BY <2>2, <3>1
    <2>4. ASSUME NEW i \in 1 .. n
          PROVE  pending'[i] = pending[i]
      <3>1. i \in 1 .. n + Len(w) /\ i <= n
        BY <1>2, <2>1, PartNumbers
      <3> QED
        BY <2>2, <3>1
    <2> HIDE DEF n
    <2> QED
      BY <1>2, <2>1, <2>2, <2>3, <2>4, PartNumbers
  <1>4. \A i \in 1 .. n : pending[i] \in Write
    BY <1>1
  <1>5. \A i \in 1 .. n : pending[i].id # id
    BY <1>1, NoGameAssumption DEF SavesInv, PendingIsOwn
  <1>6. id \notin links
    BY <1>1, NoGameAssumption DEF SavesInv, LinkedSavesAreComplete
  <1>7. made' \in [Ids -> Games \cup {NoGame}] /\ made'[id] = g
        /\ \A k \in Ids \ {id} : made'[k] = made[k]
    BY <1>1
  <1>8. TypeOK'
    BY <1>1, <1>3, <1>7 DEF SavesInv, TypeOK, Write
  <1>9. PendingIsOwn'
    <2> SUFFICES ASSUME NEW i \in 1 .. Len(pending')
                 PROVE  /\ made'[pending'[i].id] \in Games
                        /\ pending'[i].value
                              = Stored(made'[pending'[i].id], pending'[i].part)
      BY DEF PendingIsOwn, Stored, ColorPart
    <2>1. CASE i \in 1 .. n
      BY <1>3, <1>4, <1>5, <1>7, <2>1 DEF SavesInv, PendingIsOwn, Write
    <2>2. CASE i \notin 1 .. n
      <3>1. i - n \in 1 .. LinkWrite + 1 /\ i = n + (i - n)
        BY <1>3, <2>2, PartNumbers
      <3>2. pending'[i] = [id |-> id, part |-> i - n - 1, value |-> Stored(g, i - n - 1)]
        BY <1>2, <1>3, <3>1
      <3> QED
        BY <1>7, <3>2
    <2> QED
      BY <2>1, <2>2
  <1>10. LinksComeLast'
    <2> SUFFICES ASSUME NEW i \in 1 .. Len(pending'),
                        pending'[i].part = LinkWrite,
                        NEW part \in Parts
                 PROVE  \/ server[pending'[i].id][part]
                              = Stored(made'[pending'[i].id], part)
                        \/ \E j \in 1 .. i - 1 : /\ pending'[j].id = pending'[i].id
                                                 /\ pending'[j].part = part
      BY <1>1 DEF LinksComeLast, Arrived, OnItsWay, Stored, ColorPart, LinkWrite, Parts
    <2>1. CASE i \in 1 .. n
      <3>1. pending'[i] = pending[i] /\ pending[i].id \in Ids \ {id}
        BY <1>3, <1>4, <1>5, <2>1 DEF Write
      <3>2. made'[pending[i].id] = made[pending[i].id]
        BY <1>7, <3>1
      <3>3. \/ server[pending[i].id][part] = Stored(made[pending[i].id], part)
            \/ \E j \in 1 .. i - 1 : pending[j].id = pending[i].id /\ pending[j].part = part
        BY <2>1, <3>1 DEF SavesInv, LinksComeLast, Arrived, OnItsWay
      <3>4. \A j \in 1 .. i - 1 : pending'[j] = pending[j]
        BY <1>3, <2>1
      <3> QED
        BY <3>1, <3>2, <3>3, <3>4
    <2>2. CASE i \notin 1 .. n
      <3>1. i - n \in 1 .. LinkWrite + 1 /\ i = n + (i - n)
        BY <1>3, <2>2, PartNumbers
      <3>2. pending'[i].id = id /\ i - n - 1 = LinkWrite
        BY <1>2, <1>3, <3>1
      <3>3. part + 1 \in 1 .. LinkWrite + 1 /\ n + (part + 1) \in 1 .. i - 1
        BY <1>3, <3>2, PartNumbers
      <3>4. pending'[n + (part + 1)].id = id /\ pending'[n + (part + 1)].part = part
        <4>1. pending'[n + (part + 1)]
                = [id |-> id, part |-> (part + 1) - 1, value |-> Stored(g, (part + 1) - 1)]
          BY <1>2, <1>3, <3>3
        <4>2. (part + 1) - 1 = part
          BY PartNumbers
        <4> QED
          BY <4>1, <4>2
      <3> QED
        BY <3>2, <3>3, <3>4
    <2> QED
      BY <2>1, <2>2
  <1>11. LinkedSavesAreComplete'
    <2> SUFFICES ASSUME NEW k \in links
                 PROVE  /\ made'[k] \in Games
                        /\ \A part \in Parts : server[k][part] = Stored(made'[k], part)
      BY <1>1 DEF LinkedSavesAreComplete, Stored, ColorPart, Parts
    <2>1. k \in Ids \ {id}
      BY <1>1, <1>6
    <2> QED
      BY <1>7, <2>1 DEF SavesInv, LinkedSavesAreComplete
  <1> QED
    BY <1>8, <1>9, <1>10, <1>11 DEF SavesInv

\* A write applied by the server preserves the invariant: it is the link only
\* when every part of its save has been applied before.
LEMMA ApplyStep ==
    ASSUME SavesInv, Apply
    PROVE  SavesInv'
  <1> DEFINE w == Head(pending)
             n == Len(pending)
             Now(id, part) == server'[id][part] = Stored(made[id], part)
  <1>1. /\ pending \in Seq(Write) /\ pending # <<>>
        /\ pending' = Tail(pending) /\ made' = made
        /\ links \subseteq Ids /\ server \in [Ids -> [Parts -> Values]]
    BY DEF SavesInv, TypeOK, Apply, Write
  <1>2. n \in Nat \ {0} /\ \A i \in 1 .. n : pending[i] \in Write
    BY <1>1, EmptySeq, ElementOfSeq
  <1>3. w = pending[1] /\ w \in Write
    BY <1>1, <1>2
  <1>4. /\ pending' \in Seq(Write) /\ Len(pending') = n - 1
        /\ \A i \in 1 .. n - 1 : pending'[i] = pending[i + 1]
    BY <1>1, HeadTailProperties
  <1>5. made[w.id] \in Games /\ w.value = Stored(made[w.id], w.part)
    BY <1>2, <1>3 DEF SavesInv, PendingIsOwn
  <1>6. w.id \in Ids /\ w.part \in 0 .. LinkWrite /\ w.value \in Values
    BY <1>3 DEF Write
  \* Applying a write only ever brings a part to its place.
  <1>7. /\ server' \in [Ids -> [Parts -> Values]]
        /\ \A id \in Ids, part \in Parts : Arrived(id, part) => Now(id, part)
        /\ w.part # LinkWrite => Now(w.id, w.part)
    <2>1. CASE w.part = LinkWrite
      BY <1>1, <2>1 DEF Apply, Arrived
    <2>2. CASE w.part # LinkWrite
      <3>1. server' = [server EXCEPT ![w.id][w.part] = w.value]
        BY <2>2 DEF Apply
      <3>2. w.part \in Parts
        BY <1>6, <2>2, PartNumbers
      <3>3. /\ server'[w.id][w.part] = Stored(made[w.id], w.part)
            /\ \A id \in Ids, part \in Parts :
                  id # w.id \/ part # w.part => server'[id][part] = server[id][part]
        BY <1>1, <1>5, <1>6, <3>1, <3>2
      <3>4. server' \in [Ids -> [Parts -> Values]]
        BY <1>1, <1>6, <3>1, <3>2
      <3> QED
        BY <3>3, <3>4 DEF Arrived
    <2> QED
      BY <2>1, <2>2
  <1>8. links' = IF w.part = LinkWrite THEN links \cup {w.id} ELSE links
    BY DEF Apply
  <1> HIDE DEF w, Now
  <1>9. TypeOK'
    BY <1>1, <1>4, <1>6, <1>7, <1>8 DEF SavesInv, TypeOK, Write
  <1>10. PendingIsOwn'
    <2> SUFFICES ASSUME NEW i \in 1 .. Len(pending')
                 PROVE  /\ made[pending'[i].id] \in Games
                        /\ pending'[i].value
                              = Stored(made[pending'[i].id], pending'[i].part)
      BY <1>1 DEF PendingIsOwn, Stored, ColorPart
    <2>1. i + 1 \in 1 .. n /\ pending'[i] = pending[i + 1]
      BY <1>2, <1>4
    <2> QED
      BY <2>1 DEF SavesInv, PendingIsOwn
  <1>11. LinksComeLast'
    <2> SUFFICES ASSUME NEW i \in 1 .. Len(pending'),
                        pending'[i].part = LinkWrite,
                        NEW part \in Parts
                 PROVE  \/ Now(pending'[i].id, part)
                        \/ \E j \in 1 .. i - 1 : /\ pending'[j].id = pending'[i].id
                                                 /\ pending'[j].part = part
      BY <1>1 DEF LinksComeLast, Arrived, OnItsWay, Stored, ColorPart, LinkWrite, Parts, Now
    <2>1. i + 1 \in 1 .. n /\ pending'[i] = pending[i + 1]
      BY <1>2, <1>4
    <2> DEFINE id == pending[i + 1].id
    <2>2. id \in Ids
      BY <1>2, <2>1 DEF Write
    <2>3. \/ Arrived(id, part)
          \/ \E j \in 1 .. i : pending[j].id = id /\ pending[j].part = part
      <3>1. (i + 1) - 1 = i
        BY <2>1, <1>2
      <3> QED
        BY <2>1, <3>1 DEF SavesInv, LinksComeLast, OnItsWay
    <2>4. CASE Arrived(id, part)
      BY <1>7, <2>1, <2>2, <2>4
    <2>5. ASSUME NEW j \in 1 .. i, pending[j].id = id, pending[j].part = part
          PROVE  \/ Now(id, part)
                 \/ \E k \in 1 .. i - 1 : pending'[k].id = id /\ pending'[k].part = part
      <3>1. CASE j = 1
        <4>1. w.id = id /\ w.part = part /\ part # LinkWrite
          BY <1>3, <2>5, <3>1, PartNumbers
        <4> QED
          BY <1>7, <4>1
      <3>2. CASE j # 1
        <4>1. j - 1 \in 1 .. i - 1 /\ j - 1 \in 1 .. n - 1 /\ (j - 1) + 1 = j
          BY <1>2, <2>1, <3>2
        <4>2. pending'[j - 1] = pending[j]
          BY <1>4, <4>1
        <4> QED
          BY <2>5, <4>1, <4>2
      <3> QED
        BY <3>1, <3>2
    <2> QED
      BY <2>1, <2>3, <2>4, <2>5
  <1>12. LinkedSavesAreComplete'
    <2> SUFFICES ASSUME NEW id \in links'
                 PROVE  made[id] \in Games /\ \A part \in Parts : Now(id, part)
      BY <1>1 DEF LinkedSavesAreComplete, Stored, ColorPart, Parts, Now
    <2>1. CASE id \in links
      <3>1. id \in Ids
        BY <1>1, <2>1
      <3>2. made[id] \in Games /\ \A part \in Parts : Arrived(id, part)
        BY <2>1 DEF SavesInv, LinkedSavesAreComplete, Arrived
      <3> QED
        BY <1>7, <3>1, <3>2
    \* The link is the first write of the queue: nothing is left before it.
    <2>2. CASE w.part = LinkWrite /\ id = w.id
      <3>1. 1 \in 1 .. n /\ pending[1].part = LinkWrite /\ pending[1].id = id
        BY <1>2, <1>3, <2>2
      <3>2. \A part \in Parts : Arrived(id, part) \/ OnItsWay(id, part, 1 - 1)
        BY <3>1 DEF SavesInv, LinksComeLast
      <3>3. \A part \in Parts : ~OnItsWay(id, part, 1 - 1)
        BY DEF OnItsWay
      <3> QED
        BY <1>5, <1>6, <1>7, <2>2, <3>2, <3>3
    <2> QED
      BY <1>8, <2>1, <2>2
  <1> QED
    BY <1>9, <1>10, <1>11, <1>12 DEF SavesInv

\* The end of the process, which forgets the writes not yet sent, preserves
\* the invariant.
LEMMA TerminateStep ==
    ASSUME SavesInv, Terminate
    PROVE  SavesInv'
  <1>1. pending' = <<>> /\ made' = made /\ server' = server /\ links' = links
    BY DEF Terminate
  <1>2. Len(pending') = 0 /\ pending' \in Seq(Write)
    BY <1>1, EmptySeq
  <1>3. TypeOK'
    BY <1>1, <1>2 DEF SavesInv, TypeOK, Write
  <1>4. PendingIsOwn' /\ LinksComeLast'
    BY <1>2 DEF PendingIsOwn, LinksComeLast
  <1>5. LinkedSavesAreComplete'
    BY <1>1 DEF SavesInv, LinkedSavesAreComplete, Stored, ColorPart, Parts
  <1> QED
    BY <1>3, <1>4, <1>5 DEF SavesInv

-----------------------------------------------------------------------------

\* The queue of saveGame's writes keeps every link behind the parts it stands
\* for, through new saves, applied writes and ends of the process.
THEOREM SavesInvariant == Spec => []SavesInv
  <1>1. Init => SavesInv
    <2> SUFFICES ASSUME Init PROVE SavesInv
      OBVIOUS
    <2>1. pending \in Seq(Write) /\ Len(pending) = 0
      BY EmptySeq DEF Init
    <2>2. Missing \in Values
      BY DEF Missing, Values
    <2>3. TypeOK
      BY <2>1, <2>2 DEF Init, TypeOK, Write
    <2>4. PendingIsOwn /\ LinksComeLast
      BY <2>1 DEF PendingIsOwn, LinksComeLast
    <2>5. LinkedSavesAreComplete
      BY DEF Init, LinkedSavesAreComplete
    <2> QED
      BY <2>3, <2>4, <2>5 DEF SavesInv
  <1>2. SavesInv /\ [Next]_vars => SavesInv'
    <2> SUFFICES ASSUME SavesInv, [Next]_vars PROVE SavesInv'
      OBVIOUS
    <2>1. ASSUME NEW id \in Ids, NEW g \in Games, saveGame(id, g)
          PROVE  SavesInv'
      BY <2>1, SaveGameStep
    <2>2. CASE Apply
      BY <2>2, ApplyStep
    <2>3. CASE Terminate
      BY <2>3, TerminateStep
    <2>4. CASE UNCHANGED vars
      BY <2>4 DEF SavesInv, TypeOK, PendingIsOwn, LinksComeLast, Arrived, OnItsWay,
                  LinkedSavesAreComplete, Stored, ColorPart, LinkWrite, Parts, Values, vars
    <2> QED
      BY <2>1, <2>2, <2>3, <2>4 DEF Next
  <1> QED
    BY <1>1, <1>2, PTL DEF Spec

\* No write outside the parts of a save is ever pending, whatever is saved.
THEOREM SavesTypes == Spec => []TypeOK
  <1>1. SavesInv => TypeOK
    BY DEF SavesInv
  <1> QED
    BY <1>1, SavesInvariant, PTL

\* Every save that checkSaves reports is whole on the server, for any number
\* of saves and squares and wherever the process ends.
THEOREM LinkedSavesWhole == Spec => []LinkedSavesAreComplete
  <1>1. SavesInv => LinkedSavesAreComplete
    BY DEF SavesInv
  <1> QED
    BY <1>1, SavesInvariant, PTL
=============================================================================
