---------------------- MODULE SavesOverFirebaseProofs ----------------------
(***************************************************************************)
(* Saving over the Firebase client implements Saves, for any number of     *)
(* saves, contents, squares and faults.  What the client delivers          *)
(* (DeliveryInv) makes the writes applied so far a prefix of the writes of *)
(* the process, so a write applied for the first time is the oldest one    *)
(* that remains.  What is proved of Saves then holds of the composition.   *)
(***************************************************************************)
EXTENDS SavesOverFirebase, DeliveryProofs

\* Every write belongs to a save that was made, and no part of a save is
\* written twice.
IssuedInv ==
    /\ made \in [Ids -> Games \cup {NoGame}]
    /\ \A k \in 1 .. Len(issued) : /\ issued[k].id \in Ids
                                   /\ issued[k].part \in 0 .. LastSquare + 5
                                   /\ made[issued[k].id] # NoGame
    /\ \A j, k \in 1 .. Len(issued) :
          issued[j].id = issued[k].id /\ issued[j].part = issued[k].part => j = k

SavingInv == ConnInv /\ DeliveryInv /\ IssuedInv

\* The writes of one call: every part once, then the link.
LEMMA WritesOfOneSave ==
  ASSUME NEW id \in Ids, NEW g \in Games
  PROVE  /\ Saved!Writes(id, g) \in Seq(Payloads)
         /\ Len(Saved!Writes(id, g)) = LastSquare + 6
         /\ \A k \in 1 .. LastSquare + 6 :
               /\ Saved!Writes(id, g)[k].id = id
               /\ Saved!Writes(id, g)[k].part = k - 1
  <1> DEFINE N == LastSquare + 6
  <1>1. LastSquare \in Nat /\ N \in Nat /\ Saved!LinkWrite + 1 = N
    BY SavesAssumption DEF Saved!LinkWrite
  <1>2. Saved!Writes(id, g)
          = [k \in 1 .. N |-> [id |-> id, part |-> k - 1, value |-> Saved!Stored(g, k - 1)]]
    BY <1>1 DEF Saved!Writes
  <1> HIDE DEF N
  <1>3. Saved!Writes(id, g) \in Seq(Payloads)
    BY PayloadsAssumption
  <1>4. Len(Saved!Writes(id, g)) = N
    <2>1. DOMAIN Saved!Writes(id, g) = 1 .. N
      BY <1>2
    <2> QED BY <1>1, <1>3, <2>1, LenProperties
  <1>5. \A k \in 1 .. N : /\ Saved!Writes(id, g)[k].id = id
                          /\ Saved!Writes(id, g)[k].part = k - 1
    BY <1>2
  <1> QED BY <1>3, <1>4, <1>5 DEF N

\* The writes of this process that are applied are the first ones.
LEMMA SettledFacts ==
  ASSUME DeliveryInv
  PROVE  /\ base \in Nat /\ Settled \in Nat /\ Len(issued) \in Nat /\ base <= Settled
         /\ Settled <= Len(issued)
         /\ applied \subseteq 1 .. Len(issued)
         /\ \A w \in applied : w <= Settled
         /\ \A w \in base + 1 .. Settled : w \in applied
         /\ IsFiniteSet({w \in applied : w > base})
  <1> DEFINE A == {w \in applied : w > base}
             n == Cardinality(A)
  <1>1. /\ base \in Nat /\ Ran \in Nat /\ Len(issued) \in Nat /\ Ran <= Len(issued)
        /\ applied \subseteq 1 .. Ran /\ base <= Ran
    <2>1. /\ base \in Nat /\ Ran \in Nat /\ Len(issued) \in Nat /\ Len(calls) \in Nat
          /\ applied \subseteq 1 .. Ran /\ base <= Ran
      BY DEF DeliveryInv, QueueTypeOK, NothingForgotten
    <2> QED BY <2>1 DEF Ran
  <1>2. IsFiniteSet(A) /\ n \in Nat
    <2>1. IsFiniteSet(1 .. Ran)
      BY <1>1, FS_Interval
    <2>2. IsFiniteSet(A)
      <3>1. A \in SUBSET (1 .. Ran)
        BY <1>1
      <3> QED BY <2>1, <3>1, FS_Subset
    <2> QED BY <2>2, FS_CardinalityType
  <1>3. ASSUME NEW w \in A PROVE w \in base + 1 .. base + n
    <2>1. w \in Nat /\ w > base /\ w \in applied
      BY <1>1
    <2>2. (base + 1 .. w) \in SUBSET A
      BY <1>1, <2>1 DEF DeliveryInv, WritesArriveInOrder
    <2>3. Cardinality(base + 1 .. w) <= n
      BY <1>2, <2>2, FS_Subset
    <2>4. Cardinality(base + 1 .. w) = w - base
      BY <1>1, <2>1, FS_Interval
    <2> HIDE DEF n
    <2> QED BY <1>1, <1>2, <2>1, <2>3, <2>4
  <1>4. A = base + 1 .. base + n
    <2>1. A \in SUBSET (base + 1 .. base + n)
      BY <1>3
    <2>2. IsFiniteSet(base + 1 .. base + n) /\ Cardinality(base + 1 .. base + n) = n
      <3> HIDE DEF n
      <3>1. base + 1 \in Int /\ base + n \in Int
        BY <1>1, <1>2
      <3>2. /\ IsFiniteSet(base + 1 .. base + n)
            /\ Cardinality(base + 1 .. base + n)
                  = IF base + 1 > base + n THEN 0 ELSE (base + n) - (base + 1) + 1
        BY <3>1, FS_Interval
      <3> QED BY <1>1, <1>2, <3>2
    <2> HIDE DEF A
    <2> QED BY <2>1, <2>2, FS_Subset
  <1>5. Settled = base + n
    BY DEF Settled
  <1>6. base + n <= Ran
    <2> HIDE DEF n
    <2>1. CASE n = 0
      BY <1>1, <2>1
    <2>2. CASE n # 0
      <3>1. base + n \in base + 1 .. base + n
        BY <1>1, <1>2, <2>2
      <3>2. base + n \in applied
        BY <1>4, <3>1
      <3> QED BY <1>1, <1>2, <3>2
    <2> QED BY <2>1, <2>2
  <1>7. \A w \in applied : w <= base + n
    <2> HIDE DEF n
    <2> QED BY <1>1, <1>2, <1>4
  <1> HIDE DEF n
  <1> QED BY <1>1, <1>2, <1>4, <1>5, <1>6, <1>7

\* What follows the first n writes.
Rest(t, n) == SubSeq(t, n + 1, Len(t))

\* The rest, write by write.
LEMMA RestFacts ==
  ASSUME NEW t \in Seq(Payloads), NEW n \in Nat, n <= Len(t)
  PROVE  /\ Rest(t, n) \in Seq(Payloads) /\ Len(t) \in Nat
         /\ Len(Rest(t, n)) = Len(t) - n
         /\ \A k \in 1 .. Len(t) - n : Rest(t, n)[k] = t[n + k]
  <1>1. Len(t) \in Nat /\ \A k \in n + 1 .. Len(t) : t[k] \in Payloads
    OBVIOUS
  <1>2. PICK m \in Int : m = n + 1
    OBVIOUS
  <1>3. /\ SubSeq(t, m, Len(t)) \in Seq(Payloads)
        /\ Len(SubSeq(t, m, Len(t))) = IF m <= Len(t) THEN Len(t) - m + 1 ELSE 0
        /\ \A i \in 1 .. Len(t) - m + 1 : SubSeq(t, m, Len(t))[i] = t[m + i - 1]
    BY <1>1, <1>2, SubSeqProperties
  <1>4. Rest(t, n) = SubSeq(t, m, Len(t))
    BY <1>2 DEF Rest
  <1>5. /\ Len(t) - m + 1 = Len(t) - n
        /\ \A i \in 1 .. Len(t) - n : m + i - 1 = n + i
        /\ Len(t) - n = IF m <= Len(t) THEN Len(t) - m + 1 ELSE 0
    BY <1>1, <1>2
  <1> QED BY <1>1, <1>3, <1>4, <1>5, Zenon

\* Taking the first of the rest.
LEMMA RestTail ==
  ASSUME NEW t \in Seq(Payloads), NEW n \in Nat, n < Len(t)
  PROVE  /\ Rest(t, n) # <<>> /\ Head(Rest(t, n)) = t[n + 1]
         /\ Rest(t, n + 1) = Tail(Rest(t, n))
  <1>1. Len(t) \in Nat
    OBVIOUS
  <1>2. PICK r : r = Rest(t, n)
    OBVIOUS
  <1>3. PICK q : q = Rest(t, n + 1)
    OBVIOUS
  <1>4. /\ r \in Seq(Payloads) /\ Len(r) = Len(t) - n
        /\ \A k \in 1 .. Len(t) - n : r[k] = t[n + k]
    <2>1. n <= Len(t)
      BY <1>1
    <2> QED BY <1>2, <2>1, RestFacts
  <1>5. PICK m \in Nat : m = n + 1 /\ m <= Len(t)
    BY <1>1
  <1>6. /\ q \in Seq(Payloads) /\ Len(q) = Len(t) - m
        /\ \A k \in 1 .. Len(t) - m : q[k] = t[m + k]
    BY <1>3, <1>5, RestFacts
  <1>7. r # <<>> /\ Head(r) = t[n + 1]
    BY <1>1, <1>4
  <1>8. /\ Tail(r) \in Seq(Payloads) /\ Len(Tail(r)) = Len(r) - 1
        /\ \A k \in 1 .. Len(r) - 1 : Tail(r)[k] = r[k + 1]
    BY <1>4, <1>7, HeadTailProperties
  <1>9. Len(q) = Len(Tail(r))
    BY <1>1, <1>4, <1>5, <1>6, <1>8
  <1>10. \A k \in 1 .. Len(q) : q[k] = Tail(r)[k]
    BY <1>1, <1>4, <1>5, <1>6, <1>8
  <1>11. q = Tail(r)
    BY <1>6, <1>8, <1>9, <1>10, SeqEqual
  <1> QED BY <1>2, <1>3, <1>7, <1>11

\* Issuing more writes.
LEMMA RestConcat ==
  ASSUME NEW t \in Seq(Payloads), NEW u \in Seq(Payloads), NEW n \in Nat, n <= Len(t)
  PROVE  Rest(t \o u, n) = Rest(t, n) \o u
  <1>1. PICK c : c = t \o u
    OBVIOUS
  <1>2. /\ c \in Seq(Payloads) /\ Len(c) = Len(t) + Len(u) /\ Len(t) \in Nat /\ Len(u) \in Nat
        /\ \A k \in 1 .. Len(t) : c[k] = t[k]
        /\ \A k \in 1 .. Len(u) : c[Len(t) + k] = u[k]
    <2>1. /\ t \o u \in Seq(Payloads) /\ Len(t \o u) = Len(t) + Len(u)
          /\ Len(t) \in Nat /\ Len(u) \in Nat
          /\ \A k \in 1 .. Len(t) : (t \o u)[k] = t[k]
          /\ \A k \in 1 .. Len(u) : (t \o u)[Len(t) + k] = u[k]
      OBVIOUS
    <2> QED BY <1>1, <2>1, Zenon
  <1>3. PICK r : r = Rest(t, n)
    OBVIOUS
  <1>4. /\ r \in Seq(Payloads) /\ Len(r) = Len(t) - n
        /\ \A k \in 1 .. Len(t) - n : r[k] = t[n + k]
    BY <1>3, RestFacts
  <1>5. PICK q : q = Rest(c, n)
    OBVIOUS
  <1>6. /\ q \in Seq(Payloads) /\ Len(q) = Len(c) - n
        /\ \A k \in 1 .. Len(c) - n : q[k] = c[n + k]
    <2>1. c \in Seq(Payloads) /\ n <= Len(c)
      BY <1>2
    <2> QED BY <1>5, <2>1, RestFacts
  <1>7. PICK d : d = r \o u
    OBVIOUS
  <1>8. /\ d \in Seq(Payloads) /\ Len(d) = Len(r) + Len(u)
        /\ \A k \in 1 .. Len(r) : d[k] = r[k]
        /\ \A k \in 1 .. Len(u) : d[Len(r) + k] = u[k]
    <2>1. /\ r \o u \in Seq(Payloads) /\ Len(r \o u) = Len(r) + Len(u)
          /\ \A k \in 1 .. Len(r) : (r \o u)[k] = r[k]
          /\ \A k \in 1 .. Len(u) : (r \o u)[Len(r) + k] = u[k]
      <3>1. r \in Seq(Payloads)
        BY <1>4
      <3> QED BY <3>1
    <2> QED BY <1>7, <2>1, Zenon
  <1>9. Len(q) = Len(d)
    BY <1>2, <1>4, <1>6, <1>8
  <1>10. ASSUME NEW k \in 1 .. Len(q) PROVE q[k] = d[k]
    <2>1. CASE k \in 1 .. Len(r)
      BY <1>2, <1>4, <1>6, <1>8, <2>1
    <2>2. CASE k \in Len(r) + 1 .. Len(q)
      <3>1. k - Len(r) \in 1 .. Len(u) /\ Len(r) + (k - Len(r)) = k
            /\ Len(t) + (k - Len(r)) = n + k
        BY <1>2, <1>4, <1>6, <2>2
      <3>2. d[k] = u[k - Len(r)] /\ c[n + k] = u[k - Len(r)]
        BY <1>2, <1>8, <3>1
      <3> QED BY <1>6, <3>2
    <2> QED BY <1>2, <1>4, <1>6, <2>1, <2>2
  <1>11. q = d
    BY <1>6, <1>8, <1>9, <1>10, SeqEqual
  <1> QED BY <1>1, <1>3, <1>5, <1>7, <1>11

-----------------------------------------------------------------------------
(* The steps.                                                              *)

\* What Saves sees depends on the writes issued and applied only.
LEMMA SameSaves ==
  ASSUME UNCHANGED <<applied, issued, base, made>>
  PROVE  UNCHANGED <<made, Remaining, SavedNodes, SavedLinks>>
  <1>1. Settled' = Settled
    BY DEF Settled
  <1>2. Remaining' = Remaining
    BY <1>1 DEF Remaining
  <1>3. \A id, part : Holds(id, part)' = Holds(id, part)
    BY DEF Holds
  <1>4. \A id, part : SavedPart(id, part)' = SavedPart(id, part)
    BY <1>3 DEF SavedPart
  <1>6. SavedNodes' = SavedNodes
    BY <1>4 DEF SavedNodes
  <1>5. SavedLinks' = SavedLinks
    BY DEF SavedLinks
  <1> QED BY <1>2, <1>5, <1>6

\* The server reads the head of a stream: a write it has already changes
\* nothing, and a new one is the oldest that remains.
LEMMA ApplyIsNext ==
  ASSUME SavingInv, DeliveryInv', NEW s \in Seq(Messages(Ran)), s # <<>>,
         InOrder(s, base, applied), applied' = applied \cup WritesOf(Head(s)),
         UNCHANGED <<issued, base, made>>
  PROVE  Saved!Apply \/ UNCHANGED <<made, Remaining, SavedNodes, SavedLinks>>
  <1>1. /\ base \in Nat /\ Settled \in Nat /\ Len(issued) \in Nat /\ base <= Settled
        /\ Settled <= Len(issued) /\ applied \subseteq 1 .. Len(issued)
        /\ \A w \in applied : w <= Settled
        /\ \A w \in base + 1 .. Settled : w \in applied
        /\ IsFiniteSet({w \in applied : w > base})
    BY SettledFacts DEF SavingInv
  <1>2. CASE applied' = applied
    BY <1>2, SameSaves
  <1>3. CASE applied' # applied
    <2>1. Ran \in Nat /\ Ran <= Len(issued)
      <3>1. Ran \in Nat /\ Len(issued) \in Nat /\ Len(calls) \in Nat
        BY DEF SavingInv, DeliveryInv, QueueTypeOK
      <3> QED BY <3>1 DEF Ran
    <2>2. Head(s) \in Messages(Ran)
      BY HeadTailProperties
    <2>3. PICK w : w \in WritesOf(Head(s)) /\ w \notin applied
      BY <1>3
    <2>4. Head(s) = Put(w) /\ w \in 1 .. Ran /\ applied' = applied \cup {w}
      <3>1. Head(s) = Put(w) /\ w \in 1 .. Ran
        BY <2>1, <2>2, <2>3, WritesOfMessage
      <3>2. WritesOf(Head(s)) = {w}
        BY <2>3 DEF WritesOf
      <3> QED BY <3>1, <3>2
    <2>5. base < w /\ \A v \in base + 1 .. w - 1 : v \in applied
      BY <1>1, <2>4, InOrderHead
    <2>6. w = Settled + 1
      <3>1. ~(w <= Settled)
        BY <1>1, <2>3, <2>4, <2>5
      <3>2. w - 1 <= Settled
        <4>1. CASE w - 1 = base
          BY <1>1, <4>1
        <4>2. CASE w - 1 # base
          <5>1. w - 1 \in base + 1 .. w - 1
            BY <1>1, <2>4, <2>5, <4>2
          <5> QED BY <1>1, <2>5, <5>1
        <4> QED BY <4>1, <4>2
      <3> QED BY <1>1, <2>4, <3>1, <3>2
    <2>7. Settled' = Settled + 1
      <3>1. {v \in applied' : v > base} = {v \in applied : v > base} \cup {w}
        BY <2>4, <2>5
      <3>2. w \notin {v \in applied : v > base}
        BY <2>3
      <3>3. Cardinality({v \in applied' : v > base}) = Cardinality({v \in applied : v > base}) + 1
        BY <1>1, <3>1, <3>2, FS_AddElement
      <3>4. Cardinality({v \in applied : v > base}) \in Nat
        BY <1>1, FS_CardinalityType
      <3>5. Settled' = base + Cardinality({v \in applied' : v > base})
        BY DEF Settled
      <3> QED BY <1>1, <3>3, <3>4, <3>5 DEF Settled
    <2>8. /\ Remaining # <<>> /\ Head(Remaining) = issued[w]
          /\ Remaining' = Tail(Remaining)
      <3>1. issued \in Seq(Payloads) /\ Settled < Len(issued)
        BY <1>1, <2>1, <2>4, <2>6 DEF SavingInv, DeliveryInv, QueueTypeOK
      <3>2. /\ Rest(issued, Settled) # <<>> /\ Head(Rest(issued, Settled)) = issued[Settled + 1]
            /\ Rest(issued, Settled + 1) = Tail(Rest(issued, Settled))
        BY <1>1, <3>1, RestTail
      <3>3. Remaining = Rest(issued, Settled) /\ Remaining' = Rest(issued, Settled + 1)
        BY <2>7 DEF Remaining, Rest
      <3> QED BY <2>6, <3>2, <3>3
    <2>9. PICK d : d = issued[w]
      OBVIOUS
    <2>10. /\ w \in 1 .. Len(issued) /\ d.id \in Ids /\ d.part \in 0 .. LastSquare + 5
           /\ \A v \in applied : ~(issued[v].id = d.id /\ issued[v].part = d.part)
      <3>1. w \in 1 .. Len(issued)
        BY <1>1, <2>1, <2>4
      <3>2. ASSUME NEW v \in applied, issued[v].id = d.id, issued[v].part = d.part PROVE FALSE
        BY <1>1, <2>3, <2>9, <3>1, <3>2 DEF SavingInv, IssuedInv
      <3> QED BY <2>9, <3>1, <3>2 DEF SavingInv, IssuedInv
    <2>11. ASSUME NEW id, NEW part, ~(id = d.id /\ part = d.part)
           PROVE  SavedPart(id, part)' = SavedPart(id, part)
      <3>1. Holds(id, part)' = Holds(id, part)
        BY <2>4, <2>9, <2>11 DEF Holds
      <3> QED BY <3>1 DEF SavedPart
    <2>12. SavedPart(d.id, d.part)' = d.value
      <3>1. Holds(d.id, d.part)' = {d.value}
        BY <2>4, <2>9, <2>10 DEF Holds
      <3> QED BY <3>1 DEF SavedPart, OneOf
    <2>13. SavedLinks' = SavedLinks \cup (IF d.part = LastSquare + 5 THEN {d.id} ELSE {})
      BY <2>4, <2>9 DEF SavedLinks
    <2>14. CASE d.part = LastSquare + 5
      <3>1. SavedNodes' = SavedNodes
        <4>1. \A part \in 0 .. LastSquare + 4 : part # d.part
          BY <2>14, SavesAssumption
        <4> QED BY <2>11, <4>1 DEF SavedNodes
      <3>2. SavedLinks' = SavedLinks \cup {d.id}
        BY <2>13, <2>14
      <3> QED BY <2>8, <2>9, <2>14, <3>1, <3>2 DEF Saved!Apply, Saved!LinkWrite
    <2>15. CASE d.part # LastSquare + 5
      <3>1. SavedNodes' = [SavedNodes EXCEPT ![d.id][d.part] = d.value]
        <4>1. d.part \in 0 .. LastSquare + 4
          BY <2>10, <2>15, SavesAssumption
        <4>2. PICK i, n, x : i = d.id /\ n = d.part /\ x = d.value
          OBVIOUS
        <4>3. [SavedNodes EXCEPT ![i][n] = x]
                = [id \in Ids |-> [part \in 0 .. LastSquare + 4 |->
                      IF id = i /\ part = n THEN x ELSE SavedPart(id, part)]]
          BY <2>10, <4>1, <4>2 DEF SavedNodes
        <4>4. SavedNodes'
                = [id \in Ids |-> [part \in 0 .. LastSquare + 4 |->
                      IF id = i /\ part = n THEN x ELSE SavedPart(id, part)]]
          <5>1. ASSUME NEW id \in Ids, NEW part \in 0 .. LastSquare + 4
                PROVE  SavedPart(id, part)'
                         = IF id = i /\ part = n THEN x ELSE SavedPart(id, part)
            BY <2>11, <2>12, <4>2
          <5> QED BY <5>1 DEF SavedNodes
        <4> QED BY <4>2, <4>3, <4>4
      <3>2. SavedLinks' = SavedLinks
        BY <2>13, <2>15
      <3> QED BY <2>8, <2>9, <2>15, <3>1, <3>2 DEF Saved!Apply, Saved!LinkWrite
    <2> QED BY <2>14, <2>15
  <1> QED BY <1>2, <1>3

\* A save is queued behind what remains.
LEMMA SaveGameIsNext ==
  ASSUME SavingInv, NEW id \in Ids, NEW g \in Games, saveGame(id, g)
  PROVE  Saved!saveGame(id, g)
  <1>1. PICK ws : ws = Saved!Writes(id, g)
    OBVIOUS
  <1>2. /\ made[id] = NoGame /\ made' = [made EXCEPT ![id] = g] /\ issued' = issued \o ws
        /\ UNCHANGED <<applied, base>>
    BY <1>1 DEF saveGame, issue
  <1>3. /\ Settled \in Nat /\ Settled <= Len(issued) /\ applied \subseteq 1 .. Len(issued)
    BY SettledFacts DEF SavingInv
  <1>4. issued \in Seq(Payloads) /\ ws \in Seq(Payloads)
    BY <1>1, WritesOfOneSave DEF SavingInv, DeliveryInv, QueueTypeOK
  <1>5. Settled' = Settled
    BY <1>2 DEF Settled
  <1>6. Remaining' = Remaining \o ws
    <2>1. Rest(issued \o ws, Settled) = Rest(issued, Settled) \o ws
      BY <1>3, <1>4, RestConcat
    <2> QED BY <1>2, <1>5, <2>1 DEF Remaining, Rest
  <1>7. \A v \in applied : issued'[v] = issued[v]
    BY <1>2, <1>3, <1>4
  <1>8. \A i, part : SavedPart(i, part)' = SavedPart(i, part)
    <2>1. \A i, part : Holds(i, part)' = Holds(i, part)
      BY <1>2, <1>7 DEF Holds
    <2> QED BY <2>1 DEF SavedPart
  <1>9. SavedNodes' = SavedNodes
    BY <1>8 DEF SavedNodes
  <1>10. SavedLinks' = SavedLinks
    BY <1>2, <1>7 DEF SavedLinks
  <1> QED BY <1>1, <1>2, <1>6, <1>9, <1>10 DEF Saved!saveGame

\* A new process has nothing left of the writes of the one before.
LEMMA LaunchIsNext ==
  ASSUME SavingInv, launch, made' = made
  PROVE  Saved!Terminate \/ UNCHANGED <<made, Remaining, SavedNodes, SavedLinks>>
  <1>1. base' = Len(issued) /\ UNCHANGED <<applied, issued>>
    BY DEF launch
  <1>2. /\ Settled \in Nat /\ Settled <= Len(issued) /\ Len(issued) \in Nat
        /\ applied \subseteq 1 .. Len(issued)
    BY SettledFacts DEF SavingInv
  <1>3. Settled' = Len(issued)
    <2>1. {w \in applied : w > Len(issued)} = {}
      <3>1. ASSUME NEW w \in applied PROVE ~(w > Len(issued))
        BY <1>2
      <3> QED BY <3>1
    <2>2. Cardinality({w \in applied : w > Len(issued)}) = 0
      BY <2>1, FS_EmptySet
    <2> QED BY <1>1, <1>2, <2>2 DEF Settled
  <1>4. Remaining' = <<>>
    <2>1. SubSeq(issued, Len(issued) + 1, Len(issued)) = <<>>
      <3>1. PICK m \in Int : m = Len(issued) + 1 /\ Len(issued) < m /\ Len(issued) \in Int
        BY <1>2
      <3>2. SubSeq(issued, m, Len(issued)) = <<>>
        BY <3>1, SubSeqEmpty
      <3> QED BY <3>1, <3>2
    <2> QED BY <1>1, <1>3, <2>1 DEF Remaining
  <1>5. \A i, part : SavedPart(i, part)' = SavedPart(i, part)
    <2>1. \A i, part : Holds(i, part)' = Holds(i, part)
      BY <1>1 DEF Holds
    <2> QED BY <2>1 DEF SavedPart
  <1>6. SavedNodes' = SavedNodes
    BY <1>5 DEF SavedNodes
  <1>7. SavedLinks' = SavedLinks
    BY <1>1 DEF SavedLinks
  <1> QED BY <1>4, <1>6, <1>7 DEF Saved!Terminate

\* Every step is a step of Saves or none of its business.
LEMMA StepIsNext ==
  ASSUME SavingInv, SavingInv', [SavesNext]_savesVars
  PROVE  Saved!Next \/ UNCHANGED <<made, Remaining, SavedNodes, SavedLinks>>
  <1>1. CASE \E id \in Ids, g \in Games : saveGame(id, g)
    BY <1>1, SaveGameIsNext DEF Saved!Next
  <1>2. CASE serve /\ made' = made
    <2>1. /\ up \in Seq(Messages(Ran)) /\ up # <<>> /\ InOrder(up, base, applied)
          /\ applied' = applied \cup WritesOf(Head(up)) /\ UNCHANGED <<issued, base>>
      BY <1>2 DEF SavingInv, DeliveryInv, QueueTypeOK, StreamsInOrder, serve, appVars
    <2>2. DeliveryInv'
      BY DEF SavingInv
    <2> QED BY <1>2, <2>1, <2>2, ApplyIsNext DEF Saved!Next
  <1>3. CASE serveLingering /\ made' = made
    <2>1. PICK s \in lingering : applied' = applied \cup WritesOf(Head(s))
      BY <1>3 DEF serveLingering
    <2>2. s \in Seq(Messages(Ran)) /\ s # <<>> /\ InOrder(s, base, applied)
      BY DEF SavingInv, DeliveryInv, QueueTypeOK, StreamsInOrder
    <2>3. UNCHANGED <<issued, base>>
      BY <1>3 DEF serveLingering, appVars
    <2>4. DeliveryInv'
      BY DEF SavingInv
    <2> QED BY <1>3, <2>1, <2>2, <2>3, <2>4, ApplyIsNext DEF Saved!Next
  <1>4. CASE launch /\ made' = made
    BY <1>4, LaunchIsNext DEF Saved!Next
  <1>5. CASE UNCHANGED savesVars
    <2>1. UNCHANGED <<applied, issued, base, made>>
      BY <1>5 DEF savesVars, vars, appVars
    <2> QED BY <2>1, SameSaves
  <1>6. CASE /\ ClientNext /\ made' = made
             /\ ~serve /\ ~serveLingering /\ ~launch
    <2>1. UNCHANGED <<applied, issued, base>>
      <3>1. CASE \/ open \/ interruptForReason("repo_interrupt")
                 \/ resumeForReason("repo_interrupt") \/ enteringForeground \/ retry
                 \/ fetchCallback \/ close \/ onKill
        BY <3>1 DEF open, interruptForReason, resumeForReason, enteringForeground, retry,
                    fetchCallback, close, onKill, appVars
      <3>2. CASE \/ onReady \/ onAuthReply \/ onAuthRevoked
                 \/ \E token \in BOOLEAN : refreshAuthToken(token)
        BY <3>2 DEF onReady, onAuthReply, onAuthRevoked, refreshAuthToken, appVars
      <3>3. CASE \/ \E query \in Queries : listen(query) \/ unlisten(query)
                 \/ onListenReply
        BY <3>3 DEF listen, unlisten, onListenReply, appVars
      <3>4. CASE putInternal \/ onPutReply \/ terminate
        BY <3>4 DEF putInternal, onPutReply, terminate, appVars
      <3> QED BY <1>6, <3>1, <3>2, <3>3, <3>4 DEF ClientNext
    <2> QED BY <1>6, <2>1, SameSaves
  <1> QED BY <1>1, <1>2, <1>3, <1>4, <1>5, <1>6 DEF SavesNext

-----------------------------------------------------------------------------
(* The invariant and the theorem.                                          *)

\* Saving keeps every part to one write.
LEMMA SaveGameKeepsIssued ==
  ASSUME SavingInv, NEW id \in Ids, NEW g \in Games, saveGame(id, g)
  PROVE  IssuedInv'
  <1>1. PICK ws : ws = Saved!Writes(id, g)
    OBVIOUS
  <1>2. PICK N : N = LastSquare + 6
    OBVIOUS
  <1>3. /\ made[id] = NoGame /\ made' = [made EXCEPT ![id] = g] /\ issued' = issued \o ws
        /\ made \in [Ids -> Games \cup {NoGame}]
    BY <1>1 DEF saveGame, issue, SavingInv, IssuedInv
  <1>4. /\ issued \in Seq(Payloads) /\ ws \in Seq(Payloads) /\ Len(issued) \in Nat
        /\ Len(ws) = N /\ N \in Nat /\ LastSquare \in Nat
        /\ \A k \in 1 .. N : ws[k].id = id /\ ws[k].part = k - 1
    <2>1. issued \in Seq(Payloads) /\ Len(issued) \in Nat
      BY DEF SavingInv, DeliveryInv, QueueTypeOK
    <2>2. N \in Nat /\ LastSquare \in Nat
      BY <1>2, SavesAssumption
    <2> QED BY <1>1, <1>2, <2>1, <2>2, WritesOfOneSave, Zenon
  <1>5. /\ Len(issued') = Len(issued) + N
        /\ \A k \in 1 .. Len(issued) : issued'[k] = issued[k]
        /\ \A k \in 1 .. N : issued'[Len(issued) + k] = ws[k]
    <2>1. /\ Len(issued \o ws) = Len(issued) + Len(ws)
          /\ \A k \in 1 .. Len(issued) : (issued \o ws)[k] = issued[k]
          /\ \A k \in 1 .. Len(ws) : (issued \o ws)[Len(issued) + k] = ws[k]
      <3>1. issued \in Seq(Payloads) /\ ws \in Seq(Payloads)
        BY <1>4
      <3> QED BY <3>1
    <2> QED BY <1>3, <1>4, <2>1, Zenon
  <1>6. ASSUME NEW k \in Len(issued) + 1 .. Len(issued) + N
        PROVE  /\ k - Len(issued) \in 1 .. N
               /\ issued'[k].id = id /\ issued'[k].part = k - Len(issued) - 1
    <2>1. k - Len(issued) \in 1 .. N /\ Len(issued) + (k - Len(issued)) = k
      BY <1>4
    <2> QED BY <1>4, <1>5, <2>1
  <1>7. \A k \in 1 .. Len(issued) + N :
           k \in 1 .. Len(issued) \/ k \in Len(issued) + 1 .. Len(issued) + N
    BY <1>4
  <1>8. made' \in [Ids -> Games \cup {NoGame}] /\ made'[id] # NoGame
        /\ \A i \in Ids : made[i] # NoGame => made'[i] # NoGame
    BY <1>3, SavesAssumption
  <1>9. ASSUME NEW k \in 1 .. Len(issued')
        PROVE  /\ issued'[k].id \in Ids /\ issued'[k].part \in 0 .. LastSquare + 5
               /\ made'[issued'[k].id] # NoGame
    <2>1. CASE k \in 1 .. Len(issued)
      BY <1>5, <1>8, <2>1 DEF SavingInv, IssuedInv
    <2>2. CASE k \in Len(issued) + 1 .. Len(issued) + N
      <3>1. k - Len(issued) - 1 \in 0 .. LastSquare + 5
        BY <1>2, <1>4, <1>6, <2>2
      <3> QED BY <1>6, <1>8, <2>2, <3>1
    <2> QED BY <1>5, <1>7, <2>1, <2>2
  <1>10. ASSUME NEW j \in 1 .. Len(issued'), NEW k \in 1 .. Len(issued'),
                issued'[j].id = issued'[k].id, issued'[j].part = issued'[k].part
         PROVE  j = k
    <2>1. CASE j \in 1 .. Len(issued) /\ k \in 1 .. Len(issued)
      BY <1>5, <1>10, <2>1 DEF SavingInv, IssuedInv
    <2>2. \A i \in 1 .. Len(issued) : issued'[i].id # id
      BY <1>3, <1>5 DEF SavingInv, IssuedInv
    <2>3. CASE /\ j \in Len(issued) + 1 .. Len(issued) + N
               /\ k \in Len(issued) + 1 .. Len(issued) + N
      <3>1. j - Len(issued) - 1 = k - Len(issued) - 1
        BY <1>6, <1>10, <2>3
      <3> QED BY <1>4, <2>3, <3>1
    <2> QED BY <1>5, <1>6, <1>7, <1>10, <2>1, <2>2, <2>3
  <1> QED BY <1>8, <1>9, <1>10 DEF IssuedInv

\* Every step preserves the invariant.
LEMMA SavingInvNext == SavingInv /\ [SavesNext]_savesVars => SavingInv'
  <1> SUFFICES ASSUME SavingInv, [SavesNext]_savesVars PROVE SavingInv'
    OBVIOUS
  <1>1. CASE \E id \in Ids, g \in Games : saveGame(id, g)
    <2>1. PICK id \in Ids, g \in Games : saveGame(id, g)
      BY <1>1
    <2>2. Saved!Writes(id, g) \in Seq(Payloads) /\ issue(Saved!Writes(id, g))
      BY <2>1, PayloadsAssumption DEF saveGame
    <2>3. UNCHANGED <<alive, connectionState, realtime, interruptReasons, scheduledRetry,
                      currentFetchTokenAttempt, fetches, authToken, outstandingPuts,
                      putsToAck, completed, listens, unackedListensCount, up, down,
                      lingering, applied, base, faults>>
      BY <2>1 DEF saveGame, connectionVars, retryVars
    <2>4. DeliveryInv'
      BY <2>2, <2>3, IssueDelivery DEF SavingInv
    <2>5. ConnInv'
      <3>1. ConnInv /\ authToken' \in BOOLEAN
        BY <2>3 DEF SavingInv, ConnInv, ConnTypeOK
      <3> QED BY <2>3, <3>1, SameConn
    <2> QED BY <2>1, <2>4, <2>5, SaveGameKeepsIssued DEF SavingInv
  <1>2. CASE ClientNext /\ made' = made
    <2>1. ConnInv' /\ DeliveryInv'
      BY <1>2, ConnInvNext, DeliveryInvNext DEF SavingInv, Next
    <2>2. issued' = issued
      BY <1>2 DEF ClientNext, open, interruptForReason, resumeForReason, enteringForeground,
           retry, fetchCallback, close, onKill, onReady, onAuthReply, onAuthRevoked,
           refreshAuthToken, listen, unlisten, onListenReply, putInternal, onPutReply, serve,
           serveLingering, terminate, launch, appVars
    <2>3. IssuedInv'
      BY <1>2, <2>2 DEF SavingInv, IssuedInv
    <2> QED BY <2>1, <2>3 DEF SavingInv
  <1>3. CASE UNCHANGED savesVars
    <2>1. ConnInv' /\ DeliveryInv'
      BY <1>3, ConnInvNext, DeliveryInvNext DEF SavingInv, savesVars
    <2>2. IssuedInv'
      BY <1>3 DEF SavingInv, IssuedInv, savesVars, vars, appVars
    <2> QED BY <2>1, <2>2 DEF SavingInv
  <1> QED BY <1>1, <1>2, <1>3 DEF SavesNext

\* It holds in the beginning, when Saves is in its initial state too.
LEMMA SavingInit == SavesInit => SavingInv /\ Saved!Init
  <1> SUFFICES ASSUME SavesInit PROVE SavingInv /\ Saved!Init
    OBVIOUS
  <1>1. ConnInv /\ DeliveryInv
    BY ConnInvInit, DeliveryInvInit DEF SavesInit
  <1>2. issued = <<>> /\ applied = {} /\ base = 0 /\ made = [id \in Ids |-> NoGame]
    BY DEF SavesInit, Init
  <1>3. IssuedInv
    BY <1>2 DEF IssuedInv
  <1>4. Settled = 0
    <2>1. {w \in applied : w > base} = {}
      BY <1>2
    <2>2. Cardinality({w \in applied : w > base}) = 0
      BY <2>1, FS_EmptySet
    <2> QED BY <1>2, <2>2 DEF Settled
  <1>5. Remaining = <<>>
    <2>1. SubSeq(issued, 1, 0) = <<>>
      BY SubSeqEmpty
    <2>2. Settled + 1 = 1 /\ Len(issued) = 0
      BY <1>2, <1>4
    <2> QED BY <2>1, <2>2 DEF Remaining
  <1>6. \A id, part : Holds(id, part) = {}
    BY <1>2 DEF Holds
  <1>7. SavedNodes = [id \in Ids |-> [part \in Saved!Parts |-> Saved!Missing]]
    BY <1>6 DEF SavedNodes, SavedPart, Saved!Parts, Saved!ColorPart, Saved!Missing
  <1>8. SavedLinks = {}
    BY <1>2 DEF SavedLinks
  <1> QED BY <1>1, <1>2, <1>3, <1>5, <1>7, <1>8 DEF SavingInv, Saved!Init

\* The invariant holds in every state.
THEOREM SavingInvHolds == SavesSpec => []SavingInv
  BY SavingInit, SavingInvNext, PTL DEF SavesSpec

\* Saving over the client implements Saves: however connections are lost,
\* interrupted and restored and however often writes are sent again, the app
\* sees one queue that is applied in order and that only the end of the
\* process empties.
THEOREM SavesImplemented == SavesSpec => ImplementsSaves
  <1>1. SavesInit => Saved!Init
    BY SavingInit
  <1>2. SavingInv /\ SavingInv' /\ [SavesNext]_savesVars => [Saved!Next]_(Saved!vars)
    BY StepIsNext DEF Saved!vars
  <1> QED BY <1>1, <1>2, SavingInvHolds, PTL DEF SavesSpec, ImplementsSaves, Saved!Spec

-----------------------------------------------------------------------------
(* What Saves promises, over the client.                                   *)

\* The theorems about Saves, under the refinement mapping of Saved.
Abstract == INSTANCE SavesProofs WITH
    pending <- Remaining, server <- SavedNodes, links <- SavedLinks

\* A save the user can see is whole over the real client too, for any number
\* of saves, contents, squares and faults: the theorem about Saves carries
\* over because saving over the client implements Saves.
THEOREM LinkedSavesWholeOverFirebase == SavesSpec => []LinkedSavesAreComplete
  <1>1. LastSquare \in Nat /\ NoGame \notin Games
    BY SavesAssumption
  <1>2. Abstract!Spec => []Abstract!LinkedSavesAreComplete
    BY <1>1, Abstract!LinkedSavesWhole, PTL
  <1>3. Abstract!LinkedSavesAreComplete <=> LinkedSavesAreComplete
    BY DEF LinkedSavesAreComplete,
           Abstract!LinkedSavesAreComplete, Saved!LinkedSavesAreComplete,
           Abstract!Parts, Saved!Parts, Abstract!ColorPart, Saved!ColorPart,
           Abstract!Stored, Saved!Stored
  <1>4. Saved!Init <=> Abstract!Init
    BY DEF Abstract!Init, Saved!Init, Abstract!Missing, Saved!Missing,
           Abstract!Parts, Saved!Parts, Abstract!ColorPart, Saved!ColorPart
  <1>5. [Saved!Next]_(Saved!vars) <=> [Abstract!Next]_(Abstract!vars)
    BY DEF Abstract!Next, Saved!Next, Abstract!vars, Saved!vars,
           Abstract!saveGame, Saved!saveGame, Abstract!Apply, Saved!Apply,
           Abstract!Terminate, Saved!Terminate, Abstract!Writes, Saved!Writes,
           Abstract!LinkWrite, Saved!LinkWrite, Abstract!Stored, Saved!Stored,
           Abstract!ColorPart, Saved!ColorPart
  <1> QED BY <1>2, <1>3, <1>4, <1>5, SavesImplemented, PTL
             DEF ImplementsSaves, Saved!Spec, Abstract!Spec
=============================================================================
