--------------------------- MODULE DeliveryProofs ---------------------------
(***************************************************************************)
(* Proofs that the client delivers: the writes of a process reach the      *)
(* server in order and without a gap, a write is answered only when the    *)
(* server has it, and the listens under way are counted exactly, for any   *)
(* number of writes, listens and faults.                                   *)
(***************************************************************************)
EXTENDS FPersistentConnectionProofs, SequenceTheorems

-----------------------------------------------------------------------------
(* Requests.                                                               *)

\* The requests there can be once n writes have reached the connection.
Messages(n) == {Listen, Auth, AuthAndRestore} \cup {Put(w) : w \in 1 .. n}

\* The kinds of requests are told apart by their fields.
LEMMA MessageFacts ==
  /\ \A w : Put(w).kind = "put" /\ Put(w).write = w /\ Put(w) # Listen
  /\ Listen.kind # "put" /\ Auth.kind # "put" /\ AuthAndRestore.kind # "put"
  /\ Auth # Listen /\ AuthAndRestore # Listen /\ Auth # AuthAndRestore
  /\ \A n : \A e \in Messages(n) :
        e.kind = "put" => e.write \in 1 .. n /\ e = Put(e.write)
  BY DEF Put, Listen, Auth, AuthAndRestore, Messages

\* More writes, more requests.
LEMMA MessagesGrow ==
  ASSUME NEW m \in Nat, NEW n \in Nat, m <= n
  PROVE  Messages(m) \subseteq Messages(n)
  BY DEF Messages

-----------------------------------------------------------------------------
(* The keys of outstandingPuts in increasing order.                        *)

\* SortedPuts enumerates a set of writes in increasing order: the place of a
\* write is the number of writes up to it.
LEMMA SortedPutsIncrease ==
  ASSUME NEW n \in Nat, NEW puts \in SUBSET (1 .. n)
  PROVE  /\ IsFiniteSet(puts) /\ Cardinality(puts) \in Nat
         /\ \A k \in 1 .. Cardinality(puts) : SortedPuts(puts)[k] \in puts
         /\ \A w \in puts : \E k \in 1 .. Cardinality(puts) : SortedPuts(puts)[k] = w
         /\ \A j, k \in 1 .. Cardinality(puts) :
               SortedPuts(puts)[j] < SortedPuts(puts)[k] => j < k
  <1> DEFINE upTo(w) == {v \in puts : v <= w}
             size    == Cardinality(puts)
             rank    == [w \in puts |-> Cardinality(upTo(w))]
  <1>0. \A w \in puts : w \in Int
    OBVIOUS
  <1>1. IsFiniteSet(puts) /\ size \in Nat
    <2>1. IsFiniteSet(1 .. n)
      BY FS_Interval
    <2>2. IsFiniteSet(puts)
      BY <2>1, FS_Subset
    <2> QED BY <2>2, FS_CardinalityType
  <1>2. ASSUME NEW w \in puts
        PROVE  /\ IsFiniteSet(upTo(w)) /\ Cardinality(upTo(w)) \in 1 .. size
    <2>1. upTo(w) \in SUBSET puts
      OBVIOUS
    <2>2. IsFiniteSet(upTo(w)) /\ Cardinality(upTo(w)) <= size
      BY <1>1, <2>1, FS_Subset
    <2>3. Cardinality(upTo(w)) \in Nat
      BY <2>2, FS_CardinalityType
    <2>4. w \in upTo(w)
      OBVIOUS
    <2>5. Cardinality(upTo(w)) # 0
      BY <2>2, <2>4, FS_EmptySet
    <2> QED BY <1>1, <2>2, <2>3, <2>5
  <1>3. ASSUME NEW v \in puts, NEW w \in puts, v < w
        PROVE  Cardinality(upTo(v)) < Cardinality(upTo(w))
    <2>1. upTo(v) \in SUBSET upTo(w) /\ w \in upTo(w) /\ w \notin upTo(v)
      <3>1. ASSUME NEW x \in puts, x <= v PROVE x <= w
        BY <1>0, <1>3, <3>1
      <3>2. w <= w /\ ~(w <= v)
        BY <1>0, <1>3
      <3> QED BY <3>1, <3>2
    <2>2. IsFiniteSet(upTo(w))
      BY <1>2
    <2>3. /\ Cardinality(upTo(v)) <= Cardinality(upTo(w))
          /\ Cardinality(upTo(w)) = Cardinality(upTo(v)) => upTo(w) = upTo(v)
      BY <2>1, <2>2, FS_Subset
    <2>4. upTo(w) # upTo(v)
      BY <2>1
    <2>5. Cardinality(upTo(v)) \in Int /\ Cardinality(upTo(w)) \in Int
      BY <1>2
    <2> HIDE DEF upTo
    <2> QED BY <2>3, <2>4, <2>5
  <1>4. rank \in Injection(puts, 1 .. size)
    <2>1. rank \in [puts -> 1 .. size]
      BY <1>2
    <2>2. ASSUME NEW v \in puts, NEW w \in puts, v # w
          PROVE  rank[v] # rank[w]
      <3>1. rank[v] = Cardinality(upTo(v)) /\ rank[w] = Cardinality(upTo(w))
        OBVIOUS
      <3>2. v < w \/ w < v
        BY <2>2
      <3>3. rank[v] \in Int /\ rank[w] \in Int
        BY <1>2, <3>1
      <3>4. rank[v] < rank[w] \/ rank[w] < rank[v]
        BY <1>3, <3>1, <3>2
      <3> HIDE DEF rank
      <3> QED BY <3>3, <3>4
    <2> HIDE DEF rank
    <2> QED BY <2>1, <2>2 DEF Injection, IsInjective
  <1>5. rank \in Surjection(puts, 1 .. size)
    <2>1. IsFiniteSet(1 .. size) /\ Cardinality(1 .. size) = size
      BY <1>1, FS_Interval
    <2> HIDE DEF rank
    <2> QED BY <1>4, <2>1, FS_Injection
  <1>6. ASSUME NEW k \in 1 .. size
        PROVE  /\ SortedPuts(puts)[k] \in puts
               /\ Cardinality(upTo(SortedPuts(puts)[k])) = k
    <2>1. \E w \in puts : rank[w] = k
      <3> HIDE DEF rank
      <3> QED BY <1>5 DEF Surjection
    <2>2. \E w \in puts : Cardinality(upTo(w)) = k
      BY <2>1
    <2>3. SortedPuts(puts)[k] = CHOOSE w \in puts : Cardinality(upTo(w)) = k
      BY DEF SortedPuts
    <2> HIDE DEF upTo
    <2> QED BY <2>2, <2>3
  <1>7. ASSUME NEW w \in puts
        PROVE  \E k \in 1 .. size : SortedPuts(puts)[k] = w
    <2> DEFINE k == Cardinality(upTo(w))
    <2>1. k \in 1 .. size
      BY <1>2
    <2>2. SortedPuts(puts)[k] \in puts /\ Cardinality(upTo(SortedPuts(puts)[k])) = k
      BY <1>6, <2>1
    <2>3. PICK x : x = SortedPuts(puts)[k]
      OBVIOUS
    <2>4. x \in puts /\ Cardinality(upTo(x)) = Cardinality(upTo(w))
      BY <2>2, <2>3
    <2>5. Cardinality(upTo(w)) \in Int
      BY <2>1
    <2>6. ~(x < w) /\ ~(w < x)
      <3> HIDE DEF upTo
      <3>1. x < w => Cardinality(upTo(x)) < Cardinality(upTo(w))
        BY <1>3, <2>4
      <3>2. w < x => Cardinality(upTo(w)) < Cardinality(upTo(x))
        BY <1>3, <2>4
      <3> QED BY <2>4, <2>5, <3>1, <3>2
    <2>7. x = w
      BY <1>0, <2>4, <2>6
    <2> HIDE DEF k
    <2> QED BY <2>1, <2>3, <2>7
  <1>8. ASSUME NEW j \in 1 .. size, NEW k \in 1 .. size,
               SortedPuts(puts)[j] < SortedPuts(puts)[k]
        PROVE  j < k
    <2> HIDE DEF upTo, size
    <2> QED BY <1>3, <1>6, <1>8
  <1> QED BY <1>1, <1>6, <1>7, <1>8

-----------------------------------------------------------------------------
(* The number of listens among some requests.                              *)

\* The places of the listens.
Places(requests) == {k \in 1 .. Len(requests) : requests[k] = Listen}

\* There are finitely many, and none among no requests.
LEMMA ListensInType ==
  ASSUME NEW S, NEW s \in Seq(S)
  PROVE  /\ IsFiniteSet(Places(s)) /\ ListensIn(s) = Cardinality(Places(s))
         /\ ListensIn(s) \in Nat
         /\ ListensIn(<<>>) = 0
  <1>1. Len(s) \in Nat
    BY LenProperties
  <1>2. IsFiniteSet(1 .. Len(s)) /\ Places(s) \in SUBSET (1 .. Len(s))
    BY <1>1, FS_Interval DEF Places
  <1>3. IsFiniteSet(Places(s))
    BY <1>2, FS_Subset
  <1>4. ListensIn(s) = Cardinality(Places(s))
    BY DEF ListensIn, Places
  <1>5. {k \in 1 .. Len(<<>>) : <<>>[k] = Listen} = {}
    OBVIOUS
  <1>6. ListensIn(<<>>) = 0
    BY <1>5, FS_EmptySet DEF ListensIn
  <1> QED BY <1>3, <1>4, <1>6, FS_CardinalityType

\* Sending one more request.
LEMMA ListensInAppend ==
  ASSUME NEW S, NEW s \in Seq(S), NEW e \in S
  PROVE  ListensIn(Append(s, e)) = ListensIn(s) + (IF e = Listen THEN 1 ELSE 0)
  <1>1. /\ IsFiniteSet(Places(s)) /\ ListensIn(s) = Cardinality(Places(s))
        /\ ListensIn(s) \in Nat
    BY ListensInType
  <1>2. Append(s, e) \in Seq(S) /\ Len(s) \in Nat
    OBVIOUS
  <1>3. ListensIn(Append(s, e)) = Cardinality(Places(Append(s, e)))
    BY <1>2, ListensInType
  <1>4. CASE e = Listen
    <2>1. Places(Append(s, e)) = Places(s) \cup {Len(s) + 1}
      BY <1>2, <1>4 DEF Places
    <2>2. Len(s) + 1 \notin Places(s)
      BY <1>2 DEF Places
    <2>3. Cardinality(Places(s) \cup {Len(s) + 1}) = Cardinality(Places(s)) + 1
      BY <1>1, <2>2, FS_AddElement
    <2> QED BY <1>1, <1>3, <1>4, <2>1, <2>3
  <1>5. CASE e # Listen
    <2>1. Places(Append(s, e)) = Places(s)
      BY <1>2, <1>5 DEF Places
    <2> QED BY <1>1, <1>3, <1>5, <2>1
  <1> QED BY <1>4, <1>5

\* Taking the first request.
LEMMA ListensInTail ==
  ASSUME NEW S, NEW s \in Seq(S), s # <<>>
  PROVE  ListensIn(s) = ListensIn(Tail(s)) + (IF Head(s) = Listen THEN 1 ELSE 0)
  <1> DEFINE rest == Places(s) \ {1}
             shift == [k \in Places(Tail(s)) |-> k + 1]
  <1>1. /\ IsFiniteSet(Places(s)) /\ ListensIn(s) = Cardinality(Places(s))
        /\ ListensIn(s) \in Nat
    BY ListensInType
  <1>2. /\ Tail(s) \in Seq(S) /\ Len(s) \in Nat \ {0} /\ Len(Tail(s)) = Len(s) - 1
        /\ \A i \in 1 .. Len(Tail(s)) : Tail(s)[i] = s[i + 1]
        /\ Head(s) = s[1]
    BY HeadTailProperties, EmptySeq
  <1>3. /\ IsFiniteSet(Places(Tail(s))) /\ ListensIn(Tail(s)) = Cardinality(Places(Tail(s)))
        /\ ListensIn(Tail(s)) \in Nat
    BY <1>2, ListensInType
  <1>4. shift \in Bijection(Places(Tail(s)), rest)
    <2>1. ASSUME NEW k \in Places(Tail(s)) PROVE k + 1 \in rest /\ k \in Int
      BY <1>2 DEF Places
    <2>2. ASSUME NEW k \in rest PROVE k - 1 \in Places(Tail(s)) /\ k = (k - 1) + 1
      BY <1>2 DEF Places
    <2>3. shift \in [Places(Tail(s)) -> rest]
      BY <2>1
    <2>4. \A j, k \in Places(Tail(s)) : shift[j] = shift[k] => j = k
      BY <2>1
    <2>5. \A k \in rest : \E j \in Places(Tail(s)) : shift[j] = k
      BY <2>2
    <2> HIDE DEF shift, rest
    <2> QED BY <2>3, <2>4, <2>5 DEF Bijection, Injection, Surjection, IsInjective
  <1>5. Cardinality(rest) = ListensIn(Tail(s))
    <2> HIDE DEF shift, rest
    <2> QED BY <1>3, <1>4, FS_Bijection DEF ExistsBijection
  <1>6. 1 \in Places(s) <=> Head(s) = Listen
    BY <1>2 DEF Places
  <1>7. Cardinality(rest) = IF 1 \in Places(s) THEN Cardinality(Places(s)) - 1
                                               ELSE Cardinality(Places(s))
    BY <1>1, FS_RemoveElement
  <1> HIDE DEF rest
  <1> QED BY <1>1, <1>3, <1>5, <1>6, <1>7

\* What restoreState sends: every listen, then the outstanding puts in order.
LEMMA Restored ==
  ASSUME NEW n \in Nat, NEW s \in Seq(Messages(n)),
         outstandingPuts \in SUBSET (1 .. n), listens \subseteq Queries
  PROVE  /\ Cardinality(listens) \in Nat /\ Cardinality(outstandingPuts) \in Nat
         /\ s \o restoredListens \o restoredPuts \in Seq(Messages(n))
         /\ Len(s \o restoredListens \o restoredPuts)
              = Len(s) + Cardinality(listens) + Cardinality(outstandingPuts)
         /\ \A k \in 1 .. Len(s) : (s \o restoredListens \o restoredPuts)[k] = s[k]
         /\ \A k \in 1 .. Cardinality(listens) :
               (s \o restoredListens \o restoredPuts)[Len(s) + k] = Listen
         /\ \A k \in 1 .. Cardinality(outstandingPuts) :
               (s \o restoredListens \o restoredPuts)[Len(s) + Cardinality(listens) + k]
                  = Put(SortedPuts(outstandingPuts)[k])
  <1> DEFINE L == Cardinality(listens)
             P == Cardinality(outstandingPuts)
  <1>1. L \in Nat /\ Len(s) \in Nat
    BY QueriesAssumption, FS_Subset, FS_CardinalityType
  <1>2. P \in Nat /\ \A k \in 1 .. P : SortedPuts(outstandingPuts)[k] \in outstandingPuts
    BY SortedPutsIncrease
  <1>3. /\ restoredListens \in Seq(Messages(n)) /\ Len(restoredListens) = L
        /\ \A k \in 1 .. L : restoredListens[k] = Listen
    <2>1. Listen \in Messages(n)
      BY DEF Messages
    <2> HIDE DEF L
    <2>2. restoredListens = [k \in 1 .. L |-> Listen]
      BY DEF restoredListens, L
    <2> QED BY <1>1, <2>1, <2>2
  <1>4. /\ restoredPuts \in Seq(Messages(n)) /\ Len(restoredPuts) = P
        /\ \A k \in 1 .. P : restoredPuts[k] = Put(SortedPuts(outstandingPuts)[k])
    <2>1. \A k \in 1 .. P : Put(SortedPuts(outstandingPuts)[k]) \in Messages(n)
      BY <1>2 DEF Messages
    <2>2. restoredPuts = [k \in 1 .. P |-> Put(SortedPuts(outstandingPuts)[k])]
      BY DEF restoredPuts
    <2> HIDE DEF P
    <2> QED BY <1>2, <2>1, <2>2
  <1> HIDE DEF L, P
  <1>5. PICK t : t = s \o restoredListens
    OBVIOUS
  <1>6. /\ t \in Seq(Messages(n)) /\ Len(t) = Len(s) + L
        /\ \A k \in 1 .. Len(s) : t[k] = s[k]
        /\ \A k \in 1 .. L : t[Len(s) + k] = Listen
    <2>1. /\ t \in Seq(Messages(n)) /\ Len(t) = Len(s) + Len(restoredListens)
          /\ \A k \in 1 .. Len(s) : t[k] = s[k]
          /\ \A k \in 1 .. Len(restoredListens) : t[Len(s) + k] = restoredListens[k]
      <3>1. restoredListens \in Seq(Messages(n))
        BY <1>3
      <3>2. /\ s \o restoredListens \in Seq(Messages(n))
            /\ Len(s \o restoredListens) = Len(s) + Len(restoredListens)
            /\ \A k \in 1 .. Len(s) : (s \o restoredListens)[k] = s[k]
            /\ \A k \in 1 .. Len(restoredListens) :
                  (s \o restoredListens)[Len(s) + k] = restoredListens[k]
        BY <3>1
      <3> QED BY <1>5, <3>2, Zenon
    <2> QED BY <1>3, <2>1
  <1>7. PICK u : u = t \o restoredPuts
    OBVIOUS
  <1>8. /\ u \in Seq(Messages(n)) /\ Len(u) = Len(t) + P
        /\ \A k \in 1 .. Len(t) : u[k] = t[k]
        /\ \A k \in 1 .. P : u[Len(t) + k] = Put(SortedPuts(outstandingPuts)[k])
    <2>1. /\ u \in Seq(Messages(n)) /\ Len(u) = Len(t) + Len(restoredPuts)
          /\ \A k \in 1 .. Len(t) : u[k] = t[k]
          /\ \A k \in 1 .. Len(restoredPuts) : u[Len(t) + k] = restoredPuts[k]
      <3>1. restoredPuts \in Seq(Messages(n)) /\ t \in Seq(Messages(n))
        BY <1>4, <1>6
      <3>2. /\ t \o restoredPuts \in Seq(Messages(n))
            /\ Len(t \o restoredPuts) = Len(t) + Len(restoredPuts)
            /\ \A k \in 1 .. Len(t) : (t \o restoredPuts)[k] = t[k]
            /\ \A k \in 1 .. Len(restoredPuts) :
                  (t \o restoredPuts)[Len(t) + k] = restoredPuts[k]
        BY <3>1
      <3> QED BY <1>7, <3>2, Zenon
    <2> QED BY <1>4, <2>1
  <1>9. \A k \in 1 .. Len(s) : k \in 1 .. Len(t)
    BY <1>1, <1>6
  <1>10. \A k \in 1 .. L : Len(s) + k \in 1 .. Len(t)
    BY <1>1, <1>6
  <1>11. /\ \A k \in 1 .. Len(s) : u[k] = s[k]
         /\ \A k \in 1 .. L : u[Len(s) + k] = Listen
    BY <1>6, <1>8, <1>9, <1>10
  <1> QED BY <1>1, <1>2, <1>5, <1>6, <1>7, <1>8, <1>11 DEF L, P

\* It adds the listens to the count.
LEMMA ListensInRestored ==
  ASSUME NEW n \in Nat, NEW s \in Seq(Messages(n)),
         outstandingPuts \in SUBSET (1 .. n), listens \subseteq Queries
  PROVE  ListensIn(s \o restoredListens \o restoredPuts) = ListensIn(s) + Cardinality(listens)
  <1> DEFINE L == Cardinality(listens)
             P == Cardinality(outstandingPuts)
             u == s \o restoredListens \o restoredPuts
             new == Len(s) + 1 .. Len(s) + L
  <1>1. /\ L \in Nat /\ P \in Nat /\ Len(s) \in Nat
        /\ u \in Seq(Messages(n))
        /\ Len(u) = Len(s) + L + P
        /\ \A k \in 1 .. Len(s) : u[k] = s[k]
        /\ \A k \in 1 .. L : u[Len(s) + k] = Listen
        /\ \A k \in 1 .. P : u[Len(s) + L + k] = Put(SortedPuts(outstandingPuts)[k])
    BY Restored, LenProperties
  <1> HIDE DEF L, P, u
  <1>2. /\ IsFiniteSet(Places(s)) /\ ListensIn(s) = Cardinality(Places(s))
        /\ ListensIn(s) \in Nat
    BY ListensInType
  <1>3. ListensIn(u) = Cardinality(Places(u)) /\ IsFiniteSet(Places(u))
    BY <1>1, ListensInType
  <1>4. ASSUME NEW k \in Len(s) + L + 1 .. Len(s) + L + P PROVE u[k] # Listen
    <2>1. PICK j \in 1 .. P : k = Len(s) + L + j
      <3>1. k - (Len(s) + L) \in 1 .. P /\ k = Len(s) + L + (k - (Len(s) + L))
        BY <1>1
      <3> QED BY <3>1
    <2> QED BY <1>1, <2>1, MessageFacts
  <1>5. Places(u) = Places(s) \cup new
    <2>1. ASSUME NEW k \in new PROVE u[k] = Listen
      <3>1. k - Len(s) \in 1 .. L /\ k = Len(s) + (k - Len(s))
        BY <1>1
      <3> QED BY <1>1, <3>1
    <2>2. \A k \in 1 .. Len(u) : \/ k \in 1 .. Len(s)
                                 \/ k \in new
                                 \/ k \in Len(s) + L + 1 .. Len(s) + L + P
      BY <1>1
    <2>3. new \subseteq 1 .. Len(u) /\ 1 .. Len(s) \subseteq 1 .. Len(u)
      BY <1>1
    <2> HIDE DEF new
    <2> QED BY <1>1, <1>4, <2>1, <2>2, <2>3 DEF Places
  <1>6. Places(s) \cap new = {}
    BY <1>1 DEF Places
  <1>7. IsFiniteSet(new) /\ Cardinality(new) = L
    <2>1. Len(s) + 1 \in Int /\ Len(s) + L \in Int
      BY <1>1
    <2>2. /\ IsFiniteSet(new)
          /\ Cardinality(new) = IF Len(s) + 1 > Len(s) + L THEN 0
                                ELSE (Len(s) + L) - (Len(s) + 1) + 1
      BY <2>1, FS_Interval
    <2> HIDE DEF new
    <2> QED BY <1>1, <2>2
  <1>8. Cardinality(Places(s) \cap new) = 0
    BY <1>6, FS_EmptySet
  <1> HIDE DEF new
  <1>9. Cardinality(Places(s) \cup new) = Cardinality(Places(s)) + Cardinality(new)
                                            - Cardinality(Places(s) \cap new)
    BY <1>2, <1>7, FS_Union
  <1> QED BY <1>1, <1>2, <1>3, <1>5, <1>7, <1>8, <1>9 DEF L, u

-----------------------------------------------------------------------------
(* Streams of requests in order.                                           *)

\* Some of the requests is the put of a write.
OnTheWay(requests, v) == \E j \in 1 .. Len(requests) : requests[j] = Put(v)

\* The puts are of writes after b, and before the put of a write come the
\* puts of all others after b that are not done yet.
InOrder(requests, b, done) ==
    \A k \in 1 .. Len(requests), w \in Nat :
        requests[k] = Put(w) =>
            /\ b < w
            /\ \A v \in b + 1 .. w - 1 : v \in done \/ \E j \in 1 .. k - 1 : requests[j] = Put(v)

\* Nothing is in order, and stays so when more is done.
LEMMA InOrderMore ==
  ASSUME NEW s, NEW b, NEW done, NEW more
  PROVE  /\ InOrder(<<>>, b, done)
         /\ done \subseteq more /\ InOrder(s, b, done) => InOrder(s, b, more)
  BY DEF InOrder

\* A put of a write is the put of that write only.
LEMMA PutInjective ==
  ASSUME NEW v, NEW w, Put(v) = Put(w)
  PROVE  v = w
  BY DEF Put

\* Everything before the write at the head of a stream is done.
LEMMA InOrderHead ==
  ASSUME NEW S, NEW s \in Seq(S), s # <<>>, NEW b \in Nat, NEW done, InOrder(s, b, done),
         NEW w \in Nat, Head(s) = Put(w)
  PROVE  b < w /\ \A v \in b + 1 .. w - 1 : v \in done
  <1>1. 1 \in 1 .. Len(s) /\ s[1] = Put(w)
    OBVIOUS
  <1>2. /\ b < w
        /\ \A v \in b + 1 .. w - 1 : v \in done \/ \E j \in 1 .. 1 - 1 : s[j] = Put(v)
    BY <1>1 DEF InOrder
  <1> QED BY <1>2

\* What the head of a stream writes.
LEMMA WritesOfMessage ==
  ASSUME NEW n \in Nat, NEW e \in Messages(n)
  PROVE  /\ WritesOf(e) \subseteq 1 .. n
         /\ \A v : e = Put(v) <=> v \in WritesOf(e)
  BY MessageFacts DEF WritesOf

\* Applying the head of a stream leaves the rest in order.
LEMMA InOrderTail ==
  ASSUME NEW n \in Nat, NEW s \in Seq(Messages(n)), s # <<>>, NEW b \in Nat, NEW done,
         InOrder(s, b, done)
  PROVE  /\ InOrder(Tail(s), b, done \cup WritesOf(Head(s)))
         /\ \A v : OnTheWay(s, v) => v \in WritesOf(Head(s)) \/ OnTheWay(Tail(s), v)
  <1>1. /\ Head(s) = s[1] /\ Head(s) \in Messages(n)
        /\ Len(Tail(s)) = Len(s) - 1 /\ Len(s) \in Nat \ {0}
        /\ \A i \in 1 .. Len(Tail(s)) : Tail(s)[i] = s[i + 1]
    BY HeadTailProperties, EmptySeq
  <1>2. \A v : Head(s) = Put(v) => v \in WritesOf(Head(s))
    BY <1>1, WritesOfMessage
  <1>3. ASSUME NEW j \in 1 .. Len(s), NEW v, s[j] = Put(v), v \notin WritesOf(Head(s))
        PROVE  j - 1 \in 1 .. Len(Tail(s)) /\ Tail(s)[j - 1] = Put(v)
    <2>1. j # 1
      BY <1>1, <1>2, <1>3
    <2>2. j - 1 \in 1 .. Len(Tail(s)) /\ (j - 1) + 1 = j
      BY <1>1, <2>1
    <2> QED BY <1>1, <1>3, <2>2
  <1>4. ASSUME NEW k \in 1 .. Len(Tail(s)), NEW w \in Nat, Tail(s)[k] = Put(w),
               NEW v \in b + 1 .. w - 1, v \notin done \cup WritesOf(Head(s))
        PROVE  \E j \in 1 .. k - 1 : Tail(s)[j] = Put(v)
    <2>1. k + 1 \in 1 .. Len(s) /\ s[k + 1] = Put(w)
      BY <1>1, <1>4
    <2>2. PICK j \in 1 .. (k + 1) - 1 : s[j] = Put(v)
      BY <1>4, <2>1 DEF InOrder
    <2>3. j \in 1 .. Len(s)
      BY <1>1
    <2>4. j - 1 \in 1 .. Len(Tail(s)) /\ Tail(s)[j - 1] = Put(v)
      BY <1>3, <1>4, <2>2, <2>3
    <2>5. j - 1 \in 1 .. k - 1
      BY <2>4
    <2> QED BY <2>4, <2>5
  <1>5. InOrder(Tail(s), b, done \cup WritesOf(Head(s)))
    <2>1. ASSUME NEW k \in 1 .. Len(Tail(s)), NEW w \in Nat, Tail(s)[k] = Put(w)
          PROVE  b < w
      <3>1. k + 1 \in 1 .. Len(s) /\ s[k + 1] = Put(w)
        BY <1>1, <2>1
      <3> QED BY <3>1 DEF InOrder
    <2> QED BY <1>4, <2>1 DEF InOrder
  <1>6. \A v : OnTheWay(s, v) => v \in WritesOf(Head(s)) \/ OnTheWay(Tail(s), v)
    BY <1>3 DEF OnTheWay
  <1> QED BY <1>5, <1>6

\* Sending one more request keeps a stream in order if what its write needs
\* is done or on the way.
LEMMA InOrderAppend ==
  ASSUME NEW S, NEW s \in Seq(S), NEW e \in S, NEW b \in Nat, NEW done, InOrder(s, b, done),
         \A w \in Nat : e = Put(w) =>
             b < w /\ \A v \in b + 1 .. w - 1 : v \in done \/ OnTheWay(s, v)
  PROVE  /\ InOrder(Append(s, e), b, done)
         /\ \A v : OnTheWay(s, v) \/ e = Put(v) => OnTheWay(Append(s, e), v)
  <1>1. /\ Len(s) \in Nat /\ Len(Append(s, e)) = Len(s) + 1
        /\ \A i \in 1 .. Len(s) : Append(s, e)[i] = s[i]
        /\ Append(s, e)[Len(s) + 1] = e
    OBVIOUS
  <1>2. ASSUME NEW k \in 1 .. Len(Append(s, e)), NEW w \in Nat, Append(s, e)[k] = Put(w),
               NEW v \in b + 1 .. w - 1, v \notin done
        PROVE  \E j \in 1 .. k - 1 : Append(s, e)[j] = Put(v)
    <2>1. CASE k = Len(s) + 1
      <3>1. PICK j \in 1 .. Len(s) : s[j] = Put(v)
        BY <1>1, <1>2, <2>1 DEF OnTheWay
      <3> QED BY <1>1, <2>1, <3>1
    <2>2. CASE k # Len(s) + 1
      <3>1. k \in 1 .. Len(s)
        BY <1>1, <2>2
      <3>2. s[k] = Put(w)
        BY <1>1, <1>2, <3>1
      <3>3. PICK j \in 1 .. k - 1 : s[j] = Put(v)
        BY <1>2, <3>1, <3>2 DEF InOrder
      <3>4. j \in 1 .. Len(s)
        BY <3>1, <1>1
      <3> QED BY <1>1, <3>3, <3>4
    <2> QED BY <2>1, <2>2
  <1>3. InOrder(Append(s, e), b, done)
    <2>1. ASSUME NEW k \in 1 .. Len(Append(s, e)), NEW w \in Nat, Append(s, e)[k] = Put(w)
          PROVE  b < w
      <3>1. CASE k = Len(s) + 1
        BY <1>1, <2>1, <3>1
      <3>2. CASE k # Len(s) + 1
        <4>1. k \in 1 .. Len(s)
          BY <1>1, <3>2
        <4> QED BY <1>1, <2>1, <4>1 DEF InOrder
      <3> QED BY <3>1, <3>2
    <2> QED BY <1>2, <2>1 DEF InOrder
  <1>4. ASSUME NEW v, OnTheWay(s, v) \/ e = Put(v)
        PROVE  OnTheWay(Append(s, e), v)
    <2>1. CASE OnTheWay(s, v)
      BY <1>1, <2>1 DEF OnTheWay
    <2>2. CASE e = Put(v)
      BY <1>1, <2>2 DEF OnTheWay
    <2> QED BY <1>4, <2>1, <2>2
  <1> QED BY <1>3, <1>4

\* Sending what is outstanding again keeps a stream in order if all writes
\* are done or outstanding, and puts every outstanding write on the way.
LEMMA InOrderRestored ==
  ASSUME NEW n \in Nat, NEW s \in Seq(Messages(n)), NEW b \in Nat, NEW done,
         outstandingPuts \in SUBSET (1 .. n), listens \subseteq Queries,
         InOrder(s, b, done), \A v \in outstandingPuts : b < v,
         \A v \in b + 1 .. n : v \in outstandingPuts \cup done
  PROVE  /\ InOrder(s \o restoredListens \o restoredPuts, b, done)
         /\ \A v \in outstandingPuts : OnTheWay(s \o restoredListens \o restoredPuts, v)
  <1> DEFINE L == Cardinality(listens)
             P == Cardinality(outstandingPuts)
             u == s \o restoredListens \o restoredPuts
             sorted(k) == SortedPuts(outstandingPuts)[k]
  <1>1. /\ L \in Nat /\ P \in Nat /\ Len(s) \in Nat
        /\ Len(u) = Len(s) + L + P
        /\ \A k \in 1 .. Len(s) : u[k] = s[k]
        /\ \A k \in 1 .. L : u[Len(s) + k] = Listen
        /\ \A k \in 1 .. P : u[Len(s) + L + k] = Put(sorted(k))
    BY Restored, LenProperties
  <1>2. /\ \A k \in 1 .. P : sorted(k) \in outstandingPuts
        /\ \A w \in outstandingPuts : \E k \in 1 .. P : sorted(k) = w
        /\ \A j, k \in 1 .. P : sorted(j) < sorted(k) => j < k
    BY SortedPutsIncrease
  <1> HIDE DEF L, P, u, sorted
  <1>3. \A v \in outstandingPuts : OnTheWay(u, v)
    <2> SUFFICES ASSUME NEW v \in outstandingPuts PROVE OnTheWay(u, v)
      OBVIOUS
    <2>1. PICK k \in 1 .. P : sorted(k) = v
      BY <1>2
    <2>2. Len(s) + L + k \in 1 .. Len(u) /\ u[Len(s) + L + k] = Put(v)
      BY <1>1, <2>1
    <2> QED BY <2>2 DEF OnTheWay
  <1>4. ASSUME NEW k \in 1 .. Len(u), NEW w \in Nat, u[k] = Put(w),
               NEW v \in b + 1 .. w - 1, v \notin done
        PROVE  \E j \in 1 .. k - 1 : u[j] = Put(v)
    <2>1. CASE k \in 1 .. Len(s)
      <3>1. s[k] = Put(w)
        BY <1>1, <1>4, <2>1
      <3>2. PICK j \in 1 .. k - 1 : s[j] = Put(v)
        BY <1>4, <2>1, <3>1 DEF InOrder
      <3>3. j \in 1 .. Len(s)
        BY <1>1, <2>1
      <3> QED BY <1>1, <3>2, <3>3
    <2>2. CASE k \in Len(s) + 1 .. Len(s) + L
      <3>1. k - Len(s) \in 1 .. L /\ Len(s) + (k - Len(s)) = k
        BY <1>1, <2>2
      <3>2. u[k] = Listen
        BY <1>1, <3>1
      <3> QED BY <1>4, <3>2, MessageFacts
    <2>3. CASE k \in Len(s) + L + 1 .. Len(s) + L + P
      <3>1. PICK i \in 1 .. P : k = Len(s) + L + i
        <4>1. k - (Len(s) + L) \in 1 .. P /\ k = Len(s) + L + (k - (Len(s) + L))
          BY <1>1, <2>3
        <4> QED BY <4>1
      <3>2. Put(w) = Put(sorted(i))
        BY <1>1, <1>4, <3>1
      <3>3. w = sorted(i) /\ w \in outstandingPuts
        BY <1>2, <3>2, PutInjective
      <3>4. w \in 1 .. n
        BY <3>3
      <3>5. v \in b + 1 .. n
        BY <1>4, <3>4
      <3>6. v \in outstandingPuts
        BY <1>4, <3>5
      <3>7. PICK j \in 1 .. P : sorted(j) = v
        BY <1>2, <3>6
      <3>8. v < w
        BY <3>4, <3>5
      <3>9. j < i
        BY <1>2, <3>3, <3>7, <3>8
      <3>10. Len(s) + L + j \in 1 .. k - 1 /\ u[Len(s) + L + j] = Put(v)
        BY <1>1, <3>1, <3>7, <3>9
      <3> QED BY <3>10
    <2> QED BY <1>1, <2>1, <2>2, <2>3
  <1>5. ASSUME NEW k \in 1 .. Len(u), NEW w \in Nat, u[k] = Put(w)
        PROVE  b < w
    <2>1. CASE k \in 1 .. Len(s)
      BY <1>1, <1>5, <2>1 DEF InOrder
    <2>2. CASE k \in Len(s) + 1 .. Len(s) + L
      <3>1. k - Len(s) \in 1 .. L /\ Len(s) + (k - Len(s)) = k
        BY <1>1, <2>2
      <3>2. u[k] = Listen
        BY <1>1, <3>1
      <3> QED BY <1>5, <3>2, MessageFacts
    <2>3. CASE k \in Len(s) + L + 1 .. Len(s) + L + P
      <3>1. k - (Len(s) + L) \in 1 .. P /\ k = Len(s) + L + (k - (Len(s) + L))
        BY <1>1, <2>3
      <3>2. Put(w) = Put(sorted(k - (Len(s) + L)))
        BY <1>1, <1>5, <3>1
      <3>3. w \in outstandingPuts
        BY <1>2, <3>1, <3>2, PutInjective
      <3> QED BY <3>3
    <2> QED BY <1>1, <2>1, <2>2, <2>3
  <1>6. InOrder(u, b, done)
    BY <1>4, <1>5 DEF InOrder
  <1> QED BY <1>3, <1>6 DEF u

-----------------------------------------------------------------------------
(* The invariant.                                                          *)

\* The writes whose block has run.
Ran == Len(issued) - Len(calls)

QueueTypeOK ==
    /\ issued \in Seq(Payloads)
    /\ calls \in Seq(Nat) /\ Ran \in Nat
    /\ \A k \in 1 .. Len(calls) : calls[k] = Ran + k
    /\ outstandingPuts \in SUBSET (1 .. Ran)
    /\ listens \subseteq Queries
    /\ unackedListensCount \in Nat
    /\ up \in Seq(Messages(Ran)) /\ down \in Seq(Messages(Ran))
    /\ lingering \subseteq Seq(Messages(Ran)) \ {<<>>}
    /\ applied \subseteq 1 .. Ran
    /\ base \in 0 .. Len(issued)
    /\ faults \in 0 .. MaxFaults

\* Every stream the server may still read is in order.
StreamsInOrder ==
    /\ InOrder(up, base, applied)
    /\ \A s \in lingering : InOrder(s, base, applied)

\* What is not applied is remembered, and is on the way when connected; what
\* is remembered is of this process.
NothingForgotten ==
    /\ base <= Ran
    /\ \A v \in outstandingPuts : base < v
    /\ alive = FALSE => calls = <<>> /\ outstandingPuts = {}
    /\ alive = TRUE => \A v \in base + 1 .. Ran : v \in outstandingPuts \cup applied
    /\ connectionState = "Connected" =>
          \A v \in outstandingPuts : v \in applied \/ OnTheWay(up, v)

\* A reply to a put says that the write is applied.
RepliesAreTrue ==
    \A k \in 1 .. Len(down), w \in Nat : down[k] = Put(w) => w \in applied

\* The first reply of a connection that authenticates restores the state.
AuthFirst ==
    connectionState = "Authenticating" =>
        \/ down # <<>> /\ Head(down) = AuthAndRestore
        \/ down = <<>> /\ up # <<>> /\ Head(up) = AuthAndRestore

DeliveryInv ==
    /\ QueueTypeOK
    /\ ListensAreCounted
    /\ StreamsInOrder
    /\ NothingForgotten
    /\ RepliesAreTrue
    /\ AuthFirst
    /\ WritesArriveInOrder
    /\ AcksAreTrue

\* Nothing has happened yet.
LEMMA DeliveryInvInit == Init => DeliveryInv
  <1> SUFFICES ASSUME Init PROVE DeliveryInv
    OBVIOUS
  <1>0. /\ issued = <<>> /\ calls = <<>> /\ up = <<>> /\ down = <<>> /\ lingering = {}
        /\ applied = {} /\ outstandingPuts = {} /\ putsToAck = {} /\ completed = {}
        /\ base = 0 /\ faults = 0 /\ unackedListensCount = 0 /\ listens = {}
        /\ connectionState = "Disconnected"
    BY DEF Init
  <1>1. Ran = 0
    BY <1>0 DEF Ran
  <1>2. QueueTypeOK
    BY <1>0, <1>1, BoundsAssumption DEF QueueTypeOK
  <1>3. ListensAreCounted
    <2>1. ListensIn(<<>>) = 0
      BY <1>0, <1>2, ListensInType DEF QueueTypeOK
    <2> QED BY <1>0, <2>1 DEF ListensAreCounted
  <1>4. StreamsInOrder
    BY <1>0, InOrderMore DEF StreamsInOrder
  <1>5. NothingForgotten /\ RepliesAreTrue /\ AuthFirst
    BY <1>0, <1>1 DEF NothingForgotten, RepliesAreTrue, AuthFirst
  <1>6. WritesArriveInOrder /\ AcksAreTrue
    BY <1>0 DEF WritesArriveInOrder, AcksAreTrue
  <1> QED BY <1>2, <1>3, <1>4, <1>5, <1>6 DEF DeliveryInv

\* What the environment does stays within its bound.
LEMMA FaultsBounded ==
  ASSUME QueueTypeOK, Fault
  PROVE  faults' \in 0 .. MaxFaults
  BY BoundsAssumption DEF QueueTypeOK, Fault

\* The steps that touch neither the writes nor the streams.
LEMMA SameDelivery ==
  ASSUME DeliveryInv, faults' \in 0 .. MaxFaults, listens' \subseteq Queries,
         UNCHANGED <<alive, calls, outstandingPuts, putsToAck, completed, unackedListensCount,
                     up, down, lingering, applied, issued, base>>,
         \/ connectionState' = connectionState
         \/ connectionState' \notin {"Authenticating", "Connected"}
  PROVE  DeliveryInv'
  <1>0. Ran' = Ran
    BY DEF Ran
  <1>1. QueueTypeOK'
    BY <1>0 DEF DeliveryInv, QueueTypeOK
  <1>2. ListensAreCounted'
    BY DEF DeliveryInv, ListensAreCounted, ListensIn
  <1>3. StreamsInOrder'
    BY DEF DeliveryInv, StreamsInOrder, InOrder
  <1>4. NothingForgotten'
    BY <1>0 DEF DeliveryInv, NothingForgotten, OnTheWay
  <1>5. RepliesAreTrue' /\ AuthFirst'
    BY DEF DeliveryInv, RepliesAreTrue, AuthFirst
  <1>6. WritesArriveInOrder' /\ AcksAreTrue'
    BY DEF DeliveryInv, WritesArriveInOrder, AcksAreTrue
  <1> QED BY <1>1, <1>2, <1>3, <1>4, <1>5, <1>6 DEF DeliveryInv

\* Losing the connection: its requests go on by themselves.
LEMMA LostDelivery ==
  ASSUME DeliveryInv, faults' \in 0 .. MaxFaults,
         connectionState' = "Disconnected",
         lingering' = lingering \cup ({up} \ {<<>>}),
         up' = <<>>, down' = <<>>, unackedListensCount' = 0,
         UNCHANGED <<alive, calls, outstandingPuts, putsToAck, completed, listens,
                     applied, issued, base>>
  PROVE  DeliveryInv'
  <1>0. Ran' = Ran
    BY DEF Ran
  <1>1. QueueTypeOK'
    BY <1>0 DEF DeliveryInv, QueueTypeOK
  <1>2. ListensAreCounted'
    <2>1. ListensIn(<<>>) = 0
      BY ListensInType DEF DeliveryInv, QueueTypeOK
    <2> QED BY <2>1 DEF ListensAreCounted
  <1>3. StreamsInOrder'
    <2>1. InOrder(<<>>, base, applied)
      BY InOrderMore
    <2> QED BY <2>1 DEF DeliveryInv, StreamsInOrder
  <1>4. NothingForgotten'
    BY <1>0 DEF DeliveryInv, NothingForgotten
  <1>5. RepliesAreTrue' /\ AuthFirst'
    BY DEF RepliesAreTrue, AuthFirst
  <1>6. WritesArriveInOrder' /\ AcksAreTrue'
    BY DEF DeliveryInv, WritesArriveInOrder, AcksAreTrue
  <1> QED BY <1>1, <1>2, <1>3, <1>4, <1>5, <1>6 DEF DeliveryInv

\* Sending a request that is not a put.
LEMMA SendDelivery ==
  ASSUME DeliveryInv, faults' \in 0 .. MaxFaults, listens' \subseteq Queries,
         NEW e \in {Listen, Auth, AuthAndRestore},
         up' = Append(up, e),
         unackedListensCount' = unackedListensCount + (IF e = Listen THEN 1 ELSE 0),
         UNCHANGED <<alive, calls, outstandingPuts, putsToAck, completed,
                     down, lingering, applied, issued, base>>,
         \/ connectionState' = connectionState
         \/ /\ connectionState' = "Authenticating"
            /\ up = <<>> /\ down = <<>> /\ e = AuthAndRestore
  PROVE  DeliveryInv'
  <1>0. Ran' = Ran
    BY DEF Ran
  <1>1. /\ up \in Seq(Messages(Ran)) /\ down \in Seq(Messages(Ran)) /\ e \in Messages(Ran)
        /\ unackedListensCount \in Nat /\ base \in Nat
    BY DEF DeliveryInv, QueueTypeOK, Messages
  <1>2. QueueTypeOK'
    BY <1>0, <1>1 DEF DeliveryInv, QueueTypeOK
  <1>3. ListensAreCounted'
    <2>1. ListensIn(up') = ListensIn(up) + (IF e = Listen THEN 1 ELSE 0)
      BY <1>1, ListensInAppend
    <2>2. ListensIn(up) \in Nat /\ ListensIn(down) \in Nat
      BY <1>1, ListensInType
    <2>3. ListensIn(down') = ListensIn(down)
      OBVIOUS
    <2> QED BY <2>1, <2>2, <2>3 DEF DeliveryInv, ListensAreCounted
  <1>4. \A w : e # Put(w)
    BY MessageFacts
  <1>5. InOrder(up, base, applied)
    BY DEF DeliveryInv, StreamsInOrder
  <1>6. /\ InOrder(Append(up, e), base, applied)
        /\ \A v : OnTheWay(up, v) => OnTheWay(Append(up, e), v)
    BY <1>1, <1>4, <1>5, InOrderAppend
  <1>7. StreamsInOrder'
    BY <1>6 DEF DeliveryInv, StreamsInOrder
  <1>8. NothingForgotten'
    BY <1>0, <1>6 DEF DeliveryInv, NothingForgotten
  <1>9. RepliesAreTrue'
    BY DEF DeliveryInv, RepliesAreTrue
  <1>10. AuthFirst'
    BY <1>1 DEF DeliveryInv, AuthFirst
  <1>11. WritesArriveInOrder' /\ AcksAreTrue'
    BY DEF DeliveryInv, WritesArriveInOrder, AcksAreTrue
  <1> QED BY <1>2, <1>3, <1>7, <1>8, <1>9, <1>10, <1>11 DEF DeliveryInv

\* Taking the next reply off the connection.
LEMMA NextReply ==
  ASSUME DeliveryInv, down # <<>>
  PROVE  /\ Head(down) \in Messages(Ran) /\ Tail(down) \in Seq(Messages(Ran))
         /\ ListensIn(down) = ListensIn(Tail(down)) + (IF Head(down) = Listen THEN 1 ELSE 0)
         /\ ListensIn(down) \in Nat /\ ListensIn(Tail(down)) \in Nat /\ ListensIn(up) \in Nat
         /\ \A w \in Nat : Head(down) = Put(w) => w \in applied
         /\ \A k \in 1 .. Len(Tail(down)), w \in Nat : Tail(down)[k] = Put(w) => w \in applied
         /\ Head(down) # AuthAndRestore => connectionState # "Authenticating"
  <1>1. down \in Seq(Messages(Ran)) /\ up \in Seq(Messages(Ran))
    BY DEF DeliveryInv, QueueTypeOK
  <1>2. /\ Head(down) = down[1] /\ Head(down) \in Messages(Ran)
        /\ Tail(down) \in Seq(Messages(Ran))
        /\ Len(Tail(down)) = Len(down) - 1 /\ Len(down) \in Nat \ {0}
        /\ \A i \in 1 .. Len(Tail(down)) : Tail(down)[i] = down[i + 1]
    BY <1>1, HeadTailProperties, EmptySeq
  <1>3. ListensIn(down) = ListensIn(Tail(down)) + (IF Head(down) = Listen THEN 1 ELSE 0)
    BY <1>1, ListensInTail
  <1>4. ListensIn(down) \in Nat /\ ListensIn(Tail(down)) \in Nat /\ ListensIn(up) \in Nat
    BY <1>1, <1>2, ListensInType
  <1>5. \A w \in Nat : Head(down) = Put(w) => w \in applied
    <2>1. 1 \in 1 .. Len(down)
      BY <1>2
    <2> QED BY <1>2, <2>1 DEF DeliveryInv, RepliesAreTrue
  <1>6. ASSUME NEW k \in 1 .. Len(Tail(down)), NEW w \in Nat, Tail(down)[k] = Put(w)
        PROVE  w \in applied
    <2>1. k + 1 \in 1 .. Len(down) /\ down[k + 1] = Put(w)
      BY <1>2, <1>6
    <2> QED BY <2>1 DEF DeliveryInv, RepliesAreTrue
  <1>7. Head(down) # AuthAndRestore => connectionState # "Authenticating"
    BY DEF DeliveryInv, AuthFirst
  <1> QED BY <1>2, <1>3, <1>4, <1>5, <1>6, <1>7

\* restoreState, with or without the reply that asked for it.
LEMMA RestoreDelivery ==
  ASSUME DeliveryInv, alive = TRUE, faults' \in 0 .. MaxFaults,
         connectionState' = "Connected", restoreState,
         \/ down' = down
         \/ down # <<>> /\ Head(down) = AuthAndRestore /\ down' = Tail(down),
         UNCHANGED <<alive, calls, outstandingPuts, putsToAck, completed, listens,
                     lingering, applied, issued, base>>
  PROVE  DeliveryInv'
  <1>0. Ran' = Ran
    BY DEF Ran
  <1>1. /\ up \in Seq(Messages(Ran)) /\ down \in Seq(Messages(Ran)) /\ Ran \in Nat
        /\ unackedListensCount \in Nat /\ base \in Nat
        /\ outstandingPuts \in SUBSET (1 .. Ran) /\ listens \subseteq Queries
        /\ InOrder(up, base, applied) /\ \A v \in outstandingPuts : base < v
        /\ \A v \in base + 1 .. Ran : v \in outstandingPuts \cup applied
    BY DEF DeliveryInv, QueueTypeOK, StreamsInOrder, NothingForgotten
  <1>2. /\ up' = up \o restoredListens \o restoredPuts
        /\ unackedListensCount' = unackedListensCount + Cardinality(listens)
    BY DEF restoreState
  <1>3. up' \in Seq(Messages(Ran)) /\ Cardinality(listens) \in Nat
    BY <1>1, <1>2, Restored
  <1>4. ListensIn(up') = ListensIn(up) + Cardinality(listens)
    BY <1>1, <1>2, ListensInRestored
  <1>5. /\ InOrder(up', base, applied)
        /\ \A v \in outstandingPuts : OnTheWay(up', v)
    BY <1>1, <1>2, InOrderRestored
  <1>6. /\ down' \in Seq(Messages(Ran)) /\ ListensIn(down') = ListensIn(down)
        /\ ListensIn(up) \in Nat /\ ListensIn(down) \in Nat
        /\ \A k \in 1 .. Len(down'), w \in Nat : down'[k] = Put(w) => w \in applied
    <2>1. CASE down' = down
      BY <1>1, <2>1, ListensInType DEF DeliveryInv, RepliesAreTrue
    <2>2. CASE down # <<>> /\ Head(down) = AuthAndRestore /\ down' = Tail(down)
      <3>1. Head(down) # Listen
        BY <2>2, MessageFacts
      <3> QED BY <2>2, <3>1, NextReply
    <2> QED BY <2>1, <2>2
  <1>7. QueueTypeOK'
    <2>1. unackedListensCount' \in Nat
      BY <1>1, <1>2, <1>3
    <2> QED BY <1>0, <1>3, <1>6, <2>1 DEF DeliveryInv, QueueTypeOK
  <1>8. ListensAreCounted'
    <2>1. unackedListensCount = ListensIn(up) + ListensIn(down)
      BY DEF DeliveryInv, ListensAreCounted
    <2>2. unackedListensCount' = unackedListensCount + Cardinality(listens)
      BY <1>2
    <2>3. unackedListensCount' = ListensIn(up') + ListensIn(down')
      BY <1>3, <1>4, <1>6, <2>1, <2>2
    <2> QED BY <2>3 DEF ListensAreCounted
  <1>9. StreamsInOrder'
    BY <1>5 DEF DeliveryInv, StreamsInOrder
  <1>10. NothingForgotten'
    BY <1>0, <1>5 DEF DeliveryInv, NothingForgotten
  <1>11. RepliesAreTrue' /\ AuthFirst'
    BY <1>6 DEF RepliesAreTrue, AuthFirst
  <1>12. WritesArriveInOrder' /\ AcksAreTrue'
    BY DEF DeliveryInv, WritesArriveInOrder, AcksAreTrue
  <1> QED BY <1>7, <1>8, <1>9, <1>10, <1>11, <1>12 DEF DeliveryInv

\* A reply that sends nothing: to an auth, a listen or a put.
LEMMA ReplyDelivery ==
  ASSUME DeliveryInv, down # <<>>, Head(down) # AuthAndRestore, down' = Tail(down),
         connectionState' \in {connectionState, "Connected"},
         connectionState = "Disconnected" => connectionState' = "Disconnected",
         connectionState' = "Connected" => connectionState = "Connected",
         unackedListensCount' = unackedListensCount - (IF Head(down) = Listen THEN 1 ELSE 0),
         outstandingPuts \ applied \subseteq outstandingPuts',
         outstandingPuts' \subseteq outstandingPuts,
         AcksAreTrue',
         UNCHANGED <<alive, calls, listens, up, lingering, applied, issued, base, faults>>
  PROVE  DeliveryInv'
  <1>0. Ran' = Ran
    BY DEF Ran
  <1>1. /\ Tail(down) \in Seq(Messages(Ran))
        /\ ListensIn(down) = ListensIn(Tail(down)) + (IF Head(down) = Listen THEN 1 ELSE 0)
        /\ ListensIn(down) \in Nat /\ ListensIn(Tail(down)) \in Nat /\ ListensIn(up) \in Nat
        /\ \A k \in 1 .. Len(Tail(down)), w \in Nat : Tail(down)[k] = Put(w) => w \in applied
        /\ connectionState # "Authenticating"
    BY NextReply
  <1>2. ListensAreCounted' /\ unackedListensCount' \in Nat
    <2>1. unackedListensCount = ListensIn(up) + ListensIn(down)
      BY DEF DeliveryInv, ListensAreCounted
    <2>2. ListensIn(up') = ListensIn(up) /\ ListensIn(down') = ListensIn(Tail(down))
      OBVIOUS
    <2> QED BY <1>1, <2>1, <2>2 DEF ListensAreCounted
  <1>3. QueueTypeOK'
    BY <1>0, <1>1, <1>2 DEF DeliveryInv, QueueTypeOK
  <1>4. StreamsInOrder'
    BY DEF DeliveryInv, StreamsInOrder
  <1>5. NothingForgotten'
    BY <1>0 DEF DeliveryInv, NothingForgotten
  <1>6. RepliesAreTrue' /\ AuthFirst'
    BY <1>1 DEF RepliesAreTrue, AuthFirst
  <1>7. WritesArriveInOrder'
    BY DEF DeliveryInv, WritesArriveInOrder
  <1> QED BY <1>2, <1>3, <1>4, <1>5, <1>6, <1>7 DEF DeliveryInv

\* The last reply to a listen releases the completions held back.
LEMMA OnListenReplyDelivery ==
  ASSUME DeliveryInv, onListenReply
  PROVE  DeliveryInv'
  <1>1. /\ down # <<>> /\ Head(down) = Listen /\ down' = Tail(down)
        /\ unackedListensCount' = unackedListensCount - 1
        /\ UNCHANGED <<connectionState, outstandingPuts, alive, calls, listens, up, lingering,
                       applied, issued, base, faults>>
    BY DEF onListenReply, appVars
  <1>2. AcksAreTrue'
    BY DEF onListenReply, DeliveryInv, AcksAreTrue
  <1>3. Head(down) # AuthAndRestore
    BY <1>1, MessageFacts
  <1>4. unackedListensCount' = unackedListensCount - (IF Head(down) = Listen THEN 1 ELSE 0)
    BY <1>1
  <1> QED BY <1>1, <1>2, <1>3, <1>4, ReplyDelivery

\* The reply to a put: the write is applied, so it may be forgotten.
LEMMA OnPutReplyDelivery ==
  ASSUME DeliveryInv, onPutReply
  PROVE  DeliveryInv'
  <1>1. /\ down # <<>> /\ Head(down).kind = "put" /\ down' = Tail(down)
        /\ UNCHANGED <<connectionState, alive, calls, listens, up, lingering,
                       applied, issued, base, faults, unackedListensCount>>
    BY DEF onPutReply, appVars
  <1>2. PICK w : w = Head(down).write
    OBVIOUS
  <1>3. w \in Nat /\ Head(down) = Put(w) /\ Head(down) # Listen /\ Head(down) # AuthAndRestore
    <2>1. Head(down) \in Messages(Ran) /\ Ran \in Nat
      BY <1>1, NextReply DEF DeliveryInv, QueueTypeOK
    <2>2. w \in 1 .. Ran /\ Head(down) = Put(w)
      BY <1>1, <1>2, <2>1, MessageFacts
    <2>3. w \in Nat
      BY <2>1, <2>2
    <2>4. Head(down) # Listen /\ Head(down) # AuthAndRestore
      BY <1>1, MessageFacts
    <2> QED BY <2>2, <2>3, <2>4
  <1>4. w \in applied
    <2>1. \A x \in Nat : Head(down) = Put(x) => x \in applied
      BY <1>1, NextReply
    <2> QED BY <1>3, <2>1
  <1>5. /\ outstandingPuts \ applied \subseteq outstandingPuts'
        /\ outstandingPuts' \subseteq outstandingPuts
    BY <1>2, <1>4 DEF onPutReply
  <1>6. AcksAreTrue'
    BY <1>2, <1>4 DEF onPutReply, appVars, DeliveryInv, AcksAreTrue
  <1>7. unackedListensCount' = unackedListensCount - (IF Head(down) = Listen THEN 1 ELSE 0)
    BY <1>1, <1>3 DEF DeliveryInv, QueueTypeOK
  <1> QED BY <1>1, <1>3, <1>5, <1>6, <1>7, ReplyDelivery

\* The app issues writes: their blocks wait behind the ones there are.
LEMMA IssueDelivery ==
  ASSUME ConnInv, DeliveryInv, NEW payloads \in Seq(Payloads), issue(payloads),
         UNCHANGED <<alive, connectionState, outstandingPuts, putsToAck, completed, listens,
                     unackedListensCount, up, down, lingering, applied, base, faults>>
  PROVE  DeliveryInv'
  <1> DEFINE new == [k \in 1 .. Len(payloads) |-> Len(issued) + k]
  <1>1. /\ issued \in Seq(Payloads) /\ calls \in Seq(Nat) /\ Ran \in Nat
        /\ \A k \in 1 .. Len(calls) : calls[k] = Ran + k
        /\ base \in 0 .. Len(issued)
    BY DEF DeliveryInv, QueueTypeOK
  <1>2. issued' = issued \o payloads /\ calls' = calls \o new
    BY DEF issue
  <1>3. /\ Len(payloads) \in Nat /\ Len(issued) \in Nat /\ Len(calls) \in Nat
        /\ new \in Seq(Nat) /\ Len(new) = Len(payloads)
        /\ \A k \in 1 .. Len(payloads) : new[k] = Len(issued) + k
    BY <1>1
  <1> HIDE DEF new
  <1>4. /\ issued' \in Seq(Payloads) /\ Len(issued') = Len(issued) + Len(payloads)
        /\ calls' \in Seq(Nat) /\ Len(calls') = Len(calls) + Len(payloads)
        /\ \A k \in 1 .. Len(calls) : calls'[k] = calls[k]
        /\ \A k \in 1 .. Len(payloads) : calls'[Len(calls) + k] = new[k]
    <2>1. /\ issued \o payloads \in Seq(Payloads)
          /\ Len(issued \o payloads) = Len(issued) + Len(payloads)
      BY <1>1
    <2>2. /\ calls \o new \in Seq(Nat)
          /\ Len(calls \o new) = Len(calls) + Len(new)
          /\ \A k \in 1 .. Len(calls) : (calls \o new)[k] = calls[k]
          /\ \A k \in 1 .. Len(new) : (calls \o new)[Len(calls) + k] = new[k]
      <3>1. calls \in Seq(Nat) /\ new \in Seq(Nat)
        BY <1>1, <1>3
      <3> QED BY <3>1
    <2> QED BY <1>2, <1>3, <2>1, <2>2, Zenon
  <1>5. Ran' = Ran /\ Ran = Len(issued) - Len(calls)
    BY <1>3, <1>4 DEF Ran
  <1>6. ASSUME NEW k \in 1 .. Len(calls') PROVE calls'[k] = Ran + k
    <2>1. CASE k \in 1 .. Len(calls)
      BY <1>1, <1>4, <2>1
    <2>2. CASE k \in Len(calls) + 1 .. Len(calls')
      <3>1. k - Len(calls) \in 1 .. Len(payloads) /\ Len(calls) + (k - Len(calls)) = k
        BY <1>3, <1>4, <2>2
      <3>2. calls'[k] = Len(issued) + (k - Len(calls))
        BY <1>3, <1>4, <3>1
      <3> QED BY <1>3, <1>5, <3>2
    <2> QED BY <1>3, <1>4, <2>1, <2>2
  <1>7. base' \in 0 .. Len(issued')
    BY <1>1, <1>3, <1>4
  <1>8. QueueTypeOK'
    BY <1>4, <1>5, <1>6, <1>7 DEF DeliveryInv, QueueTypeOK
  <1>9. ListensAreCounted'
    BY DEF DeliveryInv, ListensAreCounted
  <1>10. StreamsInOrder'
    BY DEF DeliveryInv, StreamsInOrder
  <1>11. NothingForgotten'
    <2>1. alive' = TRUE
      BY DEF issue, ConnInv, ConnTypeOK
    <2> QED BY <1>5, <2>1 DEF DeliveryInv, NothingForgotten
  <1>12. RepliesAreTrue' /\ AuthFirst'
    BY DEF DeliveryInv, RepliesAreTrue, AuthFirst
  <1>13. WritesArriveInOrder' /\ AcksAreTrue'
    BY DEF DeliveryInv, WritesArriveInOrder, AcksAreTrue
  <1> QED BY <1>8, <1>9, <1>10, <1>11, <1>12, <1>13 DEF DeliveryInv

\* The block of a write: it is remembered, and sent if writes can be sent.
LEMMA PutInternalDelivery ==
  ASSUME ConnInv, DeliveryInv, putInternal
  PROVE  DeliveryInv'
  <1>1. /\ issued \in Seq(Payloads) /\ calls \in Seq(Nat) /\ Ran \in Nat
        /\ \A k \in 1 .. Len(calls) : calls[k] = Ran + k
        /\ base \in 0 .. Len(issued) /\ base \in Nat
        /\ outstandingPuts \in SUBSET (1 .. Ran)
        /\ up \in Seq(Messages(Ran)) /\ down \in Seq(Messages(Ran))
        /\ lingering \subseteq Seq(Messages(Ran)) \ {<<>>}
        /\ applied \subseteq 1 .. Ran
    BY DEF DeliveryInv, QueueTypeOK
  <1>2. /\ alive /\ calls # <<>> /\ calls' = Tail(calls)
        /\ outstandingPuts' = outstandingPuts \cup {Head(calls)}
        /\ up' = IF connectionState = "Connected" THEN Append(up, Put(Head(calls))) ELSE up
        /\ UNCHANGED <<alive, connectionState, down, lingering, unackedListensCount, putsToAck,
                       completed, listens, applied, issued, base, faults>>
    BY DEF putInternal, appVars, canSendWrites
  <1>3. /\ Len(calls) \in Nat \ {0} /\ Tail(calls) \in Seq(Nat)
        /\ Len(Tail(calls)) = Len(calls) - 1
        /\ \A i \in 1 .. Len(Tail(calls)) : Tail(calls)[i] = calls[i + 1]
        /\ Head(calls) = calls[1]
    BY <1>1, <1>2, HeadTailProperties, EmptySeq
  <1>4. Head(calls) = Ran + 1
    BY <1>1, <1>3
  <1>5. Ran' = Ran + 1
    <2>1. Ran = Len(issued) - Len(calls) /\ Ran' = Len(issued) - Len(Tail(calls))
      BY <1>2 DEF Ran
    <2>2. Len(issued) \in Nat
      BY <1>1
    <2> QED BY <1>3, <2>1, <2>2
  <1>6. \A k \in 1 .. Len(calls') : calls'[k] = Ran' + k
    BY <1>1, <1>2, <1>3, <1>5
  <1>7. /\ Messages(Ran) \subseteq Messages(Ran') /\ Put(Ran + 1) \in Messages(Ran')
    <2>1. Ran + 1 \in Nat /\ Ran <= Ran + 1 /\ Ran + 1 \in 1 .. Ran + 1
      BY <1>1
    <2>2. Messages(Ran) \subseteq Messages(Ran + 1)
      BY <1>1, <2>1, MessagesGrow
    <2>3. Put(Ran + 1) \in Messages(Ran + 1)
      BY <2>1 DEF Messages
    <2> QED BY <1>5, <2>2, <2>3
  <1>8. /\ up \in Seq(Messages(Ran')) /\ down' \in Seq(Messages(Ran'))
        /\ lingering' \subseteq Seq(Messages(Ran')) \ {<<>>}
    BY <1>1, <1>2, <1>7, SeqMonotonic
  <1>9. up' \in Seq(Messages(Ran'))
    BY <1>2, <1>4, <1>7, <1>8
  <1>10. QueueTypeOK'
    <2>1. /\ outstandingPuts' \in SUBSET (1 .. Ran') /\ applied' \subseteq 1 .. Ran'
          /\ Ran' \in Nat
      <3>1. 1 .. Ran \subseteq 1 .. Ran + 1 /\ Ran + 1 \in 1 .. Ran + 1 /\ Ran + 1 \in Nat
        BY <1>1
      <3>2. outstandingPuts \cup {Ran + 1} \subseteq 1 .. Ran + 1 /\ applied \subseteq 1 .. Ran + 1
        BY <1>1, <3>1
      <3> QED BY <1>2, <1>4, <1>5, <3>1, <3>2
    <2> QED BY <1>2, <1>3, <1>6, <1>8, <1>9, <2>1 DEF DeliveryInv, QueueTypeOK
  <1>11. ListensAreCounted'
    <2>1. ListensIn(Append(up, Put(Head(calls)))) = ListensIn(up)
      <3>1. ListensIn(up) \in Nat
        BY <1>1, ListensInType
      <3>2. Put(Head(calls)) # Listen /\ Put(Head(calls)) \in Messages(Ran')
        BY <1>4, <1>7, MessageFacts
      <3>3. ListensIn(Append(up, Put(Head(calls))))
              = ListensIn(up) + (IF Put(Head(calls)) = Listen THEN 1 ELSE 0)
        BY <1>8, <3>2, ListensInAppend
      <3> QED BY <3>1, <3>2, <3>3
    <2>2. ListensIn(up') = ListensIn(up) /\ ListensIn(down') = ListensIn(down)
      BY <1>2, <2>1
    <2> QED BY <1>2, <2>2 DEF DeliveryInv, ListensAreCounted
  <1>12. alive = TRUE => \A v \in base + 1 .. Ran : v \in outstandingPuts \cup applied
    BY DEF DeliveryInv, NothingForgotten
  <1>20. base < Ran + 1
    BY <1>1 DEF DeliveryInv, NothingForgotten
  <1>13. ASSUME connectionState = "Connected", alive = TRUE
         PROVE  /\ InOrder(up', base, applied)
                /\ \A v \in outstandingPuts' : v \in applied \/ OnTheWay(up', v)
    <2>1. up' = Append(up, Put(Ran + 1)) /\ outstandingPuts' = outstandingPuts \cup {Ran + 1}
      BY <1>2, <1>4, <1>13
    <2>2. \A v \in outstandingPuts : v \in applied \/ OnTheWay(up, v)
      BY <1>13 DEF DeliveryInv, NothingForgotten
    <2>3. ASSUME NEW w \in Nat, Put(Ran + 1) = Put(w), NEW v \in base + 1 .. w - 1
          PROVE  v \in applied \/ OnTheWay(up, v)
      <3>1. w = Ran + 1
        BY <2>3, PutInjective
      <3>2. v \in base + 1 .. Ran
        BY <1>1, <3>1
      <3> QED BY <1>12, <1>13, <2>2, <3>2
    <2>6. ASSUME NEW w \in Nat, Put(Ran + 1) = Put(w) PROVE base < w
      BY <1>1, <1>20, <2>6, PutInjective
    <2>4. InOrder(up, base, applied)
      BY DEF DeliveryInv, StreamsInOrder
    <2>5. /\ InOrder(Append(up, Put(Ran + 1)), base, applied)
          /\ \A v : OnTheWay(up, v) \/ Put(Ran + 1) = Put(v)
                       => OnTheWay(Append(up, Put(Ran + 1)), v)
      BY <1>1, <1>7, <1>8, <2>3, <2>4, <2>6, InOrderAppend
    <2> QED BY <2>1, <2>2, <2>5
  <1>14. alive = TRUE
    BY <1>2 DEF ConnInv, ConnTypeOK
  <1>15. StreamsInOrder'
    BY <1>2, <1>13, <1>14 DEF DeliveryInv, StreamsInOrder
  <1>16. NothingForgotten'
    <2>1. \A v \in base + 1 .. Ran' : v \in outstandingPuts' \cup applied
      <3>1. \A v \in base + 1 .. Ran + 1 : v \in base + 1 .. Ran \/ v = Ran + 1
        BY <1>1
      <3> QED BY <1>2, <1>4, <1>5, <1>12, <1>14, <3>1
    <2>2. base' <= Ran' /\ \A v \in outstandingPuts' : base' < v
      <3>1. base <= Ran + 1
        BY <1>1, <1>20
      <3> QED BY <1>2, <1>4, <1>5, <1>20, <3>1 DEF DeliveryInv, NothingForgotten
    <2> QED BY <1>2, <1>13, <1>14, <2>1, <2>2 DEF NothingForgotten
  <1>17. RepliesAreTrue' /\ AuthFirst'
    BY <1>2 DEF DeliveryInv, RepliesAreTrue, AuthFirst
  <1>18. WritesArriveInOrder'
    BY <1>2 DEF DeliveryInv, WritesArriveInOrder
  <1>19. AcksAreTrue'
    <2>1. Ran + 1 \notin applied
      BY <1>1
    <2> QED BY <1>2, <1>4, <2>1 DEF DeliveryInv, AcksAreTrue
  <1> QED BY <1>10, <1>11, <1>15, <1>16, <1>17, <1>18, <1>19 DEF DeliveryInv

\* The server reads the head of a stream: what the write needs is applied.
LEMMA Applying ==
  ASSUME DeliveryInv, NEW s \in Seq(Messages(Ran)), s # <<>>, InOrder(s, base, applied),
         applied' = applied \cup WritesOf(Head(s))
  PROVE  /\ applied' \subseteq 1 .. Ran /\ applied \subseteq applied'
         /\ \A w \in applied' : \A v \in base + 1 .. w : v \in applied'
         /\ InOrder(Tail(s), base, applied')
         /\ \A t : InOrder(t, base, applied) => InOrder(t, base, applied')
         /\ \A v : Head(s) = Put(v) => v \in applied'
         /\ \A v : OnTheWay(s, v) => v \in applied' \/ OnTheWay(Tail(s), v)
  <1>1. Ran \in Nat /\ base \in Nat /\ applied \subseteq 1 .. Ran
    BY DEF DeliveryInv, QueueTypeOK
  <1>2. Head(s) \in Messages(Ran) /\ Tail(s) \in Seq(Messages(Ran))
    BY HeadTailProperties
  <1>3. /\ WritesOf(Head(s)) \subseteq 1 .. Ran
        /\ \A v : Head(s) = Put(v) <=> v \in WritesOf(Head(s))
    BY <1>1, <1>2, WritesOfMessage
  <1>4. ASSUME NEW w \in applied', NEW v \in base + 1 .. w PROVE v \in applied'
    <2>1. CASE w \in applied
      BY <2>1 DEF DeliveryInv, WritesArriveInOrder
    <2>2. CASE w \in WritesOf(Head(s))
      <3>1. Head(s) = Put(w) /\ w \in Nat
        BY <1>1, <1>3, <2>2
      <3>2. \A x \in base + 1 .. w - 1 : x \in applied
        BY <1>1, <3>1, InOrderHead
      <3>3. v \in base + 1 .. w - 1 \/ v = w
        BY <1>1, <3>1
      <3> QED BY <2>2, <3>2, <3>3
    <2> QED BY <2>1, <2>2
  <1>5. /\ InOrder(Tail(s), base, applied')
        /\ \A v : OnTheWay(s, v) => v \in WritesOf(Head(s)) \/ OnTheWay(Tail(s), v)
    BY <1>1, InOrderTail
  <1>6. \A t : InOrder(t, base, applied) => InOrder(t, base, applied')
    BY InOrderMore
  <1> QED BY <1>1, <1>3, <1>4, <1>5, <1>6

\* The server answers the next request of the open connection.
LEMMA ServeDelivery ==
  ASSUME DeliveryInv, serve
  PROVE  DeliveryInv'
  <1>0. /\ up # <<>> /\ applied' = applied \cup WritesOf(Head(up))
        /\ up' = Tail(up) /\ down' = Append(down, Head(up))
        /\ UNCHANGED <<alive, connectionState, lingering, unackedListensCount, calls,
                       outstandingPuts, putsToAck, completed, listens, issued, base, faults>>
    BY DEF serve, putVars, appVars
  <1>1. Ran' = Ran
    BY <1>0 DEF Ran
  <1>2. /\ up \in Seq(Messages(Ran)) /\ down \in Seq(Messages(Ran))
        /\ InOrder(up, base, applied)
    BY DEF DeliveryInv, QueueTypeOK, StreamsInOrder
  <1>3. /\ applied' \subseteq 1 .. Ran /\ applied \subseteq applied'
        /\ \A w \in applied' : \A v \in base + 1 .. w : v \in applied'
        /\ InOrder(Tail(up), base, applied')
        /\ \A t : InOrder(t, base, applied) => InOrder(t, base, applied')
        /\ \A v : Head(up) = Put(v) => v \in applied'
        /\ \A v : OnTheWay(up, v) => v \in applied' \/ OnTheWay(Tail(up), v)
    BY <1>0, <1>2, Applying
  <1>4. /\ Head(up) \in Messages(Ran) /\ Tail(up) \in Seq(Messages(Ran))
        /\ Append(down, Head(up)) \in Seq(Messages(Ran))
    BY <1>0, <1>2, HeadTailProperties
  <1>5. QueueTypeOK'
    BY <1>0, <1>1, <1>3, <1>4 DEF DeliveryInv, QueueTypeOK
  <1>6. ListensAreCounted'
    <2>1. ListensIn(up) = ListensIn(up') + (IF Head(up) = Listen THEN 1 ELSE 0)
      BY <1>0, <1>2, ListensInTail
    <2>2. ListensIn(down') = ListensIn(down) + (IF Head(up) = Listen THEN 1 ELSE 0)
      BY <1>0, <1>2, <1>4, ListensInAppend
    <2>3. ListensIn(up') \in Nat /\ ListensIn(down) \in Nat
      BY <1>0, <1>2, <1>4, ListensInType
    <2>4. unackedListensCount' = ListensIn(up) + ListensIn(down)
      BY <1>0 DEF DeliveryInv, ListensAreCounted
    <2> QED BY <2>1, <2>2, <2>3, <2>4 DEF ListensAreCounted
  <1>7. StreamsInOrder'
    BY <1>0, <1>3 DEF DeliveryInv, StreamsInOrder
  <1>8. NothingForgotten'
    BY <1>0, <1>1, <1>3 DEF DeliveryInv, NothingForgotten
  <1>9. RepliesAreTrue'
    <2>1. /\ Len(down) \in Nat /\ Len(Append(down, Head(up))) = Len(down) + 1
          /\ \A k \in 1 .. Len(down) : Append(down, Head(up))[k] = down[k]
          /\ Append(down, Head(up))[Len(down) + 1] = Head(up)
      BY <1>2, <1>4
    <2>2. \A k \in 1 .. Len(down) + 1 : k \in 1 .. Len(down) \/ k = Len(down) + 1
      BY <2>1
    <2> QED BY <1>0, <1>3, <2>1, <2>2 DEF DeliveryInv, RepliesAreTrue
  <1>10. AuthFirst'
    <2> SUFFICES ASSUME connectionState = "Authenticating"
                 PROVE  down' # <<>> /\ Head(down') = AuthAndRestore
      BY <1>0 DEF AuthFirst
    <2>1. CASE down # <<>> /\ Head(down) = AuthAndRestore
      BY <1>0, <1>2, <1>4, <2>1
    <2>2. CASE down = <<>> /\ Head(up) = AuthAndRestore
      BY <1>0, <1>4, <2>2
    <2> QED BY <2>1, <2>2 DEF DeliveryInv, AuthFirst
  <1>11. WritesArriveInOrder'
    BY <1>0, <1>3 DEF WritesArriveInOrder
  <1>12. AcksAreTrue'
    BY <1>0, <1>3 DEF DeliveryInv, AcksAreTrue
  <1> QED BY <1>5, <1>6, <1>7, <1>8, <1>9, <1>10, <1>11, <1>12 DEF DeliveryInv

\* The server reads what was left in flight on a closed connection.
LEMMA ServeLingeringDelivery ==
  ASSUME DeliveryInv, serveLingering
  PROVE  DeliveryInv'
  <1>0. PICK s \in lingering :
          /\ applied' = applied \cup WritesOf(Head(s))
          /\ lingering' = (lingering \ {s}) \cup ({Tail(s)} \ {<<>>})
    BY DEF serveLingering
  <1>1. /\ UNCHANGED <<alive, connectionState, up, down, unackedListensCount, calls,
                       outstandingPuts, putsToAck, completed, listens, issued, base, faults>>
    BY DEF serveLingering, putVars, appVars
  <1>2. Ran' = Ran
    BY <1>1 DEF Ran
  <1>3. s \in Seq(Messages(Ran)) /\ s # <<>> /\ InOrder(s, base, applied)
    BY DEF DeliveryInv, QueueTypeOK, StreamsInOrder
  <1>4. /\ applied' \subseteq 1 .. Ran /\ applied \subseteq applied'
        /\ \A w \in applied' : \A v \in base + 1 .. w : v \in applied'
        /\ InOrder(Tail(s), base, applied')
        /\ \A t : InOrder(t, base, applied) => InOrder(t, base, applied')
    BY <1>0, <1>3, Applying
  <1>5. Tail(s) \in Seq(Messages(Ran))
    BY <1>3, HeadTailProperties
  <1>6. QueueTypeOK'
    BY <1>0, <1>1, <1>2, <1>4, <1>5 DEF DeliveryInv, QueueTypeOK
  <1>7. ListensAreCounted'
    BY <1>1 DEF DeliveryInv, ListensAreCounted
  <1>8. StreamsInOrder'
    BY <1>0, <1>1, <1>4 DEF DeliveryInv, StreamsInOrder
  <1>9. NothingForgotten'
    BY <1>1, <1>2, <1>4 DEF DeliveryInv, NothingForgotten
  <1>10. RepliesAreTrue' /\ AuthFirst'
    BY <1>1, <1>4 DEF DeliveryInv, RepliesAreTrue, AuthFirst
  <1>11. WritesArriveInOrder'
    BY <1>1, <1>4 DEF WritesArriveInOrder
  <1>12. AcksAreTrue'
    BY <1>1, <1>4 DEF DeliveryInv, AcksAreTrue
  <1> QED BY <1>6, <1>7, <1>8, <1>9, <1>10, <1>11, <1>12 DEF DeliveryInv

\* The process ends: what the server has not read may still arrive, in order.
LEMMA TerminateDelivery ==
  ASSUME DeliveryInv, terminate
  PROVE  DeliveryInv'
  <1>0. /\ alive' = FALSE /\ connectionState' = "Disconnected" /\ Fault
        /\ calls' = <<>> /\ outstandingPuts' = {} /\ putsToAck' = {} /\ listens' = {}
        /\ unackedListensCount' = 0 /\ up' = <<>> /\ down' = <<>>
        /\ lingering' = lingering \cup ({up} \ {<<>>})
        /\ UNCHANGED <<completed, applied, issued, base>>
    BY DEF terminate, appVars
  <1>1. /\ Ran \in Nat /\ Len(issued) \in Nat /\ Len(calls) \in Nat
        /\ applied \subseteq 1 .. Ran
        /\ up \in Seq(Messages(Ran)) /\ lingering \subseteq Seq(Messages(Ran)) \ {<<>>}
    BY DEF DeliveryInv, QueueTypeOK
  <1>2. Ran' = Len(issued) /\ Ran <= Ran' /\ Ran' \in Nat
    <2>1. Ran = Len(issued) - Len(calls) /\ Ran' = Len(issued) - 0
      BY <1>0 DEF Ran
    <2> QED BY <1>1, <2>1
  <1>3. Messages(Ran) \subseteq Messages(Ran') /\ 1 .. Ran \subseteq 1 .. Ran'
    <2>1. ASSUME NEW n \in Nat, Ran <= n PROVE Messages(Ran) \subseteq Messages(n)
      BY <1>1, <2>1, MessagesGrow
    <2> QED BY <1>1, <1>2, <2>1
  <1>4. lingering' \subseteq Seq(Messages(Ran')) \ {<<>>}
    BY <1>0, <1>1, <1>3, SeqMonotonic
  <1>5. QueueTypeOK'
    <2>1. faults' \in 0 .. MaxFaults
      BY <1>0, FaultsBounded DEF DeliveryInv
    <2>2. applied' \subseteq 1 .. Ran' /\ outstandingPuts' \in SUBSET (1 .. Ran')
      BY <1>0, <1>1, <1>3
    <2> QED BY <1>0, <1>2, <1>4, <2>1, <2>2 DEF DeliveryInv, QueueTypeOK
  <1>6. ListensAreCounted'
    <2>1. ListensIn(<<>>) = 0
      BY <1>1, ListensInType
    <2> QED BY <1>0, <2>1 DEF ListensAreCounted
  <1>7. StreamsInOrder'
    <2>1. InOrder(<<>>, base, applied)
      BY InOrderMore
    <2> QED BY <1>0, <2>1 DEF DeliveryInv, StreamsInOrder
  <1>8. NothingForgotten' /\ RepliesAreTrue' /\ AuthFirst'
    <2>1. base' <= Ran'
      BY <1>0, <1>1, <1>2 DEF DeliveryInv, QueueTypeOK
    <2> QED BY <1>0, <2>1 DEF NothingForgotten, RepliesAreTrue, AuthFirst
  <1>9. WritesArriveInOrder' /\ AcksAreTrue'
    BY <1>0 DEF DeliveryInv, WritesArriveInOrder, AcksAreTrue
  <1> QED BY <1>5, <1>6, <1>7, <1>8, <1>9 DEF DeliveryInv

\* A new process owes nothing for the writes of the ones before.
LEMMA LaunchDelivery ==
  ASSUME ConnInv, DeliveryInv, launch
  PROVE  DeliveryInv'
  <1>0. /\ base' = Len(issued) /\ lingering' = {}
        /\ UNCHANGED <<connectionState, calls, outstandingPuts, putsToAck, completed, listens,
                       unackedListensCount, up, down, applied, issued, faults>>
    BY DEF launch, putVars
  <1>1. up = <<>> /\ down = <<>> /\ connectionState = "Disconnected"
    <2>1. interruptReasons # {}
      BY DEF launch, ConnInv, ConnTypeOK, ChannelsNeedConnection
    <2>2. connectionState = "Disconnected"
      BY <2>1 DEF ConnInv, InterruptedStaysAway
    <2>3. realtime # "connected"
      BY <2>2 DEF ConnInv, AssertionsHold, connected
    <2> QED BY <2>2, <2>3 DEF ConnInv, ChannelsNeedConnection
  <1>2. /\ Ran \in Nat /\ Len(issued) \in Nat /\ Len(calls) \in Nat
        /\ applied \subseteq 1 .. Ran /\ Ran <= Len(issued)
    <2>1. /\ Ran \in Nat /\ Len(issued) \in Nat /\ Len(calls) \in Nat
          /\ applied \subseteq 1 .. Ran
      BY DEF DeliveryInv, QueueTypeOK
    <2> QED BY <2>1 DEF Ran
  <1>3. Ran' = Ran
    BY <1>0 DEF Ran
  <1>4. QueueTypeOK'
    BY <1>0, <1>2, <1>3 DEF DeliveryInv, QueueTypeOK
  <1>5. ListensAreCounted'
    BY <1>0 DEF DeliveryInv, ListensAreCounted
  <1>6. StreamsInOrder'
    <2>1. InOrder(<<>>, base', applied)
      BY InOrderMore
    <2> QED BY <1>0, <1>1, <2>1 DEF StreamsInOrder
  <1>7. NothingForgotten'
    <2>1. calls = <<>> /\ outstandingPuts = {} /\ alive' = TRUE
      BY DEF launch, DeliveryInv, NothingForgotten, ConnInv, ConnTypeOK
    <2>2. Ran = Len(issued)
      BY <1>2, <2>1 DEF Ran
    <2> QED BY <1>0, <1>1, <1>2, <1>3, <2>1, <2>2 DEF NothingForgotten
  <1>8. RepliesAreTrue' /\ AuthFirst'
    BY <1>0, <1>1 DEF RepliesAreTrue, AuthFirst
  <1>9. WritesArriveInOrder'
    BY <1>0, <1>2 DEF WritesArriveInOrder
  <1>10. AcksAreTrue'
    BY <1>0 DEF DeliveryInv, AcksAreTrue
  <1> QED BY <1>4, <1>5, <1>6, <1>7, <1>8, <1>9, <1>10 DEF DeliveryInv

\* Every step of the client preserves the invariant.
LEMMA ClientDelivery ==
  ASSUME ConnInv, DeliveryInv, ClientNext
  PROVE  DeliveryInv'
  <1>0. faults \in 0 .. MaxFaults /\ listens \subseteq Queries /\ QueueTypeOK
    BY DEF DeliveryInv, QueueTypeOK
  <1>1. ASSUME NEW reason, resumeForReason(reason) PROVE DeliveryInv'
    <2>1. /\ UNCHANGED <<alive, connectionState, calls, outstandingPuts, putsToAck, completed,
                         listens, unackedListensCount, up, down, lingering, applied, issued,
                         base, faults>>
      BY <1>1 DEF resumeForReason, connectionVars, putVars, appVars
    <2> QED BY <1>0, <2>1, SameDelivery
  <1>2. ASSUME NEW reason, interruptForReason(reason) PROVE DeliveryInv'
    <2>1. /\ UNCHANGED <<alive, calls, outstandingPuts, putsToAck, completed, listens, applied,
                         issued, base>>
          /\ connectionState' = "Disconnected" /\ Fault
          /\ \/ UNCHANGED <<up, down, lingering, unackedListensCount>>
             \/ /\ lingering' = lingering \cup ({up} \ {<<>>})
                /\ up' = <<>> /\ down' = <<>> /\ unackedListensCount' = 0
      BY <1>2 DEF interruptForReason, interrupt, onDisconnect, putVars, appVars
    <2>2. faults' \in 0 .. MaxFaults
      BY <1>0, <2>1, FaultsBounded
    <2> QED BY <1>0, <2>1, <2>2, SameDelivery, LostDelivery
  <1>3. CASE open \/ resumeForReason("repo_interrupt")
    BY <1>1, <1>3 DEF open
  <1>4. CASE interruptForReason("repo_interrupt") \/ onKill
    BY <1>2, <1>4 DEF onKill
  <1>5. CASE enteringForeground
    BY <1>0, <1>5, SameDelivery DEF enteringForeground, connectionVars, putVars, appVars
  <1>6. CASE retry
    <2>1. connectionState' \notin {"Authenticating", "Connected"}
      BY <1>6 DEF retry
    <2> QED BY <1>0, <1>6, <2>1, SameDelivery DEF retry, putVars, appVars
  <1>7. CASE fetchCallback
    <2>1. \/ connectionState' = connectionState
          \/ connectionState' \notin {"Authenticating", "Connected"}
      BY <1>7 DEF fetchCallback, tokenFetched, tokenFailed
    <2>2. faults' \in 0 .. MaxFaults
      BY <1>0, <1>7, FaultsBounded DEF fetchCallback
    <2> QED BY <1>0, <1>7, <2>1, <2>2, SameDelivery DEF fetchCallback, putVars, appVars
  <1>8. CASE close \/ onAuthRevoked
    <2>1. faults' \in 0 .. MaxFaults
      BY <1>0, <1>8, FaultsBounded DEF close, onAuthRevoked
    <2> QED BY <1>8, <2>1, LostDelivery DEF close, onAuthRevoked, onDisconnect, putVars, appVars
  <1>9. CASE onReady
    <2>1. alive = TRUE /\ up = <<>> /\ down = <<>>
      BY <1>9 DEF onReady, ConnInv, ConnTypeOK, ChannelsNeedConnection
    <2>2. UNCHANGED <<alive, down, lingering, calls, outstandingPuts, putsToAck, completed,
                      listens, applied, issued, base, faults>>
      BY <1>9 DEF onReady, putVars, appVars
    <2>3. CASE authToken
      <3>1. /\ connectionState' = "Authenticating" /\ up' = Append(up, AuthAndRestore)
            /\ unackedListensCount' = unackedListensCount
        BY <1>9, <2>3 DEF onReady
      <3>2. unackedListensCount' = unackedListensCount + (IF AuthAndRestore = Listen THEN 1 ELSE 0)
        BY <1>0, <3>1, MessageFacts DEF QueueTypeOK
      <3> QED BY <1>0, <2>1, <2>2, <3>1, <3>2, SendDelivery
    <2>4. CASE ~authToken
      <3>1. connectionState' = "Connected" /\ restoreState
        BY <1>9, <2>4 DEF onReady
      <3> QED BY <1>0, <2>1, <2>2, <3>1, RestoreDelivery
    <2> QED BY <2>3, <2>4
  <1>10. CASE onAuthReply
    <2>1. /\ alive = TRUE /\ down # <<>> /\ Head(down) \in {Auth, AuthAndRestore}
          /\ UNCHANGED <<alive, calls, outstandingPuts, putsToAck, completed, listens, applied,
                         issued, base>>
      BY <1>10 DEF onAuthReply, putVars, appVars, ConnInv, ConnTypeOK
    <2>2. CASE Fault /\ onDisconnect(interruptReasons)
      <3>1. faults' \in 0 .. MaxFaults
        BY <1>0, <2>2, FaultsBounded
      <3> QED BY <2>1, <2>2, <3>1, LostDelivery DEF onDisconnect
    <2>3. CASE /\ connectionState' = "Connected" /\ down' = Tail(down)
               /\ IF Head(down) = AuthAndRestore THEN restoreState
                                                 ELSE UNCHANGED <<up, unackedListensCount>>
               /\ UNCHANGED <<lingering, faults>>
      <3>1. CASE Head(down) = AuthAndRestore
        BY <1>0, <2>1, <2>3, <3>1, RestoreDelivery
      <3>2. CASE Head(down) = Auth
        <4>1. Head(down) # AuthAndRestore /\ Head(down) # Listen
          BY <3>2, MessageFacts
        <4>2. connectionState = "Connected"
          <5>1. connectionState # "Authenticating"
            BY <2>1, <4>1, NextReply
          <5>2. realtime = "connected"
            BY <2>1 DEF ConnInv, ChannelsNeedConnection
          <5> QED BY <5>1, <5>2 DEF ConnInv, AssertionsHold, connected
        <4>3. unackedListensCount' = unackedListensCount - (IF Head(down) = Listen THEN 1 ELSE 0)
          BY <1>0, <2>3, <4>1 DEF QueueTypeOK
        <4>4. AcksAreTrue'
          BY <2>1 DEF DeliveryInv, AcksAreTrue
        <4> QED BY <2>1, <2>3, <4>1, <4>2, <4>3, <4>4, ReplyDelivery
      <3> QED BY <2>1, <3>1, <3>2
    <2> QED BY <1>10, <2>2, <2>3 DEF onAuthReply, authReply
  <1>11. CASE \E token \in BOOLEAN : refreshAuthToken(token)
    <2>1. /\ UNCHANGED <<alive, connectionState, down, lingering, unackedListensCount, calls,
                         outstandingPuts, putsToAck, completed, listens, applied, issued, base>>
          /\ up' = up \/ up' = Append(up, Auth)
          /\ Fault
      BY <1>11 DEF refreshAuthToken, putVars, appVars
    <2>2. faults' \in 0 .. MaxFaults
      BY <1>0, <2>1, FaultsBounded
    <2>3. unackedListensCount' = unackedListensCount + (IF Auth = Listen THEN 1 ELSE 0)
      BY <1>0, <2>1, MessageFacts DEF QueueTypeOK
    <2> QED BY <1>0, <2>1, <2>2, <2>3, SameDelivery, SendDelivery
  <1>12. CASE \E query \in Queries : listen(query)
    <2>1. /\ UNCHANGED <<alive, connectionState, down, lingering, calls,
                         outstandingPuts, putsToAck, completed, applied, issued, base, faults>>
          /\ \/ up' = up /\ unackedListensCount' = unackedListensCount
             \/ up' = Append(up, Listen) /\ unackedListensCount' = unackedListensCount + 1
          /\ listens' \subseteq Queries
      BY <1>0, <1>12 DEF listen, putVars, appVars
    <2>2. CASE up' = up /\ unackedListensCount' = unackedListensCount
      BY <1>0, <2>1, <2>2, SameDelivery
    <2>3. CASE up' = Append(up, Listen) /\ unackedListensCount' = unackedListensCount + 1
      BY <1>0, <2>1, <2>3, SendDelivery
    <2> QED BY <2>1, <2>2, <2>3
  <1>13. CASE \E query \in Queries : unlisten(query)
    BY <1>0, <1>13, SameDelivery DEF unlisten, connectionVars, putVars, appVars
  <1>14. CASE onListenReply \/ onPutReply
    BY <1>14, OnListenReplyDelivery, OnPutReplyDelivery
  <1>15. CASE putInternal
    BY <1>15, PutInternalDelivery
  <1>16. CASE serve \/ serveLingering
    BY <1>16, ServeDelivery, ServeLingeringDelivery
  <1>17. CASE terminate \/ launch
    BY <1>17, TerminateDelivery, LaunchDelivery
  <1> QED
    BY <1>3, <1>4, <1>5, <1>6, <1>7, <1>8, <1>9, <1>10, <1>11, <1>12, <1>13, <1>14, <1>15,
       <1>16, <1>17 DEF ClientNext

\* So does every step of the specification.
LEMMA DeliveryInvNext == ConnInv /\ DeliveryInv /\ [Next]_vars => DeliveryInv'
  <1> SUFFICES ASSUME ConnInv, DeliveryInv, [Next]_vars PROVE DeliveryInv'
    OBVIOUS
  <1>1. CASE setValue
    <2>1. PICK payload \in Payloads : issue(<<payload>>)
      BY <1>1 DEF setValue
    <2>2. <<payload>> \in Seq(Payloads)
      OBVIOUS
    <2>3. UNCHANGED <<alive, connectionState, outstandingPuts, putsToAck, completed, listens,
                      unackedListensCount, up, down, lingering, applied, base, faults>>
      BY <1>1 DEF setValue, connectionVars
    <2> QED BY <2>1, <2>2, <2>3, IssueDelivery
  <1>2. CASE ClientNext
    BY <1>2, ClientDelivery
  <1>3. CASE UNCHANGED vars
    <2>1. faults \in 0 .. MaxFaults /\ listens \subseteq Queries
      BY DEF DeliveryInv, QueueTypeOK
    <2> QED BY <1>3, <2>1, SameDelivery DEF vars, connectionVars, putVars, appVars
  <1> QED BY <1>1, <1>2, <1>3 DEF Next

-----------------------------------------------------------------------------
(* The theorems.                                                           *)

\* Both parts of the invariant hold in every state.
THEOREM DeliveryInvHolds == Spec => [](ConnInv /\ DeliveryInv)
  <1>1. Init => ConnInv /\ DeliveryInv
    BY ConnInvInit, DeliveryInvInit
  <1>2. ConnInv /\ DeliveryInv /\ [Next]_vars => (ConnInv /\ DeliveryInv)'
    BY ConnInvNext, DeliveryInvNext
  <1> QED BY <1>1, <1>2, PTL DEF Spec

\* Every variable of the client keeps its type.
THEOREM ClientTypesHold == Spec => []TypeOK
  <1>1. ConnInv /\ DeliveryInv => TypeOK
    <2> SUFFICES ASSUME ConnInv, DeliveryInv PROVE TypeOK
      OBVIOUS
    <2>1. /\ Ran \in Nat /\ Len(issued) \in Nat /\ Len(calls) \in Nat /\ Ran <= Len(issued)
          /\ Ran + Len(calls) = Len(issued)
      <3>1. /\ Ran \in Nat /\ Len(issued) \in Nat /\ Len(calls) \in Nat
        BY DEF DeliveryInv, QueueTypeOK
      <3> QED BY <3>1 DEF Ran
    <2>2. 1 .. Ran \subseteq 1 .. Len(issued) /\ Messages(Ran) \subseteq Requests
      BY <2>1 DEF Messages, Requests
    <2>3. calls \in Seq(1 .. Len(issued))
      <3>1. calls \in Seq(Nat) /\ \A k \in 1 .. Len(calls) : calls[k] \in 1 .. Len(issued)
        BY <2>1 DEF DeliveryInv, QueueTypeOK
      <3> QED BY <3>1
    <2>4. /\ up \in Seq(Requests) /\ down \in Seq(Requests)
          /\ lingering \subseteq Seq(Requests) \ {<<>>}
      <3>1. /\ up \in Seq(Messages(Ran)) /\ down \in Seq(Messages(Ran))
            /\ lingering \subseteq Seq(Messages(Ran)) \ {<<>>}
        BY DEF DeliveryInv, QueueTypeOK
      <3>2. \A s \in Seq(Messages(Ran)) : s \in Seq(Requests)
        BY <2>2, SeqMonotonic
      <3> QED BY <3>1, <3>2
    <2>5. /\ outstandingPuts \subseteq 1 .. Len(issued) /\ applied \subseteq 1 .. Len(issued)
          /\ completed \subseteq 1 .. Len(issued) /\ putsToAck \subseteq 1 .. Len(issued)
      BY <2>2 DEF DeliveryInv, QueueTypeOK, AcksAreTrue
    <2> QED BY <2>3, <2>4, <2>5 DEF ConnInv, ConnTypeOK, DeliveryInv, QueueTypeOK, TypeOK
  <1> QED BY <1>1, DeliveryInvHolds, PTL

\* The count of listens under way is exact.
THEOREM ListensAreAlwaysCounted == Spec => []ListensAreCounted
  <1>1. DeliveryInv => ListensAreCounted
    BY DEF DeliveryInv
  <1> QED BY <1>1, DeliveryInvHolds, PTL

\* Writes reach the server in the order the app issued them, without a gap.
THEOREM WritesAlwaysArriveInOrder == Spec => []WritesArriveInOrder
  <1>1. DeliveryInv => WritesArriveInOrder
    BY DEF DeliveryInv
  <1> QED BY <1>1, DeliveryInvHolds, PTL

\* A write is answered only when the server has it, and only once.
THEOREM AcksAreAlwaysTrue == Spec => []AcksAreTrue
  <1>1. DeliveryInv => AcksAreTrue
    BY DEF DeliveryInv
  <1> QED BY <1>1, DeliveryInvHolds, PTL
=============================================================================
