---------------------------- MODULE WsFanoutProofs ----------------------------
(***************************************************************************)
(* Proofs about WsFanout for every number of connections, of messages and  *)
(* of predictions: its types, the gauge, the bound on the copies that a    *)
(* client is sent and the one way in which it misses a message.            *)
(***************************************************************************)
EXTENDS WsFanout, FiniteSetTheorems, SequenceTheorems, TLAPS

-----------------------------------------------------------------------------
(* Lemmas about the list of connections.                                    *)

LEMMA FiniteDomain ==
    ASSUME NEW T, NEW s \in Seq(T)
    PROVE  /\ Len(s) \in Nat /\ DOMAIN s = 1 .. Len(s)
           /\ IsFiniteSet(DOMAIN s) /\ Cardinality(DOMAIN s) = Len(s)
           /\ \A i \in DOMAIN s : s[i] \in T
  <1>1. Len(s) \in Nat /\ DOMAIN s = 1 .. Len(s)
    BY LenProperties
  <1>2. IsFiniteSet(1 .. Len(s)) /\ Cardinality(1 .. Len(s)) = Len(s)
    BY <1>1, FS_Interval
  <1> QED
    BY <1>1, <1>2, ElementOfSeq

(* The elements of a finite set of positions have the ranks 1, 2, 3 ...     *)
LEMMA Ranks ==
    ASSUME NEW n \in Nat, NEW I \in SUBSET (1 .. n)
    PROVE  /\ IsFiniteSet(I) /\ Cardinality(I) \in Nat
           /\ \A i \in I : Rank(I, i) \in 1 .. Cardinality(I) /\ Rank(I, i) <= i
           /\ \A i, k \in I : i < k => Rank(I, i) < Rank(I, k)
           /\ \A j \in 1 .. Cardinality(I) : \E i \in I : Rank(I, i) = j
  <1> DEFINE upTo(i) == {k \in I : k <= i}
  <1>0. /\ \A k \in I : k \in Nat /\ 1 <= k
        /\ \A i, k : k \in upTo(i) <=> k \in I /\ k <= i
    OBVIOUS
  <1>1. IsFiniteSet(I) /\ Cardinality(I) \in Nat
    <2>1. IsFiniteSet(1 .. n)
      BY FS_Interval
    <2> QED
      BY <2>1, FS_Subset, FS_CardinalityType
  <1>2. \A i \in I : /\ IsFiniteSet(upTo(i)) /\ Cardinality(upTo(i)) \in Nat
                     /\ Cardinality(upTo(i)) <= Cardinality(I)
                     /\ upTo(i) \subseteq I
    BY <1>1, FS_Subset, FS_CardinalityType
  <1>3. ASSUME NEW i \in I
        PROVE  1 <= Cardinality(upTo(i)) /\ Cardinality(upTo(i)) <= i
    <2>1. Cardinality(upTo(i)) # 0
      BY <1>2, FS_EmptySet
    <2>2. i \in Nat /\ \A k \in upTo(i) : k \in 1 .. i
      BY <1>0
    <2>3. IsFiniteSet(1 .. i) /\ Cardinality(1 .. i) = i
      BY <2>2, FS_Interval
    <2>4. Cardinality(upTo(i)) <= i
      BY <2>2, <2>3, FS_Subset
    <2> QED
      BY <1>2, <2>1, <2>4
  <1>4. ASSUME NEW i \in I, NEW k \in I, i < k
        PROVE  Cardinality(upTo(i)) < Cardinality(upTo(k))
    <2>1. upTo(i) \subseteq upTo(k) /\ k \in upTo(k) /\ k \notin upTo(i)
      <3>1. \A l \in I : l <= i => l <= k
        BY <1>0, <1>4
      <3>2. k <= k /\ ~(k <= i)
        BY <1>0, <1>4
      <3> QED
        BY <1>0, <3>1, <3>2
    <2>2. upTo(i) # upTo(k)
      BY <2>1
    <2>3. Cardinality(upTo(i)) <= Cardinality(upTo(k)) /\ Cardinality(upTo(k)) # Cardinality(upTo(i))
      BY <1>2, <2>1, <2>2, FS_Subset
    <2> QED
      BY <1>2, <2>3
  <1>5. \A j \in 1 .. Cardinality(I) : \E i \in I : Cardinality(upTo(i)) = j
    <2> DEFINE rank == [i \in I |-> Cardinality(upTo(i))]
    <2>1. rank \in [I -> 1 .. Cardinality(I)]
      BY <1>1, <1>2, <1>3
    <2>2. \A i, k \in I : rank[i] = rank[k] => i = k
      <3> SUFFICES ASSUME NEW i \in I, NEW k \in I, i < k
                   PROVE  rank[i] # rank[k]
        OBVIOUS
      <3> QED
        BY <1>2, <1>4
    <2> HIDE DEF rank
    <2>3. rank \in Injection(I, 1 .. Cardinality(I))
      BY <2>1, <2>2 DEF Injection, IsInjective
    <2>4. IsFiniteSet(1 .. Cardinality(I)) /\ Cardinality(1 .. Cardinality(I)) = Cardinality(I)
      BY <1>1, FS_Interval
    <2>5. rank \in Surjection(I, 1 .. Cardinality(I))
      BY <2>3, <2>4, FS_Injection
    <2>6. \A j \in 1 .. Cardinality(I) : \E i \in I : rank[i] = j
      BY <2>5 DEF Surjection
    <2> QED
      BY <2>6 DEF rank
  <1> QED
    BY <1>1, <1>2, <1>3, <1>4, <1>5 DEF Rank

(* from says where the entries that are left of s have been: each at its    *)
(* position or further to the right, and every entry that stays is one.     *)
Traces(from, s, S) ==
    /\ from \in [DOMAIN Without(s, S) -> Staying(s, S)]
    /\ \A j \in DOMAIN from : Without(s, S)[j] = s[from[j]] /\ j <= from[j]
    /\ \A j, k \in DOMAIN from : from[j] = from[k] => j = k
    /\ \A i \in Staying(s, S) : \E j \in DOMAIN from : from[j] = i

(* The entries that stay keep their order, and move to the left if at all.  *)
LEMMA WithoutProperties ==
    ASSUME NEW T, NEW s \in Seq(T), NEW S
    PROVE  /\ Without(s, S) \in Seq(T)
           /\ Len(Without(s, S)) = Cardinality(Staying(s, S))
           /\ \E from : Traces(from, s, S)
  <1> DEFINE I == Staying(s, S)
             n == Cardinality(I)
             from == [j \in 1 .. n |-> CHOOSE i \in I : Rank(I, i) = j]
  <1>1. Len(s) \in Nat /\ I \in SUBSET (1 .. Len(s)) /\ \A i \in I : s[i] \in T
    BY FiniteDomain DEF Staying
  <1> HIDE DEF I
  <1>2. /\ n \in Nat
        /\ \A i \in I : Rank(I, i) \in 1 .. n /\ Rank(I, i) <= i
        /\ \A i, k \in I : i < k => Rank(I, i) < Rank(I, k)
        /\ \A j \in 1 .. n : \E i \in I : Rank(I, i) = j
    BY <1>1, Ranks
  <1>3. \A j \in 1 .. n : from[j] \in I /\ Rank(I, from[j]) = j
    BY <1>2
  <1>4. Without(s, S) = [j \in 1 .. n |-> s[from[j]]]
    BY DEF Without, I
  <1> HIDE DEF n, from
  <1>5. DOMAIN from = 1 .. n /\ from \in [1 .. n -> I]
    BY <1>3 DEF from
  <1>6. Without(s, S) \in [1 .. n -> T]
    BY <1>1, <1>3, <1>4
  <1>7. Without(s, S) \in Seq(T) /\ Len(Without(s, S)) = n /\ DOMAIN Without(s, S) = 1 .. n
    <2>1. Without(s, S) \in Seq(T)
      BY <1>2, <1>6, IsASeq
    <2> QED
      BY <1>2, <1>6, <2>1, LenProperties
  <1>8. \A j \in 1 .. n : Without(s, S)[j] = s[from[j]] /\ j <= from[j]
    BY <1>2, <1>3, <1>4
  <1>9. \A j, k \in 1 .. n : from[j] = from[k] => j = k
    BY <1>3
  <1>10. \A i \in I : \E j \in 1 .. n : from[j] = i
    <2> SUFFICES ASSUME NEW i \in I PROVE from[Rank(I, i)] = i
      BY <1>2
    <2>1. Rank(I, i) \in 1 .. n
      BY <1>2
    <2> DEFINE k == from[Rank(I, i)]
    <2>2. k \in I /\ Rank(I, k) = Rank(I, i)
      BY <1>3, <2>1
    <2> HIDE DEF k
    <2>3. k \in Nat /\ i \in Nat
      BY <1>1, <2>2
    <2>4. ~(k < i) /\ ~(i < k)
      BY <1>2, <2>2
    <2>5. k = i
      BY <2>3, <2>4
    <2> QED
      BY <2>5 DEF k
  <1> QED
    BY <1>5, <1>7, <1>8, <1>9, <1>10 DEF Traces, I, n

(* How often a message stands in a list that grows at its end.              *)
LEMMA OccurrencesType ==
    ASSUME NEW T, NEW s \in Seq(T), NEW m
    PROVE  /\ IsFiniteSet({i \in DOMAIN s : s[i] = m})
           /\ Occurrences(s, m) \in Nat
  <1>1. IsFiniteSet(DOMAIN s)
    BY FiniteDomain
  <1>2. IsFiniteSet({i \in DOMAIN s : s[i] = m})
    BY <1>1, FS_Subset
  <1> QED
    BY <1>2, FS_CardinalityType DEF Occurrences

LEMMA OccurrencesAppend ==
    ASSUME NEW T, NEW s \in Seq(T), NEW x \in T, NEW m
    PROVE  Occurrences(Append(s, x), m) = Occurrences(s, m) + (IF x = m THEN 1 ELSE 0)
  <1> DEFINE at == {i \in DOMAIN s : s[i] = m}
             longer == {i \in DOMAIN Append(s, x) : Append(s, x)[i] = m}
             last == Len(s) + 1
  <1>1. /\ Len(s) \in Nat /\ DOMAIN s = 1 .. Len(s)
        /\ Append(s, x) \in Seq(T) /\ Len(Append(s, x)) = last
        /\ \A i \in 1 .. Len(s) : Append(s, x)[i] = s[i]
        /\ Append(s, x)[last] = x
    BY FiniteDomain, AppendProperties
  <1>2. DOMAIN Append(s, x) = 1 .. last
    BY <1>1, LenProperties
  <1>3. /\ \A i : i \in 1 .. last <=> i \in 1 .. Len(s) \/ i = last
        /\ last \notin 1 .. Len(s)
    BY <1>1
  <1>4. IsFiniteSet(at) /\ Cardinality(at) \in Nat /\ last \notin at
    BY <1>1, <1>3, OccurrencesType DEF Occurrences
  <1>5. CASE x = m
    <2>1. longer = at \cup {last}
      BY <1>1, <1>2, <1>3, <1>5
    <2> HIDE DEF at, last, longer
    <2>2. Cardinality(longer) = Cardinality(at) + 1
      BY <1>4, <2>1, FS_AddElement
    <2> QED
      BY <1>4, <1>5, <2>2 DEF Occurrences, at, longer
  <1>6. CASE x # m
    <2>1. longer = at
      BY <1>1, <1>2, <1>3, <1>6
    <2>2. Occurrences(Append(s, x), m) = Occurrences(s, m) /\ Occurrences(s, m) \in Nat
      BY <1>4, <2>1 DEF Occurrences
    <2> QED
      BY <1>6, <2>2
  <1> QED
    BY <1>5, <1>6

LEMMA NoOccurrence ==
    ASSUME NEW s, NEW m, \A i \in DOMAIN s : s[i] # m
    PROVE  Occurrences(s, m) = 0
  BY FS_EmptySet DEF Occurrences

-----------------------------------------------------------------------------
(* The inductive invariant.                                                 *)

(* A message stands in the queue of a handler's subscription.               *)
Queued(h, m) == \E i \in DOMAIN subscription[h] : subscription[h][i] = m

(* The broadcast of m by h has not got past c in the list.                  *)
Ahead(h, m, c) ==
    /\ handler[h].pc = "sending" /\ handler[h].msg = m
    /\ \E i \in DOMAIN connections : handler[h].at <= i /\ connections[i] = c

(* The handler h may still send m to c.                                     *)
Owes(h, m, c) == Queued(h, m) \/ Ahead(h, m, c)

(* The handlers that have had their chance to send m to c, taken or not.    *)
Spent(m, c) == {h \in audience[m] : ~Owes(h, m, c)}

Live == {v \in Viewers : viewer[v] \in {"subscribing", "listening"}}

(* TypeOK without the gauge, which GaugeCountsSockets gives a type.         *)
Typed ==
    /\ handler \in [Clients -> [pc : HandlerPCs, msg : 0 .. MaxMessages, at : Nat \ {0}]]
    /\ failed \in [Clients -> SUBSET Clients]
    /\ subscription \in [Clients -> Seq(Messages)]
    /\ connections \in Seq(Clients)
    /\ open \subseteq Clients \cup Viewers
    /\ received \in [Clients -> Seq(Messages)]
    /\ published \in 0 .. MaxMessages
    /\ audience \in [Messages -> SUBSET Clients]
    /\ removals \in Nat
    /\ viewer \in [Viewers -> ViewerPCs]
    /\ feed \in [Viewers -> Seq(1 .. MaxPredictions)]
    /\ predicted \in 0 .. MaxPredictions

(* A socket is registered once, when its handler starts, and stays in the   *)
(* list until somebody disconnects it.                                      *)
Registered ==
    /\ \A i, j \in DOMAIN connections : connections[i] = connections[j] => i = j
    /\ \A c \in Clients : handler[c].pc = "none" => ~Listed(c)
    /\ removals = 0 => \A c \in Clients : handler[c].pc \notin {"none", "done"} => Listed(c)

(* A subscription holds, in the order of publication, messages that were    *)
(* published while it existed, all of them later than the one being sent.   *)
InOrder ==
    \A h \in Clients :
        /\ \A i \in DOMAIN subscription[h] :
             /\ subscription[h][i] <= published
             /\ h \in audience[subscription[h][i]]
             /\ handler[h].pc = "sending" => handler[h].msg < subscription[h][i]
             /\ \A j \in DOMAIN subscription[h] :
                  i < j => subscription[h][i] < subscription[h][j]
        /\ handler[h].pc = "sending" =>
             /\ handler[h].msg \in 1 .. published
             /\ h \in audience[handler[h].msg]

(* Only what was published is received, and nothing before connecting.      *)
Heard ==
    /\ \A c \in Clients : \A i \in DOMAIN received[c] : received[c][i] <= published
    /\ \A c \in Clients : handler[c].pc = "none" => received[c] = <<>>

(* Every copy cost one handler its chance.                                  *)
CopiesSpent ==
    \A c \in Clients, m \in Messages :
        Occurrences(received[c], m) <= Cardinality(Spent(m, c))

(* A subscribed client whose socket is open is owed the message by its own  *)
(* handler or has got it.                                                   *)
SelfServed ==
    /\ \A m \in Messages : \A c \in audience[m] : handler[c].pc \notin {"none", "subscribing"}
    /\ \A c \in Clients : handler[c].pc = "done" => c \notin open
    /\ removals = 0 =>
         \A m \in 1 .. published : \A c \in audience[m] \cap open :
             Owes(c, m, c) \/ Occurrences(received[c], m) > 0

IInv ==
    /\ Typed /\ GaugeCountsSockets /\ Registered /\ InOrder /\ Heard /\ CopiesSpent
    /\ SelfServed

-----------------------------------------------------------------------------
(* Lemmas about the invariant's parts.                                      *)

LEMMA FiniteAmongClients ==
    ASSUME NEW A \in SUBSET Clients
    PROVE  IsFiniteSet(A) /\ Cardinality(A) \in Nat
  BY FanoutAssumption, FS_Subset, FS_CardinalityType

LEMMA SmallerAmongClients ==
    ASSUME NEW A \in SUBSET Clients, NEW B \in SUBSET A
    PROVE  Cardinality(B) <= Cardinality(A)
  BY FiniteAmongClients, FS_Subset

(* What a handler no longer owes stays spent.                               *)
LEMMA StillSpent ==
    ASSUME Typed, Typed', NEW c \in Clients, NEW m \in Messages,
           Occurrences(received[c], m) <= Cardinality(Spent(m, c)),
           received'[c] = received[c], audience'[m] = audience[m],
           \A h \in audience[m] : Owes(h, m, c)' => Owes(h, m, c)
    PROVE  Occurrences(received[c], m)' <= Cardinality(Spent(m, c)')
  <1>1. Spent(m, c)' \in SUBSET Clients /\ Spent(m, c) \in SUBSET Spent(m, c)'
    BY DEF Spent, Typed
  <1>2. Cardinality(Spent(m, c)) <= Cardinality(Spent(m, c)')
    BY <1>1, SmallerAmongClients
  <1>3. Cardinality(Spent(m, c)) \in Nat /\ Cardinality(Spent(m, c)') \in Nat
    BY <1>1, FiniteAmongClients
  <1>4. Occurrences(received[c], m) \in Nat
    BY OccurrencesType DEF Typed
  <1>5. Occurrences(received[c], m)' = Occurrences(received[c], m)
    BY DEF Occurrences
  <1> QED
    BY <1>2, <1>3, <1>4, <1>5

(* Disconnecting a set of sockets: nothing moves to the right, and nothing  *)
(* moves at all when nothing is removed.                                    *)
LEMMA DropEffect ==
    ASSUME Typed, GaugeCountsSockets, Registered, NEW S \in SUBSET Clients, Drop(S)
    PROVE  /\ connections' \in Seq(Clients)
           /\ removals' \in Nat
           /\ gauge' = Len(connections') + Cardinality(Live)
           /\ removals' = 0 => connections' = connections /\ removals = 0
           /\ \A i, j \in DOMAIN connections' : connections'[i] = connections'[j] => i = j
           /\ \A j \in DOMAIN connections' : \E i \in DOMAIN connections :
                j <= i /\ connections[i] = connections'[j]
           /\ \A c \in S : ~Listed(c)'
  <1> DEFINE gone == {c \in S : Listed(c)}
             stay == Staying(connections, gone)
             leave == {i \in DOMAIN connections : connections[i] \in gone}
  <1>1. /\ Len(connections) \in Nat /\ DOMAIN connections = 1 .. Len(connections)
        /\ IsFiniteSet(DOMAIN connections) /\ Cardinality(DOMAIN connections) = Len(connections)
        /\ \A i \in DOMAIN connections : connections[i] \in Clients
    BY FiniteDomain DEF Typed
  <1>2. /\ connections \in Seq(Clients) /\ removals \in Nat
        /\ connections' = Without(connections, gone)
        /\ gauge' = gauge - Cardinality(gone)
        /\ removals' = removals + Cardinality(gone)
    BY DEF Drop, Typed
  <1>3. IsFiniteSet(gone) /\ Cardinality(gone) \in Nat
    BY FiniteAmongClients
  <1>4. PICK from : Traces(from, connections, gone)
    <2> HIDE DEF gone
    <2> QED
      BY <1>2, WithoutProperties
  <1>a. /\ from \in [DOMAIN connections' -> stay]
        /\ \A j \in DOMAIN from : connections'[j] = connections[from[j]] /\ j <= from[j]
        /\ \A j, k \in DOMAIN from : from[j] = from[k] => j = k
        /\ \A i \in stay : \E j \in DOMAIN from : from[j] = i
    <2> HIDE DEF gone
    <2> QED
      BY <1>2, <1>4 DEF Traces
  <1>5. connections' \in Seq(Clients) /\ Len(connections') = Cardinality(stay)
    <2> HIDE DEF gone
    <2> QED
      BY <1>2, WithoutProperties
  <1>6. Cardinality(leave) = Cardinality(gone)
    <2> DEFINE who == [i \in leave |-> connections[i]]
    <2>1. IsFiniteSet(leave)
      BY <1>1, FS_Subset
    <2>2. who \in [leave -> gone]
      OBVIOUS
    <2>3. \A i, j \in leave : who[i] = who[j] => i = j
      BY DEF Registered
    <2>4. \A c \in gone : \E i \in leave : who[i] = c
      BY DEF Listed
    <2> HIDE DEF who, leave, gone
    <2>5. who \in Bijection(leave, gone)
      BY <2>2, <2>3, <2>4 DEF Bijection, Injection, IsInjective, Surjection
    <2>6. ExistsBijection(leave, gone)
      BY <2>5 DEF ExistsBijection
    <2> QED
      BY <2>1, <2>6, FS_Bijection
  <1>7. Cardinality(stay) = Len(connections) - Cardinality(gone)
    <2>1. stay = DOMAIN connections \ leave /\ DOMAIN connections \cap leave = leave
      BY DEF Staying
    <2> HIDE DEF stay, leave, gone
    <2>2. Cardinality(stay) = Cardinality(DOMAIN connections) - Cardinality(leave)
      <3>1. Cardinality(DOMAIN connections \ leave)
              = Cardinality(DOMAIN connections) - Cardinality(DOMAIN connections \cap leave)
        BY <1>1, FS_Difference
      <3> QED
        BY <2>1, <3>1
    <2> QED
      BY <1>1, <1>6, <2>2
  <1>8. gauge' = Len(connections') + Cardinality(Live) /\ removals' \in Nat
    <2>1. Cardinality(Live) \in Nat /\ gauge = Len(connections) + Cardinality(Live)
      BY FanoutAssumption, FS_Subset, FS_CardinalityType DEF GaugeCountsSockets, Live
    <2> HIDE DEF gone, stay
    <2> QED
      BY <1>1, <1>2, <1>3, <1>5, <1>7, <2>1
  <1>9. removals' = 0 => connections' = connections /\ removals = 0
    <2> SUFFICES ASSUME removals' = 0 PROVE connections' = connections /\ removals = 0
      OBVIOUS
    <2>1. removals = 0 /\ Cardinality(gone) = 0
      BY <1>2, <1>3 DEF Typed
    <2>2. gone = {}
      BY <1>3, <2>1, FS_EmptySet
    <2>3. stay = DOMAIN connections /\ Len(connections') = Len(connections)
      BY <1>1, <1>5, <2>2 DEF Staying
    <2>4. \A j \in DOMAIN connections : connections'[j] = connections[j]
      <3> SUFFICES ASSUME NEW j \in 1 .. Len(connections)
                   PROVE  connections'[j] = connections[j]
        BY <1>1
      <3> DEFINE n == Len(connections)
                 pick == CHOOSE i \in stay : Rank(stay, i) = j
      <3>1. \A i \in 1 .. n : Rank(1 .. n, i) = i
        <4> SUFFICES ASSUME NEW i \in 1 .. n PROVE Cardinality({k \in 1 .. n : k <= i}) = i
          BY DEF Rank
        <4>1. {k \in 1 .. n : k <= i} = 1 .. i
          BY <1>1
        <4>2. i \in Nat /\ Cardinality(1 .. i) = i
          BY <1>1, FS_Interval
        <4> QED
          BY <4>1, <4>2
      <3>2. pick = j
        BY <1>1, <2>3, <3>1
      <3>3. connections'[j] = connections[pick]
        BY <1>1, <1>2, <1>5, <2>3 DEF Without
      <3> QED
        BY <3>2, <3>3
    <2>5. connections' = connections
      BY <1>1, <1>5, <2>3, <2>4, SeqEqual DEF Typed
    <2> QED
      BY <2>1, <2>5
  <1>10. \A i, j \in DOMAIN connections' : connections'[i] = connections'[j] => i = j
    <2> SUFFICES ASSUME NEW i \in DOMAIN connections', NEW j \in DOMAIN connections',
                        connections'[i] = connections'[j]
                 PROVE  i = j
      OBVIOUS
    <2>1. from[i] \in DOMAIN connections /\ from[j] \in DOMAIN connections
      BY <1>a DEF Staying
    <2>2. from[i] = from[j]
      BY <1>a, <2>1 DEF Registered
    <2> QED
      BY <1>a, <2>2
  <1>11. \A j \in DOMAIN connections' : \E i \in DOMAIN connections :
           j <= i /\ connections[i] = connections'[j]
    BY <1>a DEF Staying
  <1>12. \A c \in S : ~Listed(c)'
    <2> SUFFICES ASSUME NEW c \in S, NEW j \in DOMAIN connections', connections'[j] = c
                 PROVE  FALSE
      BY DEF Listed
    <2>1. from[j] \in DOMAIN connections /\ connections[from[j]] \notin gone
      BY <1>a DEF Staying
    <2>2. connections[from[j]] = c
      BY <1>a
    <2> QED
      BY <2>1, <2>2 DEF Listed
  <1> QED
    BY <1>5, <1>8, <1>9, <1>10, <1>11, <1>12

-----------------------------------------------------------------------------
(* Steps of /ws/predictions, and of the browsers.                           *)

(* A step that leaves /ws/metrics alone, and opens no closed socket of it.  *)
LEMMA MetricsLeft ==
    ASSUME IInv, UNCHANGED metricsVars, Typed', GaugeCountsSockets',
           open' \cap Clients \subseteq open
    PROVE  IInv'
  <1>1. UNCHANGED <<handler, failed, subscription, connections, received, published, audience,
                    removals>>
    BY DEF metricsVars
  <1>2. Registered' /\ InOrder' /\ Heard'
    BY <1>1 DEF IInv, Registered, InOrder, Heard, Listed
  <1>3. /\ \A h, m, c : Owes(h, m, c)' = Owes(h, m, c)
        /\ \A m, c : Spent(m, c)' = Spent(m, c)
    BY <1>1 DEF Owes, Queued, Ahead, Spent
  <1>4. CopiesSpent'
    BY <1>1, <1>3 DEF IInv, CopiesSpent, Occurrences
  <1>5. SelfServed'
    <2>1. \A m \in Messages : audience[m] \subseteq Clients
      BY DEF IInv, Typed
    <2>2. 1 .. published \subseteq Messages
      BY FanoutAssumption DEF IInv, Typed, Messages
    <2> QED
      BY <1>1, <1>3, <2>1, <2>2 DEF IInv, SelfServed, Occurrences
  <1> QED
    BY <1>2, <1>4, <1>5 DEF IInv

LEMMA LiveFinite == IsFiniteSet(Live) /\ Cardinality(Live) \in Nat
  BY FanoutAssumption, FS_Subset, FS_CardinalityType DEF Live

LEMMA ViewerSteps ==
    ASSUME IInv, NEW v \in Viewers, ViewerConnect(v) \/ ViewerStep(v) \/ ViewerFails(v)
    PROVE  IInv'
  <1>1. v \notin Clients /\ Typed /\ gauge = Len(connections) + Cardinality(Live)
    BY FanoutAssumption DEF IInv, GaugeCountsSockets, Live
  <1>2. Len(connections) \in Nat
    BY <1>1, FiniteDomain DEF Typed
  <1>3. viewer \in [Viewers -> ViewerPCs] /\ feed \in [Viewers -> Seq(1 .. MaxPredictions)]
    BY <1>1 DEF Typed
  <1>4. CASE ViewerConnect(v)
    <2>1. /\ viewer[v] = "none" /\ viewer' = [viewer EXCEPT ![v] = "subscribing"]
          /\ gauge' = gauge + 1 /\ open' = open \cup {v}
          /\ UNCHANGED <<metricsVars, feed, predicted>>
      BY <1>4 DEF ViewerConnect
    <2>2. Typed'
      BY <1>1, <2>1 DEF Typed, metricsVars, ViewerPCs
    <2>3. Live' = Live \cup {v} /\ v \notin Live
      BY <1>3, <2>1 DEF Live
    <2>4. Cardinality(Live') = Cardinality(Live) + 1
      BY <2>3, LiveFinite, FS_AddElement
    <2>5. GaugeCountsSockets'
      BY <1>1, <1>2, <2>1, <2>4, LiveFinite DEF GaugeCountsSockets, Live, metricsVars
    <2> QED
      BY <1>1, <2>1, <2>2, <2>5, MetricsLeft
  <1>5. CASE ViewerSubscribe(v)
    <2>1. /\ viewer[v] = "subscribing" /\ viewer' = [viewer EXCEPT ![v] = "listening"]
          /\ UNCHANGED <<metricsVars, feed, predicted, gauge, open>>
      BY <1>5 DEF ViewerSubscribe
    <2>2. Typed'
      BY <1>1, <2>1 DEF Typed, metricsVars, ViewerPCs
    <2>3. Live' = Live
      BY <1>3, <2>1 DEF Live
    <2>4. GaugeCountsSockets'
      BY <1>1, <2>1, <2>3 DEF GaugeCountsSockets, Live, metricsVars
    <2> QED
      BY <2>1, <2>2, <2>4, MetricsLeft
  <1>6. CASE viewer[v] \in {"subscribing", "listening"} /\ ViewerEnds(v)
    <2>1. /\ viewer' = [viewer EXCEPT ![v] = "done"] /\ feed' = [feed EXCEPT ![v] = <<>>]
          /\ gauge' = gauge - 1 /\ open' = open \ {v}
          /\ UNCHANGED <<metricsVars, predicted>>
      BY <1>6 DEF ViewerEnds
    <2>2. Typed'
      BY <1>1, <2>1, EmptySeq DEF Typed, metricsVars, ViewerPCs
    <2>3. Live' = Live \ {v} /\ v \in Live
      BY <1>3, <1>6, <2>1 DEF Live
    <2>4. Cardinality(Live') = Cardinality(Live) - 1
      BY <2>3, LiveFinite, FS_RemoveElement
    <2>5. GaugeCountsSockets'
      BY <1>1, <1>2, <2>1, <2>4, LiveFinite DEF GaugeCountsSockets, Live, metricsVars
    <2> QED
      BY <2>1, <2>2, <2>5, MetricsLeft
  <1>7. CASE ViewerSend(v) /\ v \in open
    <2>1. /\ feed[v] # <<>> /\ feed' = [feed EXCEPT ![v] = Tail(@)]
          /\ UNCHANGED <<metricsVars, viewer, predicted, gauge, open>>
      BY <1>7 DEF ViewerSend
    <2>2. Tail(feed[v]) \in Seq(1 .. MaxPredictions)
      BY <1>3, <2>1, HeadTailProperties
    <2>3. Typed' /\ GaugeCountsSockets'
      BY <1>1, <1>3, <2>1, <2>2 DEF Typed, metricsVars, GaugeCountsSockets, Live
    <2> QED
      BY <2>1, <2>3, MetricsLeft
  <1> QED
    BY <1>4, <1>5, <1>6, <1>7 DEF ViewerStep, ViewerSend, ViewerFails

LEMMA PublishPredictionStep ==
    ASSUME IInv, PublishPrediction
    PROVE  IInv'
  <1>1. /\ predicted < MaxPredictions /\ predicted' = predicted + 1
        /\ feed' = [v \in Viewers |-> IF viewer[v] = "listening"
                                      THEN Append(feed[v], predicted + 1) ELSE feed[v]]
        /\ UNCHANGED <<metricsVars, viewer, gauge, open>>
    BY DEF PublishPrediction
  <1>2. predicted' \in 1 .. MaxPredictions /\ predicted' \in 0 .. MaxPredictions
    BY <1>1, FanoutAssumption DEF IInv, Typed
  <1>3. feed' \in [Viewers -> Seq(1 .. MaxPredictions)]
    <2>1. \A v \in Viewers : /\ feed[v] \in Seq(1 .. MaxPredictions)
                             /\ Append(feed[v], predicted + 1) \in Seq(1 .. MaxPredictions)
      BY <1>1, <1>2, AppendProperties DEF IInv, Typed
    <2> QED
      BY <1>1, <2>1
  <1>4. Typed' /\ GaugeCountsSockets'
    BY <1>1, <1>2, <1>3 DEF IInv, Typed, metricsVars, GaugeCountsSockets
  <1> QED
    BY <1>1, <1>4, MetricsLeft

LEMMA LeaveStep ==
    ASSUME IInv, NEW s \in open, Leave(s)
    PROVE  IInv'
  <1>1. open' = open \ {s} /\ UNCHANGED <<metricsVars, predictionVars, gauge>>
    BY DEF Leave
  <1>2. Typed' /\ GaugeCountsSockets'
    BY <1>1 DEF IInv, Typed, metricsVars, predictionVars, GaugeCountsSockets
  <1> QED
    BY <1>1, <1>2, MetricsLeft

-----------------------------------------------------------------------------
(* Steps of /ws/metrics.                                                    *)

(* A message that nobody has been sent has no copy to account for.          *)
LEMMA NothingReceived ==
    ASSUME Typed', NEW c \in Clients, NEW m \in Messages,
           \A i \in DOMAIN received'[c] : received'[c][i] # m
    PROVE  Occurrences(received[c], m)' <= Cardinality(Spent(m, c)')
  <1>1. Occurrences(received'[c], m) = 0
    BY NoOccurrence
  <1>2. Spent(m, c)' \in SUBSET Clients
    BY DEF Spent, Typed
  <1> QED
    BY <1>1, <1>2, FiniteAmongClients

LEMMA ConnectStep ==
    ASSUME IInv, NEW d \in Clients, Connect(d)
    PROVE  IInv'
  <1>1. /\ handler[d].pc = "none"
        /\ handler' = [handler EXCEPT ![d].pc = "subscribing"]
        /\ connections' = Append(connections, d) /\ gauge' = gauge + 1
        /\ open' = open \cup {d}
        /\ UNCHANGED <<failed, subscription, received, published, audience, removals,
                       predictionVars>>
    BY DEF Connect, connect
  <1>2. /\ Typed /\ Len(connections) \in Nat /\ DOMAIN connections = 1 .. Len(connections)
        /\ handler \in [Clients -> [pc : HandlerPCs, msg : 0 .. MaxMessages, at : Nat \ {0}]]
    BY FiniteDomain DEF IInv, Typed
  <1>3. /\ connections' \in Seq(Clients) /\ Len(connections') = Len(connections) + 1
        /\ DOMAIN connections' = 1 .. Len(connections) + 1
        /\ \A i \in DOMAIN connections : connections'[i] = connections[i]
        /\ connections'[Len(connections) + 1] = d
    BY <1>1, <1>2, AppendProperties, LenProperties DEF Typed
  <1>4. /\ handler'[d].pc = "subscribing"
        /\ \A h \in Clients \ {d} : handler'[h] = handler[h]
    BY <1>1, <1>2
  <1>5. Typed'
    BY <1>1, <1>2, <1>3 DEF Typed, predictionVars, HandlerPCs
  <1>6. GaugeCountsSockets'
    BY <1>1, <1>2, <1>3, LiveFinite DEF IInv, GaugeCountsSockets, predictionVars, Live
  <1>7. ~Listed(d) /\ Listed(d)' /\ \A c : Listed(c)' <=> Listed(c) \/ c = d
    <2>1. \A i : i \in 1 .. Len(connections) + 1
                   <=> i \in 1 .. Len(connections) \/ i = Len(connections) + 1
      BY <1>2
    <2> QED
      BY <1>1, <1>2, <1>3, <2>1 DEF IInv, Registered, Listed
  <1>8. Registered'
    <2>1. \A i, j \in DOMAIN connections' : connections'[i] = connections'[j] => i = j
      <3>1. \A i \in DOMAIN connections : connections'[i] # d
        BY <1>3, <1>7 DEF Listed
      <3>2. \A i \in DOMAIN connections' : i \in DOMAIN connections \/ i = Len(connections) + 1
        BY <1>2, <1>3
      <3> QED
        BY <1>3, <3>1, <3>2 DEF IInv, Registered
    <2> QED
      BY <1>1, <1>4, <1>7, <2>1 DEF IInv, Registered
  <1>9. InOrder'
    BY <1>1, <1>4 DEF IInv, InOrder
  <1>10. Heard'
    BY <1>1, <1>4 DEF IInv, Heard
  <1>11. \A h \in Clients : \A m, c : c # d /\ Owes(h, m, c)' => Owes(h, m, c)
    <2>1. \A i \in DOMAIN connections' : connections'[i] # d =>
            i \in DOMAIN connections /\ connections'[i] = connections[i]
      BY <1>2, <1>3
    <2> QED
      BY <1>1, <1>4, <2>1 DEF Owes, Queued, Ahead
  <1>12. CopiesSpent'
    <2> SUFFICES ASSUME NEW c \in Clients, NEW m \in Messages
                 PROVE  Occurrences(received[c], m)' <= Cardinality(Spent(m, c)')
      BY DEF CopiesSpent
    <2>1. CASE c = d
      <3>1. received'[d] = <<>>
        BY <1>1 DEF IInv, Heard
      <3> QED
        BY <1>5, <2>1, <3>1, NothingReceived
    <2>2. CASE c # d
      <3>1. \A h \in audience[m] : Owes(h, m, c)' => Owes(h, m, c)
        BY <1>2, <1>11, <2>2 DEF Typed
      <3> QED
        BY <1>1, <1>2, <1>5, <3>1, StillSpent DEF IInv, CopiesSpent
    <2> QED
      BY <2>1, <2>2
  <1>13. \A m \in Messages : d \notin audience[m]
    BY <1>1 DEF IInv, SelfServed
  <1>14. SelfServed'
    <2>1. \A h \in Clients : \A m, c : Owes(h, m, c) => Owes(h, m, c)'
      <3>1. \A h \in Clients : \A m, c : Ahead(h, m, c) => Ahead(h, m, c)'
        <4> SUFFICES ASSUME NEW h \in Clients, NEW m, NEW c, Ahead(h, m, c)
                     PROVE  Ahead(h, m, c)'
          OBVIOUS
        <4>1. h # d /\ handler'[h] = handler[h]
          BY <1>1, <1>4 DEF Ahead
        <4>2. \A i \in DOMAIN connections : i \in DOMAIN connections'
          BY <1>2, <1>3
        <4> QED
          BY <1>3, <4>1, <4>2 DEF Ahead
      <3> QED
        BY <1>1, <3>1 DEF Owes, Queued
    <2>2. 1 .. published \subseteq Messages /\ \A m \in Messages : audience[m] \subseteq Clients
      BY <1>2, FanoutAssumption DEF Typed, Messages
    <2>3. \A m \in Messages : \A c \in audience[m] : handler'[c].pc \notin {"none", "subscribing"}
      BY <1>4, <1>13, <2>2 DEF IInv, SelfServed
    <2>4. \A c \in Clients : handler'[c].pc = "done" => c \notin open'
      BY <1>1, <1>4 DEF IInv, SelfServed
    <2>5. removals = 0 =>
            \A m \in 1 .. published : \A c \in audience[m] \cap open' :
                Owes(c, m, c)' \/ Occurrences(received[c], m) > 0
      BY <1>1, <1>13, <2>1, <2>2 DEF IInv, SelfServed
    <2> QED
      BY <1>1, <2>3, <2>4, <2>5 DEF SelfServed
  <1> QED
    BY <1>5, <1>6, <1>8, <1>9, <1>10, <1>12, <1>14 DEF IInv

LEMMA SubscribeStep ==
    ASSUME IInv, NEW d \in Clients, Subscribe(d)
    PROVE  IInv'
  <1>1. /\ handler[d].pc = "subscribing"
        /\ handler' = [handler EXCEPT ![d].pc = "listening"]
        /\ UNCHANGED <<failed, subscription, connections, received, published, audience, removals,
                       gauge, open, predictionVars>>
    BY DEF Subscribe
  <1>2. Typed /\ handler \in [Clients -> [pc : HandlerPCs, msg : 0 .. MaxMessages, at : Nat \ {0}]]
    BY DEF IInv, Typed
  <1>3. handler'[d].pc = "listening" /\ \A h \in Clients \ {d} : handler'[h] = handler[h]
    BY <1>1, <1>2
  <1>4. Typed'
    BY <1>1, <1>2 DEF Typed, predictionVars, HandlerPCs
  <1>5. GaugeCountsSockets'
    BY <1>1 DEF IInv, GaugeCountsSockets, predictionVars
  <1>6. Registered' /\ InOrder' /\ Heard'
    BY <1>1, <1>3 DEF IInv, Registered, InOrder, Heard, Listed
  <1>7. \A h \in Clients : \A m, c : Owes(h, m, c)' <=> Owes(h, m, c)
    BY <1>1, <1>3 DEF Owes, Queued, Ahead
  <1>8. CopiesSpent'
    <2> SUFFICES ASSUME NEW c \in Clients, NEW m \in Messages
                 PROVE  Occurrences(received[c], m)' <= Cardinality(Spent(m, c)')
      BY DEF CopiesSpent
    <2>1. \A h \in audience[m] : Owes(h, m, c)' => Owes(h, m, c)
      BY <1>2, <1>7 DEF Typed
    <2> QED
      BY <1>1, <1>2, <1>4, <2>1, StillSpent DEF IInv, CopiesSpent
  <1>9. SelfServed'
    <2>1. 1 .. published \subseteq Messages /\ \A m \in Messages : audience[m] \subseteq Clients
      BY <1>2, FanoutAssumption DEF Typed, Messages
    <2>2. /\ \A m \in Messages : \A c \in audience[m] : handler'[c].pc \notin {"none", "subscribing"}
          /\ \A c \in Clients : handler'[c].pc = "done" => c \notin open
      BY <1>3, <2>1 DEF IInv, SelfServed
    <2>3. removals = 0 => \A m \in 1 .. published : \A c \in audience[m] \cap open :
            Owes(c, m, c)' \/ Occurrences(received[c], m) > 0
      BY <1>7, <2>1 DEF IInv, SelfServed
    <2> QED
      BY <1>1, <2>2, <2>3 DEF SelfServed
  <1> QED
    BY <1>4, <1>5, <1>6, <1>8, <1>9 DEF IInv

LEMMA PublishPacketStep ==
    ASSUME IInv, PublishPacket
    PROVE  IInv'
  <1>0. PICK new : new = published + 1
    OBVIOUS
  <1>1. /\ published < MaxMessages /\ published' = new
        /\ audience' = [audience EXCEPT ![new] = {c \in Clients : Listening(c)}]
        /\ subscription' = [c \in Clients |-> IF Listening(c) THEN Append(subscription[c], new)
                                              ELSE subscription[c]]
        /\ UNCHANGED <<handler, failed, connections, received, removals, gauge, open,
                       predictionVars>>
    BY <1>0 DEF PublishPacket
  <1>2. Typed
    BY DEF IInv
  <1>3. published \in Nat /\ new \in Messages /\ new \notin 1 .. published
    BY <1>0, <1>1, <1>2, FanoutAssumption DEF Typed, Messages
  <1>4. /\ audience'[new] = {c \in Clients : Listening(c)}
        /\ \A m \in Messages \ {new} : audience'[m] = audience[m]
        /\ audience' \in [Messages -> SUBSET Clients]
    BY <1>1, <1>2, <1>3 DEF Typed
  <1>5. ASSUME NEW h \in Clients
        PROVE  /\ Len(subscription[h]) \in Nat
               /\ DOMAIN subscription[h] = 1 .. Len(subscription[h])
               /\ subscription'[h] \in Seq(Messages)
               /\ ~Listening(h) => subscription'[h] = subscription[h]
               /\ Listening(h) =>
                    /\ DOMAIN subscription'[h] = 1 .. Len(subscription[h]) + 1
                    /\ \A i \in DOMAIN subscription[h] : subscription'[h][i] = subscription[h][i]
                    /\ subscription'[h][Len(subscription[h]) + 1] = new
    <2>1. subscription[h] \in Seq(Messages)
      BY <1>2 DEF Typed
    <2>2. /\ Len(subscription[h]) \in Nat
          /\ DOMAIN subscription[h] = 1 .. Len(subscription[h])
      BY <2>1, FiniteDomain
    <2>3. CASE ~Listening(h)
      BY <1>1, <2>1, <2>2, <2>3
    <2>4. CASE Listening(h)
      <3>1. subscription'[h] = Append(subscription[h], new)
        BY <1>1, <2>4
      <3> QED
        BY <1>3, <2>1, <2>2, <2>4, <3>1, AppendProperties, LenProperties
    <2> QED
      BY <2>3, <2>4
  <1>6. subscription' \in [Clients -> Seq(Messages)]
    BY <1>1, <1>5
  <1>7. Typed'
    BY <1>1, <1>2, <1>3, <1>4, <1>6, FanoutAssumption DEF Typed, predictionVars, Messages
  <1>8. GaugeCountsSockets' /\ Registered'
    BY <1>1 DEF IInv, GaugeCountsSockets, predictionVars, Registered, Listed
  <1>9. \A h \in Clients : \A i \in DOMAIN subscription'[h] :
          \/ i \in DOMAIN subscription[h] /\ subscription'[h][i] = subscription[h][i]
          \/ Listening(h) /\ i = Len(subscription[h]) + 1 /\ subscription'[h][i] = new
    BY <1>5
  <1>10. \A h \in Clients : \A i \in DOMAIN subscription[h] :
           subscription[h][i] \in Messages /\ subscription[h][i] <= published
    <2> SUFFICES ASSUME NEW h \in Clients, NEW i \in DOMAIN subscription[h]
                 PROVE  subscription[h][i] \in Messages /\ subscription[h][i] <= published
      OBVIOUS
    <2>1. subscription[h] \in Seq(Messages)
      BY <1>2 DEF Typed
    <2> QED
      BY <2>1, FiniteDomain DEF IInv, InOrder
  <1>11. InOrder'
    <2> SUFFICES ASSUME NEW h \in Clients PROVE
                   /\ \A i \in DOMAIN subscription'[h] :
                        /\ subscription'[h][i] <= new
                        /\ h \in audience'[subscription'[h][i]]
                        /\ handler[h].pc = "sending" => handler[h].msg < subscription'[h][i]
                        /\ \A j \in DOMAIN subscription'[h] :
                             i < j => subscription'[h][i] < subscription'[h][j]
                   /\ handler[h].pc = "sending" =>
                        /\ handler[h].msg \in 1 .. new
                        /\ h \in audience'[handler[h].msg]
      BY <1>1 DEF InOrder
    <2>1. handler[h].pc = "sending" =>
            handler[h].msg \in 1 .. published /\ h \in audience[handler[h].msg]
      BY DEF IInv, InOrder
    <2>2. 1 .. published \subseteq Messages \ {new}
      BY <1>0, <1>2, <1>3, FanoutAssumption DEF Typed, Messages
    <2>3. \A i \in DOMAIN subscription[h] :
            /\ subscription[h][i] \in Messages \ {new} /\ subscription[h][i] < new
            /\ h \in audience'[subscription[h][i]]
            /\ handler[h].pc = "sending" => handler[h].msg < subscription[h][i]
            /\ \A j \in DOMAIN subscription[h] :
                 i < j => subscription[h][i] < subscription[h][j]
      BY <1>0, <1>3, <1>4, <1>10 DEF IInv, InOrder, Messages
    <2>4. Listening(h) => h \in audience'[new]
      BY <1>4
    <2>5. \A i \in DOMAIN subscription'[h] :
            /\ subscription'[h][i] <= new
            /\ h \in audience'[subscription'[h][i]]
            /\ handler[h].pc = "sending" => handler[h].msg < subscription'[h][i]
      BY <1>0, <1>3, <1>9, <2>1, <2>3, <2>4 DEF Messages
    <2>6. \A i, j \in DOMAIN subscription'[h] :
            i < j => subscription'[h][i] < subscription'[h][j]
      <3> SUFFICES ASSUME NEW i \in DOMAIN subscription'[h], NEW j \in DOMAIN subscription'[h],
                          i < j
                   PROVE  subscription'[h][i] < subscription'[h][j]
        OBVIOUS
      <3>1. i \in DOMAIN subscription[h] /\ subscription'[h][i] = subscription[h][i]
        BY <1>5, <1>9
      <3>2. CASE j \in DOMAIN subscription[h] /\ subscription'[h][j] = subscription[h][j]
        BY <2>3, <3>1, <3>2
      <3>3. CASE subscription'[h][j] = new
        BY <2>3, <3>1, <3>3
      <3> QED
        BY <1>9, <3>2, <3>3
    <2>7. handler[h].pc = "sending" =>
            handler[h].msg \in 1 .. new /\ h \in audience'[handler[h].msg]
      BY <1>0, <1>3, <1>4, <2>1, <2>2
    <2> QED
      BY <2>5, <2>6, <2>7
  <1>12. /\ \A c \in Clients : \A i \in DOMAIN received[c] :
              received[c][i] \in Messages /\ received[c][i] <= published
         /\ Heard'
    <2>1. \A c \in Clients : \A i \in DOMAIN received[c] :
            received[c][i] \in Messages /\ received[c][i] <= published
      <3> SUFFICES ASSUME NEW c \in Clients, NEW i \in DOMAIN received[c]
                   PROVE  received[c][i] \in Messages /\ received[c][i] <= published
        OBVIOUS
      <3>1. received[c] \in Seq(Messages)
        BY <1>2 DEF Typed
      <3> QED
        BY <3>1, FiniteDomain DEF IInv, Heard
    <2> QED
      BY <1>0, <1>1, <1>3, <2>1 DEF IInv, Heard, Messages
  <1>13. /\ \A h \in Clients : \A m, c : m # new => (Owes(h, m, c)' <=> Owes(h, m, c))
         /\ \A h \in Clients : \A c : Listening(h) => Owes(h, new, c)'
    <2>1. \A h \in Clients : \A m : m # new => (Queued(h, m)' <=> Queued(h, m))
      BY <1>5, <1>9 DEF Queued
    <2>2. \A h \in Clients : Listening(h) => Queued(h, new)'
      <3> SUFFICES ASSUME NEW h \in Clients, Listening(h) PROVE Queued(h, new)'
        OBVIOUS
      <3>1. Len(subscription[h]) + 1 \in DOMAIN subscription'[h]
        BY <1>5
      <3> QED
        BY <1>5, <3>1 DEF Queued
    <2>3. \A h, m, c : Ahead(h, m, c)' <=> Ahead(h, m, c)
      BY <1>1 DEF Ahead
    <2> QED
      BY <2>1, <2>2, <2>3 DEF Owes
  <1>14. CopiesSpent'
    <2> SUFFICES ASSUME NEW c \in Clients, NEW m \in Messages
                 PROVE  Occurrences(received[c], m)' <= Cardinality(Spent(m, c)')
      BY DEF CopiesSpent
    <2>1. CASE m = new
      <3>1. \A i \in DOMAIN received'[c] : received'[c][i] # m
        BY <1>0, <1>1, <1>3, <1>12, <2>1 DEF Messages
      <3> QED
        BY <1>7, <3>1, NothingReceived
    <2>2. CASE m # new
      <3>1. \A h \in audience[m] : Owes(h, m, c)' => Owes(h, m, c)
        BY <1>2, <1>13, <2>2 DEF Typed
      <3> QED
        BY <1>1, <1>2, <1>4, <1>7, <2>2, <3>1, StillSpent DEF IInv, CopiesSpent
    <2> QED
      BY <2>1, <2>2
  <1>15. SelfServed'
    <2>1. /\ 1 .. published \subseteq Messages \ {new}
          /\ \A m \in Messages : audience[m] \subseteq Clients
          /\ \A m \in 1 .. new : m \in 1 .. published \/ m = new
      BY <1>0, <1>2, <1>3, FanoutAssumption DEF Typed, Messages
    <2>2. \A m \in Messages : \A c \in audience'[m] : handler[c].pc \notin {"none", "subscribing"}
      BY <1>4 DEF IInv, SelfServed, Listening
    <2>3. removals = 0 => \A m \in 1 .. new : \A c \in audience'[m] \cap open :
            Owes(c, m, c)' \/ Occurrences(received[c], m) > 0
      <3> SUFFICES ASSUME removals = 0, NEW m \in 1 .. new, NEW c \in audience'[m] \cap open
                   PROVE  Owes(c, m, c)' \/ Occurrences(received[c], m) > 0
        OBVIOUS
      <3>1. CASE m = new
        BY <1>4, <1>13, <3>1
      <3>2. CASE m \in 1 .. published
        <4>1. m # new /\ audience'[m] = audience[m] /\ c \in Clients
          BY <1>4, <2>1, <3>2
        <4> QED
          BY <1>13, <3>2, <4>1 DEF IInv, SelfServed
      <3> QED
        BY <2>1, <3>1, <3>2
    <2> QED
      BY <1>1, <2>2, <2>3 DEF IInv, SelfServed
  <1> QED
    BY <1>7, <1>8, <1>11, <1>12, <1>14, <1>15 DEF IInv

LEMMA GetMessageStep ==
    ASSUME IInv, NEW d \in Clients, GetMessage(d)
    PROVE  IInv'
  <1> DEFINE q == subscription[d]
  <1>1. /\ handler[d].pc = "listening" /\ q # <<>>
        /\ handler' = [handler EXCEPT ![d] = [pc |-> "sending", msg |-> Head(q), at |-> 1]]
        /\ subscription' = [subscription EXCEPT ![d] = Tail(q)]
        /\ UNCHANGED <<failed, connections, received, published, audience, removals, gauge, open,
                       predictionVars>>
    BY DEF GetMessage
  <1>2. /\ Typed
        /\ handler \in [Clients -> [pc : HandlerPCs, msg : 0 .. MaxMessages, at : Nat \ {0}]]
        /\ q \in Seq(Messages) /\ subscription \in [Clients -> Seq(Messages)]
    BY DEF IInv, Typed
  <1>3. /\ handler'[d] = [pc |-> "sending", msg |-> Head(q), at |-> 1]
        /\ subscription'[d] = Tail(q)
        /\ \A h \in Clients \ {d} : handler'[h] = handler[h] /\ subscription'[h] = subscription[h]
    BY <1>1, <1>2
  <1>4. /\ Len(q) \in Nat /\ DOMAIN q = 1 .. Len(q) /\ 1 \in DOMAIN q
        /\ Head(q) \in Messages /\ Head(q) = q[1]
        /\ Tail(q) \in Seq(Messages) /\ DOMAIN Tail(q) = 1 .. Len(q) - 1
        /\ \A i \in 1 .. Len(q) - 1 : Tail(q)[i] = q[i + 1] /\ i + 1 \in DOMAIN q
    <2> HIDE DEF q
    <2>1. /\ Head(q) \in Messages /\ Tail(q) \in Seq(Messages) /\ Len(Tail(q)) = Len(q) - 1
          /\ \A i \in 1 .. Len(Tail(q)) : Tail(q)[i] = q[i + 1]
      BY <1>1, <1>2, HeadTailProperties
    <2>2. Len(q) \in Nat /\ DOMAIN q = 1 .. Len(q) /\ DOMAIN Tail(q) = 1 .. Len(Tail(q))
      BY <1>2, <2>1, FiniteDomain
    <2>3. Head(q) = q[1] /\ Len(q) # 0
      BY <1>1, <1>2, <2>2, EmptySeq
    <2> QED
      BY <2>1, <2>2, <2>3
  <1>5. /\ q[1] \in 1 .. published /\ d \in audience[q[1]]
        /\ \A i \in 1 .. Len(q) - 1 : /\ q[i + 1] <= published /\ q[1] < q[i + 1]
                                      /\ d \in audience[q[i + 1]]
        /\ \A i, j \in 1 .. Len(q) - 1 : i < j => q[i + 1] < q[j + 1]
    <2>1. \A i, j \in DOMAIN q : /\ q[i] <= published /\ d \in audience[q[i]]
                                 /\ i < j => q[i] < q[j]
      BY DEF IInv, InOrder
    <2> HIDE DEF q
    <2>2. \A i, j \in 1 .. Len(q) - 1 : /\ 1 < i + 1 /\ i + 1 \in DOMAIN q
                                        /\ i < j => i + 1 < j + 1
      BY <1>4
    <2>3. q[1] \in 1 .. published
      <3>1. q[1] \in Nat /\ 1 <= q[1] /\ published \in Nat
        BY <1>2, <1>4, FanoutAssumption DEF Messages, Typed
      <3> QED
        BY <1>4, <2>1, <3>1
    <2> QED
      BY <1>4, <2>1, <2>2, <2>3
  <1> HIDE DEF q
  <1>6. Typed'
    <2>1. handler' \in [Clients -> [pc : HandlerPCs, msg : 0 .. MaxMessages, at : Nat \ {0}]]
      BY <1>1, <1>2, <1>4 DEF HandlerPCs, Messages
    <2>2. subscription' \in [Clients -> Seq(Messages)]
      BY <1>1, <1>2, <1>4
    <2> QED
      BY <1>1, <1>2, <2>1, <2>2 DEF Typed, predictionVars
  <1>7. GaugeCountsSockets'
    BY <1>1 DEF IInv, GaugeCountsSockets, predictionVars
  <1>8. Registered' /\ Heard'
    BY <1>1, <1>3 DEF IInv, Registered, Heard, Listed
  <1>9. InOrder'
    <2> SUFFICES ASSUME NEW h \in Clients PROVE
                   /\ \A i \in DOMAIN subscription'[h] :
                        /\ subscription'[h][i] <= published
                        /\ h \in audience[subscription'[h][i]]
                        /\ handler'[h].pc = "sending" => handler'[h].msg < subscription'[h][i]
                        /\ \A j \in DOMAIN subscription'[h] :
                             i < j => subscription'[h][i] < subscription'[h][j]
                   /\ handler'[h].pc = "sending" =>
                        /\ handler'[h].msg \in 1 .. published
                        /\ h \in audience[handler'[h].msg]
      BY <1>1 DEF InOrder
    <2>1. CASE h # d
      BY <1>3, <2>1 DEF IInv, InOrder
    <2>2. CASE h = d
      <3>1. handler'[d].msg = q[1]
        BY <1>3, <1>4
      <3> QED
        <4>1. \A i \in DOMAIN subscription'[d] :
                i \in 1 .. Len(q) - 1 /\ subscription'[d][i] = q[i + 1]
          BY <1>3, <1>4
        <4>2. \A i \in DOMAIN subscription'[d] :
                /\ subscription'[d][i] <= published
                /\ d \in audience[subscription'[d][i]]
                /\ handler'[d].msg < subscription'[d][i]
                /\ \A j \in DOMAIN subscription'[d] :
                     i < j => subscription'[d][i] < subscription'[d][j]
          BY <1>5, <3>1, <4>1
        <4> QED
          BY <1>5, <2>2, <3>1, <4>2
    <2> QED
      BY <2>1, <2>2
  <1>10. \A h \in Clients : \A m, c : Owes(h, m, c)' => Owes(h, m, c)
    <2> SUFFICES ASSUME NEW h \in Clients, NEW m, NEW c, Owes(h, m, c)' PROVE Owes(h, m, c)
      OBVIOUS
    <2>1. CASE h # d
      BY <1>1, <1>3, <2>1 DEF Owes, Queued, Ahead
    <2>2. CASE h = d
      <3>1. Queued(d, m)' => Queued(d, m)
        BY <1>3, <1>4 DEF Queued, q
      <3>2. Ahead(d, m, c)' => Queued(d, m)
        BY <1>3, <1>4 DEF Queued, Ahead, q
      <3> QED
        BY <2>2, <3>1, <3>2 DEF Owes
    <2> QED
      BY <2>1, <2>2
  <1>11. CopiesSpent'
    <2> SUFFICES ASSUME NEW c \in Clients, NEW m \in Messages
                 PROVE  Occurrences(received[c], m)' <= Cardinality(Spent(m, c)')
      BY DEF CopiesSpent
    <2>1. \A h \in audience[m] : Owes(h, m, c)' => Owes(h, m, c)
      BY <1>2, <1>10 DEF Typed
    <2> QED
      BY <1>1, <1>2, <1>6, <2>1, StillSpent DEF IInv, CopiesSpent
  <1>12. \A c \in Clients : \A m : Owes(c, m, c) => Owes(c, m, c)' \/ removals # 0
    <2> SUFFICES ASSUME NEW c \in Clients, NEW m, Owes(c, m, c), removals = 0
                 PROVE  Owes(c, m, c)'
      OBVIOUS
    <2>1. CASE c # d
      BY <1>1, <1>3, <2>1 DEF Owes, Queued, Ahead
    <2>2. CASE c = d
      <3>1. PICK i \in DOMAIN q : q[i] = m
        BY <1>1, <2>2 DEF Owes, Queued, Ahead, q
      <3>2. CASE i = 1
        <4>1. Listed(d)
          BY <1>1 DEF IInv, Registered
        <4>2. \A j \in DOMAIN connections : 1 <= j
          BY <1>2, FiniteDomain DEF Typed
        <4> QED
          BY <1>1, <1>3, <1>4, <2>2, <3>1, <3>2, <4>1, <4>2 DEF Owes, Ahead, Listed
      <3>3. CASE i # 1
        <4>1. i - 1 \in 1 .. Len(q) - 1 /\ q[(i - 1) + 1] = m
          BY <1>4, <3>1, <3>3
        <4>2. i - 1 \in DOMAIN Tail(q) /\ Tail(q)[i - 1] = m
          BY <1>4, <4>1
        <4> QED
          BY <1>3, <2>2, <4>2 DEF Owes, Queued
      <3> QED
        BY <3>2, <3>3
    <2> QED
      BY <2>1, <2>2
  <1>13. SelfServed'
    <2>1. 1 .. published \subseteq Messages /\ \A m \in Messages : audience[m] \subseteq Clients
      BY <1>2, FanoutAssumption DEF Typed, Messages
    <2>2. /\ \A m \in Messages : \A c \in audience[m] : handler'[c].pc \notin {"none", "subscribing"}
          /\ \A c \in Clients : handler'[c].pc = "done" => c \notin open
      BY <1>3, <2>1 DEF IInv, SelfServed
    <2>3. removals = 0 => \A m \in 1 .. published : \A c \in audience[m] \cap open :
            Owes(c, m, c)' \/ Occurrences(received[c], m) > 0
      BY <1>12, <2>1 DEF IInv, SelfServed
    <2> QED
      BY <1>1, <2>2, <2>3 DEF SelfServed
  <1> QED
    BY <1>6, <1>7, <1>8, <1>9, <1>11, <1>13 DEF IInv

LEMMA SendNextStep ==
    ASSUME IInv, NEW d \in Clients, SendNext(d)
    PROVE  IInv'
  <1>0. PICK target, m : target = connections[handler[d].at] /\ m = handler[d].msg
    OBVIOUS
  <1>1. /\ handler[d].pc = "sending" /\ handler[d].at <= Len(connections)
        /\ IF target \in open
           THEN /\ received' = [received EXCEPT ![target] = Append(@, m)] /\ failed' = failed
           ELSE /\ failed' = [failed EXCEPT ![d] = @ \cup {target}] /\ received' = received
        /\ handler' = [handler EXCEPT ![d].at = @ + 1]
        /\ UNCHANGED <<subscription, connections, published, audience, removals, gauge, open,
                       predictionVars>>
    BY <1>0 DEF SendNext
  <1>2. /\ Typed
        /\ handler \in [Clients -> [pc : HandlerPCs, msg : 0 .. MaxMessages, at : Nat \ {0}]]
        /\ received \in [Clients -> Seq(Messages)] /\ failed \in [Clients -> SUBSET Clients]
    BY DEF IInv, Typed
  <1>3. /\ handler'[d].pc = "sending" /\ handler'[d].msg = m
        /\ handler'[d].at = handler[d].at + 1 /\ handler[d].at \in Nat \ {0}
        /\ \A h \in Clients \ {d} : handler'[h] = handler[h]
        /\ handler' \in [Clients -> [pc : HandlerPCs, msg : 0 .. MaxMessages, at : Nat \ {0}]]
    <2>1. handler[d] \in [pc : HandlerPCs, msg : 0 .. MaxMessages, at : Nat \ {0}]
      BY <1>2
    <2>2. handler' = [handler EXCEPT ![d] = [handler[d] EXCEPT !.at = handler[d].at + 1]]
      BY <1>1
    <2>3. /\ handler'[d] = [handler[d] EXCEPT !.at = handler[d].at + 1]
          /\ \A h \in Clients \ {d} : handler'[h] = handler[h]
      BY <1>2, <2>2
    <2>4. handler[d].at \in Nat \ {0} /\ handler[d].at + 1 \in Nat \ {0}
      BY <2>1
    <2>5. handler'[d] \in [pc : HandlerPCs, msg : 0 .. MaxMessages, at : Nat \ {0}]
      BY <2>1, <2>3, <2>4
    <2>6. /\ handler'[d].pc = "sending" /\ handler'[d].msg = m
          /\ handler'[d].at = handler[d].at + 1
      BY <1>0, <1>1, <2>1, <2>3
    <2> QED
      BY <1>2, <2>2, <2>3, <2>4, <2>5, <2>6
  <1>20. /\ Len(connections) \in Nat /\ DOMAIN connections = 1 .. Len(connections)
         /\ \A i \in DOMAIN connections : i \in Nat /\ connections[i] \in Clients
    <2>1. connections \in Seq(Clients)
      BY <1>2 DEF Typed
    <2> QED
      BY <2>1, FiniteDomain
  <1>4. handler[d].at \in DOMAIN connections /\ target \in Clients
    BY <1>0, <1>1, <1>3, <1>20
  <1>5. m \in 1 .. published /\ m \in Messages /\ d \in audience[m]
    <2>1. m \in 1 .. published /\ d \in audience[m]
      BY <1>0, <1>1 DEF IInv, InOrder
    <2> QED
      BY <1>2, <2>1, FanoutAssumption DEF Typed, Messages
  <1>6. Append(received[target], m) \in Seq(Messages)
    BY <1>2, <1>4, <1>5, AppendProperties
  <1>7. Typed'
    <2>1. received' \in [Clients -> Seq(Messages)]
      <3>1. CASE target \in open
        BY <1>1, <1>2, <1>4, <1>6, <3>1
      <3>2. CASE target \notin open
        BY <1>1, <1>2, <3>2
      <3> QED
        BY <3>1, <3>2
    <2>2. failed' \in [Clients -> SUBSET Clients]
      <3>1. CASE target \in open
        BY <1>1, <1>2, <3>1
      <3>2. CASE target \notin open
        <4>1. failed[d] \cup {target} \in SUBSET Clients
          BY <1>2, <1>4
        <4> QED
          BY <1>1, <1>2, <3>2, <4>1
      <3> QED
        BY <3>1, <3>2
    <2> QED
      BY <1>1, <1>2, <1>3, <2>1, <2>2 DEF Typed, predictionVars
  <1>8. GaugeCountsSockets'
    BY <1>1 DEF IInv, GaugeCountsSockets, predictionVars
  <1>9. Registered'
    BY <1>1, <1>3 DEF IInv, Registered, Listed
  <1>10. InOrder'
    BY <1>0, <1>1, <1>3 DEF IInv, InOrder
  <1>11. \A c \in Clients : \/ received'[c] = received[c]
                            \/ c = target /\ received'[c] = Append(received[c], m)
    BY <1>1, <1>2, <1>4
  <1>12. Heard'
    <2>1. ASSUME NEW c \in Clients, NEW i \in DOMAIN received'[c]
          PROVE  received'[c][i] <= published
      <3>1. CASE received'[c] = received[c]
        BY <2>1, <3>1 DEF IInv, Heard
      <3>2. CASE received'[c] = Append(received[c], m)
        <4>1. /\ received[c] \in Seq(Messages) /\ received'[c] \in Seq(Messages)
              /\ Len(received'[c]) = Len(received[c]) + 1
              /\ received'[c][Len(received[c]) + 1] = m
              /\ \A k \in 1 .. Len(received[c]) : received'[c][k] = received[c][k]
          BY <1>2, <1>5, <3>2, AppendProperties
        <4>2. /\ Len(received[c]) \in Nat /\ DOMAIN received[c] = 1 .. Len(received[c])
              /\ DOMAIN received'[c] = 1 .. Len(received'[c])
          BY <4>1, LenProperties
        <4>3. i \in DOMAIN received[c] \/ i = Len(received[c]) + 1
          BY <2>1, <4>1, <4>2
        <4> QED
          BY <1>5, <4>1, <4>2, <4>3 DEF IInv, Heard
      <3> QED
        BY <1>11, <3>1, <3>2
    <2>2. Listed(target)
      BY <1>0, <1>4 DEF Listed
    <2>3. \A c \in Clients : handler'[c].pc = "none" => received'[c] = <<>>
      BY <1>1, <1>3, <1>11, <2>2 DEF IInv, Heard, Registered
    <2> QED
      BY <1>1, <2>1, <2>3 DEF Heard
  <1>13. \A h \in Clients : \A n, c : Owes(h, n, c)' => Owes(h, n, c)
    <2> SUFFICES ASSUME NEW h \in Clients, NEW n, NEW c, Ahead(h, n, c)' PROVE Ahead(h, n, c)
      BY <1>1 DEF Owes, Queued
    <2>1. CASE h # d
      BY <1>1, <1>3, <2>1 DEF Ahead
    <2>2. CASE h = d
      <3>1. PICK i \in DOMAIN connections : handler[d].at + 1 <= i /\ connections[i] = c
        BY <1>1, <1>3, <2>2 DEF Ahead
      <3>2. i \in Nat
        BY <1>20, <3>1
      <3>3. handler[d].at <= i
        BY <1>3, <3>1, <3>2
      <3>4. n = m
        BY <1>3, <2>2 DEF Ahead
      <3> QED
        BY <1>0, <1>1, <2>2, <3>1, <3>3, <3>4 DEF Ahead
    <2> QED
      BY <2>1, <2>2
  (* This handler has had its chance with this client now.                  *)
  <1>14. Owes(d, m, target) /\ ~Owes(d, m, target)'
    <2>1. Ahead(d, m, target)
      BY <1>0, <1>1, <1>3, <1>4 DEF Ahead
    <2>2. ~Queued(d, m)'
      <3>1. \A i \in DOMAIN subscription[d] : m < subscription[d][i]
        BY <1>0, <1>1 DEF IInv, InOrder
      <3>2. m \in Nat
        BY <1>5 DEF Messages
      <3> QED
        BY <1>1, <3>1, <3>2 DEF Queued
    <2>3. ~Ahead(d, m, target)'
      <3> SUFFICES ASSUME NEW i \in DOMAIN connections,
                          handler[d].at + 1 <= i, connections[i] = target
                   PROVE  FALSE
        BY <1>1, <1>3 DEF Ahead
      <3>1. i = handler[d].at
        BY <1>0, <1>4 DEF IInv, Registered
      <3> QED
        BY <1>3, <3>1
    <2> QED
      BY <2>1, <2>2, <2>3 DEF Owes
  <1>15. CopiesSpent'
    <2> SUFFICES ASSUME NEW c \in Clients, NEW n \in Messages
                 PROVE  Occurrences(received[c], n)' <= Cardinality(Spent(n, c)')
      BY DEF CopiesSpent
    <2>1. \A h \in audience[n] : Owes(h, n, c)' => Owes(h, n, c)
      BY <1>2, <1>13 DEF Typed
    <2>2. /\ received[c] \in Seq(Messages)
          /\ Occurrences(received[c], n) <= Cardinality(Spent(n, c))
      BY <1>2 DEF IInv, CopiesSpent
    <2>3. CASE received'[c] = received[c]
      BY <1>1, <1>2, <1>7, <2>1, <2>2, <2>3, StillSpent
    <2>4. CASE c = target /\ received'[c] = Append(received[c], m)
      <3>1. Occurrences(received'[c], n) = Occurrences(received[c], n) + (IF m = n THEN 1 ELSE 0)
        BY <1>5, <2>2, <2>4, OccurrencesAppend
      <3>2. Spent(n, c) \in SUBSET Spent(n, c)' /\ Spent(n, c)' \in SUBSET Clients
        BY <1>1, <1>7, <2>1 DEF Spent, Typed
      <3>3. /\ Occurrences(received[c], n) \in Nat
            /\ Cardinality(Spent(n, c)) \in Nat /\ IsFiniteSet(Spent(n, c))
            /\ Cardinality(Spent(n, c)') \in Nat
        BY <2>2, <3>2, OccurrencesType, FiniteAmongClients
      <3>4. CASE n # m
        <4>1. Cardinality(Spent(n, c)) <= Cardinality(Spent(n, c)')
          BY <3>2, SmallerAmongClients
        <4> QED
          BY <2>2, <3>1, <3>3, <3>4, <4>1
      <3>5. CASE n = m
        <4>1. d \notin Spent(n, c) /\ d \in Spent(n, c)'
          BY <1>1, <1>5, <1>14, <2>4, <3>5 DEF Spent
        <4>2. Spent(n, c) \cup {d} \in SUBSET Spent(n, c)'
          BY <3>2, <4>1
        <4>3. Cardinality(Spent(n, c) \cup {d}) <= Cardinality(Spent(n, c)')
          BY <3>2, <4>2, SmallerAmongClients
        <4>4. Cardinality(Spent(n, c) \cup {d}) = Cardinality(Spent(n, c)) + 1
          BY <3>3, <4>1, FS_AddElement
        <4> QED
          BY <2>2, <3>1, <3>3, <3>5, <4>3, <4>4
      <3> QED
        BY <3>4, <3>5
    <2> QED
      BY <1>11, <2>3, <2>4
  <1>16. SelfServed'
    <2>1. 1 .. published \subseteq Messages /\ \A n \in Messages : audience[n] \subseteq Clients
      BY <1>2, FanoutAssumption DEF Typed, Messages
    <2>2. /\ \A n \in Messages : \A c \in audience[n] : handler'[c].pc \notin {"none", "subscribing"}
          /\ \A c \in Clients : handler'[c].pc = "done" => c \notin open
      BY <1>1, <1>3, <2>1 DEF IInv, SelfServed
    <2>3. ASSUME removals = 0, NEW n \in 1 .. published, NEW c \in audience[n] \cap open
          PROVE  Owes(c, n, c)' \/ Occurrences(received'[c], n) > 0
      <3>1. c \in Clients /\ received[c] \in Seq(Messages) /\ Occurrences(received[c], n) \in Nat
        BY <1>2, <2>1, OccurrencesType
      <3>2. CASE Occurrences(received[c], n) > 0
        <4>1. CASE received'[c] = received[c]
          BY <3>2, <4>1
        <4>2. CASE received'[c] = Append(received[c], m)
          BY <1>5, <3>1, <3>2, <4>2, OccurrencesAppend
        <4> QED
          BY <1>11, <3>1, <4>1, <4>2
      <3>3. CASE Owes(c, n, c) /\ ~Owes(c, n, c)'
        <4>1. c = d /\ Ahead(d, n, d) /\ ~Ahead(d, n, d)'
          BY <1>1, <1>3, <3>1, <3>3 DEF Owes, Queued, Ahead
        <4>2. n = m
          BY <1>0, <4>1 DEF Ahead
        <4>3. target = d
          <5>1. PICK i \in DOMAIN connections : handler[d].at <= i /\ connections[i] = d
            BY <4>1 DEF Ahead
          <5>2. i \in Nat
            BY <1>20, <5>1
          <5>3. ~(handler[d].at + 1 <= i)
            BY <1>1, <1>3, <4>1, <4>2, <5>1 DEF Ahead
          <5>4. i = handler[d].at
            BY <1>3, <5>1, <5>2, <5>3
          <5> QED
            BY <1>0, <5>1, <5>4
        <4>4. received'[d] = Append(received[d], m)
          BY <1>1, <1>2, <1>4, <2>3, <4>1, <4>3
        <4>5. Occurrences(received'[c], n) = Occurrences(received[c], n) + 1
          BY <1>5, <3>1, <4>1, <4>2, <4>4, OccurrencesAppend
        <4> QED
          BY <3>1, <4>5
      <3> QED
        BY <2>1, <2>3, <3>2, <3>3 DEF IInv, SelfServed
    <2> QED
      BY <1>1, <2>2, <2>3 DEF SelfServed
  <1> QED
    BY <1>7, <1>8, <1>9, <1>10, <1>12, <1>15, <1>16 DEF IInv

(* A step that ends what the handler d was doing, drops a set of sockets    *)
(* and leaves the other handlers alone.                                     *)
LEMMA DroppingStep ==
    ASSUME IInv, NEW d \in Clients, NEW S \in SUBSET Clients, Drop(S), Typed',
           UNCHANGED <<received, published, audience, predictionVars>>,
           handler'[d].pc \in {"listening", "done"},
           handler[d].pc \notin {"none", "done"},
           handler'[d].pc = "listening" => handler[d].pc # "subscribing",
           handler'[d].pc = "done" => d \in S /\ d \notin open',
           \A h \in Clients \ {d} : handler'[h] = handler[h] /\ subscription'[h] = subscription[h],
           subscription'[d] = subscription[d] \/ (d \notin open' /\ subscription'[d] = <<>>),
           open' \subseteq open,
           ~\E m, c : Ahead(d, m, c) /\ d \in open'
    PROVE  IInv'
  <1>1. /\ Typed /\ Typed' /\ Registered /\ GaugeCountsSockets
        /\ connections \in Seq(Clients)
    BY DEF IInv, Typed
  <1>2. /\ connections' \in Seq(Clients)
        /\ gauge' = Len(connections') + Cardinality(Live)
        /\ removals' = 0 => connections' = connections /\ removals = 0
        /\ \A i, j \in DOMAIN connections' : connections'[i] = connections'[j] => i = j
        /\ \A j \in DOMAIN connections' : \E i \in DOMAIN connections :
             j <= i /\ connections[i] = connections'[j]
        /\ \A c \in S : ~Listed(c)'
    BY <1>1, DropEffect
  <1>3. GaugeCountsSockets'
    BY <1>2 DEF GaugeCountsSockets, Live, predictionVars
  <1>4. \A c : Listed(c)' => Listed(c)
    BY <1>2 DEF Listed
  <1>5. Registered'
    <2>1. \A c \in Clients : handler'[c].pc = "none" => ~Listed(c)'
      BY <1>4 DEF IInv, Registered
    <2>2. removals' = 0 =>
            \A c \in Clients : handler'[c].pc \notin {"none", "done"} => Listed(c)'
      BY <1>2 DEF IInv, Registered, Listed
    <2> QED
      BY <1>2, <2>1, <2>2 DEF Registered
  <1>6. \A h \in Clients : subscription'[h] = subscription[h] \/ subscription'[h] = <<>>
    OBVIOUS
  <1>7. InOrder' /\ Heard'
    <2>1. \A h \in Clients : handler'[h].pc = "sending" => handler'[h] = handler[h]
      OBVIOUS
    <2>2. \A i : i \notin DOMAIN <<>>
      OBVIOUS
    <2>3. InOrder'
      BY <1>6, <2>1, <2>2 DEF IInv, InOrder
    <2>4. Heard'
      BY DEF IInv, Heard
    <2> QED
      BY <2>3, <2>4
  <1>8. \A h \in Clients : \A m, c : Owes(h, m, c)' => Owes(h, m, c)
    <2> SUFFICES ASSUME NEW h \in Clients, NEW m, NEW c, Owes(h, m, c)' PROVE Owes(h, m, c)
      OBVIOUS
    <2>1. CASE Queued(h, m)'
      BY <1>6, <2>1 DEF Owes, Queued
    <2>2. CASE Ahead(h, m, c)'
      <3>1. h # d /\ handler'[h] = handler[h]
        BY <2>2 DEF Ahead
      <3>2. PICK j \in DOMAIN connections' : handler[h].at <= j /\ connections'[j] = c
        BY <2>2, <3>1 DEF Ahead
      <3>3. PICK i \in DOMAIN connections : j <= i /\ connections[i] = c
        BY <1>2, <3>2
      <3>4. handler[h].at \in Nat /\ i \in Nat /\ j \in Nat
        <4>1. DOMAIN connections = 1 .. Len(connections) /\ DOMAIN connections' = 1 .. Len(connections')
          BY <1>1, <1>2, FiniteDomain
        <4>2. handler[h].at \in Nat
          BY <1>1 DEF Typed
        <4> QED
          BY <3>2, <3>3, <4>1, <4>2
      <3>5. handler[h].at <= i
        BY <3>2, <3>3, <3>4
      <3> QED
        BY <2>2, <3>1, <3>3, <3>5 DEF Owes, Ahead
    <2> QED
      BY <2>1, <2>2 DEF Owes
  <1>9. CopiesSpent'
    <2> SUFFICES ASSUME NEW c \in Clients, NEW m \in Messages
                 PROVE  Occurrences(received[c], m)' <= Cardinality(Spent(m, c)')
      BY DEF CopiesSpent
    <2>1. \A h \in audience[m] : Owes(h, m, c)' => Owes(h, m, c)
      BY <1>1, <1>8 DEF Typed
    <2> QED
      BY <1>1, <2>1, StillSpent DEF IInv, CopiesSpent
  <1>10. SelfServed'
    <2>1. 1 .. published \subseteq Messages /\ \A m \in Messages : audience[m] \subseteq Clients
      <3>1. published \in 0 .. MaxMessages /\ audience \in [Messages -> SUBSET Clients]
        BY <1>1 DEF Typed
      <3> QED
        BY <3>1, FanoutAssumption DEF Messages
    <2>2. /\ \A m \in Messages : \A c \in audience[m] : handler'[c].pc \notin {"none", "subscribing"}
          /\ \A c \in Clients : handler'[c].pc = "done" => c \notin open'
      BY <2>1 DEF IInv, SelfServed
    <2>3. ASSUME removals' = 0, NEW m \in 1 .. published, NEW c \in audience[m] \cap open'
          PROVE  Owes(c, m, c)' \/ Occurrences(received[c], m) > 0
      <3>1. removals = 0 /\ connections' = connections /\ c \in Clients /\ c \in open
        BY <1>2, <2>1, <2>3
      <3>2. Owes(c, m, c) => Owes(c, m, c)'
        <4>1. CASE c # d
          BY <3>1, <4>1 DEF Owes, Queued, Ahead
        <4>2. CASE c = d
          BY <3>1, <4>2 DEF Owes, Queued
        <4> QED
          BY <4>1, <4>2
      <3> QED
        BY <2>1, <3>1, <3>2 DEF IInv, SelfServed
    <2> QED
      BY <2>2, <2>3 DEF SelfServed
  <1> QED
    BY <1>1, <1>3, <1>5, <1>7, <1>9, <1>10 DEF IInv

LEMMA EndBroadcastStep ==
    ASSUME IInv, NEW d \in Clients, EndBroadcast(d)
    PROVE  IInv'
  <1>1. /\ handler[d].pc = "sending" /\ handler[d].at > Len(connections)
        /\ Drop(failed[d]) /\ failed' = [failed EXCEPT ![d] = {}]
        /\ handler' = [handler EXCEPT ![d].pc = "listening"]
        /\ UNCHANGED <<subscription, received, published, audience, open, predictionVars>>
    BY DEF EndBroadcast
  <1>2. /\ Typed
        /\ handler \in [Clients -> [pc : HandlerPCs, msg : 0 .. MaxMessages, at : Nat \ {0}]]
        /\ failed \in [Clients -> SUBSET Clients] /\ failed[d] \in SUBSET Clients
    BY DEF IInv, Typed
  <1>3. /\ handler'[d].pc = "listening" /\ \A h \in Clients \ {d} : handler'[h] = handler[h]
        /\ handler' \in [Clients -> [pc : HandlerPCs, msg : 0 .. MaxMessages, at : Nat \ {0}]]
    BY <1>1, <1>2 DEF HandlerPCs
  <1>4. connections' \in Seq(Clients) /\ removals' \in Nat
    BY <1>1, <1>2, DropEffect DEF IInv
  <1>5. Typed'
    BY <1>1, <1>2, <1>3, <1>4 DEF Typed, predictionVars
  <1>6. ~\E m, c : Ahead(d, m, c)
    <2>1. \A i \in DOMAIN connections : ~(handler[d].at <= i)
      <3>1. Len(connections) \in Nat /\ DOMAIN connections = 1 .. Len(connections)
        BY <1>2, FiniteDomain DEF Typed
      <3>2. handler[d].at \in Nat
        BY <1>2
      <3> QED
        BY <1>1, <3>1, <3>2
    <2> QED
      BY <2>1 DEF Ahead
  <1> QED
    <2>1. /\ UNCHANGED <<received, published, audience, predictionVars>>
          /\ \A h \in Clients \ {d} : handler'[h] = handler[h] /\ subscription'[h] = subscription[h]
          /\ subscription'[d] = subscription[d] /\ open' \subseteq open
          /\ ~\E m, c : Ahead(d, m, c) /\ d \in open'
      BY <1>1, <1>3, <1>6
    <2> QED
      BY <1>1, <1>2, <1>3, <1>5, <2>1, DroppingStep

LEMMA HandlerEndsStep ==
    ASSUME IInv, NEW d \in Clients, HandlerEnds(d)
    PROVE  IInv'
  <1>1. /\ handler[d].pc \in {"subscribing", "listening"}
        /\ handler' = [handler EXCEPT ![d].pc = "done"]
        /\ Drop({d}) /\ subscription' = [subscription EXCEPT ![d] = <<>>]
        /\ open' = open \ {d}
        /\ UNCHANGED <<failed, received, published, audience, predictionVars>>
    BY DEF HandlerEnds
  <1>2. /\ Typed /\ subscription \in [Clients -> Seq(Messages)]
        /\ handler \in [Clients -> [pc : HandlerPCs, msg : 0 .. MaxMessages, at : Nat \ {0}]]
    BY DEF IInv, Typed
  <1>3. /\ handler'[d].pc = "done" /\ subscription'[d] = <<>>
        /\ \A h \in Clients \ {d} : handler'[h] = handler[h] /\ subscription'[h] = subscription[h]
        /\ handler' \in [Clients -> [pc : HandlerPCs, msg : 0 .. MaxMessages, at : Nat \ {0}]]
        /\ subscription' \in [Clients -> Seq(Messages)]
    BY <1>1, <1>2, EmptySeq DEF HandlerPCs
  <1>4. connections' \in Seq(Clients) /\ removals' \in Nat
    BY <1>1, DropEffect DEF IInv
  <1>5. Typed'
    BY <1>1, <1>2, <1>3, <1>4 DEF Typed, predictionVars
  <1> QED
    BY <1>1, <1>3, <1>5, DroppingStep

-----------------------------------------------------------------------------
(* All steps.                                                               *)

LEMMA InitEstablishes == Init => IInv
  <1> SUFFICES ASSUME Init PROVE IInv
    OBVIOUS
  <1>1. /\ handler = [c \in Clients |-> Idle] /\ failed = [c \in Clients |-> {}]
        /\ subscription = [c \in Clients |-> <<>>] /\ connections = <<>> /\ gauge = 0
        /\ open = {} /\ received = [c \in Clients |-> <<>>] /\ published = 0
        /\ audience = [m \in Messages |-> {}] /\ removals = 0
        /\ viewer = [v \in Viewers |-> "none"] /\ feed = [v \in Viewers |-> <<>>]
        /\ predicted = 0
    BY DEF Init
  <1>2. Len(connections) = 0 /\ \A i : i \notin DOMAIN connections
    BY <1>1, EmptySeq
  <1>3. Typed
    BY <1>1, EmptySeq, FanoutAssumption DEF Typed, Idle, HandlerPCs, ViewerPCs
  <1>4. GaugeCountsSockets
    <2>1. Live = {}
      BY <1>1 DEF Live
    <2>2. gauge = 0 /\ Len(connections) = 0 /\ Cardinality(Live) = 0
      BY <1>1, <1>2, <2>1, FS_EmptySet
    <2> QED
      BY <2>2 DEF GaugeCountsSockets, Live
  <1>5. Registered /\ InOrder /\ Heard
    BY <1>1, <1>2 DEF Registered, InOrder, Heard, Listed, Idle
  <1>6. CopiesSpent
    <2> SUFFICES ASSUME NEW c \in Clients, NEW m \in Messages
                 PROVE  Occurrences(received[c], m) <= Cardinality(Spent(m, c))
      BY DEF CopiesSpent
    <2>1. Spent(m, c) = {}
      BY <1>1 DEF Spent
    <2>2. Occurrences(received[c], m) = 0
      BY <1>1, NoOccurrence
    <2> QED
      BY <2>1, <2>2, FS_EmptySet
  <1>7. SelfServed
    BY <1>1 DEF SelfServed, Idle
  <1> QED
    BY <1>3, <1>4, <1>5, <1>6, <1>7 DEF IInv

LEMMA StepPreserves == IInv /\ [Next]_vars => IInv'
  <1>1. ASSUME IInv, NEW c \in Clients, Connect(c) \/ HandlerStep(c) \/ HandlerEnds(c)
        PROVE  IInv'
    BY <1>1, ConnectStep, SubscribeStep, GetMessageStep, SendNextStep, EndBroadcastStep,
       HandlerEndsStep DEF HandlerStep
  <1>2. ASSUME IInv, UNCHANGED vars
        PROVE  IInv'
    <2>1. UNCHANGED <<metricsVars, predictionVars, gauge, open>>
      BY <1>2 DEF vars
    <2>2. Typed' /\ GaugeCountsSockets'
      BY <1>2, <2>1 DEF IInv, Typed, metricsVars, predictionVars, GaugeCountsSockets
    <2> QED
      BY <1>2, <2>1, <2>2, MetricsLeft
  <1> QED
    BY <1>1, <1>2, ViewerSteps, LeaveStep, PublishPacketStep, PublishPredictionStep DEF Next

-----------------------------------------------------------------------------
(* The theorems.                                                            *)

(* IInv holds in every reachable state.                                     *)
THEOREM Invariant == Spec => []IInv
  BY InitEstablishes, StepPreserves, PTL DEF Spec

(* Every variable keeps its type; the gauge is a number because it counts.  *)
THEOREM TypeCorrect == Spec => []TypeOK
  <1>1. IInv => TypeOK
    <2> SUFFICES ASSUME IInv PROVE TypeOK
      OBVIOUS
    <2>1. gauge = Len(connections) + Cardinality(Live)
      BY DEF IInv, GaugeCountsSockets, Live
    <2>2. Len(connections) \in Nat
      BY FiniteDomain DEF IInv, Typed
    <2>3. gauge \in Nat
      BY <2>1, <2>2, LiveFinite
    <2> QED
      BY <2>3 DEF IInv, Typed, TypeOK
  <1> QED
    BY <1>1, Invariant, PTL

(* However many broadcasts and finally blocks disconnect a socket, and in   *)
(* whatever order, active_connections counts the registered sockets and the *)
(* live predictions handlers.  (manager.py: disconnect.)                    *)
THEOREM GaugeIsRight == Spec => []GaugeCountsSockets
  <1>1. IInv => GaugeCountsSockets
    BY DEF IInv
  <1> QED
    BY <1>1, Invariant, PTL

(* No handler sends a message to a client twice, although the list that it  *)
(* walks through shrinks and grows under it: the copies of a message that a *)
(* client receives are at most as many as the handlers that were subscribed *)
(* when it was published.  (manager.py: broadcast.)                         *)
THEOREM OneCopyPerHandler == Spec => []CopiesBounded
  <1>1. IInv => CopiesBounded
    <2> SUFFICES ASSUME IInv, NEW c \in Clients, NEW m \in Messages
                 PROVE  Occurrences(received[c], m) <= Cardinality(audience[m])
      BY DEF CopiesBounded
    <2>1. /\ Occurrences(received[c], m) <= Cardinality(Spent(m, c))
          /\ received[c] \in Seq(Messages)
          /\ audience[m] \in SUBSET Clients /\ Spent(m, c) \in SUBSET audience[m]
      BY DEF IInv, CopiesSpent, Typed, Spent
    <2>2. Cardinality(Spent(m, c)) <= Cardinality(audience[m])
      BY <2>1, SmallerAmongClients
    <2>3. /\ Occurrences(received[c], m) \in Nat /\ Cardinality(audience[m]) \in Nat
          /\ Spent(m, c) \in SUBSET Clients
      BY <2>1, OccurrencesType, FiniteAmongClients
    <2>4. Cardinality(Spent(m, c)) \in Nat
      BY <2>3, FiniteAmongClients
    <2> QED
      BY <2>1, <2>2, <2>3, <2>4
  <1> QED
    BY <1>1, Invariant, PTL

(* As long as no socket has been taken out of the list, a client that was   *)
(* subscribed when a message was published, and is still connected once the *)
(* handlers have caught up, has received it: its own broadcast cannot pass  *)
(* it by.  (manager.py: broadcast and disconnect.)                          *)
THEOREM OnlyRemovalsSkip == Spec => []MissesNeedRemoval
  <1>1. IInv => MissesNeedRemoval
    <2> SUFFICES ASSUME IInv, Settled, removals = 0,
                        NEW m \in 1 .. published, NEW c \in audience[m] \cap open
                 PROVE  Occurrences(received[c], m) > 0
      BY DEF MissesNeedRemoval
    <2>1. m \in Messages /\ c \in Clients
      BY FanoutAssumption DEF IInv, Typed, Messages
    <2>2. ~Owes(c, m, c)
      BY <2>1 DEF Settled, Owes, Queued, Ahead
    <2> QED
      BY <2>2 DEF IInv, SelfServed
  <1> QED
    BY <1>1, Invariant, PTL
=============================================================================
