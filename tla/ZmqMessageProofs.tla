--------------------------- MODULE ZmqMessageProofs ---------------------------
(***************************************************************************)
(* Lemmas about ZmqMessage: how the number of holders of a block changes   *)
(* with what an object holds and with the queue, and that every step of a  *)
(* message keeps the counts in the blocks exact, for any number of objects *)
(* and blocks.  ZmqHandlesProofs has the theorems.                         *)
(***************************************************************************)
EXTENDS ZmqMessage, FiniteSetTheorems, SequenceTheorems, TLAPS

(* How many places of D hold v, f being what they hold.                    *)
Count(D, f, v) == Cardinality({o \in D : f[o] = v})

(* 1 for a place that holds the value that is counted.                     *)
Hit(x, v) == IF x = v THEN 1 ELSE 0

LEMMA CountType ==
  ASSUME NEW D, IsFiniteSet(D), NEW f, NEW v
  PROVE  /\ Count(D, f, v) \in Nat
         /\ Count(D, f, v) = 0 <=> \A o \in D : f[o] # v
<1> DEFINE S == {o \in D : f[o] = v}
<1>1. IsFiniteSet(S)
  BY FS_Subset
<1>2. Cardinality(S) \in Nat /\ (Cardinality(S) = 0 <=> S = {})
  BY <1>1, FS_CardinalityType, FS_EmptySet
<1> QED
  BY <1>2 DEF Count

(* One place holds something else.                                         *)
LEMMA CountOne ==
  ASSUME NEW D, IsFiniteSet(D), NEW f, NEW g, NEW o \in D,
         \A p \in D \ {o} : g[p] = f[p], NEW v
  PROVE  Count(D, g, v) = Count(D, f, v) - Hit(f[o], v) + Hit(g[o], v)
<1> DEFINE S == {p \in D : f[p] = v}
           T == {p \in D : g[p] = v}
<1>1. IsFiniteSet(S) /\ IsFiniteSet(T)
  BY FS_Subset
<1>2. Cardinality(S) \in Nat /\ Cardinality(T) \in Nat
  BY <1>1, FS_CardinalityType
<1>3. T \ {o} = S \ {o} /\ (o \in S <=> f[o] = v) /\ (o \in T <=> g[o] = v)
  OBVIOUS
<1>4. Cardinality(S \ {o}) = IF o \in S THEN Cardinality(S) - 1 ELSE Cardinality(S)
  BY <1>1, FS_RemoveElement
<1>5. Cardinality(T \ {o}) = IF o \in T THEN Cardinality(T) - 1 ELSE Cardinality(T)
  BY <1>1, FS_RemoveElement
<1>6. Cardinality(T) = Cardinality(S) - Hit(f[o], v) + Hit(g[o], v)
  <2> HIDE DEF S, T
  <2> QED
    BY <1>2, <1>3, <1>4, <1>5 DEF Hit
<1> QED
  BY <1>6 DEF Count

(* Two places do.                                                          *)
SameBut(D, o, r, f, g) == \A p \in D \ {o, r} : g[p] = f[p]

LEMMA CountTwo ==
  ASSUME NEW D, IsFiniteSet(D), NEW f, NEW g, NEW o \in D, NEW r \in D, o # r,
         SameBut(D, o, r, f, g), NEW v
  PROVE  Count(D, g, v) = Count(D, f, v) - Hit(f[o], v) - Hit(f[r], v)
                            + Hit(g[o], v) + Hit(g[r], v)
<1>1. PICK h : h = [p \in D |-> IF p = o THEN g[o] ELSE f[p]]
  OBVIOUS
<1>2. \A p \in D \ {o, r} : g[p] = f[p]
  BY DEF SameBut
<1>3. \A p \in D \ {o} : h[p] = f[p]
  BY <1>1
<1>4. h[o] = g[o] /\ h[r] = f[r]
  BY <1>1
<1>5. ASSUME NEW p \in D \ {r}
      PROVE  g[p] = h[p]
  <2>1. CASE p = o
    BY <1>4, <2>1
  <2>2. CASE p # o
    <3>1. p \in D \ {o, r}
      BY <1>5, <2>2
    <3> QED
      BY <1>2, <1>3, <3>1
  <2> QED
    BY <2>1, <2>2
<1>6. Count(D, h, v) = Count(D, f, v) - Hit(f[o], v) + Hit(h[o], v)
  BY <1>3, CountOne
<1>7. Count(D, g, v) = Count(D, h, v) - Hit(h[r], v) + Hit(g[r], v)
  BY <1>5, CountOne
<1>8. PICK n \in Nat : n = Count(D, f, v)
  BY CountType
<1> QED
  BY <1>4, <1>6, <1>7, <1>8 DEF Hit

-----------------------------------------------------------------------------
(* The queue.                                                              *)

Queued(q, d) == Count(DOMAIN q, q, d)

LEMMA QueuedType ==
  ASSUME NEW R, NEW q \in Seq(R), NEW d
  PROVE  Queued(q, d) \in Nat
<1>1. DOMAIN q = 1 .. Len(q) /\ Len(q) \in Nat
  BY LenProperties
<1>2. IsFiniteSet(DOMAIN q)
  BY <1>1, FS_Interval
<1> QED
  BY <1>2, CountType DEF Queued

LEMMA QueuedAppend ==
  ASSUME NEW R, NEW q \in Seq(R), NEW x \in R, NEW d
  PROVE  Queued(Append(q, x), d) = Queued(q, d) + Hit(x, d)
<1> DEFINE n == Len(q) + 1
           S == {i \in DOMAIN q : q[i] = d}
           T == {i \in DOMAIN Append(q, x) : Append(q, x)[i] = d}
<1>1. /\ DOMAIN q = 1 .. Len(q) /\ Len(q) \in Nat
      /\ DOMAIN Append(q, x) = 1 .. n
      /\ Append(q, x)[n] = x /\ \A i \in 1 .. Len(q) : Append(q, x)[i] = q[i]
  BY AppendProperties, LenProperties
<1>2. IsFiniteSet(DOMAIN q)
  BY <1>1, FS_Interval
<1>3. IsFiniteSet(S) /\ Cardinality(S) \in Nat
  BY <1>2, FS_Subset, FS_CardinalityType
<1>4. n \notin S /\ T = IF x = d THEN S \cup {n} ELSE S
  BY <1>1
<1>5. Cardinality(S \cup {n}) = Cardinality(S) + 1
  BY <1>3, <1>4, FS_AddElement
<1>6. Cardinality(T) = Cardinality(S) + Hit(x, d)
  <2> HIDE DEF n, S, T
  <2> QED
    BY <1>3, <1>4, <1>5 DEF Hit
<1> QED
  BY <1>6 DEF Queued, Count

LEMMA QueuedTail ==
  ASSUME NEW R, NEW q \in Seq(R), q # <<>>, NEW d
  PROVE  Queued(Tail(q), d) = Queued(q, d) - Hit(Head(q), d)
<1> DEFINE S == {i \in DOMAIN q : q[i] = d}
           T == {i \in DOMAIN Tail(q) : Tail(q)[i] = d}
           f == [i \in T |-> i + 1]
<1>1. /\ DOMAIN q = 1 .. Len(q) /\ Len(q) \in Nat \ {0}
      /\ DOMAIN Tail(q) = 1 .. (Len(q) - 1)
      /\ Head(q) = q[1] /\ \A i \in 1 .. (Len(q) - 1) : Tail(q)[i] = q[i + 1]
  BY HeadTailProperties, LenProperties, EmptySeq
<1>2. IsFiniteSet(DOMAIN q) /\ IsFiniteSet(DOMAIN Tail(q))
  BY <1>1, FS_Interval
<1>3. IsFiniteSet(S) /\ IsFiniteSet(T)
  BY <1>2, FS_Subset
<1>4. Cardinality(S) \in Nat
  BY <1>3, FS_CardinalityType
<1>5. f \in Bijection(T, S \ {1})
  <2>1. f \in [T -> S \ {1}]
    BY <1>1
  <2>2. \A i, j \in T : f[i] = f[j] => i = j
    BY <1>1
  <2>3. \A k \in S \ {1} : \E i \in T : f[i] = k
    <3> SUFFICES ASSUME NEW k \in S \ {1}
                 PROVE  k - 1 \in T /\ f[k - 1] = k
      OBVIOUS
    <3>1. k - 1 \in 1 .. (Len(q) - 1) /\ (k - 1) + 1 = k
      BY <1>1
    <3>2. k - 1 \in T
      BY <1>1, <3>1
    <3> QED
      BY <3>1, <3>2
  <2> QED
    BY <2>1, <2>2, <2>3 DEF Bijection, Injection, Surjection, IsInjective
<1>6. Cardinality(S \ {1}) = Cardinality(T)
  BY <1>3, <1>5, FS_Bijection DEF ExistsBijection
<1>7. Cardinality(S \ {1}) = IF 1 \in S THEN Cardinality(S) - 1 ELSE Cardinality(S)
  BY <1>3, FS_RemoveElement
<1>8. 1 \in S <=> Head(q) = d
  BY <1>1
<1>9. Cardinality(T) = Cardinality(S) - Hit(Head(q), d)
  <2> HIDE DEF S, T
  <2> QED
    BY <1>4, <1>6, <1>7, <1>8 DEF Hit
<1> QED
  BY <1>9 DEF Queued, Count

-----------------------------------------------------------------------------
(* The counts.  Blocks that are not allocated have none.                   *)

Leaked(d) == IF d \in leaked THEN 1 ELSE 0

Exact(d) == refs[d] = Count(Object, msg, d) + Queued(queue, d) + Leaked(d)

MessageInv ==
  /\ MessageTypeOK
  /\ \A d \in Data : Exact(d)
  /\ \A d \in fresh : refs[d] = 0
  /\ Unshared

LEMMA InvAccounted == MessageInv => Accounted
BY DEF MessageInv, Exact, Count, Queued, Leaked, Accounted

(* What holds a block is counted, and nothing holds a fresh one.           *)
LEMMA Counts ==
  ASSUME MessageInv, NEW d \in Data
  PROVE  /\ Count(Object, msg, d) \in Nat /\ Queued(queue, d) \in Nat
         /\ refs[d] \in Nat /\ Exact(d) /\ Leaked(d) \in {0, 1}
         /\ \A o \in Object : msg[o] = d => Count(Object, msg, d) >= 1
         /\ queue # <<>> /\ Head(queue) = d => Queued(queue, d) >= 1
         /\ d \in fresh => /\ Count(Object, msg, d) = 0 /\ Queued(queue, d) = 0
                           /\ Leaked(d) = 0 /\ refs[d] = 0
<1>1. PICK n \in Nat : n = Count(Object, msg, d)
  BY CountType, MessageAssumption
<1>2. PICK k \in Nat : k = Queued(queue, d)
  BY QueuedType DEF MessageInv, MessageTypeOK
<1>3. refs[d] \in Nat /\ Exact(d) /\ Leaked(d) \in {0, 1}
  BY DEF MessageInv, MessageTypeOK, Leaked
<1>4. ASSUME NEW o \in Object, msg[o] = d
      PROVE  n >= 1
  BY <1>1, <1>4, CountType, MessageAssumption
<1>5. ASSUME queue # <<>>, Head(queue) = d
      PROVE  k >= 1
  <2>1. Tail(queue) \in Seq(Data \cup {Empty})
    BY <1>5, HeadTailProperties DEF MessageInv, MessageTypeOK
  <2>2. PICK j \in Nat : j = Queued(Tail(queue), d)
    BY <2>1, QueuedType
  <2>3. j = k - 1
    BY <1>2, <1>5, <2>2, QueuedTail DEF MessageInv, MessageTypeOK, Hit
  <2> QED
    BY <2>3
<1>6. d \in fresh => n = 0 /\ k = 0 /\ Leaked(d) = 0 /\ refs[d] = 0
  BY <1>1, <1>2, <1>3 DEF MessageInv, Exact
<1> QED
  BY <1>1, <1>2, <1>3, <1>4, <1>5, <1>6

LEMMA MessageInitInv == MessageInit => MessageInv
<1> SUFFICES ASSUME MessageInit
             PROVE  MessageInv
  OBVIOUS
<1>1. ASSUME NEW d \in Data
      PROVE  Exact(d)
  <2>1. Count(Object, msg, d) = 0
    BY CountType, MessageAssumption DEF MessageInit
  <2>2. Queued(queue, d) = 0
    <3>1. DOMAIN queue = {} /\ IsFiniteSet({})
      BY FS_EmptySet DEF MessageInit
    <3> QED
      BY <3>1, CountType DEF Queued
  <2> QED
    BY <2>1, <2>2 DEF Exact, Leaked, MessageInit
<1> QED
  BY <1>1 DEF MessageInit, MessageInv, MessageTypeOK, Unshared

(* A step changes what one object holds.                                   *)
LEMMA OneHolder ==
  ASSUME NEW o \in Object, \A p \in Object \ {o} : msg'[p] = msg[p], NEW d \in Data
  PROVE  Count(Object, msg', d)
           = Count(Object, msg, d) - Hit(msg[o], d) + Hit(msg'[o], d)
BY CountOne, MessageAssumption

(* And nothing in the queue.                                               *)
LEMMA OneObject ==
  ASSUME MessageInv, NEW o \in Object, NEW d \in Data,
         \A p \in Object \ {o} : msg'[p] = msg[p], queue' = queue
  PROVE  /\ Count(Object, msg', d)
              = Count(Object, msg, d) - Hit(msg[o], d) + Hit(msg'[o], d)
         /\ Queued(queue', d) = Queued(queue, d)
BY CountOne, MessageAssumption

LEMMA TwoObjects ==
  ASSUME MessageInv, NEW o \in Object, NEW r \in Object, NEW d \in Data, o # r,
         \A p \in Object \ {o, r} : msg'[p] = msg[p], queue' = queue
  PROVE  /\ Count(Object, msg', d)
              = Count(Object, msg, d) - Hit(msg[o], d) - Hit(msg[r], d)
                  + Hit(msg'[o], d) + Hit(msg'[r], d)
         /\ Queued(queue', d) = Queued(queue, d)
<1>1. SameBut(Object, o, r, msg, msg')
  BY DEF SameBut
<1> QED
  BY <1>1, CountTwo, MessageAssumption

(* What is left of the counts when o gives up what it holds and gets x.    *)
Exchanged(o, x) ==
  /\ refs' = [d \in Data |-> refs'[d]]
  /\ \A d \in Data : refs'[d] = IF d = x THEN 1
                                 ELSE IF msg[o] = d THEN refs[d] - 1 ELSE refs[d]

Becomes(o, x) ==
  /\ msg' = [p \in Object |-> msg'[p]] /\ msg'[o] = x
  /\ \A p \in Object \ {o} : msg'[p] = msg[p]

(* An object gives up what it holds and gets a fresh block or none.        *)
LEMMA Released ==
  ASSUME MessageInv, NEW o \in Object, NEW x \in Data \cup {Absent, Closed, Empty},
         x \in Data => x \in fresh /\ fresh' = fresh \ {x},
         x \notin Data => fresh' = fresh,
         Becomes(o, x), Exchanged(o, x),
         UNCHANGED <<queue, leaked, copied>>
  PROVE  MessageInv'
<1>0. /\ msg \in [Object -> Data \cup {Absent, Closed, Empty}]
      /\ msg' \in [Object -> Data \cup {Absent, Closed, Empty}]
      /\ msg'[o] = x /\ \A p \in Object \ {o} : msg'[p] = msg[p]
      /\ refs' = [d \in Data |-> refs'[d]]
  BY DEF MessageInv, MessageTypeOK, Becomes, Exchanged
<1>1. ASSUME NEW d \in Data
      PROVE  /\ refs'[d] \in Nat /\ Exact(d)'
             /\ d \in fresh' => refs'[d] = 0
             /\ refs'[d] > 1 => d \in copied'
  <2>1. PICK n \in Nat : n = Count(Object, msg, d)
    BY Counts
  <2>2. PICK k \in Nat : k = Queued(queue, d)
    BY Counts
  <2>3. PICK j \in {0, 1} : j = Leaked(d) /\ Leaked(d)' = j
    BY Counts DEF Leaked
  <2>4. /\ refs[d] = n + k + j /\ (msg[o] = d => n >= 1)
        /\ d \in fresh => n = 0 /\ k = 0 /\ j = 0
        /\ refs[d] > 1 => d \in copied
    BY <2>1, <2>2, <2>3, Counts DEF Exact, MessageInv, Unshared
  <2>5. Count(Object, msg', d) = n - Hit(msg[o], d) + Hit(x, d) /\ Queued(queue', d) = k
    BY <1>0, <2>1, <2>2, OneObject
  <2>6. refs'[d] = IF d = x THEN 1 ELSE IF msg[o] = d THEN refs[d] - 1 ELSE refs[d]
    BY DEF Exchanged
  <2>7. CASE d = x
    BY <2>3, <2>4, <2>5, <2>6, <2>7 DEF Hit, Exact
  <2>8. CASE d # x
    <3>1. d \in fresh' => d \in fresh
      OBVIOUS
    <3> QED
      BY <2>3, <2>4, <2>5, <2>6, <2>8, <3>1 DEF Hit, Exact
  <2> QED
    BY <2>7, <2>8
<1>2. MessageTypeOK'
  BY <1>0, <1>1 DEF MessageInv, MessageTypeOK
<1> QED
  BY <1>1, <1>2 DEF MessageInv, Unshared, MessageTypeOK

(* What is to be shown for each block after a step.                        *)
Kept(d) ==
  /\ refs'[d] \in Nat /\ Exact(d)'
  /\ d \in fresh' => refs'[d] = 0
  /\ refs'[d] > 1 => d \in copied'

LEMMA AllKept ==
  ASSUME MessageInv, \A d \in Data : Kept(d),
         msg' \in [Object -> Data \cup {Absent, Closed, Empty}],
         refs' = [d \in Data |-> refs'[d]], queue' \in Seq(Data \cup {Empty}),
         fresh' \subseteq Data, leaked' \subseteq Data, copied' \subseteq Data
  PROVE  MessageInv'
<1>1. refs' \in [Data -> Nat]
  BY DEF Kept
<1> QED
  BY <1>1 DEF Kept, MessageInv, MessageTypeOK, Unshared

(* One object takes over what another one holds.                           *)
LEMMA Moved ==
  ASSUME MessageInv, NEW o \in Object, NEW r \in Object, o # r,
         UNCHANGED <<queue, fresh, leaked, copied>>,
         \/ MessageMoved(o, r) \/ MoveAssign(o, r) \/ Move(o, r)
  PROVE  MessageInv'
<1>0. /\ msg \in [Object -> Data \cup {Absent, Closed, Empty}]
      /\ refs \in [Data -> Nat] /\ queue \in Seq(Data \cup {Empty})
      /\ fresh \subseteq Data /\ leaked \subseteq Data /\ copied \subseteq Data
  BY DEF MessageInv, MessageTypeOK
<1>1. /\ \A p \in Object \ {o, r} : msg'[p] = msg[p]
      /\ msg' \in [Object -> Data \cup {Absent, Closed, Empty}]
      /\ refs' = [d \in Data |-> refs'[d]] /\ msg'[o] = msg[r]
  BY <1>0 DEF MessageMoved, MoveAssign, Move, Release
<1>2. ASSUME NEW d \in Data
      PROVE  /\ Count(Object, msg', d) - refs'[d] = Count(Object, msg, d) - refs[d]
             /\ refs'[d] \in Nat /\ refs'[d] <= refs[d]
  <2>1. PICK n \in Nat : n = Count(Object, msg, d)
    BY Counts
  <2>2. PICK k \in Nat : k = refs[d] /\ (msg[o] = d => n >= 1 /\ k >= 1)
    <3>1. msg[o] = d => n >= 1
      BY <2>1, Counts
    <3>2. refs[d] >= n /\ refs[d] \in Nat
      BY <2>1, Counts DEF Exact
    <3> QED
      BY <3>1, <3>2
  <2>3. Count(Object, msg', d) = n - Hit(msg[o], d) - Hit(msg[r], d)
                                   + Hit(msg[r], d) + Hit(msg'[r], d)
    BY <1>1, <2>1, TwoObjects
  <2>4. CASE MessageMoved(o, r)
    <3>1. msg'[r] = Empty /\ refs'[d] = k /\ msg[o] = Absent
      BY <1>0, <2>2, <2>4 DEF MessageMoved, Constructed
    <3> QED
      BY <2>1, <2>2, <2>3, <3>1, MessageAssumption DEF Hit
  <2>5. CASE MoveAssign(o, r)
    <3>1. msg'[r] = msg[o] /\ refs'[d] = k
      BY <1>0, <2>2, <2>5 DEF MoveAssign
    <3> QED
      BY <2>1, <2>2, <2>3, <3>1 DEF Hit
  <2>6. CASE Move(o, r)
    <3>1. msg'[r] = Empty /\ refs'[d] = IF msg[o] = d THEN k - 1 ELSE k
      BY <1>0, <2>2, <2>6 DEF Move, Release
    <3> QED
      BY <2>1, <2>2, <2>3, <3>1, MessageAssumption DEF Hit
  <2> QED
    BY <2>4, <2>5, <2>6
<1>3. ASSUME NEW d \in Data
      PROVE  Kept(d)
  <2>1. PICK n \in Nat : n = Count(Object, msg, d)
    BY Counts
  <2>2. PICK k \in Nat : k = Queued(queue, d)
    BY Counts
  <2>3. PICK j \in {0, 1} : j = Leaked(d) /\ Leaked(d)' = j
    BY Counts DEF Leaked
  <2>4. PICK m \in Nat : m = refs'[d]
    BY <1>2
  <2>5. refs[d] = n + k + j /\ (d \in fresh => refs[d] = 0)
        /\ (refs[d] > 1 => d \in copied)
    BY <2>1, <2>2, <2>3, Counts DEF Exact, MessageInv, Unshared
  <2>6. Count(Object, msg', d) - m = n - (n + k + j) /\ m <= n + k + j
    BY <1>2, <2>1, <2>4, <2>5
  <2>7. Count(Object, msg', d) \in Nat
    BY CountType, MessageAssumption
  <2>8. Queued(queue', d) = k
    BY <2>2
  <2>9. m = Count(Object, msg', d) + k + j
    BY <2>6, <2>7
  <2> QED
    BY <2>3, <2>4, <2>5, <2>6, <2>8, <2>9 DEF Kept, Exact
<1> QED
  BY <1>0, <1>1, <1>3, AllKept

(* One object shares what another one holds.                               *)
LEMMA Copied ==
  ASSUME MessageInv, NEW o \in Object, NEW r \in Object, Copy(o, r)
  PROVE  MessageInv'
<1>0. /\ msg \in [Object -> Data \cup {Absent, Closed, Empty}]
      /\ refs \in [Data -> Nat] /\ queue \in Seq(Data \cup {Empty})
      /\ fresh \subseteq Data /\ leaked \subseteq Data /\ copied \subseteq Data
  BY DEF MessageInv, MessageTypeOK
<1>1. /\ msg' = [msg EXCEPT ![o] = msg[r]]
      /\ copied' = copied \cup ({msg[r]} \cap Data)
      /\ UNCHANGED <<queue, fresh, leaked>>
      /\ refs' = [d \in Data |-> refs'[d]]
  BY DEF Copy
<1>2. ASSUME NEW d \in Data
      PROVE  Kept(d)
  <2>1. PICK n \in Nat : n = Count(Object, msg, d)
    BY Counts
  <2>2. PICK k \in Nat : k = Queued(queue, d)
    BY Counts
  <2>3. PICK j \in {0, 1} : j = Leaked(d) /\ Leaked(d)' = j
    BY <1>1, Counts DEF Leaked
  <2>4. /\ refs[d] = n + k + j /\ (msg[o] = d \/ msg[r] = d => n >= 1)
        /\ (d \in fresh => n = 0 /\ k = 0 /\ j = 0)
        /\ (refs[d] > 1 => d \in copied)
    BY <2>1, <2>2, <2>3, Counts DEF Exact, MessageInv, Unshared
  <2>5. Count(Object, msg', d) = n - Hit(msg[o], d) + Hit(msg[r], d) /\ Queued(queue', d) = k
    BY <1>0, <1>1, <2>1, <2>2, OneObject
  <2>6. refs'[d] = refs[d] - Hit(msg[o], d) + Hit(msg[r], d)
    BY <1>0, <2>4 DEF Copy, Release, Hit
  <2>7. d \in fresh => msg[o] # d /\ msg[r] # d
    BY <2>4
  <2>8. Exact(d)' /\ refs'[d] \in Nat
    BY <2>3, <2>4, <2>5, <2>6 DEF Hit, Exact
  <2>9. (d \in fresh' => refs'[d] = 0) /\ (refs'[d] > 1 => d \in copied')
    BY <1>1, <2>4, <2>6, <2>7 DEF Hit
  <2> QED
    BY <2>8, <2>9 DEF Kept
<1> QED
  BY <1>0, <1>1, <1>2, AllKept

(* A block is allocated without an object that keeps it: it goes into the  *)
(* queue, is freed at once, or stays behind.                               *)
LEMMA Passing ==
  ASSUME MessageInv, NEW d \in Data, Allocate(d), UNCHANGED <<msg, copied>>,
         \/ /\ leaked' = leaked \cup {d} /\ refs' = [refs EXCEPT ![d] = 1]
            /\ UNCHANGED queue
         \/ /\ queue' = Append(queue, d) /\ refs' = [refs EXCEPT ![d] = 1]
            /\ UNCHANGED leaked
         \/ UNCHANGED <<queue, refs, leaked>>
  PROVE  MessageInv'
<1>0. /\ msg \in [Object -> Data \cup {Absent, Closed, Empty}]
      /\ refs \in [Data -> Nat] /\ queue \in Seq(Data \cup {Empty})
      /\ fresh \subseteq Data /\ leaked \subseteq Data /\ copied \subseteq Data
  BY DEF MessageInv, MessageTypeOK
<1>1. /\ queue' \in Seq(Data \cup {Empty}) /\ leaked' \subseteq Data
      /\ refs' = [e \in Data |-> refs'[e]]
      /\ d \in fresh /\ fresh' = fresh \ {d}
  <2>1. Append(queue, d) \in Seq(Data \cup {Empty})
    BY <1>0, AppendProperties
  <2>2. queue' = queue \/ queue' = Append(queue, d)
    OBVIOUS
  <2>3. queue' \in Seq(Data \cup {Empty})
    BY <1>0, <2>1, <2>2
  <2>4. leaked' = leaked \/ leaked' = leaked \cup {d}
    OBVIOUS
  <2>5. refs' = refs \/ refs' = [refs EXCEPT ![d] = 1]
    OBVIOUS
  <2>6. refs' = [e \in Data |-> refs'[e]]
    BY <1>0, <2>5
  <2> QED
    BY <1>0, <2>3, <2>4, <2>6 DEF Allocate
<1>2. ASSUME NEW e \in Data
      PROVE  Kept(e)
  <2>1. PICK n \in Nat : n = Count(Object, msg, e)
    BY Counts
  <2>2. PICK k \in Nat : k = Queued(queue, e)
    BY Counts
  <2>3. PICK j \in {0, 1} : j = Leaked(e)
    BY Counts
  <2>4. /\ refs[e] = n + k + j
        /\ (e \in fresh => n = 0 /\ k = 0 /\ j = 0)
        /\ (refs[e] > 1 => e \in copied)
    BY <2>1, <2>2, <2>3, Counts DEF Exact, MessageInv, Unshared
  <2>5. Count(Object, msg', e) = n
    BY <2>1
  <2>6. CASE UNCHANGED <<queue, refs, leaked>>
    <3>1. Leaked(e)' = j /\ Queued(queue', e) = k
      BY <2>2, <2>3, <2>6 DEF Leaked
    <3> QED
      BY <1>1, <2>4, <2>5, <2>6, <3>1 DEF Kept, Exact
  <2>7. CASE /\ leaked' = leaked \cup {d} /\ refs' = [refs EXCEPT ![d] = 1]
             /\ UNCHANGED queue
    <3>1. Queued(queue', e) = k /\ Leaked(e)' = IF e = d THEN 1 ELSE j
      BY <2>2, <2>3, <2>7 DEF Leaked
    <3>2. refs'[e] = IF e = d THEN 1 ELSE refs[e]
      BY <1>0, <2>7
    <3> QED
      BY <1>1, <2>4, <2>5, <3>1, <3>2 DEF Kept, Exact
  <2>8. CASE /\ queue' = Append(queue, d) /\ refs' = [refs EXCEPT ![d] = 1]
             /\ UNCHANGED leaked
    <3>1. Queued(queue', e) = k + Hit(d, e) /\ Leaked(e)' = j
      BY <1>0, <2>2, <2>3, <2>8, QueuedAppend DEF Leaked
    <3>2. refs'[e] = IF e = d THEN 1 ELSE refs[e]
      BY <1>0, <2>8
    <3> QED
      BY <1>1, <2>4, <2>5, <3>1, <3>2 DEF Kept, Exact, Hit
  <2> QED
    BY <2>6, <2>7, <2>8
<1> QED
  BY <1>0, <1>1, <1>2, AllKept

(* What an object holds goes into the queue.                               *)
LEMMA Sent ==
  ASSUME MessageInv, NEW o \in Object, SendMessage(o)
  PROVE  MessageInv'
<1>0. /\ msg \in [Object -> Data \cup {Absent, Closed, Empty}]
      /\ refs \in [Data -> Nat] /\ queue \in Seq(Data \cup {Empty})
      /\ fresh \subseteq Data /\ leaked \subseteq Data /\ copied \subseteq Data
  BY DEF MessageInv, MessageTypeOK
<1>1. /\ msg[o] \in Data \cup {Empty} /\ queue' = Append(queue, msg[o])
      /\ msg' = [msg EXCEPT ![o] = Empty]
      /\ UNCHANGED <<refs, fresh, leaked, copied>>
      /\ queue' \in Seq(Data \cup {Empty})
  BY <1>0, AppendProperties DEF SendMessage
<1>2. ASSUME NEW d \in Data
      PROVE  Kept(d)
  <2>1. PICK n \in Nat : n = Count(Object, msg, d)
    BY Counts
  <2>2. PICK k \in Nat : k = Queued(queue, d)
    BY Counts
  <2>3. PICK j \in {0, 1} : j = Leaked(d) /\ Leaked(d)' = j
    BY <1>1, Counts DEF Leaked
  <2>4. refs[d] = n + k + j
    BY <2>1, <2>2, <2>3, Counts DEF Exact
  <2>5. Count(Object, msg', d) = n - Hit(msg[o], d) + Hit(msg'[o], d)
    <3>1. \A p \in Object \ {o} : msg'[p] = msg[p]
      BY <1>0, <1>1
    <3> QED
      BY <2>1, <3>1, OneHolder
  <2>6. msg'[o] # d
    BY <1>0, <1>1, MessageAssumption
  <2>7. Queued(queue', d) = k + Hit(msg[o], d)
    BY <1>0, <1>1, <2>2, QueuedAppend
  <2>8. Exact(d)'
    BY <1>1, <2>3, <2>4, <2>5, <2>6, <2>7 DEF Exact, Hit
  <2> QED
    BY <1>0, <1>1, <2>8, Counts DEF Kept, MessageInv, Unshared
<1> QED
  BY <1>0, <1>1, <1>2, AllKept

(* What an object held goes, and it gets what is first in the queue.       *)
LEMMA Received ==
  ASSUME MessageInv, NEW o \in Object, queue # <<>>, RecvMessage(o)
  PROVE  MessageInv'
<1>0. /\ msg \in [Object -> Data \cup {Absent, Closed, Empty}]
      /\ refs \in [Data -> Nat] /\ queue \in Seq(Data \cup {Empty})
      /\ fresh \subseteq Data /\ leaked \subseteq Data /\ copied \subseteq Data
  BY DEF MessageInv, MessageTypeOK
<1>1. /\ msg' = [msg EXCEPT ![o] = Head(queue)] /\ queue' = Tail(queue)
      /\ refs' = Release(o) /\ UNCHANGED <<fresh, leaked, copied>>
      /\ Head(queue) \in Data \cup {Empty}
      /\ queue' \in Seq(Data \cup {Empty})
  <2>1. Head(queue) \in Data \cup {Empty} /\ Tail(queue) \in Seq(Data \cup {Empty})
    BY <1>0, HeadTailProperties
  <2>2. msg' = [msg EXCEPT ![o] = Head(queue)] /\ queue' = Tail(queue)
    BY DEF RecvMessage
  <2>3. refs' = Release(o) /\ UNCHANGED <<fresh, leaked, copied>>
    BY DEF RecvMessage
  <2> QED
    BY <2>1, <2>2, <2>3
<1>2. ASSUME NEW d \in Data
      PROVE  Kept(d)
  <2>1. PICK n \in Nat : n = Count(Object, msg, d)
    BY Counts
  <2>2. PICK k \in Nat : k = Queued(queue, d)
    BY Counts
  <2>3. PICK j \in {0, 1} : j = Leaked(d) /\ Leaked(d)' = j
    BY <1>1, Counts DEF Leaked
  <2>4. /\ refs[d] = n + k + j /\ (msg[o] = d => n >= 1)
        /\ (Head(queue) = d => k >= 1)
        /\ (refs[d] > 1 => d \in copied)
        /\ (d \in fresh => refs[d] = 0)
    BY <2>1, <2>2, <2>3, Counts DEF Exact, MessageInv, Unshared
  <2>5. Count(Object, msg', d) = n - Hit(msg[o], d) + Hit(msg'[o], d)
    <3>1. \A p \in Object \ {o} : msg'[p] = msg[p]
      BY <1>0, <1>1
    <3> QED
      BY <2>1, <3>1, OneHolder
  <2>6. msg'[o] = Head(queue)
    BY <1>0, <1>1
  <2>7. Queued(queue', d) = k - Hit(Head(queue), d)
    BY <1>0, <1>1, <2>2, QueuedTail
  <2>8. refs'[d] = refs[d] - Hit(msg[o], d)
    BY <1>0, <1>1, <2>4 DEF Release, Hit
  <2>9. Exact(d)' /\ refs'[d] \in Nat
    BY <2>3, <2>4, <2>5, <2>6, <2>7, <2>8 DEF Exact, Hit
  <2>10. (d \in fresh' => refs'[d] = 0) /\ (refs'[d] > 1 => d \in copied')
    BY <1>1, <2>4, <2>8, <2>9 DEF Hit
  <2> QED
    BY <2>9, <2>10 DEF Kept
<1>3. refs' = [d \in Data |-> refs'[d]]
  BY <1>1 DEF Release
<1> QED
  BY <1>0, <1>1, <1>2, <1>3, AllKept

LEMMA ReceivedByBuffer ==
  ASSUME MessageInv, RecvBuffer
  PROVE  MessageInv'
<1>0. /\ msg \in [Object -> Data \cup {Absent, Closed, Empty}]
      /\ refs \in [Data -> Nat] /\ queue \in Seq(Data \cup {Empty})
      /\ fresh \subseteq Data /\ leaked \subseteq Data /\ copied \subseteq Data
  BY DEF MessageInv, MessageTypeOK
<1>1. /\ queue # <<>> /\ queue' = Tail(queue)
      /\ refs' = [d \in Data |-> IF Head(queue) = d THEN refs[d] - 1 ELSE refs[d]]
      /\ UNCHANGED <<msg, fresh, leaked, copied>>
  BY DEF RecvBuffer
<1>2. queue' \in Seq(Data \cup {Empty})
  BY <1>0, <1>1, HeadTailProperties
<1>3. ASSUME NEW d \in Data
      PROVE  Kept(d)
  <2>1. PICK n \in Nat : n = Count(Object, msg, d) /\ Count(Object, msg', d) = n
    BY <1>1, Counts
  <2>2. PICK k \in Nat : k = Queued(queue, d)
    BY Counts
  <2>3. PICK j \in {0, 1} : j = Leaked(d) /\ Leaked(d)' = j
    BY <1>1, Counts DEF Leaked
  <2>4. /\ refs[d] = n + k + j /\ (Head(queue) = d => k >= 1)
        /\ (refs[d] > 1 => d \in copied)
        /\ (d \in fresh => refs[d] = 0)
    BY <1>1, <2>1, <2>2, <2>3, Counts DEF Exact, MessageInv, Unshared
  <2>5. Queued(queue', d) = k - Hit(Head(queue), d)
    BY <1>0, <1>1, <2>2, QueuedTail
  <2>6. refs'[d] = refs[d] - Hit(Head(queue), d)
    BY <1>1, <2>4 DEF Hit
  <2>7. Exact(d)' /\ refs'[d] \in Nat
    BY <2>1, <2>3, <2>4, <2>5, <2>6 DEF Exact, Hit
  <2>8. (d \in fresh' => refs'[d] = 0) /\ (refs'[d] > 1 => d \in copied')
    BY <1>1, <2>4, <2>6, <2>7 DEF Hit
  <2> QED
    BY <2>7, <2>8 DEF Kept
<1>4. refs' = [d \in Data |-> refs'[d]]
  BY <1>1
<1> QED
  BY <1>0, <1>1, <1>2, <1>3, <1>4, AllKept

(* Every step of a program with its messages and its sockets.              *)
LEMMA ObjectKeeps ==
  ASSUME MessageInv, NEW o \in Object, MessageStep(o)
  PROVE  MessageInv'
<1>0. /\ msg \in [Object -> Data \cup {Absent, Closed, Empty}]
      /\ refs \in [Data -> Nat] /\ fresh \subseteq Data
  BY DEF MessageInv, MessageTypeOK
<1>1. \A d \in Data : d # Absent /\ d # Closed /\ d # Empty
  BY MessageAssumption
<1>2. ASSUME MessageDefault(o)
      PROVE  MessageInv'
  <2>1. /\ Becomes(o, Empty)
        /\ UNCHANGED <<fresh, queue, leaked, copied>>
        /\ Empty \notin Data
        /\ Exchanged(o, Empty)
    BY <1>0, <1>1, <1>2 DEF MessageDefault, Constructed, Exchanged, Becomes
  <2> QED
    BY <2>1, Released
<1>3. ASSUME MessageSized(o)
      PROVE  MessageInv'
  <2>1. PICK x \in Data : /\ Allocate(x) /\ msg' = [msg EXCEPT ![o] = x]
                          /\ refs' = [refs EXCEPT ![x] = 1]
    BY <1>3 DEF MessageSized
  <2>2. UNCHANGED <<queue, leaked, copied>> /\ msg[o] = Absent
    BY <1>3 DEF MessageSized, Constructed
  <2>3. Exchanged(o, x) /\ Becomes(o, x)
    BY <1>0, <1>1, <2>1, <2>2 DEF Exchanged, Becomes
  <2> QED
    BY <2>1, <2>2, <2>3, Released DEF Allocate
<1>4. ASSUME Destroy(o) \/ Rebuild(o)
      PROVE  MessageInv'
  <2>1. PICK x \in {Absent, Empty} : msg' = [msg EXCEPT ![o] = x]
    BY <1>4 DEF Destroy, Rebuild
  <2>2. refs' = Release(o) /\ UNCHANGED <<queue, fresh, leaked, copied>>
    BY <1>4 DEF Destroy, Rebuild
  <2>3. /\ x \notin Data
        /\ Exchanged(o, x) /\ Becomes(o, x)
    BY <1>0, <1>1, <2>1, <2>2 DEF Release, Exchanged, Becomes
  <2> QED
    BY <2>1, <2>2, <2>3, Released
<1>5. ASSUME RebuildSized(o)
      PROVE  MessageInv'
  <2>0. UNCHANGED <<queue, leaked, copied>>
    BY <1>5 DEF RebuildSized
  <2>1. ASSUME NEW x \in Data, Allocate(x), msg' = [msg EXCEPT ![o] = x],
               refs' = [Release(o) EXCEPT ![x] = 1]
        PROVE  MessageInv'
    <3>1. Exchanged(o, x) /\ Becomes(o, x)
      BY <1>0, <2>1 DEF Release, Exchanged, Becomes
    <3> QED
      BY <2>0, <2>1, <3>1, Released DEF Allocate
  <2>2. ASSUME refs' = Release(o), fresh' = fresh, msg' = [msg EXCEPT ![o] = Closed]
        PROVE  MessageInv'
    <3>1. /\ Closed \notin Data
          /\ Exchanged(o, Closed) /\ Becomes(o, Closed)
      BY <1>0, <1>1, <2>2 DEF Release, Exchanged, Becomes
    <3> QED
      BY <2>0, <2>2, <3>1, Released
  <2> QED
    BY <1>5, <2>1, <2>2 DEF RebuildSized
<1>6. ASSUME NEW r \in Object, MessageMoved(o, r) \/ MoveAssign(o, r) \/ Move(o, r)
      PROVE  MessageInv'
  <2>1. o # r /\ UNCHANGED <<queue, fresh, leaked, copied>>
    BY <1>6 DEF MessageMoved, MoveAssign, Move, Constructed
  <2> QED
    BY <1>6, <2>1, Moved
<1>7. ASSUME NEW d \in Data, CopyThrows(d), UNCHANGED <<msg, queue, copied>>
      PROVE  MessageInv'
  BY <1>7, Passing DEF CopyThrows
<1> QED
  BY <1>2, <1>3, <1>4, <1>5, <1>6, <1>7, Copied
     DEF MessageStep, MessageOfData, MessageRange, RebuildOfData

LEMMA TransferKeeps ==
  ASSUME MessageInv, Transfer
  PROVE  MessageInv'
<1>1. ASSUME NEW o \in Object, RecvMessage(o)
      PROVE  MessageInv'
  <2>1. CASE queue # <<>>
    BY <1>1, <2>1, Received
  <2>2. CASE queue = <<>>
    <3>1. /\ msg' = [msg EXCEPT ![o] = Empty] /\ refs' = Release(o)
          /\ UNCHANGED <<queue, fresh, leaked, copied>>
      BY <1>1, <2>2 DEF RecvMessage
    <3>2. /\ Empty \notin Data
          /\ Exchanged(o, Empty) /\ Becomes(o, Empty)
      BY <3>1, MessageAssumption
         DEF Release, Exchanged, Becomes, MessageInv, MessageTypeOK
    <3> QED
      BY <3>1, <3>2, Released
  <2> QED
    BY <2>1, <2>2
<1>2. ASSUME SendRange
      PROVE  MessageInv'
  <2>1. PICK d \in Data :
          \/ CopyThrows(d) /\ UNCHANGED queue
          \/ /\ Allocate(d) /\ queue' = Append(queue, d)
             /\ refs' = [refs EXCEPT ![d] = 1] /\ UNCHANGED leaked
          \/ Allocate(d) /\ UNCHANGED <<queue, refs, leaked>>
    BY <1>2 DEF SendRange
  <2>2. UNCHANGED <<msg, copied>>
    BY <1>2 DEF SendRange
  <2> QED
    BY <2>1, <2>2, Passing DEF CopyThrows
<1>3. ASSUME SendBuffer
      PROVE  MessageInv'
  BY <1>3, Passing DEF SendBuffer
<1> QED
  BY <1>1, <1>2, <1>3, Sent, ReceivedByBuffer DEF Transfer

LEMMA MessageKeeps ==
  ASSUME MessageInv,
         \/ \E o \in Object : MessageStep(o)
         \/ Transfer
         \/ UNCHANGED messageVars
  PROVE  MessageInv'
<1>1. ASSUME UNCHANGED messageVars
      PROVE  MessageInv'
  BY <1>1 DEF messageVars, MessageInv, MessageTypeOK, Exact, Leaked, Unshared
<1> QED
  BY <1>1, ObjectKeeps, TransferKeeps

=============================================================================
