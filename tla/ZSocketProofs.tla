---------------------------- MODULE ZSocketProofs ----------------------------
(***************************************************************************)
(* Proofs about ZSocket, for any messages of any sizes and with every      *)
(* fault.                                                                  *)
(***************************************************************************)
EXTENDS ZSocket, SequenceTheorems, TLAPS

(* What appending one element does, and taking one off.                    *)
LEMMA Appended ==
  ASSUME NEW S, NEW s \in Seq(S), NEW e \in S
  PROVE  /\ Append(s, e) \in Seq(S) /\ Len(s) \in Nat
         /\ Len(Append(s, e)) = Len(s) + 1
         /\ \A i \in 1 .. Len(s) + 1 :
              Append(s, e)[i] = IF i = Len(s) + 1 THEN e ELSE s[i]
<1>1. \A i \in 1 .. Len(s) + 1 : i = Len(s) + 1 \/ i \in 1 .. Len(s)
  BY LenProperties
<1> QED
  BY <1>1, AppendProperties, LenProperties

LEMMA TakenOff ==
  ASSUME NEW S, NEW s \in Seq(S), s # <<>>
  PROVE  /\ Head(s) \in S /\ Head(s) = s[1]
         /\ Tail(s) \in Seq(S) /\ Len(s) \in Nat \ {0}
         /\ Len(Tail(s)) = Len(s) - 1
         /\ \A i \in 1 .. Len(s) - 1 : Tail(s)[i] = s[i + 1]
  BY HeadTailProperties, EmptySeq

LEMMA Longer ==
  ASSUME NEW s \in Seq(Frame), NEW e \in Frame
  PROVE  \E g \in Seq(Frame), a \in Nat :
           /\ g = Append(s, e) /\ Len(s) = a /\ Len(g) = a + 1
           /\ \A i \in 1 .. a + 1 : g[i] = IF i = a + 1 THEN e ELSE s[i]
<1>1. Append(s, e) \in Seq(Frame) /\ Len(s) \in Nat
  BY Appended
<1> WITNESS Append(s, e) \in Seq(Frame), Len(s) \in Nat
<1> QED
  BY Appended

LEMMA Shorter ==
  ASSUME NEW s \in Seq(Frame), s # <<>>
  PROVE  \E t \in Seq(Frame), b \in Nat :
           /\ t = Tail(s) /\ Len(s) = b + 1 /\ Len(t) = b
           /\ Head(s) = s[1] /\ Head(s) \in Frame
           /\ \A i \in 1 .. b : t[i] = s[i + 1]
<1>1. Len(s) - 1 \in Nat /\ Len(s) = (Len(s) - 1) + 1
  BY TakenOff
<1>2. Tail(s) \in Seq(Frame)
  BY TakenOff
<1> WITNESS Tail(s) \in Seq(Frame), Len(s) - 1 \in Nat
<1> QED
  BY <1>1, TakenOff

-----------------------------------------------------------------------------
(* Type correctness.  The loop of Send stands at one of the frames.        *)

TypeInv == TypeOK /\ (spc = "frame" => fleft \in 1 .. size[msg])

LEMMA Sizes == ASSUME NEW m \in Message
               PROVE  size[m] \in Nat
  BY SocketAssumption

LEMMA FrameTypes ==
  ASSUME TypeInv, spc = "frame"
  PROVE  /\ ThisFrame \in Frame /\ Part \in Nat /\ fleft - 1 \in Nat
         /\ ThisFrame = FrameOf(msg, Part)
         /\ NextFrame => /\ spc' \in {"idle", "frame"} /\ fleft' \in Nat
                         /\ spc' = "frame" => fleft' \in 1 .. size[msg]
<1>1. fleft \in 1 .. size[msg] /\ msg \in Message /\ size[msg] \in Nat
  BY Sizes DEF TypeInv, TypeOK
<1>2. Part \in Nat /\ fleft - 1 \in Nat /\ (Part = size[msg] <=> fleft = 1)
  BY <1>1 DEF Part
<1>3. ThisFrame \in Frame /\ ThisFrame = FrameOf(msg, Part)
  BY <1>1, <1>2 DEF ThisFrame, Frame, FrameOf
<1>4. NextFrame => /\ spc' \in {"idle", "frame"} /\ fleft' \in Nat
                   /\ spc' = "frame" => fleft' \in 1 .. size[msg]
  BY <1>1 DEF NextFrame
<1> QED
  BY <1>2, <1>3, <1>4

(* What the receiver takes its next frame from.                            *)
LEMMA Incomes ==
  ASSUME TypeInv, Arrived
  PROVE  /\ Incoming \in Seq(Frame)
         /\ rest = <<>> => pipe # <<>> /\ Incoming = Head(pipe)
         /\ rest # <<>> => Incoming = rest
  BY HeadTailProperties DEF TypeInv, TypeOK, Arrived, Incoming

(* The number of the message that is received now, or next.                *)
Current == IF rest # <<>> THEN Taken ELSE Taken + 1

(* Taking a frame begins the next message or goes on with the current one. *)
LEMMA TakesOne ==
  ASSUME TypeInv, Arrived, Take
  PROVE  Taken' = Current
<1>1. /\ UNCHANGED accepted
      /\ pipe' = (IF rest # <<>> THEN pipe ELSE Tail(pipe))
  BY DEF Take, sendVars
<1>2. PICK a \in Nat, b \in Nat : a = Len(accepted) /\ b = Len(pipe)
  BY LenProperties DEF TypeInv, TypeOK
<1>3. CASE rest # <<>>
  BY <1>1, <1>3 DEF Taken, Current
<1>4. CASE rest = <<>>
  <2>1. Len(pipe') = b - 1
    BY <1>1, <1>2, <1>4, TakenOff DEF Arrived, TypeInv, TypeOK
  <2>2. Taken' = a - (b - 1) /\ Current = (a - b) + 1
    BY <1>1, <1>2, <1>4, <2>1 DEF Taken, Current
  <2> QED
    BY <2>2
<1> QED
  BY <1>3, <1>4

LEMMA TypeStep ==
  /\ TypeInv
  /\ Arrived => Incoming # <<>> /\ Current \in Nat
  /\ Taken \in Nat
  /\ [Next]_vars
  => TypeInv'
<1> SUFFICES ASSUME TypeInv, [Next]_vars, Taken \in Nat,
                    Arrived => Incoming # <<>> /\ Current \in Nat
             PROVE  TypeInv'
  OBVIOUS
<1> USE DEF TypeInv, TypeOK
<1>1. CASE UNCHANGED vars
  BY <1>1 DEF vars, sendVars, recvVars
<1>2. ASSUME NEW m \in Message, Send(m)
      PROVE  TypeInv'
  BY <1>2, Sizes DEF Send, recvVars
<1>3. CASE SendFrame
  <2>1. spc = "frame" /\ NextFrame
        /\ UNCHANGED <<type, msg, dropping, socket, calls, recvVars>>
    BY <1>3 DEF SendFrame
  <2>2. /\ partial' \in Seq(Frame) /\ pipe' \in Seq(Seq(Frame))
        /\ accepted' \in Seq(Message)
    <3>1. /\ Append(partial, ThisFrame) \in Seq(Frame)
          /\ <<>> \in Seq(Frame)
      BY <2>1, FrameTypes, Appended, EmptySeq
    <3>2. /\ Append(pipe, Append(partial, ThisFrame)) \in Seq(Seq(Frame))
          /\ Append(accepted, msg) \in Seq(Message)
      BY <3>1, Appended
    <3> QED
      BY <1>3, <3>1, <3>2 DEF SendFrame, Write
  <2> QED
    BY <2>1, <2>2, FrameTypes DEF recvVars
<1>4. CASE SendDrops
  BY <1>4, FrameTypes DEF SendDrops, ThisFrame, recvVars
<1>5. CASE SendThrows
  BY <1>5 DEF SendThrows, Abandon, recvVars
<1>6. CASE SocketCloses
  BY <1>6, EmptySeq DEF SocketCloses, recvVars
<1>7. ASSUME NEW how \in {"blocking", "nonblocking"}, Recv(how)
      PROVE  TypeInv'
  BY <1>7, EmptySeq DEF Recv, sendVars
<1>8. ASSUME RecvFrame \/ RecvFails
      PROVE  TypeInv'
  <2>1. /\ Arrived /\ Take /\ Incoming \in Seq(Frame) /\ Incoming # <<>>
        /\ UNCHANGED <<sendVars, context>>
    BY <1>8, Incomes DEF RecvFrame, RecvFails, Take
  <2>2. Head(Incoming) \in Frame /\ rest' \in Seq(Frame) /\ <<>> \in Seq(Frame)
    BY <2>1, TakenOff, EmptySeq DEF Take
  <2>3. Append(frames, Head(Incoming)) \in Seq(Frame)
    BY <2>2, Appended
  <2>4. pipe' \in Seq(Seq(Frame)) /\ Taken' \in Nat
    BY <2>1, Incomes, TakenOff, TakesOne DEF Take
  <2>5. Append(returned, [nth |-> Taken', frames |-> Append(frames, Head(Incoming))])
          \in Seq(Result)
    BY <2>3, <2>4, Appended DEF Result
  <2>6. /\ rpc' \in {"idle", "blocking", "nonblocking"}
        /\ frames' \in Seq(Frame) /\ returned' \in Seq(Result)
        /\ hurt' \subseteq Nat
    BY <1>8, <2>2, <2>3, <2>4, <2>5 DEF RecvFrame, RecvFails, Gather, Return, GoOn
  <2> QED
    BY <2>1, <2>2, <2>4, <2>6 DEF sendVars
<1>9. CASE RecvThrows
  BY <1>9, EmptySeq DEF RecvThrows, sendVars
<1>10. CASE ContextTerminated
  BY <1>10 DEF ContextTerminated, sendVars
<1> QED
  BY <1>1, <1>2, <1>3, <1>4, <1>5, <1>6, <1>7, <1>8, <1>9, <1>10
  DEF Next, Sends, Receives

LEMMA TypeInit == Init => TypeInv
<1>1. /\ <<>> \in Seq(Frame) /\ <<>> \in Seq(Message) /\ <<>> \in Seq(Seq(Frame))
      /\ <<>> \in Seq(Result)
  BY EmptySeq
<1> SUFFICES ASSUME Init
             PROVE  TypeInv
  OBVIOUS
<1>2. partial \in Seq(Frame) /\ rest \in Seq(Frame) /\ frames \in Seq(Frame)
  BY <1>1 DEF Init
<1>3. pipe \in Seq(Seq(Frame)) /\ returned \in Seq(Result) /\ hurt \subseteq Nat
  BY <1>1 DEF Init
<1>4. accepted \in Seq(Message) /\ context \in {"up", "down"}
  BY <1>1 DEF Init
<1>5. /\ type \in SocketTypes /\ dropping \in BOOLEAN /\ spc = "idle"
      /\ msg \in Message /\ fleft \in Nat /\ socket = "open" /\ rpc = "idle"
      /\ calls \in Nat
  BY DEF Init
<1> QED
  BY <1>2, <1>3, <1>4, <1>5 DEF TypeInv, TypeOK

-----------------------------------------------------------------------------
(* What the connection and the receiver hold.                              *)

(* A complete message of the connection: only its last frame has no more().*)
Whole(p) == /\ Len(p) >= 1
            /\ \A i \in 1 .. Len(p) : p[i].more = (i # Len(p))

(* Of the frames of s, which follow d others, those behind the first n are *)
(* those of m, in order.                                                   *)
From(s, d, n, m) ==
  \A k \in 1 .. Len(s) : d + k > n => s[k] = FrameOf(m, d + k - n)

(* The frames of f and those of r behind them end with the message m; with *)
(* Int for N they may also be only the end of it.                          *)
Joined(N, f, r, m) ==
  \E n \in N : /\ Len(f) + Len(r) = n + size[m]
               /\ From(f, 0, n, m) /\ From(r, Len(f), n, m)

Room(k) == IF k \in hurt THEN Int ELSE Nat

(* Send: what is in the connection of the message it stands at.            *)
SendInv ==
  /\ \A i \in 1 .. Len(partial) : partial[i].more = TRUE
  /\ dropping \/ socket = "closed" => partial = <<>>
  /\ spc = "frame" /\ socket = "open" /\ ~dropping =>
       \E n \in Nat : /\ Len(partial) = n + (size[msg] - fleft)
                      /\ From(partial, 0, n, msg)

PipeInv ==
  /\ Taken \in Nat /\ hurt \subseteq 1 .. Taken
  /\ \A k \in 1 .. Len(pipe) :
       Whole(pipe[k]) /\ Joined(Nat, <<>>, pipe[k], accepted[Taken + k])

RecvInv ==
  /\ rpc = "idle" => frames = <<>>
  /\ frames # <<>> => rest # <<>>
  /\ rest # <<>> => /\ Taken # 0 /\ (frames = <<>> => Taken \in hurt)
                    /\ Whole(rest)
                    /\ Joined(Room(Taken), frames, rest, accepted[Taken])

(* The results are those of the messages before the current one, in order. *)
OrderInv ==
  /\ \A i \in 1 .. Len(returned) : returned[i].nth \in 1 .. Current - 1
  /\ \A i, j \in 1 .. Len(returned) : i < j => returned[i].nth < returned[j].nth
  /\ \A n \in 1 .. Current - 1 :
       n \in hurt \/ \E i \in 1 .. Len(returned) : returned[i].nth = n

ReturnInv ==
  \A i \in 1 .. Len(returned) :
    LET n == returned[i].nth IN
      Joined(Room(n), returned[i].frames, <<>>, accepted[n])

FrameInv == SendInv /\ PipeInv /\ RecvInv /\ OrderInv /\ ReturnInv

-----------------------------------------------------------------------------
(* One frame more or less.                                                 *)

(* Taking the next frame over into frames leaves the message as it is.     *)
LEMMA Shifted ==
  ASSUME NEW N \in SUBSET Int, NEW f \in Seq(Frame), NEW r \in Seq(Frame), r # <<>>,
         NEW m \in Message, Joined(N, f, r, m)
  PROVE  Joined(N, Append(f, Head(r)), Tail(r), m)
<1>1. PICK t \in Seq(Frame), b \in Nat :
        /\ t = Tail(r) /\ Len(r) = b + 1 /\ Len(t) = b
        /\ Head(r) = r[1] /\ Head(r) \in Frame
        /\ \A i \in 1 .. b : t[i] = r[i + 1]
  BY Shorter
<1>2. PICK g \in Seq(Frame), a \in Nat :
        /\ g = Append(f, Head(r)) /\ Len(f) = a /\ Len(g) = a + 1
        /\ \A i \in 1 .. a + 1 : g[i] = IF i = a + 1 THEN Head(r) ELSE f[i]
  BY <1>1, Longer
<1>3. PICK n \in N : /\ n \in Int /\ Len(f) + Len(r) = n + size[m]
                     /\ From(f, 0, n, m) /\ From(r, Len(f), n, m)
  BY DEF Joined
<1>4. /\ \A k \in 1 .. a : 0 + k > n => f[k] = FrameOf(m, 0 + k - n)
      /\ \A k \in 1 .. b + 1 : a + k > n => r[k] = FrameOf(m, a + k - n)
  BY <1>1, <1>2, <1>3 DEF From
<1>5. ASSUME NEW k \in 1 .. a + 1, 0 + k > n
      PROVE  g[k] = FrameOf(m, 0 + k - n)
  <2>1. CASE k = a + 1
    <3>1. 1 \in 1 .. b + 1 /\ a + 1 > n /\ a + 1 - n = 0 + k - n
      BY <1>5, <2>1
    <3>2. r[1] = FrameOf(m, a + 1 - n)
      BY <1>4, <3>1
    <3> QED
      BY <1>1, <1>2, <2>1, <3>1, <3>2
  <2>2. CASE k # a + 1
    <3>1. k \in 1 .. a
      BY <2>2
    <3> QED
      BY <1>2, <1>4, <1>5, <2>2, <3>1
  <2> QED
    BY <2>1, <2>2
<1>6. ASSUME NEW k \in 1 .. b, (a + 1) + k > n
      PROVE  t[k] = FrameOf(m, (a + 1) + k - n)
  <2>1. k + 1 \in 1 .. b + 1 /\ a + (k + 1) > n
        /\ a + (k + 1) - n = (a + 1) + k - n
    BY <1>6
  <2>2. r[k + 1] = FrameOf(m, a + (k + 1) - n)
    BY <1>4, <2>1
  <2> QED
    BY <1>1, <2>1, <2>2
<1>7. Len(g) + Len(t) = n + size[m]
  <2>1. a + (b + 1) = n + size[m]
    BY <1>1, <1>2, <1>3
  <2>2. (a + 1) + b = a + (b + 1)
    OBVIOUS
  <2> QED
    BY <1>1, <1>2, <2>1, <2>2
<1>8. From(g, 0, n, m)
  BY <1>2, <1>5 DEF From
<1>9. From(t, Len(g), n, m)
  BY <1>1, <1>2, <1>6 DEF From
<1>10. Joined(N, g, t, m)
  BY <1>7, <1>8, <1>9 DEF Joined
<1> QED
  BY <1>1, <1>2, <1>10

(* Without the frames gathered so far what is left is the message's end.   *)
LEMMA Dropped ==
  ASSUME NEW N \in SUBSET Int, NEW f \in Seq(Frame), NEW r \in Seq(Frame),
         NEW m \in Message, Joined(N, f, r, m)
  PROVE  Joined(Int, <<>>, r, m)
<1>1. PICK a \in Nat, b \in Nat, c \in Nat : a = Len(f) /\ b = Len(r) /\ c = size[m]
  BY Sizes, LenProperties
<1>2. PICK n \in N : /\ n \in Int /\ a + b = n + c
                     /\ From(r, a, n, m)
  BY <1>1 DEF Joined
<1>3. PICK d \in Int : d = n - a
  BY <1>2
<1>4. 0 + b = d + c
  BY <1>2, <1>3
<1>5. ASSUME NEW k \in 1 .. b, 0 + k > d
      PROVE  r[k] = FrameOf(m, 0 + k - d)
  <2>1. a + k > n /\ a + k - n = 0 + k - d
    BY <1>2, <1>3, <1>5
  <2> QED
    BY <1>1, <1>2, <2>1 DEF From
<1>6. From(r, 0, d, m)
  BY <1>1, <1>5 DEF From
<1>7. Len(<<>>) = 0 /\ From(<<>>, 0, d, m)
  BY DEF From
<1> QED
  BY <1>1, <1>4, <1>6, <1>7 DEF Joined

LEMMA Loosened ==
  ASSUME NEW N \in {Nat, Int}, NEW f, NEW r, NEW m, Joined(N, f, r, m)
  PROVE  Joined(Int, f, r, m)
BY DEF Joined

LEMMA Strict ==
  ASSUME NEW k, NEW f, NEW r, NEW m, Joined(Nat, f, r, m)
  PROVE  Joined(Room(k), f, r, m)
BY Loosened DEF Room

(* The rest of a complete message is complete, or there is none.           *)
LEMMA TailWhole ==
  ASSUME NEW r \in Seq(Frame), Whole(r)
  PROVE  /\ r # <<>>
         /\ Head(r).more => Tail(r) # <<>> /\ Whole(Tail(r))
         /\ ~Head(r).more => Tail(r) = <<>>
<1>1. r # <<>>
  BY EmptySeq DEF Whole
<1>2. /\ Head(r) = r[1] /\ Tail(r) \in Seq(Frame) /\ Len(r) \in Nat \ {0}
      /\ Len(Tail(r)) = Len(r) - 1
      /\ \A i \in 1 .. Len(r) - 1 : Tail(r)[i] = r[i + 1]
  BY <1>1, TakenOff
<1>3. Head(r).more = (Len(r) # 1)
  <2>1. 1 \in 1 .. Len(r)
    BY <1>2
  <2> QED
    BY <1>2, <2>1 DEF Whole
<1>4. Head(r).more => Len(r) # 1
  BY <1>3
<1>5. ~Head(r).more => Len(r) = 1
  BY <1>3
<1>6. Len(<<>>) = 0
  OBVIOUS
<1>7. CASE Len(r) = 1
  <2>1. Len(Tail(r)) = 0 /\ ~Head(r).more
    BY <1>2, <1>4, <1>7
  <2>2. Tail(r) = <<>>
    BY <1>2, <2>1, EmptySeq
  <2> QED
    BY <1>1, <2>1, <2>2
<1>8. CASE Len(r) # 1
  <2>1. PICK t \in Seq(Frame) :
          /\ t = Tail(r) /\ Len(t) = Len(r) - 1
          /\ \A i \in 1 .. Len(r) - 1 : t[i] = r[i + 1]
    BY <1>2
  <2>2. Len(t) >= 1 /\ t # <<>>
    <3>1. Len(t) >= 1
      BY <1>2, <1>8, <2>1
    <3> QED
      BY <1>6, <3>1
  <2>3. ASSUME NEW i \in 1 .. Len(t)
        PROVE  t[i].more = (i # Len(t))
    <3>1. i + 1 \in 1 .. Len(r) /\ i \in 1 .. Len(r) - 1
          /\ (i + 1 # Len(r)) = (i # Len(t))
      BY <1>2, <2>1
    <3>2. t[i] = r[i + 1]
      BY <2>1, <3>1
    <3>3. r[i + 1].more = (i + 1 # Len(r))
      BY <3>1 DEF Whole
    <3> QED
      BY <3>1, <3>2, <3>3
  <2>4. Whole(t)
    BY <2>2, <2>3 DEF Whole
  <2> QED
    BY <1>1, <1>5, <1>8, <2>1, <2>2, <2>4
<1> QED
  BY <1>7, <1>8

(* A frame more of the message that Send is at; the last one completes it. *)
LEMMA Completed ==
  ASSUME TypeInv, SendInv, spc = "frame", socket = "open", ~dropping
  PROVE  /\ \E n \in Nat :
              /\ Len(Append(partial, ThisFrame)) = n + (size[msg] - (fleft - 1))
              /\ From(Append(partial, ThisFrame), 0, n, msg)
         /\ ThisFrame.more = (fleft # 1)
         /\ fleft = 1 => /\ Whole(Append(partial, ThisFrame))
                         /\ Joined(Nat, <<>>, Append(partial, ThisFrame), msg)
<1>1. /\ fleft \in 1 .. size[msg] /\ size[msg] \in Nat /\ msg \in Message
      /\ partial \in Seq(Frame) /\ fleft \in Nat
  BY Sizes DEF TypeInv, TypeOK
<1>2. ThisFrame \in Frame /\ ThisFrame = FrameOf(msg, Part)
      /\ ThisFrame.more = (fleft # 1)
  BY FrameTypes DEF ThisFrame
<1>3. PICK j \in Nat : j = size[msg] - fleft /\ Part = j + 1
                       /\ size[msg] - (fleft - 1) = j + 1
  BY <1>1 DEF Part
<1>4. PICK n \in Nat : Len(partial) = n + j /\ From(partial, 0, n, msg)
  BY <1>3 DEF SendInv
<1>6. PICK p \in Seq(Frame), a \in Nat :
        /\ p = Append(partial, ThisFrame) /\ Len(partial) = a /\ Len(p) = a + 1
        /\ \A i \in 1 .. a + 1 : p[i] = IF i = a + 1 THEN ThisFrame ELSE partial[i]
  BY <1>1, <1>2, Longer
<1>5. a = Len(partial) /\ a = n + j
  BY <1>4, <1>6
<1>7. ASSUME NEW k \in 1 .. a + 1, 0 + k > n
      PROVE  p[k] = FrameOf(msg, 0 + k - n)
  <2>1. CASE k = a + 1
    <3>1. 0 + k - n = j + 1
      BY <1>5, <2>1
    <3> QED
      BY <1>2, <1>3, <1>6, <2>1, <3>1
  <2>2. CASE k # a + 1
    <3>1. k \in 1 .. a
      BY <2>2
    <3> QED
      BY <1>4, <1>5, <1>6, <1>7, <2>2, <3>1 DEF From
  <2> QED
    BY <2>1, <2>2
<1>8. From(p, 0, n, msg) /\ Len(p) = n + (j + 1)
  BY <1>5, <1>6, <1>7 DEF From
<1>9. ASSUME fleft = 1
      PROVE  Whole(p) /\ Joined(Nat, <<>>, p, msg)
  <2>1. ASSUME NEW i \in 1 .. a + 1
        PROVE  p[i].more = (i # a + 1)
    <3>1. CASE i = a + 1
      BY <1>2, <1>6, <1>9, <3>1
    <3>2. CASE i # a + 1
      <4>1. i \in 1 .. Len(partial)
        BY <1>5, <3>2
      <4> QED
        BY <1>6, <3>2, <4>1 DEF SendInv
    <3> QED
      BY <3>1, <3>2
  <2>2. Whole(p)
    BY <1>6, <2>1 DEF Whole
  <2>3. Len(<<>>) = 0
    OBVIOUS
  <2>4. size[msg] = j + 1 /\ Len(<<>>) + Len(p) = n + size[msg]
    BY <1>1, <1>3, <1>6, <1>8, <1>9, <2>3
  <2>5. From(<<>>, 0, n, msg)
    BY <2>3 DEF From
  <2> QED
    BY <1>8, <2>2, <2>3, <2>4, <2>5 DEF Joined
<1> QED
  BY <1>2, <1>3, <1>6, <1>8, <1>9

-----------------------------------------------------------------------------
(* Each step keeps what the connection and the receiver hold.              *)

LEMMA Lengths ==
  ASSUME TypeInv
  PROVE  /\ Len(accepted) \in Nat /\ Len(returned) \in Nat /\ Len(pipe) \in Nat
         /\ \A k \in 1 .. Len(accepted) : accepted[k] \in Message
         /\ \A k \in 1 .. Len(pipe) : pipe[k] \in Seq(Frame)
         /\ \A k \in 1 .. Len(returned) : /\ returned[k].nth \in Nat
                                          /\ returned[k].frames \in Seq(Frame)
<1>1. \A k \in 1 .. Len(returned) : returned[k] \in Result
  BY ElementOfSeq DEF TypeInv, TypeOK
<1> QED
  BY <1>1, LenProperties, ElementOfSeq DEF TypeInv, TypeOK, Result

(* What the receiver takes its next frame from, together with what it has, *)
(* is the message that is to be returned next.                             *)
LEMMA NextIncoming ==
  ASSUME TypeInv, FrameInv, Arrived
  PROVE  /\ Incoming # <<>> /\ Whole(Incoming)
         /\ Current \in 1 .. Len(accepted)
         /\ Joined(Room(Current), frames, Incoming, accepted[Current])
<1>0. Taken \in Nat /\ Taken = Len(accepted) - Len(pipe)
  BY DEF FrameInv, PipeInv, Taken
<1>1. CASE rest # <<>>
  <2>1. /\ Whole(rest) /\ Joined(Room(Taken), frames, rest, accepted[Taken])
        /\ Current = Taken /\ Taken # 0
    BY <1>1 DEF FrameInv, RecvInv, Current
  <2>2. Current \in 1 .. Len(accepted)
    BY <1>0, <2>1, Lengths
  <2> QED
    BY <1>1, <2>1, <2>2, Incomes
<1>2. CASE rest = <<>>
  <2>1. /\ pipe # <<>> /\ Incoming = pipe[1] /\ Len(pipe) \in Nat \ {0}
        /\ Current = Taken + 1
    BY <1>2, Incomes, TakenOff DEF TypeInv, TypeOK, Current
  <2>2. 1 \in 1 .. Len(pipe) /\ Current \in 1 .. Len(accepted)
    BY <1>0, <2>1, Lengths
  <2>3. Whole(pipe[1]) /\ Joined(Nat, <<>>, pipe[1], accepted[Current])
    BY <2>1, <2>2 DEF FrameInv, PipeInv
  <2>4. frames = <<>>
    BY <1>2 DEF FrameInv, RecvInv
  <2>5. Incoming # <<>>
    BY <2>1, <2>3, EmptySeq DEF Whole
  <2> QED
    BY <2>1, <2>2, <2>3, <2>4, <2>5, Strict
<1> QED
  BY <1>1, <1>2

LEMMA SendStep ==
  TypeInv /\ SendInv /\ [Next]_vars => SendInv'
<1> SUFFICES ASSUME TypeInv, SendInv, [Next]_vars
             PROVE  SendInv'
  OBVIOUS
<1> DEFINE At(n) == /\ Len(partial) = n + (size[msg] - fleft)
                    /\ From(partial, 0, n, msg)
<1>1. CASE UNCHANGED sendVars
  BY <1>1 DEF sendVars, SendInv, From
<1>2. ASSUME NEW m \in Message, Send(m)
      PROVE  SendInv'
  <2>1. /\ msg' = m /\ fleft' = size[m]
        /\ UNCHANGED <<partial, dropping, socket>>
    BY <1>2 DEF Send
  <2>2. Len(partial) \in Nat /\ size[m] \in Nat
    BY Sizes, LenProperties DEF TypeInv, TypeOK
  <2>3. Len(partial) = Len(partial) + (size[m] - size[m])
    BY <2>2
  <2>4. From(partial, 0, Len(partial), m)
    BY <2>2 DEF From
  <2> QED
    BY <2>1, <2>2, <2>3, <2>4 DEF SendInv, From
<1>3. CASE SendFrame
  <2>1. /\ spc = "frame" /\ socket = "open" /\ ~dropping
        /\ Write(ThisFrame) /\ fleft' = fleft - 1
        /\ spc' = (IF fleft = 1 THEN "idle" ELSE "frame")
        /\ UNCHANGED <<msg, dropping, socket>>
    BY <1>3 DEF SendFrame, NextFrame
  <2>2. ThisFrame.more = (fleft # 1)
    BY <2>1, Completed
  <2>3. CASE fleft = 1
    <3>1. partial' = <<>> /\ spc' = "idle"
      BY <2>1, <2>2, <2>3 DEF Write
    <3>2. Len(<<>>) = 0
      OBVIOUS
    <3> QED
      BY <3>1, <3>2 DEF SendInv
  <2>4. CASE fleft # 1
    <3>1. partial' = Append(partial, ThisFrame)
      BY <2>1, <2>2, <2>4 DEF Write
    <3>2. PICK p \in Seq(Frame), a \in Nat :
            /\ p = Append(partial, ThisFrame) /\ Len(partial) = a /\ Len(p) = a + 1
            /\ \A i \in 1 .. a + 1 :
                 p[i] = IF i = a + 1 THEN ThisFrame ELSE partial[i]
      BY <2>1, FrameTypes, Longer DEF TypeInv, TypeOK
    <3>3. \A i \in 1 .. a : partial[i].more = TRUE
      BY <3>2 DEF SendInv
    <3>4. \A i \in 1 .. a + 1 : i = a + 1 \/ i \in 1 .. a
      OBVIOUS
    <3>5. \A i \in 1 .. a + 1 : p[i].more = TRUE
      BY <2>2, <2>4, <3>2, <3>3, <3>4
    <3>6. \E n \in Nat : /\ Len(p) = n + (size[msg] - (fleft - 1))
                        /\ From(p, 0, n, msg)
      BY <2>1, <3>2, Completed
    <3> QED
      BY <2>1, <3>1, <3>2, <3>5, <3>6 DEF SendInv, From
  <2> QED
    BY <2>3, <2>4
<1>4. CASE SendDrops
  <2>1. /\ partial = <<>> /\ partial' = <<>> /\ dropping' = ThisFrame.more
        /\ ThisFrame.more = (fleft # 1)
        /\ spc' = (IF fleft = 1 THEN "idle" ELSE "frame")
    BY <1>4 DEF SendDrops, NextFrame, Full, SendInv, ThisFrame
  <2>2. dropping' \/ spc' = "idle"
    BY <2>1
  <2>3. Len(<<>>) = 0
    OBVIOUS
  <2> QED
    BY <2>1, <2>2, <2>3 DEF SendInv
<1>5. CASE SendThrows
  BY <1>5 DEF SendThrows, Abandon, SendInv
<1>6. CASE SocketCloses
  <2>1. partial' = <<>> /\ socket' = "closed" /\ Len(<<>>) = 0
    BY <1>6 DEF SocketCloses
  <2> QED
    BY <2>1 DEF SendInv
<1> QED
  BY <1>1, <1>2, <1>3, <1>4, <1>5, <1>6
  DEF Next, vars, Sends, Receives, Recv, RecvFrame, RecvFails, Take, RecvThrows,
      ContextTerminated

(* A message that Send has finished with is the last one accepted.         *)
LEMMA AcceptStep ==
  ASSUME TypeInv, FrameInv, SendFrame
  PROVE  PipeInv' /\ RecvInv' /\ OrderInv' /\ ReturnInv'
<1>1. /\ spc = "frame" /\ socket = "open" /\ ~dropping /\ Write(ThisFrame)
      /\ UNCHANGED <<rpc, rest, frames, returned, hurt>>
  BY DEF SendFrame, recvVars
<1>2. ThisFrame.more = (fleft # 1)
  BY <1>1, Completed DEF FrameInv
<1>3. CASE fleft # 1
  <2>1. UNCHANGED <<pipe, accepted>>
    BY <1>1, <1>2, <1>3 DEF Write
  <2> QED
    BY <1>1, <2>1 DEF FrameInv, PipeInv, RecvInv, OrderInv, ReturnInv, Taken,
                      Current, Room
<1>4. CASE fleft = 1
  <2>1. PICK p \in Seq(Frame) :
          /\ p = Append(partial, ThisFrame) /\ Whole(p) /\ Joined(Nat, <<>>, p, msg)
    <3>1. Append(partial, ThisFrame) \in Seq(Frame)
      BY <1>1, FrameTypes, Longer DEF TypeInv, TypeOK
    <3> QED
      BY <1>1, <1>4, <3>1, Completed DEF FrameInv
  <2>2. pipe' = Append(pipe, p) /\ accepted' = Append(accepted, msg)
    BY <1>1, <1>2, <1>4, <2>1 DEF Write
  <2>3. /\ Len(pipe) \in Nat /\ Len(pipe') = Len(pipe) + 1
        /\ \A k \in 1 .. Len(pipe) + 1 :
             pipe'[k] = IF k = Len(pipe) + 1 THEN p ELSE pipe[k]
    BY <2>2, Appended DEF TypeInv, TypeOK
  <2>4. /\ Len(accepted) \in Nat /\ Len(accepted') = Len(accepted) + 1
        /\ \A k \in 1 .. Len(accepted) + 1 :
             accepted'[k] = IF k = Len(accepted) + 1 THEN msg ELSE accepted[k]
    BY <2>2, Appended DEF TypeInv, TypeOK
  <2>5. PICK a \in Nat, b \in Nat, c \in Nat :
          a = Len(accepted) /\ b = Len(pipe) /\ c = Taken /\ a = c + b
    BY <2>3, <2>4 DEF FrameInv, PipeInv, Taken
  <2>6. Taken' = c /\ c = Taken /\ Current' = Current
    BY <1>1, <2>3, <2>4, <2>5 DEF Taken, Current
  <2>7. ASSUME NEW k \in 1 .. b + 1
        PROVE  Whole(pipe'[k]) /\ Joined(Nat, <<>>, pipe'[k], accepted'[c + k])
    <3>1. CASE k = b + 1
      <4>1. pipe'[k] = p
        BY <2>3, <2>5, <3>1
      <4>2. c + k = a + 1 /\ a + 1 \in 1 .. a + 1
        BY <2>5, <3>1
      <4>3. accepted'[c + k] = msg
        BY <2>4, <2>5, <4>2
      <4> QED
        BY <2>1, <4>1, <4>3
    <3>2. CASE k # b + 1
      <4>1. k \in 1 .. b /\ c + k \in 1 .. a + 1 /\ c + k # a + 1
        BY <2>5, <3>2
      <4>2. pipe'[k] = pipe[k] /\ accepted'[c + k] = accepted[c + k]
        BY <2>3, <2>4, <2>5, <3>2, <4>1
      <4> QED
        BY <2>5, <4>1, <4>2 DEF FrameInv, PipeInv
    <3> QED
      BY <3>1, <3>2
  <2>8. PipeInv'
    BY <1>1, <2>3, <2>5, <2>6, <2>7 DEF FrameInv, PipeInv
  <2>9. \A k \in 1 .. c : accepted'[k] = accepted[k]
    <3>1. \A k \in 1 .. c : k \in 1 .. a + 1 /\ k # a + 1
      BY <2>5
    <3> QED
      BY <2>4, <2>5, <3>1
  <2>10. RecvInv'
    <3>1. rest # <<>> => accepted'[Taken] = accepted[Taken]
      BY <2>5, <2>9 DEF FrameInv, RecvInv
    <3> QED
      BY <1>1, <2>6, <3>1 DEF FrameInv, RecvInv, Room
  <2>11. OrderInv'
    BY <1>1, <2>6 DEF FrameInv, OrderInv
  <2>12. ReturnInv'
    <3>1. \A i \in 1 .. Len(returned) : returned[i].nth \in 1 .. c
      BY <2>6 DEF FrameInv, OrderInv, Current
    <3> QED
      BY <1>1, <2>9, <3>1 DEF FrameInv, ReturnInv, Room
  <2> QED
    BY <2>8, <2>10, <2>11, <2>12
<1> QED
  BY <1>3, <1>4

(* Taking a frame: what the connection holds, and what is left.            *)
LEMMA TakeStep ==
  ASSUME TypeInv, FrameInv, Arrived, Take
  PROVE  /\ Taken' = Current /\ Current \in Nat \ {0} /\ UNCHANGED accepted
         /\ accepted[Current] \in Message
         /\ \A k \in 1 .. Len(pipe') :
              /\ Whole(pipe'[k])
              /\ Joined(Nat, <<>>, pipe'[k], accepted[Current + k])
         /\ \A k \in hurt : k \in 1 .. Current
         /\ Incoming \in Seq(Frame) /\ Head(Incoming) \in Frame
         /\ Head(Incoming).more => rest' # <<>> /\ Whole(rest')
         /\ ~Head(Incoming).more => rest' = <<>>
         /\ Append(frames, Head(Incoming)) \in Seq(Frame)
         /\ Append(frames, Head(Incoming)) # <<>>
         /\ rest' \in Seq(Frame)
         /\ Joined(Room(Current), Append(frames, Head(Incoming)), rest',
                   accepted[Current])
<1>1. /\ UNCHANGED accepted /\ rest' = Tail(Incoming)
      /\ pipe' = (IF rest # <<>> THEN pipe ELSE Tail(pipe))
      /\ Taken' = Current
  BY TakesOne DEF Take, sendVars
<1>2. /\ Incoming \in Seq(Frame) /\ Incoming # <<>> /\ Whole(Incoming)
      /\ Current \in 1 .. Len(accepted) /\ accepted[Current] \in Message
      /\ Joined(Room(Current), frames, Incoming, accepted[Current])
  BY NextIncoming, Lengths, Incomes
<1>3. Current \in Nat \ {0}
  BY <1>2, Lengths
<1>4. Room(Current) \in SUBSET Int /\ frames \in Seq(Frame)
  BY DEF Room, TypeInv, TypeOK
<1>5. Joined(Room(Current), Append(frames, Head(Incoming)), rest', accepted[Current])
  BY <1>1, <1>2, <1>4, Shifted
<1>6. /\ Head(Incoming).more => rest' # <<>> /\ Whole(rest')
      /\ ~Head(Incoming).more => rest' = <<>>
  BY <1>1, <1>2, TailWhole
<1>7. /\ Head(Incoming) \in Frame /\ rest' \in Seq(Frame)
      /\ Append(frames, Head(Incoming)) \in Seq(Frame)
      /\ Append(frames, Head(Incoming)) # <<>>
  BY <1>1, <1>2, <1>4, TakenOff, AppendProperties
<1>8. \A k \in hurt : k \in 1 .. Current
  BY <1>3 DEF FrameInv, PipeInv, Current
<1>9. ASSUME NEW k \in 1 .. Len(pipe')
      PROVE  /\ Whole(pipe'[k])
             /\ Joined(Nat, <<>>, pipe'[k], accepted[Current + k])
  <2>1. CASE rest # <<>>
    BY <1>1, <1>9, <2>1 DEF FrameInv, PipeInv, Current
  <2>2. CASE rest = <<>>
    <3>1. PICK c \in Nat : c = Taken /\ Current = c + 1
      BY <2>2 DEF FrameInv, PipeInv, Current
    <3>2. pipe # <<>> /\ pipe' = Tail(pipe)
      BY <1>1, <2>2, Incomes
    <3>3. PICK d \in Nat : Len(pipe') = d /\ Len(pipe) = d + 1
      <4>1. PICK e \in Nat \ {0} : e = Len(pipe) /\ Len(pipe') = e - 1
        BY <3>2, TakenOff DEF TypeInv, TypeOK
      <4>2. e - 1 \in Nat /\ e = (e - 1) + 1
        OBVIOUS
      <4> QED
        BY <4>1, <4>2
    <3>4. \A j \in 1 .. (d + 1) - 1 : pipe'[j] = pipe[j + 1]
      BY <3>2, <3>3, TakenOff DEF TypeInv, TypeOK
    <3>5. k \in 1 .. (d + 1) - 1 /\ k + 1 \in 1 .. d + 1
          /\ c + (k + 1) = (c + 1) + k
      BY <3>3
    <3>6. pipe'[k] = pipe[k + 1]
      BY <3>4, <3>5
    <3>7. Whole(pipe[k + 1]) /\ Joined(Nat, <<>>, pipe[k + 1], accepted[c + (k + 1)])
      BY <3>1, <3>3, <3>5 DEF FrameInv, PipeInv
    <3> QED
      BY <3>1, <3>5, <3>6, <3>7
  <2> QED
    BY <2>1, <2>2
<1> QED
  BY <1>1, <1>2, <1>3, <1>5, <1>6, <1>7, <1>8, <1>9

(* The receiver takes a frame over, and with the last one returns.         *)
LEMMA RecvStep ==
  ASSUME TypeInv, FrameInv, RecvFrame
  PROVE  PipeInv' /\ RecvInv' /\ OrderInv' /\ ReturnInv'
<1>1. /\ Arrived /\ Take /\ rpc # "idle" /\ UNCHANGED hurt
      /\ Gather(Head(Incoming))
  BY DEF RecvFrame
<1>2. PICK c \in Nat \ {0}, m \in Message, fs \in Seq(Frame) :
        /\ c = Current /\ c = Taken' /\ m = accepted[c] /\ m = accepted'[c]
        /\ fs = Append(frames, Head(Incoming)) /\ fs # <<>>
        /\ Joined(Room(c), fs, rest', m)
  BY <1>1, TakeStep
<1>3. PipeInv'
  BY <1>1, <1>2, TakeStep DEF PipeInv
<1>4. \A k : Room(k)' = Room(k)
  BY <1>1 DEF Room
<1>5. CASE Head(Incoming).more
  <2>1. frames' = fs /\ UNCHANGED <<rpc, returned>>
    BY <1>1, <1>2, <1>5 DEF Gather, GoOn
  <2>2. rest' # <<>> /\ Whole(rest')
    BY <1>1, <1>5, TakeStep
  <2>3. Current' = Current
    BY <1>2, <2>2 DEF Current
  <2>4. RecvInv'
    BY <1>1, <1>2, <1>4, <2>1, <2>2 DEF RecvInv
  <2>5. OrderInv' /\ ReturnInv'
    BY <1>1, <1>4, <2>1, <2>3, TakeStep DEF FrameInv, OrderInv, ReturnInv
  <2> QED
    BY <1>3, <2>4, <2>5
<1>6. CASE ~Head(Incoming).more
  <2> DEFINE new == [nth |-> Taken', frames |-> fs]
  <2>1. rpc' = "idle" /\ frames' = <<>> /\ returned' = Append(returned, new)
    BY <1>1, <1>2, <1>6 DEF Gather, Return
  <2>2. rest' = <<>>
    BY <1>1, <1>6, TakeStep
  <2>3. new \in Result /\ new.nth = c /\ new.frames = fs
    BY <1>2 DEF Result
  <2>4. PICK r \in Nat : r = Len(returned)
    BY Lengths
  <2>5. /\ Len(returned') = r + 1
        /\ \A k \in 1 .. r + 1 :
             returned'[k] = IF k = r + 1 THEN new ELSE returned[k]
    <3> HIDE DEF new
    <3>1. returned \in Seq(Result)
      BY DEF TypeInv, TypeOK
    <3>2. /\ Len(Append(returned, new)) = Len(returned) + 1
          /\ \A k \in 1 .. Len(returned) + 1 :
               Append(returned, new)[k] =
                 IF k = Len(returned) + 1 THEN new ELSE returned[k]
      BY <2>3, <3>1, Appended
    <3> QED
      BY <2>1, <2>4, <3>2
  <2>6. Current' = c + 1
    BY <1>2, <2>2 DEF Current
  <2>7. RecvInv'
    BY <2>1, <2>2 DEF RecvInv
  <2>8. /\ \A k \in 1 .. r : returned'[k] = returned[k]
        /\ returned'[r + 1].nth = c /\ returned'[r + 1].frames = fs
    <3>1. /\ \A k \in 1 .. r : k \in 1 .. r + 1 /\ k # r + 1
          /\ r + 1 \in 1 .. r + 1
      OBVIOUS
    <3> QED
      BY <2>3, <2>5, <3>1
  <2> HIDE DEF new
  <2>9. \A k \in 1 .. r + 1 : k \in 1 .. r \/ k = r + 1
    OBVIOUS
  <2>10. /\ \A i \in 1 .. r : returned[i].nth \in 1 .. c - 1
         /\ \A i, j \in 1 .. r : i < j => returned[i].nth < returned[j].nth
         /\ \A n \in 1 .. c - 1 :
              n \in hurt \/ \E i \in 1 .. r : returned[i].nth = n
    BY <1>2, <2>4 DEF FrameInv, OrderInv
  <2>11. \A i \in 1 .. r + 1 : returned'[i].nth \in 1 .. (c + 1) - 1
    <3>1. \A i \in 1 .. r : returned'[i].nth \in 1 .. (c + 1) - 1
      BY <2>8, <2>10
    <3>2. returned'[r + 1].nth \in 1 .. (c + 1) - 1
      BY <2>8
    <3> QED
      BY <2>9, <3>1, <3>2
  <2>12. ASSUME NEW i \in 1 .. r + 1, NEW j \in 1 .. r + 1, i < j
         PROVE  returned'[i].nth < returned'[j].nth
    <3>1. i \in 1 .. r
      BY <2>12
    <3>2. CASE j \in 1 .. r
      BY <2>8, <2>10, <2>12, <3>1, <3>2
    <3>3. CASE j = r + 1
      <4>1. returned[i].nth \in 1 .. c - 1 /\ returned'[i].nth = returned[i].nth
        BY <2>8, <2>10, <3>1
      <4> QED
        BY <2>8, <3>3, <4>1
    <3> QED
      BY <2>9, <3>2, <3>3
  <2>13. ASSUME NEW n \in 1 .. (c + 1) - 1
         PROVE  n \in hurt \/ \E i \in 1 .. r + 1 : returned'[i].nth = n
    <3>1. CASE n = c
      <4>1. r + 1 \in 1 .. r + 1
        OBVIOUS
      <4> QED
        BY <2>8, <3>1, <4>1
    <3>2. CASE n # c
      <4>1. n \in 1 .. c - 1
        BY <3>2
      <4>2. \A i \in 1 .. r : i \in 1 .. r + 1
        OBVIOUS
      <4> QED
        BY <2>8, <2>10, <4>1, <4>2
    <3> QED
      BY <3>1, <3>2
  <2>14. OrderInv'
    BY <1>1, <2>5, <2>6, <2>11, <2>12, <2>13 DEF OrderInv
  <2>15. ReturnInv'
    <3>1. ASSUME NEW i \in 1 .. r
          PROVE  Joined(Room(returned'[i].nth), returned'[i].frames, <<>>,
                        accepted'[returned'[i].nth])
      <4>1. UNCHANGED accepted
        BY <1>1, TakeStep
      <4> QED
        BY <2>4, <2>8, <4>1 DEF FrameInv, ReturnInv
    <3>2. Joined(Room(returned'[r + 1].nth), returned'[r + 1].frames, <<>>,
                 accepted'[returned'[r + 1].nth])
      BY <1>2, <2>2, <2>8
    <3> QED
      BY <1>4, <2>5, <2>9, <3>1, <3>2 DEF ReturnInv
  <2> QED
    BY <1>3, <2>7, <2>14, <2>15
<1> QED
  BY <1>5, <1>6

(* A receive that fails or throws hurts the message it has begun.          *)
LEMMA Hurts ==
  ASSUME TypeInv, FrameInv, NEW c \in Nat, c = Current,
         UNCHANGED <<accepted, returned>>, hurt' = hurt \cup {c},
         Current' = c \/ Current' = c + 1
  PROVE  OrderInv' /\ ReturnInv'
<1>1. /\ \A i \in 1 .. Len(returned) : returned[i].nth \in 1 .. c - 1
      /\ \A i, j \in 1 .. Len(returned) : i < j => returned[i].nth < returned[j].nth
      /\ \A n \in 1 .. c - 1 :
           n \in hurt \/ \E i \in 1 .. Len(returned) : returned[i].nth = n
  BY DEF FrameInv, OrderInv
<1>2. ASSUME NEW d \in {c, c + 1}, Current' = d
      PROVE  OrderInv'
  <2>1. \A n \in 1 .. c - 1 : n \in 1 .. d - 1
    OBVIOUS
  <2>2. \A n \in 1 .. d - 1 : n \in 1 .. c - 1 \/ n = c
    OBVIOUS
  <2> QED
    BY <1>1, <1>2, <2>1, <2>2 DEF OrderInv
<1>3. \A i \in 1 .. Len(returned) : Room(returned[i].nth)' = Room(returned[i].nth)
  <2>1. \A i \in 1 .. Len(returned) : returned[i].nth # c
    BY <1>1
  <2> QED
    BY <2>1 DEF Room
<1>4. ReturnInv'
  BY <1>3 DEF FrameInv, ReturnInv
<1> QED
  BY <1>2, <1>4

LEMMA FailStep ==
  ASSUME TypeInv, FrameInv, RecvFails
  PROVE  PipeInv' /\ RecvInv' /\ OrderInv' /\ ReturnInv'
<1>1. /\ Arrived /\ Take /\ rpc' = "idle" /\ frames' = <<>>
      /\ hurt' = hurt \cup {Taken'} /\ UNCHANGED returned
  BY DEF RecvFails
<1>2. PICK c \in Nat \ {0}, m \in Message, fs \in Seq(Frame) :
        /\ c = Current /\ c = Taken' /\ m = accepted[c] /\ m = accepted'[c]
        /\ Joined(Room(c), fs, rest', m) /\ UNCHANGED accepted
        /\ rest' \in Seq(Frame) /\ (rest' # <<>> => Whole(rest'))
  BY <1>1, TakeStep
<1>3. PipeInv'
  <2>1. hurt' \subseteq 1 .. Taken'
    BY <1>1, <1>2, TakeStep
  <2> QED
    BY <1>1, <1>2, <2>1, TakeStep DEF PipeInv
<1>4. RecvInv'
  <2>1. Room(c) \in SUBSET Int
    BY DEF Room
  <2>2. Joined(Int, <<>>, rest', m)
    BY <1>2, <2>1, Dropped
  <2>3. Room(Taken)' = Int /\ Taken' \in hurt'
    BY <1>1 DEF Room
  <2> QED
    BY <1>1, <1>2, <2>2, <2>3 DEF RecvInv
<1>5. OrderInv' /\ ReturnInv'
  <2>1. Current' = c \/ Current' = c + 1
    BY <1>2 DEF Current
  <2> QED
    BY <1>1, <1>2, <2>1, Hurts
<1> QED
  BY <1>3, <1>4, <1>5

LEMMA ThrowStep ==
  ASSUME TypeInv, FrameInv, RecvThrows
  PROVE  PipeInv' /\ RecvInv' /\ OrderInv' /\ ReturnInv'
<1>1. /\ rpc' = "idle" /\ frames' = <<>>
      /\ UNCHANGED <<accepted, pipe, rest, returned>>
      /\ hurt' = hurt \cup (IF frames # <<>> THEN {Taken} ELSE {})
  BY DEF RecvThrows, sendVars
<1>2. Taken' = Taken /\ Current' = Current
  BY <1>1 DEF Taken, Current
<1>3. CASE frames = <<>>
  <2>1. UNCHANGED <<frames, hurt>>
    BY <1>1, <1>3
  <2> QED
    BY <1>1, <1>2, <2>1 DEF FrameInv, PipeInv, RecvInv, OrderInv, ReturnInv, Room
<1>4. CASE frames # <<>>
  <2>1. /\ rest # <<>> /\ Taken # 0 /\ Whole(rest) /\ Taken \in Nat
        /\ Joined(Room(Taken), frames, rest, accepted[Taken])
        /\ hurt \subseteq 1 .. Taken
    BY <1>4 DEF FrameInv, RecvInv, PipeInv
  <2>2. PICK c \in Nat : c = Taken /\ c = Current /\ c # 0
    BY <2>1 DEF Current
  <2>3. accepted[c] \in Message
    BY <2>1, <2>2, Lengths DEF Taken
  <2>4. hurt' = hurt \cup {c}
    BY <1>1, <1>4, <2>2
  <2>5. PipeInv'
    <3>1. hurt' \subseteq 1 .. Taken'
      BY <1>2, <2>1, <2>2, <2>4
    <3> QED
      BY <1>1, <1>2, <3>1 DEF FrameInv, PipeInv
  <2>6. RecvInv'
    <3>1. Room(c) \in SUBSET Int /\ frames \in Seq(Frame) /\ rest \in Seq(Frame)
      BY DEF Room, TypeInv, TypeOK
    <3>2. Joined(Int, <<>>, rest, accepted[c])
      BY <2>1, <2>2, <2>3, <3>1, Dropped
    <3>3. Room(Taken)' = Int /\ Taken' \in hurt'
      BY <1>2, <2>2, <2>4 DEF Room
    <3> QED
      BY <1>1, <1>2, <2>1, <2>2, <3>2, <3>3 DEF RecvInv
  <2>7. OrderInv' /\ ReturnInv'
    BY <1>1, <1>2, <2>2, <2>4, Hurts
  <2> QED
    BY <2>5, <2>6, <2>7
<1> QED
  BY <1>3, <1>4

LEMMA FrameStep == TypeInv /\ FrameInv /\ [Next]_vars => FrameInv'
<1> SUFFICES ASSUME TypeInv, FrameInv, [Next]_vars
             PROVE  PipeInv' /\ RecvInv' /\ OrderInv' /\ ReturnInv'
  BY SendStep DEF FrameInv
<1>1. CASE UNCHANGED <<pipe, accepted, rpc, rest, frames, returned, hurt>>
  BY <1>1 DEF FrameInv, PipeInv, RecvInv, OrderInv, ReturnInv, Taken, Current, Room
<1>2. CASE SendFrame
  BY <1>2, AcceptStep
<1>3. CASE RecvFrame
  BY <1>3, RecvStep
<1>4. ASSUME NEW how \in {"blocking", "nonblocking"}, Recv(how)
      PROVE  PipeInv' /\ RecvInv' /\ OrderInv' /\ ReturnInv'
  <2>1. frames = <<>> /\ frames' = <<>>
        /\ UNCHANGED <<pipe, accepted, rest, returned, hurt>>
    BY <1>4 DEF Recv, sendVars, FrameInv, RecvInv
  <2> QED
    BY <2>1 DEF FrameInv, PipeInv, RecvInv, OrderInv, ReturnInv, Taken, Current, Room
<1>5. CASE RecvFails
  BY <1>5, FailStep
<1>6. CASE RecvThrows
  BY <1>6, ThrowStep
<1> QED
  BY <1>1, <1>2, <1>3, <1>4, <1>5, <1>6
  DEF Next, vars, sendVars, recvVars, Sends, Receives, Send, SendDrops, SendThrows,
      SocketCloses, ContextTerminated

LEMMA FrameInit == Init => FrameInv
<1>1. Len(<<>>) = 0
  OBVIOUS
<1> SUFFICES ASSUME Init
             PROVE  FrameInv
  OBVIOUS
<1>2. /\ partial = <<>> /\ spc = "idle" /\ pipe = <<>> /\ rest = <<>>
      /\ frames = <<>> /\ accepted = <<>> /\ returned = <<>> /\ rpc = "idle"
      /\ hurt = {}
  BY DEF Init
<1>3. Taken = 0 /\ Current = 1
  BY <1>1, <1>2 DEF Taken, Current
<1> QED
  BY <1>1, <1>2, <1>3 DEF FrameInv, SendInv, PipeInv, RecvInv, OrderInv, ReturnInv

LEMMA Invariants == Spec => [](TypeInv /\ FrameInv)
<1>1. Init => TypeInv /\ FrameInv
  BY TypeInit, FrameInit
<1>2. TypeInv /\ FrameInv /\ [Next]_vars => (TypeInv /\ FrameInv)'
  <2>1. TypeInv /\ FrameInv /\ Arrived => Incoming # <<>> /\ Current \in Nat
    BY NextIncoming, Lengths
  <2> QED
    BY <2>1, TypeStep, FrameStep DEF FrameInv, PipeInv
<1> QED
  BY <1>1, <1>2, PTL DEF Spec

-----------------------------------------------------------------------------
(* The theorems                                                            *)

(* Send and both receives keep the types of their variables: the loop of   *)
(* Send never counts below zero and a receive always finds a frame.        *)
THEOREM TypeCorrect == Spec => []TypeOK
  BY Invariants, PTL DEF TypeInv

LEMMA MessageFrames ==
  ASSUME NEW m \in Message
  PROVE  /\ FramesOf(m) \in Seq(Frame) /\ Len(FramesOf(m)) = size[m]
         /\ \A i \in 1 .. size[m] : FramesOf(m)[i] = FrameOf(m, i)
<1>1. PICK b \in Nat : b = size[m]
  BY Sizes
<1>2. \A i \in 1 .. b : FrameOf(m, i) \in Frame
  BY <1>1 DEF FrameOf, Frame
<1> QED
  BY <1>1, <1>2 DEF FramesOf

LEMMA EndsInMessage ==
  ASSUME NEW f \in Seq(Frame), NEW m \in Message, NEW N \in {Nat, Int},
         Joined(N, f, <<>>, m)
  PROVE  \/ EndsWith(f, FramesOf(m))
         \/ N = Int /\ EndsWith(FramesOf(m), f)
<1>1. PICK n \in N : n \in Int /\ Len(f) + Len(<<>>) = n + size[m] /\ From(f, 0, n, m)
  BY DEF Joined
<1>2. PICK a \in Nat, b \in Nat : a = Len(f) /\ b = size[m]
  BY Sizes, LenProperties
<1>3. Len(<<>>) = 0
  OBVIOUS
<1>4. a = n + b
  BY <1>1, <1>2, <1>3
<1>5. PICK t \in Seq(Frame) :
        /\ t = FramesOf(m) /\ Len(t) = b
        /\ \A i \in 1 .. b : t[i] = FrameOf(m, i)
  BY <1>2, MessageFrames
<1>6. CASE n >= 0
  <2>1. ASSUME NEW i \in 1 .. b
        PROVE  f[a - b + i] = t[i]
    <3>1. a - b + i = n + i /\ n + i \in 1 .. a /\ 0 + (n + i) > n
          /\ 0 + (n + i) - n = i
      BY <1>4, <1>6
    <3>2. f[n + i] = FrameOf(m, 0 + (n + i) - n)
      BY <1>1, <1>2, <3>1 DEF From
    <3> QED
      BY <1>5, <3>1, <3>2
  <2>2. a >= b
    BY <1>4, <1>6
  <2> QED
    BY <1>2, <1>5, <2>1, <2>2 DEF EndsWith
<1>7. CASE n < 0
  <2>1. ASSUME NEW i \in 1 .. a
        PROVE  t[b - a + i] = f[i]
    <3>1. /\ b - a + i = 0 + i - n /\ 0 + i > n
          /\ b - a + i \in 1 .. b
      BY <1>4, <1>7
    <3>2. f[i] = FrameOf(m, 0 + i - n)
      BY <1>1, <1>2, <3>1 DEF From
    <3> QED
      BY <1>5, <3>1, <3>2
  <2>2. b >= a
    BY <1>4, <1>7
  <2>3. N = Int
    BY <1>7
  <2> QED
    BY <1>2, <1>5, <2>1, <2>2, <2>3 DEF EndsWith
<1> QED
  BY <1>6, <1>7

(* A result belongs to a message that was accepted.                        *)
LEMMA ResultOf ==
  ASSUME TypeInv, FrameInv, NEW i \in 1 .. Len(returned)
  PROVE  /\ returned[i].nth \in Nat
         /\ returned[i].frames \in Seq(Frame)
         /\ accepted[returned[i].nth] \in Message
<1>1. /\ returned[i].nth \in 1 .. Current - 1 /\ Taken \in Nat
      /\ Taken = Len(accepted) - Len(pipe)
      /\ Current \in {Taken, Taken + 1}
  BY DEF FrameInv, OrderInv, PipeInv, Taken, Current
<1>2. Len(accepted) \in Nat /\ Len(pipe) \in Nat
  BY Lengths
<1>3. returned[i].nth \in 1 .. Len(accepted)
  BY <1>1, <1>2
<1> QED
  BY <1>3, Lengths

LEMMA Kept == TypeInv /\ FrameInv => NoneLost
<1> SUFFICES ASSUME TypeInv, FrameInv
             PROVE  NoneLost
  OBVIOUS
<1>1. ASSUME NEW i \in 1 .. Len(returned), NEW n, n = returned[i].nth
      PROVE  \/ EndsWith(returned[i].frames, FramesOf(accepted[n]))
             \/ n \in hurt /\ EndsWith(FramesOf(accepted[n]), returned[i].frames)
  <2>1. accepted[n] \in Message /\ returned[i].frames \in Seq(Frame)
    BY <1>1, ResultOf
  <2>2. Joined(Room(n), returned[i].frames, <<>>, accepted[n])
    BY <1>1 DEF FrameInv, ReturnInv
  <2>3. Room(n) \in {Nat, Int} /\ (Room(n) = Int => n \in hurt)
    <3>1. -1 \in Int /\ -1 \notin Nat
      OBVIOUS
    <3> QED
      BY <3>1 DEF Room
  <2> QED
    BY <2>1, <2>2, <2>3, EndsInMessage
<1>2. ASSUME NEW n \in 1 .. Taken
      PROVE  \/ \E i \in 1 .. Len(returned) : returned[i].nth = n
             \/ n \in hurt
             \/ n = Taken /\ rest # <<>>
  <2>1. Taken \in Nat
    BY DEF FrameInv, PipeInv
  <2>2. CASE n \in 1 .. Current - 1
    BY <2>2 DEF FrameInv, OrderInv
  <2>3. CASE n \notin 1 .. Current - 1
    BY <2>1, <2>3 DEF Current
  <2> QED
    BY <2>2, <2>3
<1> QED
  BY <1>1, <1>2 DEF NoneLost, FrameInv, OrderInv

(* Whatever calls of Send and of the two receives are left half way: each *)
(* message that was begun is returned at the end of a result of its own,   *)
(* or, where its own receive was left half way, at most its end is; and    *)
(* results come in the order in which the messages were accepted.          *)
THEOREM MessagesKept == Spec => []NoneLost
  BY Invariants, Kept, PTL

LEMMA CountSuffices == TypeInv /\ FrameInv /\ NoneLost => CountTellsDamage
<1> SUFFICES ASSUME TypeInv, FrameInv, NoneLost,
                    \A m, n \in Message : size[m] = size[n],
                    NEW i \in 1 .. Len(returned), NEW m \in Message,
                    Len(returned[i].frames) = size[m]
             PROVE  returned[i].frames = FramesOf(accepted[returned[i].nth])
  BY DEF CountTellsDamage
<1>1. PICK n \in Message : n = accepted[returned[i].nth]
  BY ResultOf
<1>2. PICK b \in Nat : b = size[n] /\ b = size[m]
  BY Sizes
<1>4. PICK t \in Seq(Frame) : t = FramesOf(n) /\ Len(t) = b
  BY <1>2, MessageFrames
<1>5. PICK s \in Seq(Frame) : s = returned[i].frames /\ Len(s) = b
  BY <1>2, ResultOf
<1>6. EndsWith(s, t) \/ EndsWith(t, s)
  BY <1>1, <1>4, <1>5 DEF NoneLost
<1>7. ASSUME NEW j \in 1 .. b
      PROVE  s[j] = t[j]
  <2>1. b - b + j = j
    OBVIOUS
  <2>2. s[b - b + j] = t[j] \/ t[b - b + j] = s[j]
    BY <1>4, <1>5, <1>6 DEF EndsWith
  <2> QED
    BY <2>1, <2>2
<1>8. s = t
  BY <1>4, <1>5, <1>7, SeqEqual
<1> QED
  BY <1>1, <1>4, <1>5, <1>8

(* Where all messages have one number of frames, a result with that number *)
(* of frames is the message that was sent: the checks for four and for     *)
(* five frames are all that ZRecvMethod and RpcWorker need.                *)
THEOREM CountTells == Spec => []CountTellsDamage
<1>1. TypeInv /\ FrameInv => CountTellsDamage
  BY Kept, CountSuffices
<1> QED
  BY <1>1, Invariants, PTL

(* A receive that has got its first frame finds the others: it neither     *)
(* waits nor gives up with RetryException before it has got its last.      *)
THEOREM WholeMessages == Spec => []NeverInBetween
<1>1. FrameInv => NeverInBetween
  BY DEF FrameInv, RecvInv, NeverInBetween
<1> QED
  BY <1>1, Invariants, PTL

=============================================================================
