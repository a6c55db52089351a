---------------------------- MODULE StreamProofs ------------------------------
(*****************************************************************************)
(* Theorems about Stream, for any number of workers, any messages, windows   *)
(* and buffers, and whatever the network loses, doubles or delays.           *)
(*                                                                           *)
(* Of the workers: m_ReadingCount counts the handlers that look at the       *)
(* receive buffer, so a worker that waits in input() waits for another one   *)
(* that is awake, and nobody writes into the buffer under a handler (IInv).  *)
(*                                                                           *)
(* Of the data: each direction is a Link.  There are pieces D that the       *)
(* sender has numbered and three places in them, u <= r and q <= r: the      *)
(* sender keeps those from u on unless the receiver has them, the receiver   *)
(* has put in order those before r and handed on those before q, and no      *)
(* datagram on its way says anything else (Dir); the bytes in front of q are *)
(* those read and those in the buffer, and D and snd_queue together are what *)
(* was sent (Str).                                                           *)
(*                                                                           *)
(* KCP compares numbers by the sign of their difference, and so does not     *)
(* tell a datagram from one half of the numbers older.  What is proved of    *)
(* the data therefore holds as long as less has been sent (FirstRound):      *)
(* nothing in the program bounds how long a datagram may be under way.       *)
(*****************************************************************************)
EXTENDS StreamLemmas

(* ------------------------ the workers of a session ------------------------ *)

Handling(n) == {w \in Workers[n] : pc[n][w] = "handle"}

Domains ==
    /\ DOMAIN pc = Nodes
    /\ \A n \in Nodes : DOMAIN pc[n] = Workers[n]
    /\ DOMAIN readers = Nodes
    /\ DOMAIN buf = Nodes

\* The counter is exact.
ReadersCounted == \A n \in Nodes : readers[n] = Cardinality(Handling(n))

\* The inductive invariant: OneAwake alone does not say that the one for whom
\* a worker waits is awake.
IInv == Domains /\ ReadersCounted /\ OneAwake

\* The workers are finitely many.
LEMMA HandlingFinite ==
    ASSUME NEW n \in Nodes
    PROVE  IsFiniteSet(Handling(n)) /\ Cardinality(Handling(n)) \in Nat
<1>1. Handling(n) \subseteq Workers[n]
  BY DEF Handling
<1>2. IsFiniteSet(Workers[n])
  BY StreamAssumption
<1>3. QED
  BY <1>1, <1>2, FS_Subset, FS_CardinalityType

\* Nobody reads exactly when no handler looks at the buffer.
LEMMA NobodyHandles ==
    ASSUME ReadersCounted, NEW n \in Nodes
    PROVE  NobodyReads(n) <=> \A w \in Workers[n] : pc[n][w] # "handle"
<1>1. NobodyReads(n) <=> Cardinality(Handling(n)) = 0
  BY DEF NobodyReads, ReadersCounted
<1>2. Cardinality(Handling(n)) = 0 <=> Handling(n) = {}
  BY HandlingFinite, FS_EmptySet
<1>3. QED
  BY <1>1, <1>2 DEF Handling

\* One worker moves, and no other.
LEMMA GotoMoves ==
    ASSUME Domains, NEW n \in Nodes, NEW w \in Workers[n], NEW to, Goto(n, w, to)
    PROVE  /\ DOMAIN pc' = Nodes
           /\ \A m \in Nodes : DOMAIN pc'[m] = Workers[m]
           /\ pc'[n][w] = to
           /\ \A m \in Nodes : \A x \in Workers[m] :
                  m # n \/ x # w => pc'[m][x] = pc[m][x]
BY DEF Domains, Goto

\* A worker that is and stays out of the handlers leaves the count right.
LEMMA NoHandlerMoves ==
    ASSUME Domains, ReadersCounted, NEW n \in Nodes, NEW w \in Workers[n], NEW to,
           Goto(n, w, to), pc[n][w] # "handle", to # "handle", UNCHANGED readers
    PROVE  ReadersCounted'
<1>1. \A m \in Nodes : Handling(m)' = Handling(m)
  BY GotoMoves DEF Handling
<1>2. QED
  BY <1>1 DEF ReadersCounted

\* A worker that moves, but not to the wait, leaves somebody awake.
LEMMA StaysAwake ==
    ASSUME Domains, OneAwake, NEW n \in Nodes, NEW w \in Workers[n], NEW to,
           Goto(n, w, to), to # "asleep"
    PROVE  OneAwake'
<1>1. \A m \in Nodes : \A x \in Workers[m] : pc[m][x] # "asleep" => pc'[m][x] # "asleep"
  BY GotoMoves
<1>2. QED
  BY <1>1 DEF OneAwake

\* A worker that reads on from KCP or falls asleep leaves the invariant.
LEMMA FillMoves ==
    ASSUME Domains, ReadersCounted, OneAwake, NEW n \in Nodes, NEW w \in Workers[n], NEW k,
           Fill(n, w, k), pc[n][w] # "handle", UNCHANGED readers
    PROVE  IInv'
<1>1. Goto(n, w, "read") /\ DOMAIN buf' = DOMAIN buf
  BY DEF Fill
<1>2. Domains'
  BY <1>1, GotoMoves DEF Domains
<1>3. ReadersCounted'
  BY <1>1, NoHandlerMoves
<1>4. OneAwake'
  BY <1>1, StaysAwake
<1>5. QED
  BY <1>2, <1>3, <1>4 DEF IInv

\* Nobody reads at the start.
LEMMA InitIInv == Init => IInv
<1> SUFFICES ASSUME Init
             PROVE  IInv
  OBVIOUS
<1>1. Domains
  BY DEF Init, Domains
<1>2. \A n \in Nodes : \A w \in Workers[n] : pc[n][w] = "idle"
  BY DEF Init
<1>3. \A n \in Nodes : Handling(n) = {}
  BY <1>2 DEF Handling
<1>4. ReadersCounted
  BY <1>3, FS_EmptySet DEF ReadersCounted, Init
<1>5. \A n \in Nodes : Workers[n] # {}
  BY ONLY StreamAssumption
<1>6. OneAwake
  BY ONLY <1>2, <1>5 DEF OneAwake
<1>7. QED
  BY <1>1, <1>4, <1>6 DEF IInv

\* A datagram comes, in input().
LEMMA InputIInv ==
    ASSUME IInv, NEW n \in Nodes, NEW w \in Workers[n], NEW datagram, Input(n, w, datagram)
    PROVE  IInv'
<1>1. Domains /\ ReadersCounted /\ OneAwake /\ pc[n][w] = "idle" /\ UNCHANGED readers
  BY DEF IInv, Input
<1>2. PICK k : IF NobodyReads(n) THEN Fill(n, w, k)
               ELSE Goto(n, w, "asleep") /\ UNCHANGED buf
  BY DEF Input
<1>3. CASE NobodyReads(n)
  BY <1>1, <1>2, <1>3, FillMoves
<1>4. CASE ~NobodyReads(n)
  <2>1. Goto(n, w, "asleep") /\ UNCHANGED buf
    BY <1>2, <1>4
  <2>2. Domains'
    BY <1>1, <2>1, GotoMoves DEF Domains
  <2>3. ReadersCounted'
    BY <1>1, <2>1, NoHandlerMoves
  <2>4. PICK x \in Workers[n] : pc[n][x] = "handle"
    BY <1>1, <1>4, NobodyHandles
  <2>5. pc'[n][x] = "handle"
    BY <1>1, <2>1, <2>4, GotoMoves
  <2>6. \A m \in Nodes \ {n} : \A y \in Workers[m] : pc'[m][y] = pc[m][y]
    BY <1>1, <2>1, GotoMoves
  <2>7. OneAwake'
    BY <1>1, <2>5, <2>6 DEF OneAwake
  <2>8. QED
    BY <2>2, <2>3, <2>7 DEF IInv
<1>5. QED
  BY <1>3, <1>4

\* read() hands a message to the handler.
LEMMA ReadMessageIInv ==
    ASSUME IInv, NEW n \in Nodes, NEW w \in Workers[n], ReadMessage(n, w)
    PROVE  IInv'
<1>1. /\ Domains /\ ReadersCounted /\ OneAwake
      /\ pc[n][w] = "read"
      /\ Goto(n, w, "handle")
  BY DEF IInv, ReadMessage
<1>2. /\ DOMAIN readers' = Nodes /\ DOMAIN buf' = Nodes
      /\ readers'[n] = readers[n] + 1
      /\ \A m \in Nodes \ {n} : readers'[m] = readers[m]
  BY <1>1 DEF ReadMessage, CountReader, Domains
<1>3. Domains'
  BY <1>1, <1>2, GotoMoves DEF Domains
<1>4. /\ Handling(n)' = Handling(n) \cup {w}
      /\ w \notin Handling(n)
      /\ \A m \in Nodes \ {n} : Handling(m)' = Handling(m)
  BY <1>1, GotoMoves DEF Handling
<1>5. Cardinality(Handling(n)') = Cardinality(Handling(n)) + 1
  BY <1>4, HandlingFinite, FS_AddElement
<1>6. ReadersCounted'
  BY <1>1, <1>2, <1>4, <1>5 DEF ReadersCounted
<1>7. OneAwake'
  BY <1>1, StaysAwake
<1>8. QED
  BY <1>3, <1>6, <1>7 DEF IInv

\* The handler returns.
LEMMA ReadOverIInv ==
    ASSUME IInv, NEW n \in Nodes, NEW w \in Workers[n], ReadOver(n, w)
    PROVE  IInv'
<1>1. /\ Domains /\ ReadersCounted /\ OneAwake
      /\ pc[n][w] = "handle"
      /\ Goto(n, w, "read")
      /\ UNCHANGED buf
  BY DEF IInv, ReadOver
<1>2. /\ DOMAIN readers' = Nodes
      /\ readers'[n] = readers[n] - 1
      /\ \A m \in Nodes \ {n} : readers'[m] = readers[m]
  BY <1>1 DEF ReadOver, Domains
<1>3. Domains'
  BY <1>1, <1>2, GotoMoves DEF Domains
<1>4. /\ Handling(n)' = Handling(n) \ {w}
      /\ w \in Handling(n)
      /\ \A m \in Nodes \ {n} : Handling(m)' = Handling(m)
  BY <1>1, GotoMoves DEF Handling
<1>5. Cardinality(Handling(n)') = Cardinality(Handling(n)) - 1
  BY <1>4, HandlingFinite, FS_RemoveElement
<1>6. ReadersCounted'
  BY <1>1, <1>2, <1>4, <1>5 DEF ReadersCounted
<1>7. OneAwake'
  BY <1>1, StaysAwake
<1>8. QED
  BY <1>3, <1>6, <1>7 DEF IInv

\* A step that leaves the workers and the counters alone.
LEMMA Unmoved ==
    ASSUME IInv, UNCHANGED <<buf, readers, pc>>
    PROVE  IInv'
<1>1. \A n \in Nodes : Handling(n)' = Handling(n)
  BY DEF Handling
<1>2. QED
  BY <1>1 DEF IInv, Domains, ReadersCounted, OneAwake

\* Every step leaves the invariant.
LEMMA NextIInv == IInv /\ [Next]_vars => IInv'
<1> SUFFICES ASSUME IInv, [Next]_vars
             PROVE  IInv'
  OBVIOUS
<1>1. CASE UNCHANGED vars
  BY <1>1, Unmoved DEF vars
<1>2. ASSUME NEW n \in Nodes, SendReliable(n)
      PROVE  IInv'
  BY <1>2, Unmoved DEF SendReliable
<1>3. ASSUME NEW n \in Nodes, Update(n)
      PROVE  IInv'
  BY <1>3, Unmoved DEF Update
<1>4. ASSUME NEW n \in Nodes, NEW w \in Workers[n], NEW datagram, Input(n, w, datagram)
      PROVE  IInv'
  BY <1>4, InputIInv
<1>5. ASSUME NEW n \in Nodes, NEW w \in Workers[n], Wake(n, w)
      PROVE  IInv'
  BY <1>5, FillMoves DEF Wake, IInv
<1>6. ASSUME NEW n \in Nodes, NEW w \in Workers[n], ReadNothing(n, w)
      PROVE  IInv'
  <2>1. /\ Domains /\ ReadersCounted /\ OneAwake
        /\ pc[n][w] = "read"
        /\ Goto(n, w, "idle")
        /\ UNCHANGED <<buf, readers>>
    BY <1>6 DEF IInv, ReadNothing
  <2>2. Domains'
    BY <2>1, GotoMoves DEF Domains
  <2>3. ReadersCounted' /\ OneAwake'
    BY <2>1, NoHandlerMoves, StaysAwake
  <2>4. QED
    BY <2>2, <2>3 DEF IInv
<1>7. ASSUME NEW n \in Nodes, NEW w \in Workers[n], ReadMessage(n, w)
      PROVE  IInv'
  BY <1>7, ReadMessageIInv
<1>8. ASSUME NEW n \in Nodes, NEW w \in Workers[n], ReadOver(n, w)
      PROVE  IInv'
  BY <1>8, ReadOverIInv
<1>9. QED
  BY <1>1, <1>2, <1>3, <1>4, <1>5, <1>6, <1>7, <1>8 DEF Next

\* The invariant of the readers.
LEMMA SpecIInv == Spec => []IInv
BY InitIInv, NextIInv, PTL DEF Spec

\* However many workers wait in Session::input for a notification that no code
\* gives, at least one worker of the pool does not.
THEOREM SomebodyIsAwake == Spec => []OneAwake
<1>1. IInv => OneAwake
  BY DEF IInv
<1>2. QED
  BY <1>1, SpecIInv, PTL

\* What filling and reading the buffer do to the part a handler looks at.
LEMMA FillDisturbsNobody ==
    ASSUME IInv, NEW n \in Nodes, NEW w \in Workers[n], NEW k,
           NobodyReads(n), Fill(n, w, k),
           NEW m \in Nodes, NEW x \in Workers[m], pc[m][x] = "handle"
    PROVE  buf'[m] = buf[m]
<1>1. m # n
  BY NobodyHandles DEF IInv
<1>2. QED
  BY <1>1 DEF Fill, IInv, Domains

\* read() writes nothing into the memory of a buffer.
LEMMA ReadKeepsMemory ==
    ASSUME IInv, NEW n \in Nodes, NEW w \in Workers[n], ReadMessage(n, w), NEW m \in Nodes
    PROVE  buf'[m].mem = buf[m].mem
<1>1. PICK len : buf' = [buf EXCEPT ![n] = Retrieve(buf[n], len)]
  BY DEF ReadMessage
<1>2. CASE m = n
  BY <1>1, <1>2 DEF IInv, Domains, Retrieve
<1>3. CASE m # n
  BY <1>1, <1>3 DEF IInv, Domains
<1>4. QED
  BY <1>2, <1>3

\* Session::input never writes over, moves or reallocates the bytes a handler
\* got from Session::read and has not given back with read_over().
THEOREM HandlersUndisturbed == Spec => ReadersUndisturbed
<1> DEFINE MemoryKept == \A m \in Nodes : \A x \in Workers[m] :
                             pc[m][x] = "handle" => buf'[m].mem = buf[m].mem
<1>1. ASSUME IInv, [Next]_vars
      PROVE  MemoryKept
  <2>1. CASE UNCHANGED buf
    BY <2>1
  <2>2. ASSUME NEW n \in Nodes, NEW w \in Workers[n], NEW datagram, Input(n, w, datagram)
        PROVE  MemoryKept
    <3>1. PICK k : IF NobodyReads(n) THEN Fill(n, w, k) ELSE UNCHANGED buf
      BY <2>2 DEF Input
    <3>2. QED
      BY <1>1, <2>1, <3>1, FillDisturbsNobody
  <2>3. ASSUME NEW n \in Nodes, NEW w \in Workers[n], Wake(n, w)
        PROVE  MemoryKept
    BY <1>1, <2>3, FillDisturbsNobody DEF Wake
  <2>4. ASSUME NEW n \in Nodes, NEW w \in Workers[n], ReadMessage(n, w)
        PROVE  MemoryKept
    BY <1>1, <2>4, ReadKeepsMemory
  <2>5. QED
    BY <1>1, <2>1, <2>2, <2>3, <2>4
       DEF Next, vars, SendReliable, Update, ReadNothing, ReadOver
<1> HIDE DEF MemoryKept
<1>2. MemoryKept =>
          [\A n \in Nodes : \A w \in Workers[n] :
              pc[n][w] = "handle" /\ pc'[n][w] = "handle" =>
                  /\ Len(buf'[n].mem) = Len(buf[n].mem)
                  /\ LET part == held[n][w] IN
                         SubSeq(buf'[n].mem, part[1], part[2])
                             = SubSeq(buf[n].mem, part[1], part[2])]_vars
  BY DEF MemoryKept
<1>3. QED
  BY <1>1, <1>2, SpecIInv, PTL DEF Spec, ReadersUndisturbed

(* --------------------------- the two directions --------------------------- *)

\* One direction of the stream: the block kn sends what kp receives, the segments
\* numbered so far are D, of which the sender still waits for those from u on and
\* the receiver has put in order those before r and handed over those before q.
\* No datagram that is on its way (out), nor one that comes back (back), says anything else.
Dir(kn, kp, out, back, sn, D, u, q, r) ==
    /\ sn \in SegmentNumbers /\ Data(D)
    /\ Sender(kn, sn, D, u) /\ Receiver(kp, sn, D, q, r) /\ Acks(kp, sn, D, r)
    /\ \A j \in 1..Len(D) : Seg(sn, D, j) \in kn.snd_buf \/ j \in Has(kp, sn, D, r)
    /\ \A d \in out : Pushes(d, sn, D)
    /\ \A d \in back : Acknowledges(d, sn, D, Has(kp, sn, D, r))

\* F is all that was sent, G what read() has returned of it.
Str(kn, F, G, d, D, q) ==
    /\ F \in Seq(Units) /\ G \in Seq(Units)
    /\ F = FlattenSeq(D) \o FlattenSeq(kn.snd_queue)
    /\ FlattenSeq(SubSeq(D, 1, q - 1)) = G \o Readable(d)

Link(kn, kp, out, back, F, G, d) ==
    \E sn, D, u, q, r : Dir(kn, kp, out, back, sn, D, u, q, r) /\ Str(kn, F, G, d, D, q)

\* What is acknowledged remains so when more is received.
LEMMA MoreAcknowledged ==
    ASSUME NEW d, NEW sn, NEW D, NEW H, NEW H2, H \subseteq H2, Acknowledges(d, sn, D, H)
    PROVE  Acknowledges(d, sn, D, H2)
BY DEF Acknowledges, IsAck

\* The sender takes a datagram.
LEMMA TakeAck ==
    ASSUME NEW kn, NEW kp, NEW out, NEW back, NEW sn, NEW D, NEW u, NEW q, NEW r,
           Dir(kn, kp, out, back, sn, D, u, q, r), Block(kn), NEW d \in back, IsDatagram(d)
    PROVE  /\ Block(KcpInput(kn, d)) /\ KcpInput(kn, d).snd_queue = kn.snd_queue
           /\ \E u2 : Dir(KcpInput(kn, d), kp, out, back, sn, D, u2, q, r)
<1>1. sn \in SegmentNumbers /\ Data(D) /\ Sender(kn, sn, D, u) BY DEF Dir
<1>2. PICK H : H = Has(kp, sn, D, r) OBVIOUS
<1>3. Acknowledges(d, sn, D, H) BY <1>2 DEF Dir
<1>4. Block(KcpInput(kn, d)) BY <1>1, <1>3, DatagramKeepsBlock
<1>5. PICK u2 : Answered(kn, KcpInput(kn, d), sn, D, u, u2, H) BY <1>1, <1>3, DatagramKeepsBlock
<1>6. PICK k2 : k2 = KcpInput(kn, d) OBVIOUS
<1>7. Dir(k2, kp, out, back, sn, D, u2, q, r) BY <1>2, <1>5, <1>6 DEF Dir, Answered
<1> QED BY <1>4, <1>5, <1>6, <1>7 DEF Answered

\* The receiver moves on: r grows and what it has stays.
LEMMA GoesOn ==
    ASSUME NEW kn, NEW kp, NEW out, NEW back, NEW sn, NEW D, NEW u, NEW q, NEW r,
           Dir(kn, kp, out, back, sn, D, u, q, r), NEW k2, NEW q2, NEW r2,
           Received(kp, k2, sn, D, q2, r, r2)
    PROVE  Dir(kn, k2, out, back, sn, D, u, q2, r2)
<1>1. PICK H, H2 : H = Has(kp, sn, D, r) /\ H2 = Has(k2, sn, D, r2) OBVIOUS
<1>2. H \subseteq H2 BY <1>1 DEF Received
<1>3. \A d \in back : Acknowledges(d, sn, D, H2) BY <1>1, <1>2, MoreAcknowledged DEF Dir
<1>4. \A j \in 1..Len(D) : Seg(sn, D, j) \in kn.snd_buf \/ j \in H2 BY <1>1, <1>2 DEF Dir
<1> QED BY <1>1, <1>3, <1>4 DEF Dir, Received

\* The receiver takes a datagram.
LEMMA TakePush ==
    ASSUME NEW kn, NEW kp, NEW out, NEW back, NEW sn, NEW D, NEW u, NEW q, NEW r,
           Dir(kn, kp, out, back, sn, D, u, q, r), Block(kp), NEW d \in out, IsDatagram(d)
    PROVE  \E r2 : Dir(kn, KcpInput(kp, d), out, back, sn, D, u, q, r2)
<1>1. /\ sn \in SegmentNumbers /\ Data(D) /\ Receiver(kp, sn, D, q, r) /\ Acks(kp, sn, D, r)
      /\ Pushes(d, sn, D)
  BY DEF Dir
<1>2. PICK r2 : Received(kp, KcpInput(kp, d), sn, D, q, r, r2) BY <1>1, DatagramReceived
<1> QED BY <1>2, GoesOn

\* What a flush sends back: acknowledgements of what the block has.
Emits(k, o, k2) ==
    /\ k2.rcv_nxt = k.rcv_nxt /\ k2.rcv_buf = k.rcv_buf /\ k2.rcv_queue = k.rcv_queue
    /\ k2.acklist \in {k.acklist, <<>>}
    /\ \A d \in Range(o) :
          /\ IsDatagram(d)
          /\ \A i \in 1..Len(d) :
                /\ d[i].una = k.rcv_nxt
                /\ d[i].cmd = "ACK" => \E m \in 1..Len(k.acklist) : d[i].sn = k.acklist[m]

\* A flush of the receiver, which may send acknowledgements.
LEMMA FlushAcks ==
    ASSUME NEW kn, NEW kp, NEW out, NEW back, NEW sn, NEW D, NEW u, NEW q, NEW r,
           Dir(kn, kp, out, back, sn, D, u, q, r), NEW o, NEW k2, Emits(kp, o, k2)
    PROVE  Dir(kn, k2, out, back \cup Range(o), sn, D, u, q, r)
<1>1. PICK H : H = Has(kp, sn, D, r) OBVIOUS
<1>2. Has(k2, sn, D, r) = H BY <1>1 DEF Has, Emits
<1>3. r \in 1..(Len(D) + 1) /\ kp.rcv_nxt = Nr(sn, r) /\ Receiver(k2, sn, D, q, r)
  BY DEF Dir, Receiver, Emits
<1>4. Len(D) \in Nat BY DataIs DEF Dir
<1>5. 1..(r - 1) \subseteq H
  <2> SUFFICES ASSUME NEW j \in 1..(r - 1) PROVE j \in H OBVIOUS
  <2>1. j \in 1..Len(D) /\ j < r BY <1>3, <1>4
  <2> QED BY <1>1, <2>1 DEF Has
<1>6. \A m \in 1..Len(kp.acklist) : \E j \in 1..Len(D) : j \in H /\ kp.acklist[m] = Nr(sn, j)
  <2>1. H \subseteq 1..Len(D) BY <1>1 DEF Has
  <2> QED BY <1>1, <2>1 DEF Dir, Acks
<1>7. Acks(k2, sn, D, r)
  <2>1. CASE k2.acklist = kp.acklist BY <1>1, <1>2, <2>1 DEF Dir, Acks
  <2>2. CASE k2.acklist = <<>>
    <3>1. k2.acklist \in Seq(SegmentNumbers) /\ Len(k2.acklist) = 0 BY <2>2
    <3> QED BY <3>1 DEF Acks
  <2> QED BY <2>1, <2>2 DEF Emits
<1>8. \A d \in Range(o) : Acknowledges(d, sn, D, H)
  <2> SUFFICES ASSUME NEW d \in Range(o), NEW i \in 1..Len(d) PROVE IsAck(d[i], sn, D, H)
    BY DEF Acknowledges
  <2>1. d[i].una = Nr(sn, r) BY <1>3 DEF Emits
  <2>2. d[i].cmd = "ACK" => \E j \in 1..Len(D) : j \in H /\ d[i].sn = Nr(sn, j)
    <3>1. d[i].cmd = "ACK" => \E m \in 1..Len(kp.acklist) : d[i].sn = kp.acklist[m] BY DEF Emits
    <3> QED BY <1>6, <3>1
  <2> QED BY <1>3, <1>5, <2>1, <2>2 DEF IsAck
<1>9. \A d \in back : Acknowledges(d, sn, D, H) BY <1>1 DEF Dir
<1>10. \A j \in 1..Len(D) : Seg(sn, D, j) \in kn.snd_buf \/ j \in H BY <1>1 DEF Dir
<1> QED BY <1>2, <1>3, <1>7, <1>8, <1>9, <1>10 DEF Dir

\* What is in a sequence remains where it is when it gets longer.
LEMMA PrefixSame ==
    ASSUME NEW T, NEW D \in Seq(T), NEW t \in Seq(T), NEW lo \in Int, NEW hi \in Int,
           1 <= lo, lo <= hi + 1, hi <= Len(D)
    PROVE  SubSeq(D \o t, lo, hi) = SubSeq(D, lo, hi)
<1>1. PICK E : E = D \o t OBVIOUS
<1>2. /\ E \in Seq(T) /\ Len(E) = Len(D) + Len(t) /\ Len(D) \in Nat /\ Len(t) \in Nat
      /\ \A i \in 1..Len(D) : E[i] = D[i]
  BY <1>1, ConcatIs
<1>3. hi <= Len(E) BY <1>2
<1>4. PICK x, y : x = SubSeq(E, lo, hi) /\ y = SubSeq(D, lo, hi) OBVIOUS
<1>5. /\ x \in Seq(T) /\ Len(x) = hi - lo + 1
      /\ \A i \in 1..(hi - lo + 1) : x[i] = E[lo + i - 1]
  BY <1>2, <1>3, <1>4, SubSeqIs
<1>6. /\ y \in Seq(T) /\ Len(y) = hi - lo + 1
      /\ \A i \in 1..(hi - lo + 1) : y[i] = D[lo + i - 1]
  BY <1>2, <1>4, SubSeqIs
<1>7. \A i \in 1..(hi - lo + 1) : lo + i - 1 \in 1..Len(D) BY <1>2
<1>8. \A i \in 1..Len(x) : x[i] = y[i] BY <1>2, <1>5, <1>6, <1>7
<1>9. x = y BY <1>5, <1>6, <1>8, SeqEqual
<1> QED BY <1>1, <1>4, <1>9

\* A flush of the sender, which may number pieces.
LEMMA FlushSends ==
    ASSUME NEW kn, NEW kp, NEW out, NEW back, NEW sn, NEW D, NEW u, NEW q, NEW r,
           Dir(kn, kp, out, back, sn, D, u, q, r), NEW F, NEW G, NEW d, Str(kn, F, G, d, D, q),
           NEW o, NEW k2, NEW E, Flushed(kn, o, k2, sn, D, E, u)
    PROVE  /\ Dir(k2, kp, out \cup Range(o), back, sn, E, u, q, r)
           /\ Str(k2, F, G, d, E, q)
<1>1. PICK n, t, rest :
         /\ n \in 0..Len(kn.snd_queue)
         /\ t = SubSeq(kn.snd_queue, 1, n) /\ rest = SubSeq(kn.snd_queue, n + 1, Len(kn.snd_queue))
         /\ E = D \o t /\ k2.snd_queue = rest
  BY DEF Flushed
<1>2. kn.snd_queue \in Seq(Pieces) /\ Len(kn.snd_queue) \in Nat BY DEF Dir, Sender
<1>3. /\ t \in Seq(Pieces) /\ rest \in Seq(Pieces) /\ t \o rest = kn.snd_queue
  <2>1. n \in Nat /\ n <= Len(kn.snd_queue) BY <1>1, <1>2
  <2> QED BY <1>1, <1>2, <2>1, SubSeqCut
<1>4. Data(D) /\ Data(E) /\ sn \in SegmentNumbers BY DEF Dir, Flushed
<1>5. D \in Seq(Pieces) /\ Len(D) \in Nat /\ E \in Seq(Pieces) /\ Len(E) \in Nat BY <1>4, DataIs
<1>6. /\ Len(E) = Len(D) + Len(t) /\ Len(t) \in Nat /\ Len(D) <= Len(E)
      /\ \A j \in 1..Len(D) : E[j] = D[j]
  BY <1>1, <1>3, <1>5, ConcatIs
<1>7. \A j \in 1..Len(D) : j \in 1..Len(E) /\ Seg(sn, E, j) = Seg(sn, D, j)
  BY <1>5, <1>6 DEF Seg
<1>8. /\ q \in 1..r /\ r \in 1..(Len(D) + 1) /\ q \in Nat /\ r \in Nat /\ 1 <= q /\ q <= r /\ r <= Len(D) + 1
  BY <1>5 DEF Dir, Receiver
<1>9. /\ SubSeq(E, q, r - 1) = SubSeq(D, q, r - 1) /\ SubSeq(E, 1, q - 1) = SubSeq(D, 1, q - 1)
  <2>1. PICK l \in Int, h \in Int : l = q /\ h = r - 1 BY <1>8
  <2>2. 1 <= l /\ l <= h + 1 /\ h <= Len(D) BY <1>5, <1>8, <2>1
  <2>3. SubSeq(E, l, h) = SubSeq(D, l, h) BY <1>1, <1>3, <1>5, <2>2, PrefixSame
  <2>4. PICK m \in Int : m = q - 1 BY <1>8
  <2>5. 1 \in Int /\ 1 <= 1 /\ 1 <= m + 1 /\ m <= Len(D) BY <1>5, <1>8, <2>4
  <2>6. SubSeq(E, 1, m) = SubSeq(D, 1, m) BY <1>1, <1>3, <1>5, <2>5, PrefixSame
  <2> QED BY <2>1, <2>3, <2>4, <2>6
<1>10. Receiver(kp, sn, E, q, r)
  <2>1. /\ r - q <= RcvWnd /\ kp.rcv_nxt = Nr(sn, r) /\ kp.rcv_queue = SubSeq(D, q, r - 1)
        /\ \A s \in kp.rcv_buf : \E j \in r..Len(D) : j < r + RcvWnd /\ s = Seg(sn, D, j)
    BY DEF Dir, Receiver
  <2>2. r \in 1..(Len(E) + 1) BY <1>5, <1>6, <1>8
  <2>3. \A s \in kp.rcv_buf : \E j \in r..Len(E) : j < r + RcvWnd /\ s = Seg(sn, E, j)
    <3> SUFFICES ASSUME NEW s \in kp.rcv_buf
                 PROVE  \E j \in r..Len(E) : j < r + RcvWnd /\ s = Seg(sn, E, j)
      OBVIOUS
    <3>1. PICK j \in r..Len(D) : j < r + RcvWnd /\ s = Seg(sn, D, j) BY <2>1
    <3>2. j \in 1..Len(D) /\ j \in r..Len(E) BY <1>5, <1>6, <1>8, <3>1
    <3> QED BY <1>7, <3>1, <3>2
  <2> QED BY <1>8, <1>9, <2>1, <2>2, <2>3 DEF Receiver
<1>11. PICK H, H2 : H = Has(kp, sn, D, r) /\ H2 = Has(kp, sn, E, r) OBVIOUS
<1>12. H \subseteq H2 /\ H \subseteq 1..Len(D)
  <2>1. H \subseteq 1..Len(D) BY <1>11 DEF Has
  <2>2. ASSUME NEW j \in H PROVE j \in H2
    <3>1. j \in 1..Len(D) /\ (j < r \/ Seg(sn, D, j) \in kp.rcv_buf) BY <1>11, <2>2 DEF Has
    <3> QED BY <1>7, <1>11, <3>1 DEF Has
  <2> QED BY <2>1, <2>2
<1>13. Acks(kp, sn, E, r) BY <1>11, <1>12 DEF Dir, Acks
<1>14. \A j \in 1..Len(E) : Seg(sn, E, j) \in k2.snd_buf \/ j \in H2
  <2> SUFFICES ASSUME NEW j \in 1..Len(E) PROVE Seg(sn, E, j) \in k2.snd_buf \/ j \in H2 OBVIOUS
  <2>1. CASE j \in 1..Len(D)
    <3>1. Seg(sn, D, j) \in kn.snd_buf \/ j \in H BY <1>11, <2>1 DEF Dir
    <3>2. kn.snd_buf \subseteq k2.snd_buf BY DEF Flushed
    <3> QED BY <1>7, <1>12, <2>1, <3>1, <3>2
  <2>2. CASE j \notin 1..Len(D)
    <3>1. j \in (Len(D) + 1)..Len(E) BY <1>5, <2>2
    <3> QED BY <3>1 DEF Flushed
  <2> QED BY <2>1, <2>2
<1>15. \A e \in out \cup Range(o) : Pushes(e, sn, E)
  <2>1. \A e \in Range(o) : Pushes(e, sn, E) BY DEF Flushed
  <2>2. ASSUME NEW e \in out PROVE Pushes(e, sn, E)
    <3>1. Pushes(e, sn, D) BY DEF Dir
    <3>2. ASSUME NEW s, IsPush(s, sn, D) PROVE IsPush(s, sn, E) BY <1>6, <1>7, <3>2 DEF IsPush
    <3> QED BY <3>1, <3>2 DEF Pushes
  <2> QED BY <2>1, <2>2
<1>16. \A e \in back : Acknowledges(e, sn, E, H2)
  <2> SUFFICES ASSUME NEW e \in back, NEW i \in 1..Len(e) PROVE IsAck(e[i], sn, E, H2)
    BY DEF Acknowledges
  <2>1. IsAck(e[i], sn, D, H) BY <1>11 DEF Dir, Acknowledges
  <2>2. \A x \in 1..(Len(D) + 1) : x \in 1..(Len(E) + 1) BY <1>5, <1>6
  <2>3. \E x \in 1..(Len(E) + 1) : e[i].una = Nr(sn, x) /\ 1..(x - 1) \subseteq H2
    BY <1>12, <2>1, <2>2 DEF IsAck
  <2>4. e[i].cmd = "ACK" => \E x \in 1..Len(E) : x \in H2 /\ e[i].sn = Nr(sn, x)
    BY <1>7, <1>12, <2>1 DEF IsAck
  <2> QED BY <2>3, <2>4 DEF IsAck
<1>17. Sender(k2, sn, E, u) BY DEF Flushed
<1>18. Dir(k2, kp, out \cup Range(o), back, sn, E, u, q, r)
  BY <1>4, <1>10, <1>11, <1>13, <1>14, <1>15, <1>16, <1>17 DEF Dir
<1>19. F = FlattenSeq(E) \o FlattenSeq(rest)
  <2>1. D \in Seq(Seq(Units)) /\ t \in Seq(Seq(Units)) /\ rest \in Seq(Seq(Units))
    BY <1>3, <1>5, PiecesAre
  <2>2. FlattenSeq(E) = FlattenSeq(D) \o FlattenSeq(t) BY <1>1, <2>1, FlattenConcat
  <2>3. FlattenSeq(kn.snd_queue) = FlattenSeq(t) \o FlattenSeq(rest) BY <1>3, <2>1, FlattenConcat
  <2>4. PICK x \in Seq(Units), y \in Seq(Units), z \in Seq(Units) :
            x = FlattenSeq(D) /\ y = FlattenSeq(t) /\ z = FlattenSeq(rest)
    BY <2>1, FlattenType
  <2>5. (x \o y) \o z = x \o (y \o z)
    BY ONLY x \in Seq(Units), y \in Seq(Units), z \in Seq(Units), ConcatAssociative, SMTT(20)
  <2>6. F = FlattenSeq(D) \o FlattenSeq(kn.snd_queue) BY DEF Str
  <2> QED BY <2>2, <2>3, <2>4, <2>5, <2>6
<1>20. Str(k2, F, G, d, E, q) BY <1>1, <1>9, <1>19 DEF Str
<1> QED BY <1>18, <1>20

\* What a link says of the queues.
LEMMA LinkFacts ==
    ASSUME NEW kn, NEW kp, NEW out, NEW back, NEW F, NEW G, NEW d, Link(kn, kp, out, back, F, G, d)
    PROVE  /\ kn.snd_queue \in Seq(Pieces) /\ kp.rcv_queue \in Seq(Pieces)
           /\ kp.acklist \in Seq(SegmentNumbers)
           /\ \E rest \in Seq(Units) :
                 /\ F = (G \o Readable(d)) \o rest
                 /\ F \in Seq(Units) /\ G \in Seq(Units)
<1>1. PICK sn, D, u, q, r : Dir(kn, kp, out, back, sn, D, u, q, r) /\ Str(kn, F, G, d, D, q)
  BY DEF Link
<1>2. kn.snd_queue \in Seq(Pieces) /\ kp.acklist \in Seq(SegmentNumbers)
  BY <1>1 DEF Dir, Sender, Acks
<1>3. /\ D \in Seq(Pieces) /\ D \in Seq(Seq(Units)) /\ Len(D) \in Nat
      /\ kn.snd_queue \in Seq(Seq(Units))
  BY <1>1, <1>2, DataIs, PiecesAre DEF Dir
<1>4. q \in Nat /\ r \in Nat /\ 1 <= q /\ q <= r /\ r <= Len(D) + 1 /\ kp.rcv_queue = SubSeq(D, q, r - 1)
  BY <1>1, <1>3 DEF Dir, Receiver
<1>5. kp.rcv_queue \in Seq(Pieces)
  <2>1. PICK l \in Int, h \in Int : l = q /\ h = r - 1 BY <1>4
  <2>2. 1 <= l /\ l <= h + 1 /\ h <= Len(D) BY <1>3, <1>4, <2>1
  <2>3. SubSeq(D, l, h) \in Seq(Pieces) BY <1>3, <2>2, SubSeqIs
  <2> QED BY <1>4, <2>1, <2>3
<1>6. PICK m \in Nat : m = q - 1 /\ m <= Len(D) BY <1>3, <1>4
<1>7. PICK s, t : s = SubSeq(D, 1, m) /\ t = SubSeq(D, m + 1, Len(D)) OBVIOUS
<1>8. s \in Seq(Seq(Units)) /\ t \in Seq(Seq(Units)) /\ s \o t = D BY <1>3, <1>6, <1>7, SubSeqCut
<1>9. PICK x \in Seq(Units), y \in Seq(Units), z \in Seq(Units) :
         x = FlattenSeq(s) /\ y = FlattenSeq(t) /\ z = FlattenSeq(kn.snd_queue)
  BY <1>3, <1>8, FlattenType
<1>10. FlattenSeq(D) = x \o y BY <1>8, <1>9, FlattenConcat
<1>11. (x \o y) \o z = x \o (y \o z)
  BY ONLY x \in Seq(Units), y \in Seq(Units), z \in Seq(Units), ConcatAssociative, SMTT(20)
<1>12. /\ F \in Seq(Units) /\ G \in Seq(Units) /\ F = FlattenSeq(D) \o FlattenSeq(kn.snd_queue)
       /\ FlattenSeq(SubSeq(D, 1, q - 1)) = G \o Readable(d)
  BY <1>1 DEF Str
<1>13. x = G \o Readable(d) BY <1>6, <1>7, <1>9, <1>12
<1>14. F = x \o (y \o z) BY <1>9, <1>10, <1>11, <1>12
<1>15. y \o z \in Seq(Units) BY ConcatIs
<1>16. PICK w \in Seq(Units) : w = y \o z BY <1>15
<1> QED BY <1>2, <1>5, <1>12, <1>13, <1>14, <1>16

\* Both directions between two nodes n and o: their blocks, the datagrams on the way to
\* them, all they have sent and read, and their receive buffers.
Both(kn, ko, tn, to, Fn, Fo, Gn, Go, dn, do) ==
    /\ Block(kn) /\ Block(ko) /\ BufOk(dn) /\ BufOk(do)
    /\ \A d \in tn \cup to : IsDatagram(d)
    /\ Link(kn, ko, to, tn, Fn, Go, do)
    /\ Link(ko, kn, tn, to, Fo, Gn, dn)

\* The two nodes play the same parts.
LEMMA BothSwap ==
    ASSUME NEW kn, NEW ko, NEW tn, NEW to, NEW Fn, NEW Fo, NEW Gn, NEW Go, NEW dn, NEW do,
           Both(kn, ko, tn, to, Fn, Fo, Gn, Go, dn, do)
    PROVE  Both(ko, kn, to, tn, Fo, Fn, Go, Gn, do, dn)
BY DEF Both

\* Datagrams get lost.
LEMMA BothLess ==
    ASSUME NEW kn, NEW ko, NEW tn, NEW to, NEW Fn, NEW Fo, NEW Gn, NEW Go, NEW dn, NEW do,
           Both(kn, ko, tn, to, Fn, Fo, Gn, Go, dn, do),
           NEW tn2 \in SUBSET tn, NEW to2 \in SUBSET to
    PROVE  Both(kn, ko, tn2, to2, Fn, Fo, Gn, Go, dn, do)
<1>1. PICK sn, D, u, q, r : Dir(kn, ko, to, tn, sn, D, u, q, r) /\ Str(kn, Fn, Go, do, D, q)
  BY DEF Both, Link
<1>2. Dir(kn, ko, to2, tn2, sn, D, u, q, r) BY <1>1 DEF Dir
<1>3. PICK sm, E, v, p, s : Dir(ko, kn, tn, to, sm, E, v, p, s) /\ Str(ko, Fo, Gn, dn, E, p)
  BY DEF Both, Link
<1>4. Dir(ko, kn, tn2, to2, sm, E, v, p, s) BY <1>3 DEF Dir
<1>5. Link(kn, ko, to2, tn2, Fn, Go, do) /\ Link(ko, kn, tn2, to2, Fo, Gn, dn)
  BY <1>1, <1>2, <1>3, <1>4 DEF Link
<1> QED BY <1>5 DEF Both

\* ikcp_input.
LEMMA BothInput ==
    ASSUME NEW kn, NEW ko, NEW tn, NEW to, NEW Fn, NEW Fo, NEW Gn, NEW Go, NEW dn, NEW do,
           Both(kn, ko, tn, to, Fn, Fo, Gn, Go, dn, do), NEW d \in tn
    PROVE  Both(KcpInput(kn, d), ko, tn, to, Fn, Fo, Gn, Go, dn, do)
<1>1. Block(kn) /\ IsDatagram(d) BY DEF Both
<1>2. PICK sn, D, u, q, r : Dir(kn, ko, to, tn, sn, D, u, q, r) /\ Str(kn, Fn, Go, do, D, q)
  BY DEF Both, Link
<1>3. PICK sm, E, v, p, s : Dir(ko, kn, tn, to, sm, E, v, p, s) /\ Str(ko, Fo, Gn, dn, E, p)
  BY DEF Both, Link
<1>4. PICK k : k = KcpInput(kn, d) OBVIOUS
<1>5. Block(k) /\ k.snd_queue = kn.snd_queue /\ \E u2 : Dir(k, ko, to, tn, sn, D, u2, q, r)
  BY <1>1, <1>2, <1>4, TakeAck
<1>6. PICK u2 : Dir(k, ko, to, tn, sn, D, u2, q, r) BY <1>5
<1>7. Str(k, Fn, Go, do, D, q) BY <1>2, <1>5 DEF Str
<1>8. PICK s2 : Dir(ko, k, tn, to, sm, E, v, p, s2) BY <1>1, <1>3, <1>4, TakePush
<1>9. Link(k, ko, to, tn, Fn, Go, do) /\ Link(ko, k, tn, to, Fo, Gn, dn)
  BY <1>3, <1>6, <1>7, <1>8 DEF Link
<1>10. Both(k, ko, tn, to, Fn, Fo, Gn, Go, dn, do) BY <1>5, <1>9 DEF Both
<1> QED BY <1>4, <1>10

\* What the queues hold is no more than what was sent.
LEMMA FewPieces ==
    ASSUME NEW kn, NEW F, NEW G, NEW d, NEW D, NEW q, Str(kn, F, G, d, D, q), Data(D),
           kn.snd_queue \in Seq(Pieces)
    PROVE  Len(D) + Len(kn.snd_queue) <= Len(F)
<1>1. PICK t \in Seq(Pieces) : t = kn.snd_queue OBVIOUS
<1>2. D \in Seq(Pieces) /\ D \in Seq(Seq(Units)) /\ t \in Seq(Seq(Units)) BY DataIs, PiecesAre
<1>3. PICK E \in Seq(Pieces) : E = D \o t /\ Len(E) = Len(D) + Len(t) BY <1>2, ConcatIs
<1>4. E \in Seq(Seq(Units) \ {<<>>}) BY <1>3 DEF Pieces
<1>5. Len(E) <= Len(FlattenSeq(E)) BY <1>4, FlattenLength
<1>6. FlattenSeq(E) = FlattenSeq(D) \o FlattenSeq(t) BY <1>2, <1>3, FlattenConcat
<1>7. F = FlattenSeq(D) \o FlattenSeq(t) BY <1>1 DEF Str
<1> QED BY <1>1, <1>3, <1>5, <1>6, <1>7

\* A sequence has finitely many elements.
LEMMA RangeFinite ==
    ASSUME NEW T, NEW s \in Seq(T)
    PROVE  IsFiniteSet(Range(s))
<1>1. PICK n \in Nat : n = Len(s) OBVIOUS
<1>2. DOMAIN s = 1..n /\ s \in [1..n -> Range(s)] BY <1>1 DEF Range
<1>3. \A x \in Range(s) : \E i \in 1..n : s[i] = x BY <1>2 DEF Range
<1>4. s \in Surjection(1..n, Range(s)) BY <1>2, <1>3 DEF Surjection
<1>5. IsFiniteSet(1..n) BY <1>1, FS_Interval
<1> QED BY <1>4, <1>5, FS_Surjection

\* ikcp_update, as long as the numbers have not come half around.
LEMMA BothUpdate ==
    ASSUME NEW kn, NEW ko, NEW tn, NEW to, NEW Fn, NEW Fo, NEW Gn, NEW Go, NEW dn, NEW do,
           Both(kn, ko, tn, to, Fn, Fo, Gn, Go, dn, do),
           Len(Fn) + RcvWnd < Half, NEW up \in KcpUpdates(kn)
    PROVE  /\ Both(up.kcp, ko, tn, to \cup Range(up.out), Fn, Fo, Gn, Go, dn, do)
           /\ up.kcp.rcv_queue = kn.rcv_queue /\ IsFiniteSet(Range(up.out))
<1>1. PICK sn, D, u, q, r : Dir(kn, ko, to, tn, sn, D, u, q, r) /\ Str(kn, Fn, Go, do, D, q)
  BY DEF Both, Link
<1>2. PICK sm, E, v, p, s : Dir(ko, kn, tn, to, sm, E, v, p, s) /\ Str(ko, Fo, Gn, dn, E, p)
  BY DEF Both, Link
<1> DEFINE Goal == /\ Both(up.kcp, ko, tn, to \cup Range(up.out), Fn, Fo, Gn, Go, dn, do)
                   /\ up.kcp.rcv_queue = kn.rcv_queue /\ IsFiniteSet(Range(up.out))
<1>3. CASE up = [out |-> <<>>, kcp |-> kn]
  <2>1. up.kcp = kn /\ Range(up.out) = {} BY <1>3 DEF Range
  <2>2. to \cup Range(up.out) = to /\ IsFiniteSet({}) BY <2>1, FS_EmptySet
  <2> QED BY <2>1, <2>2
<1>4. ASSUME NEW again \in SUBSET kn.snd_buf, NEW probeDue \in BOOLEAN, up = KcpFlush(kn, again, probeDue)
      PROVE  Goal
  <2>1. /\ sn \in SegmentNumbers /\ Data(D) /\ Sender(kn, sn, D, u) /\ Block(kn)
        /\ kn.snd_queue \in Seq(Pieces)
    BY <1>1 DEF Dir, Sender, Both
  <2>2. kn.acklist \in Seq(SegmentNumbers) /\ kn.rcv_queue \in Seq(Pieces)
    BY LinkFacts DEF Both
  <2>3. Len(D) + Len(kn.snd_queue) + RcvWnd < Half
    <3>1. Len(D) + Len(kn.snd_queue) <= Len(Fn) BY <1>1, <2>1, FewPieces
    <3>2. Len(D) \in Nat /\ Len(kn.snd_queue) \in Nat /\ Len(Fn) \in Nat /\ Half \in Nat /\ RcvWnd \in Nat
      BY <1>1, <2>1, DataIs, Words DEF Str
    <3> QED BY <3>1, <3>2
  <2>4. PICK D2 : Flushed(kn, up.out, up.kcp, sn, D, D2, u) BY <1>4, <2>1, <2>2, <2>3, FlushIs
  <2>5. PICK k, o : k = up.kcp /\ o = up.out OBVIOUS
  <2>6. Flushed(kn, o, k, sn, D, D2, u) BY <2>4, <2>5
  <2>7. Dir(k, ko, to \cup Range(o), tn, sn, D2, u, q, r) /\ Str(k, Fn, Go, do, D2, q)
    BY <1>1, <2>6, FlushSends
  <2>8. Emits(kn, o, k) BY <2>6 DEF Flushed, Emits
  <2>9. Dir(ko, k, tn, to \cup Range(o), sm, E, v, p, s) BY <1>2, <2>8, FlushAcks
  <2>10. Link(k, ko, to \cup Range(o), tn, Fn, Go, do) /\ Link(ko, k, tn, to \cup Range(o), Fo, Gn, dn)
    BY <1>2, <2>7, <2>9 DEF Link
  <2>11. Block(k) /\ \A d \in Range(o) : IsDatagram(d) BY <2>6 DEF Flushed
  <2>12. Both(k, ko, tn, to \cup Range(o), Fn, Fo, Gn, Go, dn, do) BY <2>10, <2>11 DEF Both
  <2>13. k.rcv_queue = kn.rcv_queue /\ IsFiniteSet(Range(o)) BY <2>6, RangeFinite DEF Flushed
  <2> QED BY <2>5, <2>12, <2>13
<1>5. \/ up = [out |-> <<>>, kcp |-> kn]
      \/ \E again \in SUBSET kn.snd_buf, probeDue \in BOOLEAN : up = KcpFlush(kn, again, probeDue)
  BY DEF KcpUpdates
<1> QED BY <1>3, <1>4, <1>5

\* ikcp_recv until there is nothing more leaves what the block sends alone.
LEMMA RecvAllIs ==
    ASSUME NEW k, Block(k)
    PROVE  /\ Block(KcpRecvAll(k).kcp) /\ SameSender(k, KcpRecvAll(k).kcp)
           /\ KcpRecvAll(k).kcp.rcv_queue = <<>>
<1>1. PICK all : all = MoveAvailable(k, Cardinality(k.rcv_buf)) BY Zenon
<1>2. PICK b1, q1, n1 : all = [k EXCEPT !.rcv_buf = b1, !.rcv_queue = q1, !.rcv_nxt = n1]
  BY <1>1, Zenon DEF MoveAvailable
<1>3. DOMAIN k = Fields BY DEF Block
<1>4. /\ DOMAIN all = Fields
      /\ all.snd_una = k.snd_una /\ all.snd_nxt = k.snd_nxt /\ all.rmt_wnd = k.rmt_wnd
      /\ all.snd_buf = k.snd_buf /\ all.snd_queue = k.snd_queue
  BY <1>2, <1>3 DEF Fields
<1>5. PICK ask : KcpRecvAll(k).kcp = [all EXCEPT !.rcv_queue = <<>>, !.ask_tell = ask]
  BY <1>1, Zenon DEF KcpRecvAll
<1>6. PICK k2 : k2 = KcpRecvAll(k).kcp OBVIOUS
<1>7. k2 = [all EXCEPT !.rcv_queue = <<>>, !.ask_tell = ask] BY <1>5, <1>6
<1>8. /\ DOMAIN k2 = Fields /\ k2.rcv_queue = <<>>
      /\ k2.snd_una = all.snd_una /\ k2.snd_nxt = all.snd_nxt /\ k2.rmt_wnd = all.rmt_wnd
      /\ k2.snd_buf = all.snd_buf /\ k2.snd_queue = all.snd_queue
  BY <1>4, <1>7 DEF Fields
<1>9. Block(k2) /\ SameSender(k, k2) BY <1>3, <1>4, <1>8 DEF Block, SameSender
<1> QED BY <1>6, <1>8, <1>9

\* ikcp_recv until there is nothing, into the receive buffer.
LEMMA BothRecv ==
    ASSUME NEW kn, NEW ko, NEW tn, NEW to, NEW Fn, NEW Fo, NEW Gn, NEW Go, NEW dn, NEW do,
           Both(kn, ko, tn, to, Fn, Fo, Gn, Go, dn, do)
    PROVE  /\ Both(KcpRecvAll(kn).kcp, ko, tn, to, Fn, Fo, Gn, Go, Appended(dn, KcpRecvAll(kn).data), do)
           /\ Len(dn.mem) <= Len(Appended(dn, KcpRecvAll(kn).data).mem)
<1>1. PICK sn, D, u, q, r : Dir(kn, ko, to, tn, sn, D, u, q, r) /\ Str(kn, Fn, Go, do, D, q)
  BY DEF Both, Link
<1>2. PICK sm, E, v, p, s : Dir(ko, kn, tn, to, sm, E, v, p, s) /\ Str(ko, Fo, Gn, dn, E, p)
  BY DEF Both, Link
<1>3. PICK k, data, d : /\ k = KcpRecvAll(kn).kcp /\ data = KcpRecvAll(kn).data
                        /\ d = Appended(dn, data)
  OBVIOUS
<1>4. Block(kn) /\ BufOk(dn) BY DEF Both
<1>5. Block(k) /\ SameSender(kn, k) BY <1>3, <1>4, RecvAllIs
<1>6. Dir(k, ko, to, tn, sn, D, u, q, r)
  <2>1. Sender(k, sn, D, u) BY <1>1, <1>5 DEF Dir, Sender, SameSender
  <2>2. k.snd_buf = kn.snd_buf BY <1>5 DEF SameSender
  <2> QED BY <1>1, <2>1, <2>2 DEF Dir
<1>7. Str(k, Fn, Go, do, D, q) BY <1>1, <1>5 DEF Str, SameSender
<1>8. /\ sm \in SegmentNumbers /\ Data(E) /\ DOMAIN kn = Fields
      /\ Receiver(kn, sm, E, p, s) /\ Acks(kn, sm, E, s)
  BY <1>2, <1>4 DEF Dir, Block
<1>9. PICK r2 \in Nat : /\ p <= r2 /\ r2 <= Len(E) + 1
                        /\ Received(kn, KcpRecvAll(kn).kcp, sm, E, r2, s, r2)
                        /\ KcpRecvAll(kn).data = SubSeq(E, p, r2 - 1)
  BY <1>8, RecvAllReceives
<1>10. Received(kn, k, sm, E, r2, s, r2) /\ data = SubSeq(E, p, r2 - 1) BY <1>3, <1>9
<1>11. Dir(ko, k, tn, to, sm, E, v, r2, r2) BY <1>2, <1>10, GoesOn
<1>12. E \in Seq(Pieces) /\ E \in Seq(Seq(Units)) /\ Len(E) \in Nat BY <1>8, DataIs
<1>13. p \in Nat /\ 1 <= p
  <2>1. p \in 1..s /\ s \in 1..(Len(E) + 1) BY <1>8 DEF Receiver
  <2> QED BY <1>12, <2>1
<1>14. PICK m \in Int, h \in Int : m = p - 1 /\ h = r2 - 1 BY <1>9, <1>13
<1>15. PICK x, y : x = SubSeq(E, 1, m) /\ y = SubSeq(E, p, h) OBVIOUS
<1>16. x \in Seq(Seq(Units)) /\ y \in Seq(Seq(Units))
  <2>1. 1 \in Int /\ 1 <= 1 /\ 1 <= m + 1 /\ m <= Len(E) BY <1>9, <1>12, <1>13, <1>14
  <2>2. p \in Int /\ 1 <= p /\ p <= h + 1 /\ h <= Len(E) BY <1>9, <1>12, <1>13, <1>14
  <2> QED BY <1>12, <1>14, <1>15, <2>1, <2>2, SubSeqIs
<1>17. x \o y = SubSeq(E, 1, h)
  <2>1. PICK one \in Int, p2 \in Int, t \in Int : one = 1 /\ p2 = p /\ t = r2 BY <1>9, <1>13
  <2>2. 1 <= one /\ one <= p2 /\ p2 <= t /\ t <= Len(E) + 1 BY <1>9, <1>13, <2>1
  <2>3. SubSeq(E, one, p2 - 1) \o SubSeq(E, p2, t - 1) = SubSeq(E, one, t - 1)
    BY <1>12, <2>2, SubSeqJoin
  <2> QED BY <1>14, <1>15, <2>1, <2>3
<1>18. FlattenSeq(SubSeq(E, 1, h)) = FlattenSeq(x) \o FlattenSeq(y) BY <1>16, <1>17, FlattenConcat
<1>19. data = y BY <1>10, <1>14, <1>15
<1>20. /\ BufOk(d) /\ Readable(d) = Readable(dn) \o FlattenSeq(y) /\ Len(dn.mem) <= Len(d.mem)
  BY <1>3, <1>4, <1>16, <1>19, AppendedIs
<1>21. FlattenSeq(x) = Gn \o Readable(dn) BY <1>2, <1>14, <1>15 DEF Str
<1>22. FlattenSeq(SubSeq(E, 1, h)) = Gn \o Readable(d)
  <2>1. PICK e \in Seq(Units), f \in Seq(Units), g \in Seq(Units) :
            e = Gn /\ f = Readable(dn) /\ g = FlattenSeq(y)
    BY <1>2, <1>4, <1>16, FlattenType DEF Str, BufOk
  <2>2. (e \o f) \o g = e \o (f \o g)
    BY ONLY e \in Seq(Units), f \in Seq(Units), g \in Seq(Units), ConcatAssociative, SMTT(20)
  <2> QED BY <1>18, <1>20, <1>21, <2>1, <2>2
<1>23. Str(ko, Fo, Gn, d, E, r2) BY <1>2, <1>14, <1>22 DEF Str
<1>24. Link(k, ko, to, tn, Fn, Go, do) /\ Link(ko, k, tn, to, Fo, Gn, d)
  BY <1>6, <1>7, <1>11, <1>23 DEF Link
<1>25. Both(k, ko, tn, to, Fn, Fo, Gn, Go, d, do) BY <1>5, <1>20, <1>24 DEF Both
<1> QED BY <1>3, <1>20, <1>25

\* ikcp_send.
LEMMA BothSend ==
    ASSUME NEW kn, NEW ko, NEW tn, NEW to, NEW Fn, NEW Fo, NEW Gn, NEW Go, NEW dn, NEW do,
           Both(kn, ko, tn, to, Fn, Fo, Gn, Go, dn, do), NEW data \in Seq(Units)
    PROVE  /\ Both(KcpSend(kn, data), ko, tn, to, Fn \o data, Fo, Gn, Go, dn, do)
           /\ KcpSend(kn, data).rcv_queue = kn.rcv_queue
<1>1. PICK sn, D, u, q, r : Dir(kn, ko, to, tn, sn, D, u, q, r) /\ Str(kn, Fn, Go, do, D, q)
  BY DEF Both, Link
<1>2. PICK sm, E, v, p, s : Dir(ko, kn, tn, to, sm, E, v, p, s) /\ Str(ko, Fo, Gn, dn, E, p)
  BY DEF Both, Link
<1>3. PICK k : k = KcpSend(kn, data) OBVIOUS
<1>4. Block(kn) /\ Sender(kn, sn, D, u) BY <1>1 DEF Both, Dir
<1>5. /\ Block(k) /\ SameReceiver(kn, k) /\ Sender(k, sn, D, u) /\ k.snd_buf = kn.snd_buf
      /\ FlattenSeq(k.snd_queue) = FlattenSeq(kn.snd_queue) \o data
  BY <1>3, <1>4, SendIs
<1>6. Dir(k, ko, to, tn, sn, D, u, q, r) BY <1>1, <1>5 DEF Dir
<1>7. Str(k, Fn \o data, Go, do, D, q)
  <2>1. D \in Seq(Seq(Units)) /\ kn.snd_queue \in Seq(Seq(Units))
    BY <1>1, <1>4, DataIs, PiecesAre DEF Dir, Sender
  <2>2. PICK e \in Seq(Units), f \in Seq(Units) : e = FlattenSeq(D) /\ f = FlattenSeq(kn.snd_queue)
    BY <2>1, FlattenType
  <2>3. (e \o f) \o data = e \o (f \o data)
    BY ONLY e \in Seq(Units), f \in Seq(Units), data \in Seq(Units), ConcatAssociative, SMTT(20)
  <2>4. Fn = e \o f /\ Fn \in Seq(Units) BY <1>1, <2>2 DEF Str
  <2>5. Fn \o data \in Seq(Units) BY <2>4, ConcatIs
  <2>6. Fn \o data = FlattenSeq(D) \o FlattenSeq(k.snd_queue) BY <1>5, <2>2, <2>3, <2>4
  <2> QED BY <1>1, <2>5, <2>6 DEF Str
<1>8. Received(kn, k, sm, E, p, s, s) BY <1>2, <1>5, Receives DEF Dir
<1>9. Dir(ko, k, tn, to, sm, E, v, p, s) BY <1>2, <1>8, GoesOn
<1>10. Link(k, ko, to, tn, Fn \o data, Go, do) /\ Link(ko, k, tn, to, Fo, Gn, dn)
  BY <1>2, <1>6, <1>7, <1>9 DEF Link
<1>11. Both(k, ko, tn, to, Fn \o data, Fo, Gn, Go, dn, do) BY <1>5, <1>10 DEF Both
<1>12. k.rcv_queue = kn.rcv_queue BY <1>5 DEF SameReceiver
<1> QED BY <1>3, <1>11, <1>12

\* What read() returns leaves the buffer.
LEMMA BothRetrieve ==
    ASSUME NEW kn, NEW ko, NEW tn, NEW to, NEW Fn, NEW Fo, NEW Gn, NEW Go, NEW dn, NEW do,
           Both(kn, ko, tn, to, Fn, Fo, Gn, Go, dn, do), NEW len \in Nat, len <= ReadableSize(dn)
    PROVE  Both(kn, ko, tn, to, Fn, Fo, Gn \o SubSeq(Readable(dn), 1, len), Go, Retrieve(dn, len), do)
<1>1. PICK sm, E, v, p, s : Dir(ko, kn, tn, to, sm, E, v, p, s) /\ Str(ko, Fo, Gn, dn, E, p)
  BY DEF Both, Link
<1>2. PICK e, m, x : e = Retrieve(dn, len) /\ m = SubSeq(Readable(dn), 1, len) /\ x = Readable(e)
  OBVIOUS
<1>3. BufOk(dn) BY DEF Both
<1>4. BufOk(e) /\ m \in Seq(Units) /\ x \in Seq(Units) /\ m \o x = Readable(dn)
  BY <1>2, <1>3, RetrieveIs
<1>5. Str(ko, Fo, Gn \o m, e, E, p)
  <2>1. PICK g \in Seq(Units), f \in Seq(Units), h \in Seq(Units) : g = Gn /\ f = m /\ h = x
    BY <1>1, <1>4 DEF Str
  <2>2. (g \o f) \o h = g \o (f \o h)
    BY ONLY g \in Seq(Units), f \in Seq(Units), h \in Seq(Units), ConcatAssociative, SMTT(20)
  <2>3. g \o m \in Seq(Units) BY <1>4, ConcatIs
  <2>4. FlattenSeq(SubSeq(E, 1, p - 1)) = g \o Readable(dn) BY <1>1, <2>1 DEF Str
  <2>5. FlattenSeq(SubSeq(E, 1, p - 1)) = (Gn \o m) \o Readable(e) BY <1>2, <1>4, <2>1, <2>2, <2>4
  <2> QED BY <1>1, <2>1, <2>3, <2>5 DEF Str
<1>6. Link(ko, kn, tn, to, Fo, Gn \o m, e) BY <1>1, <1>5 DEF Link
<1>7. Both(kn, ko, tn, to, Fn, Fo, Gn \o m, Go, e, do) BY <1>4, <1>6 DEF Both
<1> QED BY <1>2, <1>7

\* A message: two units for its length, and its content.
LEMMA MessageIs ==
    ASSUME NEW i \in Nat, NEW len \in Nat
    PROVE  /\ Message(i, len) \in Seq(Units) /\ Len(Message(i, len)) = 2 + len
           /\ \A j \in 1..(2 + len) : Message(i, len)[j] = <<i, len, j>>
<1>1. Message(i, len) \in [1..(2 + len) -> Units] BY DEF Message, Units
<1>2. 2 + len \in Nat OBVIOUS
<1>3. /\ DOMAIN Message(i, len) = 1..(2 + len)
      /\ \A j \in 1..(2 + len) : Message(i, len)[j] = <<i, len, j>>
  BY DEF Message
<1> HIDE DEF Units
<1>4. PICK n \in Nat, m \in {Message(i, len)} : n = 2 + len BY <1>2
<1>5. m \in [1..n -> Units] BY <1>1, <1>4
<1>6. m \in Seq(Units) /\ Len(m) = n BY <1>5
<1> QED BY <1>3, <1>4, <1>6

\* The lengths of the messages.
LEMMA LengthsAre == Lengths \subseteq Nat
<1> SUFFICES ASSUME NEW len \in Lengths PROVE len \in Nat OBVIOUS
<1>1. PICK n \in Nodes : len \in Range(MessageLens[n]) BY DEF Lengths
<1>2. MessageLens[n] \in Seq(Nat) BY StreamAssumption
<1>3. PICK i \in DOMAIN MessageLens[n] : len = MessageLens[n][i] BY <1>1 DEF Range
<1> QED BY <1>2, <1>3

\* What follows the same beginning is the same.
LEMMA Cancel ==
    ASSUME NEW T, NEW s \in Seq(T), NEW t1 \in Seq(T), NEW t2 \in Seq(T), s \o t1 = s \o t2
    PROVE  t1 = t2
<1>1. PICK x, y : x = s \o t1 /\ y = s \o t2 /\ x = y OBVIOUS
<1>2. /\ Len(x) = Len(s) + Len(t1) /\ Len(s) \in Nat /\ Len(t1) \in Nat
      /\ \A i \in 1..Len(t1) : x[Len(s) + i] = t1[i]
  BY <1>1, ConcatIs
<1>3. /\ Len(y) = Len(s) + Len(t2) /\ Len(t2) \in Nat
      /\ \A i \in 1..Len(t2) : y[Len(s) + i] = t2[i]
  BY <1>1, ConcatIs
<1>4. Len(t1) = Len(t2) BY <1>1, <1>2, <1>3
<1>5. \A i \in 1..Len(t1) : t1[i] = t2[i] BY <1>1, <1>2, <1>3, <1>4
<1> QED BY <1>4, <1>5, SeqEqual

\* Messages s were sent, the first of them, g, read, and R is in the buffer:
\* then R begins as the next message does.
LEMMA NextMessage ==
    ASSUME NEW s \in Seq(Seq(Units)), NEW g \in Seq(Seq(Units)), NEW R \in Seq(Units), NEW rest \in Seq(Units),
           Len(g) <= Len(s), \A i \in 1..Len(g) : g[i] = s[i],
           FlattenSeq(s) = (FlattenSeq(g) \o R) \o rest, Len(R) # 0
    PROVE  /\ Len(g) + 1 \in 1..Len(s)
           /\ \A i \in 1..Len(R) : i <= Len(s[Len(g) + 1]) => R[i] = s[Len(g) + 1][i]
<1>1. PICK n \in Nat, m \in Nat, l \in Nat : n = Len(g) /\ m = Len(s) /\ l = Len(R) OBVIOUS
<1>2. PICK p, t : p = SubSeq(s, 1, n) /\ t = SubSeq(s, n + 1, m) OBVIOUS
<1>3. /\ p \in Seq(Seq(Units)) /\ Len(p) = n /\ t \in Seq(Seq(Units)) /\ Len(t) = m - n
      /\ p \o t = s
  <2>1. n \in Nat /\ n <= Len(s) BY <1>1
  <2>2. /\ SubSeq(s, 1, n) \in Seq(Seq(Units)) /\ Len(SubSeq(s, 1, n)) = n
        /\ SubSeq(s, n + 1, Len(s)) \in Seq(Seq(Units)) /\ Len(SubSeq(s, n + 1, Len(s))) = Len(s) - n
        /\ SubSeq(s, 1, n) \o SubSeq(s, n + 1, Len(s)) = s
    BY ONLY <2>1, s \in Seq(Seq(Units)), SubSeqCut
  <2> QED BY ONLY <1>1, <1>2, <2>2
<1>4. p = g
  <2>1. 1 \in Int /\ n \in Int /\ 1 <= 1 /\ 1 <= n + 1 /\ n <= Len(s) BY <1>1
  <2>2. \A i \in 1..(n - 1 + 1) : SubSeq(s, 1, n)[i] = s[1 + i - 1] BY <2>1, SubSeqIs
  <2>3. \A i \in 1..Len(p) : p[i] = g[i] BY <1>1, <1>2, <1>3, <2>2
  <2> QED BY <1>1, <1>3, <2>3, SeqEqual
<1>5. PICK x \in Seq(Units), y \in Seq(Units) : x = FlattenSeq(g) /\ y = FlattenSeq(t)
  BY <1>3, FlattenType
<1>6. FlattenSeq(s) = x \o y BY <1>3, <1>4, <1>5, FlattenConcat
<1>7. (x \o R) \o rest = x \o (R \o rest)
  BY ONLY x \in Seq(Units), R \in Seq(Units), rest \in Seq(Units), ConcatAssociative, SMTT(20)
<1>8. PICK z \in Seq(Units) : z = R \o rest BY ConcatIs
<1>9. x \o y = x \o z BY <1>5, <1>6, <1>7, <1>8
<1>10. y = z BY <1>9, Cancel
<1>11. Len(rest) \in Nat /\ Len(y) = l + Len(rest) /\ \A i \in 1..l : y[i] = R[i]
  BY <1>1, <1>8, <1>10, ConcatIs
<1>12. m - n # 0
  <2> SUFFICES ASSUME m - n = 0 PROVE FALSE OBVIOUS
  <2>1. t = <<>> BY <1>3
  <2>2. y = <<>> BY <1>5, <2>1, FlattenEmpty
  <2> QED BY <1>1, <1>11, <2>2
<1>13. n + 1 \in 1..m /\ 1 <= Len(t) /\ 1 \in Nat
  <2>1. n \in Nat /\ m \in Nat /\ n <= m BY <1>1
  <2> QED BY <1>3, <1>12, <2>1
<1>14. PICK h, tail : h = SubSeq(t, 1, 1) /\ tail = SubSeq(t, 1 + 1, Len(t)) OBVIOUS
<1>15. h \in Seq(Seq(Units)) /\ Len(h) = 1 /\ tail \in Seq(Seq(Units)) /\ h \o tail = t
  <2>1. t \in Seq(Seq(Units)) BY <1>3
  <2>2. /\ SubSeq(t, 1, 1) \in Seq(Seq(Units)) /\ Len(SubSeq(t, 1, 1)) = 1
        /\ SubSeq(t, 1 + 1, Len(t)) \in Seq(Seq(Units))
        /\ SubSeq(t, 1, 1) \o SubSeq(t, 1 + 1, Len(t)) = t
    BY ONLY <1>13, <2>1, SubSeqCut
  <2> QED BY ONLY <1>14, <2>2
<1>16. t[1] = s[n + 1] /\ h[1] = t[1]
  <2>5. PICK p2 \in Seq(Seq(Units)), t2 \in Seq(Seq(Units)) : p2 = p /\ t2 = t BY <1>3
  <2>6. \A i \in 1..Len(t2) : (p2 \o t2)[Len(p2) + i] = t2[i]
    BY ONLY p2 \in Seq(Seq(Units)), t2 \in Seq(Seq(Units)), ConcatIs
  <2>1. \A i \in 1..Len(t) : (p \o t)[Len(p) + i] = t[i] BY <2>5, <2>6
  <2>2. 1 \in 1..Len(t) BY <1>13, <1>3
  <2>3. \A i \in 1..Len(h) : (h \o tail)[i] = h[i] BY <1>15, ConcatIs
  <2>4. 1 \in 1..Len(h) /\ (h \o tail)[1] = h[1] BY <1>15, <2>3
  <2> QED BY <1>3, <1>15, <2>1, <2>2, <2>4
<1>17. h = <<s[n + 1]>> /\ s[n + 1] \in Seq(Units) BY <1>1, <1>13, <1>15, <1>16
<1>18. PICK a1 \in Seq(Units), b1 \in Seq(Units) : a1 = s[n + 1] /\ b1 = FlattenSeq(tail)
  BY <1>15, <1>17, FlattenType
<1>19. FlattenSeq(h) = a1 BY <1>17, <1>18, FlattenOne
<1>20. y = a1 \o b1 BY <1>5, <1>15, <1>18, <1>19, FlattenConcat
<1>21. Len(a1) \in Nat /\ \A i \in 1..Len(a1) : y[i] = a1[i] BY <1>20, ConcatIs
<1>22. ASSUME NEW i \in 1..l, i <= Len(a1) PROVE R[i] = a1[i]
  <2>1. i \in 1..Len(a1) BY <1>21, <1>22
  <2> QED BY <1>11, <1>21, <2>1
<1> QED BY <1>1, <1>13, <1>18, <1>22

\* What read() takes out of the buffer is the next message.
LEMMA ReadIs ==
    ASSUME NEW d, BufOk(d), NEW s \in Seq(Seq(Units)), NEW g \in Seq(Seq(Units)), NEW rest \in Seq(Units),
           Len(g) <= Len(s), \A i \in 1..Len(g) : g[i] = s[i],
           FlattenSeq(s) = (FlattenSeq(g) \o Readable(d)) \o rest,
           NEW lens \in Seq(Nat), Len(s) <= Len(lens),
           \A i \in 1..Len(s) : s[i] = Message(i, lens[i]),
           ReadableSize(d) # 0, NEW len \in LengthsRead(d), len + 2 <= ReadableSize(d)
    PROVE  /\ len \in Nat /\ Len(g) < Len(s)
           /\ SubSeq(Readable(d), 1, len + 2) = s[Len(g) + 1]
<1>1. PICK r \in Nat, w \in Nat : r = d.read /\ w = d.write /\ r <= w /\ w <= Len(d.mem) /\ d.mem \in Seq(Bytes)
  BY DEF BufOk
<1>2. ReadableSize(d) = w - r /\ w - r \in Nat BY <1>1 DEF ReadableSize
<1>3. PICK R \in Seq(Units) : R = Readable(d) /\ Len(R) = w - r /\ \A i \in 1..(w - r) : R[i] = d.mem[r + i]
  <2>1. /\ Readable(d) \in Seq(Units) /\ Len(Readable(d)) = d.write - d.read
        /\ \A i \in 1..(d.write - d.read) : Readable(d)[i] = d.mem[d.read + i]
    BY ReadableIs DEF BufOk
  <2> QED BY <1>1, <2>1
<1>4. Len(R) # 0 BY <1>2, <1>3
<1>5. PICK n \in Nat : n = Len(g) + 1 /\ Len(g) \in Nat OBVIOUS
<1>6. /\ n \in 1..Len(s)
      /\ \A i \in 1..Len(R) : i <= Len(s[n]) => R[i] = s[n][i]
  BY <1>3, <1>4, <1>5, NextMessage
<1>7. PICK l \in Nat : s[n] = Message(n, l)
  <2>1. n \in 1..Len(lens) BY <1>6
  <2>2. lens[n] \in Nat BY <2>1
  <2>3. s[n] = Message(n, lens[n]) BY <1>6
  <2> QED BY <2>2, <2>3
<1>8. /\ s[n] \in Seq(Units) /\ Len(s[n]) = 2 + l
      /\ \A j \in 1..(2 + l) : s[n][j] = <<n, l, j>>
  <2>1. /\ Message(n, l) \in Seq(Units) /\ Len(Message(n, l)) = 2 + l
        /\ \A j \in 1..(2 + l) : Message(n, l)[j] = <<n, l, j>>
    BY ONLY n \in Nat, l \in Nat, MessageIs
  <2> QED BY ONLY <1>7, <2>1
<1>9. w - r >= 2
  <2> SUFFICES ASSUME ~(w - r >= 2) PROVE FALSE OBVIOUS
  <2>1. len \in Lengths BY <1>2 DEF LengthsRead
  <2>2. len \in Nat BY <2>1, LengthsAre
  <2> QED BY <1>2, <2>2
<1>10. R[1] = <<n, l, 1>> /\ R[2] = <<n, l, 2>>
  <2>1. 1 \in 1..Len(R) /\ 2 \in 1..Len(R) /\ 1 <= 2 + l /\ 2 <= 2 + l /\ 1 \in 1..(2 + l) /\ 2 \in 1..(2 + l)
    BY <1>3, <1>9
  <2> QED BY <1>6, <1>8, <2>1
<1>11. d.mem[d.read + 1] = <<n, l, 1>> /\ d.mem[d.read + 2] = <<n, l, 2>>
  <2>1. 1 \in 1..(w - r) /\ 2 \in 1..(w - r) BY <1>2, <1>9
  <2> QED BY <1>1, <1>3, <1>10, <2>1
<1>12. PICK lo, hi : /\ lo = d.mem[d.read + 1] /\ hi = d.mem[d.read + 2]
                     /\ lo[1] = n /\ hi[1] = n /\ lo[2] = l /\ lo[3] = 1 /\ hi[3] = 2
  <2>1. PICK lo, hi : /\ lo = d.mem[d.read + 1] /\ hi = d.mem[d.read + 2]
                      /\ lo = <<n, l, 1>> /\ hi = <<n, l, 2>>
    BY <1>11
  <2>2. lo[1] = n /\ hi[1] = n /\ lo[2] = l /\ lo[3] = 1 /\ hi[3] = 2 BY <2>1
  <2> QED BY <2>1, <2>2
<1>13. LengthsRead(d) = {l} BY <1>2, <1>9, <1>12 DEF LengthsRead
<1>14. len = l BY <1>13
<1>15. len + 2 \in Nat /\ len + 2 <= Len(R) BY <1>2, <1>3, <1>14
<1>16. PICK c \in Nat : c = len + 2 /\ c <= Len(R) BY <1>15
<1>17. PICK x : x = SubSeq(R, 1, c) OBVIOUS
<1>18. x \in Seq(Units) /\ Len(x) = c BY <1>16, <1>17, SubSeqCut
<1>19. \A i \in 1..c : x[i] = R[i]
  <2>1. 1 \in Int /\ c \in Int /\ 1 <= 1 /\ 1 <= c + 1 BY <1>16
  <2>2. \A i \in 1..(c - 1 + 1) : SubSeq(R, 1, c)[i] = R[1 + i - 1] BY <1>16, <2>1, SubSeqIs
  <2> QED BY <1>17, <2>2
<1>20. \A i \in 1..Len(x) : x[i] = s[n][i]
  <2> TAKE i \in 1..Len(x)
  <2>1. i \in 1..c /\ i \in 1..Len(R) /\ i <= Len(s[n]) BY <1>8, <1>14, <1>16, <1>18
  <2> QED BY <1>6, <1>19, <2>1
<1>21. Len(x) = Len(s[n]) BY <1>8, <1>14, <1>16, <1>18
<1>22. x = s[n] BY <1>8, <1>18, <1>20, <1>21, SeqEqual
<1>23. len \in Nat BY <1>14
<1>24. Len(g) < Len(s) BY <1>5, <1>6
<1>25. SubSeq(R, 1, len + 2) = s[Len(g) + 1] BY <1>5, <1>16, <1>17, <1>22
<1> QED BY <1>3, <1>23, <1>24, <1>25

(* ------------------------------- every step ------------------------------- *)

\* What has been sent so far numbers its segments less than half around, so that no
\* datagram, however old, passes for one of the next round.
FirstRound(n) == Len(FlattenSeq(sent[n])) + RcvWnd < Word \div 2

\* Whatever the numbers do.
Shape ==
    /\ DOMAIN kcp = Nodes /\ DOMAIN buf = Nodes /\ DOMAIN net = Nodes
    /\ DOMAIN sent = Nodes /\ DOMAIN got = Nodes
    /\ \A n \in Nodes :
          /\ sent[n] \in Seq(Seq(Units)) /\ Len(sent[n]) <= Len(MessageLens[n])
          /\ \A i \in 1..Len(sent[n]) : sent[n][i] = Message(i, MessageLens[n][i])

Pair(n) ==
    Both(kcp[n], kcp[Other(n)], net[n], net[Other(n)], FlattenSeq(sent[n]), FlattenSeq(sent[Other(n)]),
         FlattenSeq(got[n]), FlattenSeq(got[Other(n)]), buf[n], buf[Other(n)])

\* What n has read is the beginning of what the other sent.
InTurn(n) ==
    /\ got[n] \in Seq(Seq(Units)) /\ Len(got[n]) <= Len(sent[Other(n)])
    /\ \A i \in 1..Len(got[n]) : got[n][i] = sent[Other(n)][i]

Linked == \A n \in Nodes : Pair(n) /\ InTurn(n)

\* There are two nodes.
LEMMA TwoNodes ==
    ASSUME NEW n \in Nodes
    PROVE  Other(n) \in Nodes /\ Other(n) # n /\ Other(Other(n)) = n /\ Nodes = {n, Other(n)}
BY StreamAssumption DEF Nodes, Other

\* The pair is the same seen from the other side.
LEMMA OnePair ==
    ASSUME NEW n \in Nodes, Pair(n)'
    PROVE  \A m \in Nodes : Pair(m)'
<1>1. Pair(Other(n))'
  <2>1. Other(Other(n)) = n BY TwoNodes
  <2> QED BY <2>1, BothSwap DEF Pair
<1> QED BY <1>1, TwoNodes

\* The network takes some of the datagrams and may lose some of those it has.
LEMMA TransmitIs ==
    ASSUME NEW n \in Nodes, NEW out, DOMAIN net = Nodes, Transmit(n, out)
    PROVE  /\ DOMAIN net' = Nodes /\ net'[n] = net[n]
           /\ net'[Other(n)] \subseteq net[Other(n)] \cup Range(out)
           /\ net'[Other(n)] = net[Other(n)] \/ Cardinality(net'[Other(n)]) <= MaxInFlight[Other(n)]
<1>1. Other(n) \in Nodes /\ Other(n) # n BY TwoNodes
<1>2. CASE out = <<>> BY <1>2 DEF Transmit
<1>3. CASE out # <<>>
  <2>1. PICK on \in SUBSET (net[Other(n)] \cup Range(out)) :
            /\ Cardinality(on) <= MaxInFlight[Other(n)]
            /\ net' = [net EXCEPT ![Other(n)] = on]
    BY <1>3 DEF Transmit
  <2> QED BY <1>1, <2>1
<1> QED BY <1>2, <1>3

\* Every step leaves the shape of the state.
LEMMA ShapeNext == Shape /\ [Next]_vars => Shape'
<1> SUFFICES ASSUME Shape, [Next]_vars PROVE Shape' OBVIOUS
<1>1. ASSUME NEW n \in Nodes, DOMAIN kcp' = Nodes, DOMAIN buf' = Nodes, DOMAIN net' = Nodes, DOMAIN got' = Nodes,
             UNCHANGED sent
      PROVE  Shape'
  BY <1>1 DEF Shape
<1>2. CASE UNCHANGED vars BY <1>2 DEF vars, Shape
<1>3. ASSUME NEW n \in Nodes, SendReliable(n) PROVE Shape'
  <2>1. PICK i, message, out :
            /\ i = Len(sent[n]) + 1 /\ message = Message(i, MessageLens[n][i]) /\ i <= Len(MessageLens[n])
            /\ sent' = [sent EXCEPT ![n] = Append(@, message)]
            /\ DOMAIN kcp' = DOMAIN kcp /\ Transmit(n, out) /\ UNCHANGED <<buf, got>>
    BY <1>3 DEF SendReliable
  <2>2. DOMAIN net' = Nodes BY <2>1, TransmitIs DEF Shape
  <2>3. PICK s \in Seq(Seq(Units)) : s = sent[n] BY DEF Shape
  <2>4. MessageLens[n] \in Seq(Nat) BY StreamAssumption
  <2>5. i \in Nat /\ i \in 1..Len(MessageLens[n]) /\ Len(s) \in Nat BY <2>1, <2>3, <2>4
  <2>6. MessageLens[n][i] \in Nat BY <2>4, <2>5
  <2>7. message \in Seq(Units) BY <2>1, <2>5, <2>6, MessageIs
  <2>8. PICK s2 : s2 = Append(s, message) OBVIOUS
  <2>9. s2 \in Seq(Seq(Units)) /\ Len(s2) = i /\ s2[i] = message /\ \A j \in 1..Len(s) : s2[j] = s[j]
    BY <2>1, <2>3, <2>7, <2>8
  <2>10. \A j \in 1..Len(s2) : s2[j] = Message(j, MessageLens[n][j])
    <3> TAKE j \in 1..Len(s2)
    <3>1. j = i \/ j \in 1..Len(s) BY <2>1, <2>3, <2>5, <2>9
    <3> QED BY <2>1, <2>3, <2>9, <3>1 DEF Shape
  <2>11. sent'[n] = s2 /\ DOMAIN sent' = Nodes /\ \A m \in Nodes \ {n} : sent'[m] = sent[m]
    BY <2>1, <2>3, <2>8 DEF Shape
  <2> QED BY <2>1, <2>2, <2>5, <2>9, <2>10, <2>11 DEF Shape
<1>4. ASSUME NEW n \in Nodes, Update(n) PROVE Shape'
  <2>1. PICK out : DOMAIN kcp' = DOMAIN kcp /\ Transmit(n, out) /\ UNCHANGED <<buf, got, sent>>
    BY <1>4 DEF Update
  <2>2. DOMAIN net' = Nodes BY <2>1, TransmitIs DEF Shape
  <2> QED BY <1>1, <2>1, <2>2 DEF Shape
<1>5. ASSUME NEW n \in Nodes, NEW w \in Workers[n], NEW datagram, Input(n, w, datagram) PROVE Shape'
  <2>1. DOMAIN kcp' = DOMAIN kcp /\ DOMAIN buf' = DOMAIN buf BY <1>5 DEF Input, Fill
  <2>2. DOMAIN net' = DOMAIN net BY <1>5 DEF Input
  <2>3. UNCHANGED <<got, sent>> BY <1>5 DEF Input
  <2> QED BY <1>1, <2>1, <2>2, <2>3 DEF Shape
<1>6. ASSUME NEW n \in Nodes, NEW w \in Workers[n],
             Wake(n, w) \/ ReadNothing(n, w) \/ ReadMessage(n, w) \/ ReadOver(n, w)
      PROVE  Shape'
  <2>1. /\ DOMAIN kcp' = DOMAIN kcp /\ DOMAIN buf' = DOMAIN buf /\ DOMAIN got' = DOMAIN got
        /\ UNCHANGED <<net, sent>>
    BY <1>6 DEF Wake, Fill, ReadNothing, ReadMessage, ReadOver
  <2> QED BY <1>1, <2>1 DEF Shape
<1> QED BY <1>2, <1>3, <1>4, <1>5, <1>6 DEF Next

\* Half a round not over now was not over before.
LEMMA RoundBegan ==
    ASSUME Shape, [Next]_vars, NEW n \in Nodes, FirstRound(n)'
    PROVE  FirstRound(n)
<1>1. CASE UNCHANGED sent BY <1>1 DEF FirstRound
<1>2. ASSUME NEW m \in Nodes, SendReliable(m) PROVE FirstRound(n)
  <2>1. CASE m # n BY <1>2, <2>1 DEF SendReliable, FirstRound, Shape
  <2>2. CASE m = n
    <3>1. PICK x : sent' = [sent EXCEPT ![n] = Append(@, x)] BY <1>2, <2>2 DEF SendReliable
    <3>2. PICK s \in Seq(Seq(Units)) : s = sent[n] BY DEF Shape
    <3>3. PICK s2 : s2 = Append(s, x) /\ s2 = sent'[n] BY <3>1, <3>2 DEF Shape
    <3>4. s2 \in Seq(Seq(Units)) BY <3>3, ShapeNext DEF Shape
    <3>5. x \in Seq(Units)
      <4>1. PICK X : X = Seq(Units) \cup {x} OBVIOUS
      <4>2. s \in Seq(X) /\ x \in X BY <3>2, <4>1, SeqMonotonic
      <4>5. PICK y \in Seq(X), z \in X : y = s /\ z = x BY <4>2
      <4>6. Len(Append(y, z)) = Len(y) + 1 /\ Append(y, z)[Len(y) + 1] = z
        BY ONLY y \in Seq(X), z \in X, AppendProperties
      <4>3. Len(s2) = Len(s) + 1 /\ s2[Len(s2)] = x BY <3>3, <4>5, <4>6
      <4>4. Len(s2) \in 1..Len(s2) BY <3>2, <4>3
      <4> QED BY <3>4, <4>3, <4>4
    <3>6. FlattenSeq(s2) = FlattenSeq(s) \o x BY <3>2, <3>3, <3>5, FlattenAppend
    <3>7. PICK f \in Seq(Units) : f = FlattenSeq(s) BY <3>2, FlattenType
    <3>8. Len(f \o x) = Len(f) + Len(x) /\ Len(f) \in Nat /\ Len(x) \in Nat BY <3>5, ConcatIs
    <3>9. Len(FlattenSeq(s)) <= Len(FlattenSeq(s2)) BY <3>6, <3>7, <3>8
    <3>10. PICK y \in Nat, z \in Nat : y = Len(FlattenSeq(s)) /\ z = Len(FlattenSeq(s2)) /\ y <= z
      BY <3>6, <3>7, <3>8, <3>9
    <3>11. RcvWnd \in Nat /\ Half \in Nat BY Words
    <3>12. z + RcvWnd < Half BY <3>3, <3>10 DEF FirstRound, Half
    <3>13. y + RcvWnd < Half BY <3>10, <3>11, <3>12
    <3> QED BY <3>2, <3>10, <3>13 DEF FirstRound, Half
  <2> QED BY <2>1, <2>2
<1>3. UNCHANGED sent \/ \E m \in Nodes : SendReliable(m)
  BY DEF Next, vars, Update, Input, Wake, ReadNothing, ReadMessage, ReadOver
<1> QED BY <1>1, <1>2, <1>3

\* A step that neither sends nor reads.
LEMMA InTurnSame ==
    ASSUME UNCHANGED <<got, sent>>, NEW m \in Nodes, InTurn(m)
    PROVE  InTurn(m)'
BY DEF InTurn

\* A message is sent: send_reliable and the flush that follows.
LEMMA SendLinked ==
    ASSUME Shape, Linked, NEW n \in Nodes, SendReliable(n), FirstRound(n)', Shape'
    PROVE  /\ Linked' /\ kcp'[n].rcv_queue = kcp[n].rcv_queue
           /\ IsFiniteSet(net[Other(n)]) => IsFiniteSet(net'[Other(n)])
<1>1. PICK i, message, m1, m2, up :
         /\ i = Len(sent[n]) + 1 /\ message = Message(i, MessageLens[n][i]) /\ i <= Len(MessageLens[n])
         /\ m1 = SubSeq(message, 1, 2) /\ m2 = SubSeq(message, 3, Len(message))
         /\ up \in KcpUpdates(KcpSend(KcpSend(kcp[n], m1), m2))
         /\ kcp' = [kcp EXCEPT ![n] = up.kcp]
         /\ Transmit(n, up.out)
         /\ sent' = [sent EXCEPT ![n] = Append(@, message)]
         /\ UNCHANGED <<buf, got>>
  BY DEF SendReliable
<1>2. PICK o \in Nodes : o = Other(n) /\ o # n /\ Other(o) = n BY TwoNodes
<1>3. PICK s \in Seq(Seq(Units)) : s = sent[n] BY DEF Shape
<1>4. MessageLens[n] \in Seq(Nat) BY StreamAssumption
<1>5. i \in Nat /\ i \in 1..Len(MessageLens[n]) BY <1>1, <1>3, <1>4
<1>6. MessageLens[n][i] \in Nat BY <1>4, <1>5
<1>7. message \in Seq(Units) /\ 2 <= Len(message) /\ Len(message) \in Nat
  <2>1. PICK l \in Nat : l = MessageLens[n][i] BY <1>6
  <2>2. message \in Seq(Units) /\ Len(message) = 2 + l BY <1>1, <1>5, <2>1, MessageIs
  <2> QED BY <2>1, <2>2
<1>8. m1 \in Seq(Units) /\ m2 \in Seq(Units) /\ m1 \o m2 = message
  <2>1. PICK t \in Nat : t = 2 /\ t <= Len(message) /\ t + 1 = 3 BY <1>7
  <2> QED BY <1>1, <1>7, <2>1, SubSeqCut
<1>9. PICK F \in Seq(Units) : F = FlattenSeq(s) BY <1>3, FlattenType
<1>10. PICK k : k = KcpSend(KcpSend(kcp[n], m1), m2) OBVIOUS
<1>11. Both(kcp[n], kcp[o], net[n], net[o], F, FlattenSeq(sent[o]),
            FlattenSeq(got[n]), FlattenSeq(got[o]), buf[n], buf[o])
  BY <1>2, <1>3, <1>9 DEF Linked, Pair
<1>12. Both(KcpSend(kcp[n], m1), kcp[o], net[n], net[o], F \o m1, FlattenSeq(sent[o]),
            FlattenSeq(got[n]), FlattenSeq(got[o]), buf[n], buf[o])
  BY <1>8, <1>11, BothSend
<1>13. Both(k, kcp[o], net[n], net[o], (F \o m1) \o m2, FlattenSeq(sent[o]),
            FlattenSeq(got[n]), FlattenSeq(got[o]), buf[n], buf[o])
  BY <1>8, <1>10, <1>12, BothSend
<1>14. PICK s2 : s2 = Append(s, message) /\ sent'[n] = s2 /\ sent'[o] = sent[o] BY <1>1, <1>2, <1>3 DEF Shape
<1>15. FlattenSeq(s2) = (F \o m1) \o m2
  <2>1. FlattenSeq(s2) = F \o message BY <1>3, <1>7, <1>9, <1>14, FlattenAppend
  <2>2. PICK x \in Seq(Units), y \in Seq(Units) : x = m1 /\ y = m2 BY <1>8
  <2>3. (F \o x) \o y = F \o (x \o y)
    BY ONLY F \in Seq(Units), x \in Seq(Units), y \in Seq(Units), ConcatAssociative, SMTT(20)
  <2> QED BY <1>8, <2>1, <2>2, <2>3
<1>16. PICK F2 : F2 = FlattenSeq(s2) OBVIOUS
<1>17. Both(k, kcp[o], net[n], net[o], F2, FlattenSeq(sent[o]),
            FlattenSeq(got[n]), FlattenSeq(got[o]), buf[n], buf[o])
  BY <1>13, <1>15, <1>16
<1>18. Len(F2) + RcvWnd < Half BY <1>14, <1>16 DEF FirstRound, Half
<1>19. /\ Both(up.kcp, kcp[o], net[n], net[o] \cup Range(up.out), F2, FlattenSeq(sent[o]),
               FlattenSeq(got[n]), FlattenSeq(got[o]), buf[n], buf[o])
       /\ up.kcp.rcv_queue = k.rcv_queue /\ IsFiniteSet(Range(up.out))
  <2>1. up \in KcpUpdates(k) BY <1>1, <1>10
  <2> QED BY ONLY <1>17, <1>18, <2>1, BothUpdate
<1>20. net'[n] = net[n] /\ net'[o] \subseteq net[o] \cup Range(up.out) BY <1>1, <1>2, TransmitIs DEF Shape
<1>21. Both(up.kcp, kcp[o], net'[n], net'[o], F2, FlattenSeq(sent[o]),
            FlattenSeq(got[n]), FlattenSeq(got[o]), buf[n], buf[o])
  BY <1>19, <1>20, BothLess
<1>22. kcp'[n] = up.kcp /\ kcp'[o] = kcp[o] BY <1>1, <1>2 DEF Shape
<1>23. Pair(n)' BY <1>1, <1>2, <1>14, <1>16, <1>21, <1>22 DEF Pair
<1>24. ASSUME NEW m \in Nodes PROVE InTurn(m)'
  <2>1. InTurn(m) /\ got' = got BY <1>1 DEF Linked
  <2>2. CASE Other(m) # n
    <3>1. sent'[Other(m)] = sent[Other(m)] BY <1>1, <2>2, TwoNodes DEF Shape
    <3> QED BY <2>1, <3>1 DEF InTurn
  <2>3. CASE Other(m) = n
    <3>1. PICK g \in Seq(Seq(Units)) : g = got[m] BY <2>1 DEF InTurn
    <3>2. Len(s2) = Len(s) + 1 /\ \A j \in 1..Len(s) : s2[j] = s[j] BY <1>3, <1>7, <1>14
    <3>3. Len(g) <= Len(s) /\ \A j \in 1..Len(g) : g[j] = s[j] BY <1>3, <2>1, <2>3, <3>1 DEF InTurn
    <3>4. Len(g) \in Nat /\ Len(s) \in Nat BY <1>3, <3>1
    <3>5. Len(g) <= Len(s2) /\ \A j \in 1..Len(g) : g[j] = s2[j] BY <3>2, <3>3, <3>4
    <3> QED BY <1>14, <2>1, <2>3, <3>1, <3>5 DEF InTurn
  <2> QED BY <2>2, <2>3
<1>25. kcp'[n].rcv_queue = kcp[n].rcv_queue
  <2>1. KcpSend(kcp[n], m1).rcv_queue = kcp[n].rcv_queue BY <1>8, <1>11, BothSend
  <2>2. k.rcv_queue = KcpSend(kcp[n], m1).rcv_queue BY <1>8, <1>10, <1>12, BothSend
  <2>3. up.kcp.rcv_queue = k.rcv_queue BY <1>19
  <2> QED BY <1>22, <2>1, <2>2, <2>3
<1>26. IsFiniteSet(net[o]) => IsFiniteSet(net'[o])
  <2>1. IsFiniteSet(Range(up.out)) BY <1>19
  <2> QED BY <2>1, <1>20, FS_Union, FS_Subset
<1> QED BY <1>2, <1>23, <1>24, <1>25, <1>26, OnePair DEF Linked

\* The timer lets ikcp_update flush.
LEMMA UpdateLinked ==
    ASSUME Shape, Linked, NEW n \in Nodes, Update(n), FirstRound(n)
    PROVE  /\ Linked' /\ kcp'[n].rcv_queue = kcp[n].rcv_queue
           /\ IsFiniteSet(net[Other(n)]) => IsFiniteSet(net'[Other(n)])
<1>1. PICK up \in KcpUpdates(kcp[n]) :
         kcp' = [kcp EXCEPT ![n] = up.kcp] /\ Transmit(n, up.out) /\ UNCHANGED <<buf, sent, got>>
  BY DEF Update
<1>2. PICK o \in Nodes : o = Other(n) /\ o # n /\ Other(o) = n BY TwoNodes
<1>3. PICK F : F = FlattenSeq(sent[n]) OBVIOUS
<1>4. Both(kcp[n], kcp[o], net[n], net[o], F, FlattenSeq(sent[o]),
           FlattenSeq(got[n]), FlattenSeq(got[o]), buf[n], buf[o])
  BY <1>2, <1>3 DEF Linked, Pair
<1>5. Len(F) + RcvWnd < Half BY <1>3 DEF FirstRound, Half
<1>6. /\ Both(up.kcp, kcp[o], net[n], net[o] \cup Range(up.out), F, FlattenSeq(sent[o]),
              FlattenSeq(got[n]), FlattenSeq(got[o]), buf[n], buf[o])
      /\ up.kcp.rcv_queue = kcp[n].rcv_queue /\ IsFiniteSet(Range(up.out))
  BY <1>1, <1>4, <1>5, BothUpdate
<1>7. net'[n] = net[n] /\ net'[o] \subseteq net[o] \cup Range(up.out) BY <1>1, <1>2, TransmitIs DEF Shape
<1>8. Both(up.kcp, kcp[o], net'[n], net'[o], F, FlattenSeq(sent[o]),
           FlattenSeq(got[n]), FlattenSeq(got[o]), buf[n], buf[o])
  BY <1>6, <1>7, BothLess
<1>9. kcp'[n] = up.kcp /\ kcp'[o] = kcp[o] BY <1>1, <1>2 DEF Shape
<1>10. Pair(n)' BY <1>1, <1>2, <1>3, <1>8, <1>9 DEF Pair
<1>11. kcp'[n].rcv_queue = kcp[n].rcv_queue BY <1>6, <1>9
<1>12. IsFiniteSet(net[o]) => IsFiniteSet(net'[o])
  <2>1. IsFiniteSet(Range(up.out)) BY <1>6
  <2> QED BY <2>1, <1>7, FS_Union, FS_Subset
<1> QED BY <1>1, <1>2, <1>10, <1>11, <1>12, OnePair, InTurnSame DEF Linked

\* After input() has got to the end of its wait.
LEMMA FillLinked ==
    ASSUME Shape, NEW n \in Nodes, NEW w, NEW k, Fill(n, w, k), UNCHANGED <<got, sent>>, Linked,
           NEW o, o = Other(n),
           Both(k, kcp[o], net'[n], net'[o], FlattenSeq(sent[n]), FlattenSeq(sent[o]),
                FlattenSeq(got[n]), FlattenSeq(got[o]), buf[n], buf[o])
    PROVE  Linked' /\ kcp'[n].rcv_queue = <<>> /\ Len(buf[n].mem) <= Len(buf'[n].mem)
<1>1. kcp' = [kcp EXCEPT ![n] = KcpRecvAll(k).kcp]
      /\ buf' = [buf EXCEPT ![n] = Appended(buf[n], KcpRecvAll(k).data)]
  BY DEF Fill, Appended, Shape
<1>2. /\ Both(KcpRecvAll(k).kcp, kcp[o], net'[n], net'[o], FlattenSeq(sent[n]), FlattenSeq(sent[o]),
              FlattenSeq(got[n]), FlattenSeq(got[o]), Appended(buf[n], KcpRecvAll(k).data), buf[o])
      /\ Len(buf[n].mem) <= Len(Appended(buf[n], KcpRecvAll(k).data).mem)
  BY BothRecv
<1>3. o \in Nodes /\ o # n BY TwoNodes
<1>4. /\ kcp'[n] = KcpRecvAll(k).kcp /\ kcp'[o] = kcp[o]
      /\ buf'[n] = Appended(buf[n], KcpRecvAll(k).data) /\ buf'[o] = buf[o]
  BY <1>1, <1>3 DEF Shape
<1>5. Pair(n)' BY <1>2, <1>4 DEF Pair
<1>6. Block(k) BY DEF Both
<1>7. kcp'[n].rcv_queue = <<>> BY <1>4, <1>6, RecvAllIs
<1> QED BY <1>2, <1>4, <1>5, <1>7, OnePair, InTurnSame DEF Linked

\* A datagram comes, in input(), and a worker puts the data in the buffer or falls asleep.
LEMMA InputLinked ==
    ASSUME Shape, Linked, NEW n \in Nodes, NEW w, NEW datagram, Input(n, w, datagram), FirstRound(n)
    PROVE  /\ Linked' /\ Len(buf[n].mem) <= Len(buf'[n].mem)
           /\ kcp'[n].rcv_queue = <<>> \/ Goto(n, w, "asleep")
           /\ IsFiniteSet(net[Other(n)]) => IsFiniteSet(net'[Other(n)])
<1>1. PICK up \in KcpUpdates(KcpInput(kcp[n], datagram)) :
         /\ \E again \in BOOLEAN, on \in SUBSET (net[Other(n)] \cup Range(up.out)) :
               net' = [net EXCEPT ![n] = IF again THEN @ ELSE @ \ {datagram}, ![Other(n)] = on]
         /\ \/ Fill(n, w, up.kcp)
            \/ kcp' = [kcp EXCEPT ![n] = up.kcp] /\ UNCHANGED buf /\ Goto(n, w, "asleep")
  BY DEF Input
<1>2. datagram \in net[n] /\ UNCHANGED <<got, sent>> BY DEF Input
<1>3. PICK o \in Nodes : o = Other(n) /\ o # n /\ Other(o) = n BY TwoNodes
<1>4. PICK F : F = FlattenSeq(sent[n]) OBVIOUS
<1>5. Both(kcp[n], kcp[o], net[n], net[o], F, FlattenSeq(sent[o]),
           FlattenSeq(got[n]), FlattenSeq(got[o]), buf[n], buf[o])
  BY <1>3, <1>4 DEF Linked, Pair
<1>6. Both(KcpInput(kcp[n], datagram), kcp[o], net[n], net[o], F, FlattenSeq(sent[o]),
           FlattenSeq(got[n]), FlattenSeq(got[o]), buf[n], buf[o])
  BY <1>2, <1>5, BothInput
<1>7. Len(F) + RcvWnd < Half BY <1>4 DEF FirstRound, Half
<1>8. /\ Both(up.kcp, kcp[o], net[n], net[o] \cup Range(up.out), F, FlattenSeq(sent[o]),
              FlattenSeq(got[n]), FlattenSeq(got[o]), buf[n], buf[o])
      /\ IsFiniteSet(Range(up.out))
  BY <1>1, <1>6, <1>7, BothUpdate
<1>9. net'[n] \subseteq net[n] /\ net'[o] \subseteq net[o] \cup Range(up.out)
  <2>1. PICK again \in BOOLEAN, on \in SUBSET (net[Other(n)] \cup Range(up.out)) :
           net' = [net EXCEPT ![n] = IF again THEN @ ELSE @ \ {datagram}, ![Other(n)] = on]
    BY <1>1
  <2> QED BY <1>3, <2>1 DEF Shape
<1>10. Both(up.kcp, kcp[o], net'[n], net'[o], F, FlattenSeq(sent[o]),
            FlattenSeq(got[n]), FlattenSeq(got[o]), buf[n], buf[o])
  BY <1>8, <1>9, BothLess
<1>13. IsFiniteSet(net[o]) => IsFiniteSet(net'[o])
  <2>1. IsFiniteSet(Range(up.out)) BY <1>8
  <2> QED BY <2>1, <1>9, FS_Union, FS_Subset
<1>11. CASE Fill(n, w, up.kcp) BY <1>13, <1>2, <1>3, <1>4, <1>10, <1>11, FillLinked
<1>12. CASE kcp' = [kcp EXCEPT ![n] = up.kcp] /\ UNCHANGED buf /\ Goto(n, w, "asleep")
  <2>1. kcp'[n] = up.kcp /\ kcp'[o] = kcp[o] /\ buf' = buf BY <1>3, <1>12 DEF Shape
  <2>2. Pair(n)' BY <1>2, <1>3, <1>4, <1>10, <2>1 DEF Pair
  <2>3. Len(buf[n].mem) <= Len(buf'[n].mem)
    <3>1. buf[n].mem \in Seq(Bytes) BY <1>5 DEF Both, BufOk
    <3> QED BY <2>1, <3>1
  <2> QED BY <1>2, <1>3, <1>12, <1>13, <2>2, <2>3, OnePair, InTurnSame DEF Linked
<1> QED BY <1>1, <1>11, <1>12

\* A worker that slept is woken and puts the data in the buffer.
LEMMA WakeLinked ==
    ASSUME Shape, Linked, NEW n \in Nodes, NEW w, Wake(n, w)
    PROVE  Linked' /\ kcp'[n].rcv_queue = <<>> /\ Len(buf[n].mem) <= Len(buf'[n].mem)
<1>1. Fill(n, w, kcp[n]) /\ UNCHANGED <<got, sent, net>> BY DEF Wake
<1>2. PICK o : o = Other(n) OBVIOUS
<1>3. Both(kcp[n], kcp[o], net'[n], net'[o], FlattenSeq(sent[n]), FlattenSeq(sent[o]),
           FlattenSeq(got[n]), FlattenSeq(got[o]), buf[n], buf[o])
  BY <1>1, <1>2 DEF Linked, Pair
<1> QED BY <1>1, <1>2, <1>3, FillLinked

\* read() returns the next message of the other side.
LEMMA ReadMessageIs ==
    ASSUME Shape, Linked, NEW n \in Nodes, NEW w, ReadMessage(n, w)
    PROVE  /\ Len(got[n]) < Len(sent[Other(n)])
           /\ got' = [got EXCEPT ![n] = Append(@, sent[Other(n)][Len(@) + 1])]
           /\ UNCHANGED <<kcp, net, sent>>
           /\ \E len \in Nat : /\ len + 2 <= ReadableSize(buf[n])
                               /\ buf' = [buf EXCEPT ![n] = Retrieve(@, len + 2)]
                               /\ SubSeq(Readable(buf[n]), 1, len + 2) = sent[Other(n)][Len(got[n]) + 1]
                               /\ held' = [held EXCEPT ![n][w] = <<buf[n].read + 1, buf[n].read + len + 2>>]
<1>1. PICK len \in LengthsRead(buf[n]) :
         /\ ReadableSize(buf[n]) # 0 /\ len + 2 <= ReadableSize(buf[n])
         /\ buf' = [buf EXCEPT ![n] = Retrieve(@, len + 2)]
         /\ got' = [got EXCEPT ![n] = Append(@, SubSeq(Readable(buf[n]), 1, len + 2))]
         /\ held' = [held EXCEPT ![n][w] = <<buf[n].read + 1, buf[n].read + len + 2>>]
         /\ UNCHANGED <<kcp, net, sent>>
  BY DEF ReadMessage
<1>2. PICK o \in Nodes : o = Other(n) /\ o # n /\ Other(o) = n BY TwoNodes
<1>3. PICK s \in Seq(Seq(Units)), g \in Seq(Seq(Units)) : s = sent[o] /\ g = got[n]
  BY DEF Shape, Linked, InTurn
<1>4. Len(g) <= Len(s) /\ \A i \in 1..Len(g) : g[i] = s[i] BY <1>2, <1>3 DEF Linked, InTurn
<1>5. PICK lens \in Seq(Nat) : lens = MessageLens[o] BY StreamAssumption
<1>6. Len(s) <= Len(lens) /\ \A i \in 1..Len(s) : s[i] = Message(i, lens[i]) BY <1>3, <1>5 DEF Shape
<1>7. BufOk(buf[n]) /\ Link(kcp[o], kcp[n], net[n], net[o], FlattenSeq(s), FlattenSeq(g), buf[n])
  BY <1>2, <1>3 DEF Linked, Pair, Both
<1>8. PICK rest \in Seq(Units) :
         /\ FlattenSeq(s) = (FlattenSeq(g) \o Readable(buf[n])) \o rest
         /\ FlattenSeq(s) \in Seq(Units) /\ FlattenSeq(g) \in Seq(Units)
  BY <1>7, LinkFacts
<1>9. PICK d : d = buf[n] OBVIOUS
<1>10. /\ BufOk(d) /\ FlattenSeq(s) = (FlattenSeq(g) \o Readable(d)) \o rest
       /\ len \in LengthsRead(d) /\ len + 2 <= ReadableSize(d) /\ ReadableSize(d) # 0
  BY <1>1, <1>7, <1>8, <1>9
<1>11. len \in Nat /\ Len(g) < Len(s) /\ SubSeq(Readable(d), 1, len + 2) = s[Len(g) + 1]
  BY <1>4, <1>6, <1>10, ReadIs
<1> QED BY <1>1, <1>2, <1>3, <1>9, <1>11 DEF Shape

\* read() returns a message: it is the next one that was sent.
LEMMA ReadMessageLinked ==
    ASSUME Shape, Linked, NEW n \in Nodes, NEW w, ReadMessage(n, w)
    PROVE  Linked'
<1>1. PICK len \in Nat :
         /\ len + 2 <= ReadableSize(buf[n])
         /\ buf' = [buf EXCEPT ![n] = Retrieve(@, len + 2)]
         /\ SubSeq(Readable(buf[n]), 1, len + 2) = sent[Other(n)][Len(got[n]) + 1]
  BY ReadMessageIs
<1>2. /\ Len(got[n]) < Len(sent[Other(n)])
      /\ got' = [got EXCEPT ![n] = Append(@, sent[Other(n)][Len(@) + 1])]
      /\ UNCHANGED <<kcp, net, sent>>
  BY ReadMessageIs
<1>3. PICK o \in Nodes : o = Other(n) /\ o # n /\ Other(o) = n BY TwoNodes
<1>4. PICK s \in Seq(Seq(Units)), g \in Seq(Seq(Units)) : s = sent[o] /\ g = got[n]
  BY DEF Shape, Linked, InTurn
<1>5. PICK l \in Nat : l = len + 2 OBVIOUS
<1>6. PICK m : m = s[Len(g) + 1] OBVIOUS
<1>7. m \in Seq(Units) BY <1>2, <1>3, <1>4, <1>6
<1>8. PICK g2 : g2 = Append(g, m) OBVIOUS
<1>9. g2 \in Seq(Seq(Units)) /\ Len(g2) = Len(g) + 1 /\ g2[Len(g) + 1] = m /\ \A i \in 1..Len(g) : g2[i] = g[i]
  BY <1>4, <1>7, <1>8
<1>10. FlattenSeq(g2) = FlattenSeq(g) \o m BY <1>4, <1>7, <1>8, FlattenAppend
<1>11. Both(kcp[n], kcp[o], net[n], net[o], FlattenSeq(sent[n]), FlattenSeq(sent[o]),
            FlattenSeq(g), FlattenSeq(got[o]), buf[n], buf[o])
  BY <1>3, <1>4 DEF Linked, Pair
<1>12. Both(kcp[n], kcp[o], net[n], net[o], FlattenSeq(sent[n]), FlattenSeq(sent[o]),
            FlattenSeq(g) \o SubSeq(Readable(buf[n]), 1, l), FlattenSeq(got[o]), Retrieve(buf[n], l), buf[o])
  BY <1>1, <1>5, <1>11, BothRetrieve
<1>13. Both(kcp[n], kcp[o], net[n], net[o], FlattenSeq(sent[n]), FlattenSeq(sent[o]),
            FlattenSeq(g2), FlattenSeq(got[o]), Retrieve(buf[n], l), buf[o])
  BY <1>1, <1>3, <1>4, <1>5, <1>6, <1>10, <1>12
<1>14. /\ got'[n] = g2 /\ got'[o] = got[o] /\ buf'[n] = Retrieve(buf[n], l) /\ buf'[o] = buf[o]
  BY <1>1, <1>2, <1>3, <1>4, <1>5, <1>6, <1>8 DEF Shape
<1>15. Pair(n)' BY <1>2, <1>3, <1>13, <1>14 DEF Pair
<1>16. InTurn(o)'
  <2>1. InTurn(o) BY DEF Linked
  <2>2. got'[o] = got[o] /\ sent' = sent BY <1>2, <1>14
  <2> QED BY <2>1, <2>2 DEF InTurn
<1>17. InTurn(n)'
  <2>1. Len(g) < Len(s) /\ \A i \in 1..Len(g) : g[i] = s[i] BY <1>2, <1>3, <1>4 DEF Linked, InTurn
  <2>2. Len(g) \in Nat /\ Len(s) \in Nat BY <1>4
  <2>3. Len(g2) <= Len(s) BY <1>9, <2>1, <2>2
  <2>4. \A i \in 1..Len(g2) : g2[i] = s[i]
    <3> TAKE i \in 1..Len(g2)
    <3>1. i \in 1..Len(g) \/ i = Len(g) + 1 BY <1>9, <2>2
    <3> QED BY <1>6, <1>9, <2>1, <3>1
  <2> QED BY <1>2, <1>3, <1>4, <1>9, <1>14, <2>3, <2>4 DEF InTurn
<1> QED BY <1>3, <1>15, <1>16, <1>17, OnePair, TwoNodes DEF Linked

\* The two blocks of init_kcp are linked with nothing sent.
LEMMA CreateIs ==
    ASSUME NEW sn \in SegmentNumbers
    PROVE  /\ Block(Create(sn)) /\ Create(sn).rcv_queue = <<>>
           /\ Dir(Create(sn), Create(sn), {}, {}, sn, <<>>, 1, 1, 1)
           /\ Create(sn).snd_queue = <<>>
<1>1. PICK k : k = Create(sn) OBVIOUS
<1>2. /\ DOMAIN k = Fields /\ k.rmt_wnd = WndRcv /\ k.snd_una = sn /\ k.snd_nxt = sn /\ k.rcv_nxt = sn
      /\ k.snd_queue = <<>> /\ k.snd_buf = {} /\ k.rcv_buf = {} /\ k.rcv_queue = <<>> /\ k.acklist = <<>>
  BY <1>1 DEF Create, Fields
<1>3. Block(k) BY <1>2, Words DEF Block
<1>4. Nr(sn, 1) = sn
  <2>1. sn \in Nat /\ sn < Word /\ Word \in Nat BY Words DEF SegmentNumbers
  <2>2. sn + 1 - 1 = sn BY <2>1
  <2>3. sn % Word = sn BY <2>1, Wrapped
  <2> QED BY <2>2, <2>3 DEF Nr
<1>5. PICK D : D = <<>> /\ Len(D) = 0 /\ D \in Seq(Pieces) BY EmptySeq
<1>6. Data(D) BY <1>5, Words DEF Data
<1>7. 1 \in 1..(Len(D) + 1) /\ Len(D) + 1 = 1 /\ Len(D) + 1 - 1 <= SndWnd /\ 1 - 1 <= RcvWnd
  BY <1>5, Words
<1>8. Sender(k, sn, D, 1) BY <1>2, <1>4, <1>7 DEF Sender
<1>9. SubSeq(D, 1, 1 - 1) = <<>>
  <2>1. 0 \in Nat /\ 0 <= Len(D) BY <1>5
  <2>2. SubSeq(D, 1, 0) \in Seq(Pieces) /\ Len(SubSeq(D, 1, 0)) = 0 BY <1>5, <2>1, SubSeqCut
  <2> QED BY <2>2
<1>10. Receiver(k, sn, D, 1, 1) BY <1>2, <1>4, <1>7, <1>9 DEF Receiver
<1>11. Acks(k, sn, D, 1) BY <1>2 DEF Acks
<1>12. \A j \in 1..Len(D) : FALSE BY <1>5
<1>13. Dir(k, k, {}, {}, sn, D, 1, 1, 1) BY <1>6, <1>8, <1>10, <1>11, <1>12 DEF Dir
<1> QED BY <1>1, <1>2, <1>3, <1>5, <1>13

\* The start.
LEMMA InitLinked == Init => Shape /\ Linked
<1> SUFFICES ASSUME Init PROVE Shape /\ Linked OBVIOUS
<1>1. PICK sn \in StartNumbers : kcp = [n \in Nodes |-> Create(sn)] BY DEF Init
<1>2. sn \in SegmentNumbers BY <1>1, StreamAssumption
<1>3. PICK k : k = Create(sn) /\ \A n \in Nodes : kcp[n] = k BY <1>1
<1>4. Block(k) /\ Dir(k, k, {}, {}, sn, <<>>, 1, 1, 1) /\ k.snd_queue = <<>> BY <1>2, <1>3, CreateIs
<1>5. PICK d : d = [mem |-> [i \in 1..BufferSize |-> NoUnit], read |-> 0, write |-> 0] OBVIOUS
<1>6. BufferSize \in Nat BY StreamAssumption
<1>7. d.mem \in Seq(Bytes) /\ Len(d.mem) = BufferSize /\ d.read = 0 /\ d.write = 0
      /\ DOMAIN d = {"mem", "read", "write"}
  <2>1. d.mem \in [1..BufferSize -> Bytes] BY <1>5 DEF Bytes
  <2>2. d.mem \in Seq(Bytes) /\ Len(d.mem) = BufferSize BY <1>6, <2>1
  <2> QED BY <1>5, <2>2
<1>8. Readable(d) = <<>>
  <2>1. Readable(d) \in Seq(Bytes) /\ Len(Readable(d)) = 0 BY <1>6, <1>7, ReadableIs
  <2> QED BY <2>1
<1>9. BufOk(d) BY <1>6, <1>7, <1>8 DEF BufOk
<1>10. PICK none \in Seq(Units) : none = <<>> /\ Len(none) = 0 /\ none \in Seq(Seq(Units))
  <2>1. <<>> \in Seq(Units) /\ <<>> \in Seq(Seq(Units)) /\ Len(<<>>) = 0 BY EmptySeq
  <2> QED BY <2>1
<1>11. FlattenSeq(none) = none /\ none \o none = none BY <1>10, FlattenEmpty, ConcatEmptySeq
<1>12. SubSeq(none, 1, 1 - 1) = none
  <2>1. 0 \in Nat /\ 0 <= Len(none) BY <1>10
  <2>2. SubSeq(none, 1, 0) \in Seq(Units) /\ Len(SubSeq(none, 1, 0)) = 0 BY <2>1, SubSeqCut
  <2> QED BY <1>10, <2>2
<1>13. Str(k, none, none, d, none, 1) BY <1>4, <1>8, <1>10, <1>11, <1>12 DEF Str
<1>14. Link(k, k, {}, {}, none, none, d) BY <1>4, <1>10, <1>13 DEF Link
<1>15. Both(k, k, {}, {}, none, none, none, none, d, d) BY <1>4, <1>9, <1>14 DEF Both
<1>16. \A n \in Nodes : /\ buf[n] = d /\ net[n] = {} /\ sent[n] = none /\ got[n] = none
                        /\ Other(n) \in Nodes
  BY <1>5, <1>10, TwoNodes DEF Init
<1>17. \A n \in Nodes : Pair(n) BY <1>3, <1>11, <1>15, <1>16 DEF Pair
<1>18. Shape
  <2>1. \A n \in Nodes : /\ sent[n] \in Seq(Seq(Units)) /\ Len(sent[n]) = 0
                         /\ MessageLens[n] \in Seq(Nat) /\ Len(MessageLens[n]) \in Nat
    <3> TAKE n \in Nodes
    <3>1. MessageLens[n] \in Seq(Nat) BY StreamAssumption
    <3>2. sent[n] \in Seq(Seq(Units)) /\ Len(sent[n]) = 0 BY <1>10, <1>16
    <3> QED BY <3>1, <3>2
  <2> QED BY <2>1 DEF Init, Shape
<1>19. \A n \in Nodes : InTurn(n)
  <2>1. \A n \in Nodes : got[n] \in Seq(Seq(Units)) /\ Len(got[n]) = 0 /\ Len(sent[n]) = 0
    BY <1>10, <1>16
  <2> QED BY <1>16, <2>1 DEF InTurn
<1> QED BY <1>17, <1>18, <1>19 DEF Linked

\* The inductive invariant of the stream.
StreamInv == Shape /\ ((\A n \in Nodes : FirstRound(n)) => Linked)

\* Every step leaves the nodes linked, in the first round of the numbers.
LEMMA LinkedNext ==
    ASSUME Shape, Linked, [Next]_vars, \A n \in Nodes : FirstRound(n), \A n \in Nodes : FirstRound(n)'
    PROVE  Linked'
<1>1. Shape' BY ShapeNext
<1>2. CASE UNCHANGED <<kcp, buf, net, sent, got>>
  <2>1. \A n \in Nodes : Pair(n)' BY <1>2 DEF Pair, Linked
  <2> QED BY <1>2, <2>1, InTurnSame DEF Linked
<1>3. ASSUME NEW n \in Nodes, SendReliable(n) PROVE Linked' BY <1>1, <1>3, SendLinked
<1>4. ASSUME NEW n \in Nodes, Update(n) PROVE Linked' BY <1>4, UpdateLinked
<1>5. ASSUME NEW n \in Nodes, NEW w \in Workers[n], NEW datagram, Input(n, w, datagram) PROVE Linked'
  BY <1>5, InputLinked
<1>6. ASSUME NEW n \in Nodes, NEW w \in Workers[n], Wake(n, w) PROVE Linked' BY <1>6, WakeLinked
<1>7. ASSUME NEW n \in Nodes, NEW w \in Workers[n], ReadMessage(n, w) PROVE Linked'
  BY <1>7, ReadMessageLinked
<1>8. ASSUME NEW n \in Nodes, NEW w \in Workers[n], ReadNothing(n, w) \/ ReadOver(n, w) PROVE Linked'
  BY <1>2, <1>8 DEF ReadNothing, ReadOver
<1> QED BY <1>2, <1>3, <1>4, <1>5, <1>6, <1>7, <1>8 DEF Next, vars

\* Every step leaves the invariant of the stream.
LEMMA StreamInvNext == StreamInv /\ [Next]_vars => StreamInv'
<1> SUFFICES ASSUME StreamInv, [Next]_vars PROVE StreamInv' OBVIOUS
<1>1. Shape /\ Shape' BY ShapeNext DEF StreamInv
<1>2. ASSUME \A n \in Nodes : FirstRound(n)' PROVE Linked'
  <2>1. \A n \in Nodes : FirstRound(n) BY <1>1, <1>2, RoundBegan
  <2>2. Linked BY <2>1 DEF StreamInv
  <2> QED BY <1>1, <1>2, <2>1, <2>2, LinkedNext
<1> QED BY <1>1, <1>2 DEF StreamInv

\* The invariant of the stream.
LEMMA SpecStreamInv == Spec => []StreamInv
<1>1. Init => StreamInv BY InitLinked DEF StreamInv
<1> QED BY <1>1, StreamInvNext, PTL DEF Spec

\* An increasing sequence of as many numbers as there are runs through all of them.
LEMMA IncreasingIs ==
    ASSUME NEW lo \in Nat, NEW c \in Nat, NEW e,
           \A i \in 1..c : e[i] \in lo..(lo + c - 1),
           \A i, j \in 1..c : i < j => e[i] < e[j]
    PROVE  \A i \in 1..c : e[i] = lo + i - 1
<1> DEFINE S == {i \in Nat : i + 1 <= c => e[i + 1] >= lo + i}
           T == {i \in Nat : i + 1 <= c => e[c - i] <= lo + c - 1 - i}
<1>1. \A i \in 1..c : e[i] \in Int /\ lo <= e[i] /\ e[i] <= lo + c - 1 OBVIOUS
<1>2. 0 \in S
  <2> SUFFICES ASSUME 0 + 1 <= c PROVE e[0 + 1] >= lo + 0 OBVIOUS
  <2>1. 0 + 1 = 1 /\ 1 \in 1..c /\ lo + 0 = lo OBVIOUS
  <2> QED BY <1>1, <2>1
<1>3. ASSUME NEW i \in Nat, i \in S PROVE i + 1 \in S
  <2> SUFFICES ASSUME i + 1 + 1 <= c PROVE e[i + 1 + 1] >= lo + (i + 1) OBVIOUS
  <2>1. PICK x \in 1..c, y \in 1..c : x = i + 1 /\ y = i + 1 + 1 /\ x < y OBVIOUS
  <2>2. i + 1 <= c BY <2>1
  <2>3. e[x] >= lo + i /\ e[x] < e[y] /\ e[x] \in Int /\ e[y] \in Int BY <1>1, <1>3, <2>1, <2>2
  <2>4. e[y] >= lo + (i + 1) BY <2>3
  <2> QED BY <2>1, <2>4
<1>4. 0 \in T
  <2> SUFFICES ASSUME 0 + 1 <= c PROVE e[c - 0] <= lo + c - 1 - 0 OBVIOUS
  <2>1. c - 0 = c /\ c \in 1..c /\ lo + c - 1 - 0 = lo + c - 1 OBVIOUS
  <2> QED BY <1>1, <2>1
<1>5. ASSUME NEW i \in Nat, i \in T PROVE i + 1 \in T
  <2> SUFFICES ASSUME i + 1 + 1 <= c PROVE e[c - (i + 1)] <= lo + c - 1 - (i + 1) OBVIOUS
  <2>1. PICK x \in 1..c, y \in 1..c : x = c - i /\ y = c - (i + 1) /\ y < x OBVIOUS
  <2>2. i + 1 <= c BY <2>1
  <2>3. e[x] <= lo + c - 1 - i /\ e[y] < e[x] /\ e[x] \in Int /\ e[y] \in Int BY <1>1, <1>5, <2>1, <2>2
  <2>4. e[y] <= lo + c - 1 - (i + 1) BY <2>3
  <2> QED BY <2>1, <2>4
<1>6. \A i \in Nat : i \in S
  <2> HIDE DEF S
  <2> QED BY <1>2, <1>3, Induction
<1>7. \A i \in Nat : i \in T
  <2> HIDE DEF T
  <2> QED BY <1>4, <1>5, Induction
<1> TAKE i \in 1..c
<1>8. PICK x \in Nat, y \in Nat : x = i - 1 /\ y = c - i OBVIOUS
<1>9. x + 1 = i /\ c - y = i /\ x + 1 <= c /\ y + 1 <= c BY <1>8
<1>10. e[i] >= lo + x BY <1>6, <1>9
<1>11. e[i] <= lo + c - 1 - y BY <1>7, <1>9
<1> QED BY <1>1, <1>8, <1>10, <1>11

\* The segments the other side has not put in order, in order.
LEMMA UnseenIs ==
    ASSUME NEW kn, NEW kp, NEW out, NEW back, NEW sn, NEW D, NEW u, NEW q, NEW r,
           Dir(kn, kp, out, back, sn, D, u, q, r),
           NEW S, S = {s \in kn.snd_buf \cup kp.rcv_buf : TimeDiff(s.sn, kp.rcv_nxt) >= 0}
    PROVE  /\ r \in Nat /\ 1 <= r /\ r <= Len(D) + 1
           /\ [i \in DOMAIN InOrder(S) |-> InOrder(S)[i].data] = SubSeq(D, r, Len(D))
<1>1. PICK N \in Nat : N = Len(D) /\ N + RcvWnd < Half /\ D \in Seq(Pieces) BY DataIs DEF Dir
<1>2. /\ sn \in SegmentNumbers /\ Data(D)
      /\ r \in 1..(N + 1) /\ q \in 1..r /\ kp.rcv_nxt = Nr(sn, r)
      /\ \A s \in kp.rcv_buf : \E j \in r..N : j < r + RcvWnd /\ s = Seg(sn, D, j)
  BY <1>1 DEF Dir, Receiver
<1>3. u \in 1..(N + 1) /\ \A s \in kn.snd_buf : \E j \in u..N : s = Seg(sn, D, j)
  BY <1>1 DEF Dir, Sender
<1>4. RcvWnd \in Nat /\ Half \in Nat /\ Word = 2 * Half /\ Word \in Nat /\ 0 < RcvWnd BY Words
<1>5. r \in Nat /\ u \in Nat /\ 1 <= r /\ r <= N + 1 /\ 1 <= u BY <1>1, <1>2, <1>3
<1>6. ASSUME NEW s \in S PROVE \E j \in r..N : s = Seg(sn, D, j)
  <2>1. TimeDiff(s.sn, Nr(sn, r)) >= 0 BY <1>2, <1>6
  <2>2. CASE s \in kp.rcv_buf BY <1>2, <2>2
  <2>3. CASE s \in kn.snd_buf
    <3>1. PICK j \in u..N : s = Seg(sn, D, j) BY <1>3, <2>3
    <3>2. j \in Nat /\ 1 <= j /\ j <= N BY <1>1, <1>5, <3>1
    <3>3. s.sn = Nr(sn, j) BY <3>1 DEF Seg
    <3>4. j <= Word /\ r <= Word /\ j - r < Half /\ r - j <= Half BY <1>1, <1>4, <1>5, <3>2
    <3>5. TimeDiff(Nr(sn, j), Nr(sn, r)) = j - r BY <1>2, <1>5, <3>2, <3>4, TimeDiffIs
    <3>6. j >= r BY <1>5, <2>1, <3>2, <3>3, <3>5
    <3>7. j \in r..N BY <1>1, <1>5, <3>2, <3>6
    <3> QED BY <3>1, <3>7
  <2> QED BY <1>6, <2>2, <2>3
<1>7. ASSUME NEW j \in r..N PROVE Seg(sn, D, j) \in S
  <2>1. j \in Nat /\ j \in 1..N /\ r <= j /\ j <= N BY <1>1, <1>5, <1>7
  <2>2. Seg(sn, D, j) \in kn.snd_buf \/ j \in Has(kp, sn, D, r) BY <1>1, <2>1 DEF Dir
  <2>3. Seg(sn, D, j) \in kn.snd_buf \cup kp.rcv_buf BY <1>5, <2>1, <2>2 DEF Has
  <2>4. j <= Word /\ r <= Word /\ j - r < Half /\ r - j <= Half /\ 1 <= j BY <1>1, <1>4, <1>5, <2>1
  <2>5. TimeDiff(Nr(sn, j), Nr(sn, r)) = j - r BY <1>2, <1>5, <2>1, <2>4, TimeDiffIs
  <2>6. TimeDiff(Seg(sn, D, j).sn, kp.rcv_nxt) >= 0 BY <1>2, <1>5, <2>1, <2>5 DEF Seg
  <2> QED BY <2>3, <2>6
<1>8. \A s \in S : \E j \in 1..Len(D) : s = Seg(sn, D, j)
  <2>1. \A j \in r..N : j \in 1..Len(D) BY <1>1, <1>5
  <2> QED BY <1>6, <2>1
<1>19. /\ Cardinality(S) \in Nat
       /\ \E e \in [1..Cardinality(S) -> 1..Len(D)] :
             /\ \A i, j \in 1..Cardinality(S) : i < j => e[i] < e[j]
             /\ InOrder(S) = [i \in 1..Cardinality(S) |-> Seg(sn, D, e[i])]
             /\ \A i \in 1..Cardinality(S) : Seg(sn, D, e[i]) \in S
  BY ONLY <1>2, <1>8, InOrderIs
<1>20. PICK c \in Nat : c = Cardinality(S) BY <1>19
<1>9. PICK e \in [1..c -> 1..N] :
         /\ \A i, j \in 1..c : i < j => e[i] < e[j]
         /\ InOrder(S) = [i \in 1..c |-> Seg(sn, D, e[i])]
         /\ \A i \in 1..c : Seg(sn, D, e[i]) \in S
  BY <1>1, <1>19, <1>20
<1>10. \A i \in 1..c : e[i] \in r..N
  <2> TAKE i \in 1..c
  <2>1. e[i] \in 1..N BY <1>9
  <2>2. PICK j \in r..N : Seg(sn, D, e[i]) = Seg(sn, D, j) BY <1>6, <1>9
  <2>3. Nr(sn, e[i]) = Nr(sn, j) BY <2>2 DEF Seg
  <2>4. PICK x \in 1..(Len(D) + RcvWnd), y \in 1..(Len(D) + RcvWnd) : x = e[i] /\ y = j
    <3>1. \A m \in 1..N : m \in 1..(Len(D) + RcvWnd)
      <4>1. N \in Nat /\ RcvWnd \in Nat /\ Len(D) = N BY <1>1, <1>4
      <4> QED BY <4>1
    <3>2. j \in 1..N
      <4>1. N \in Nat /\ r \in Nat /\ 1 <= r /\ j \in r..N BY <1>1, <1>5, <2>2
      <4> QED BY <4>1
    <3> QED BY <2>1, <3>1, <3>2
  <2>5. x = y BY <1>2, <2>3, <2>4, SegInjective
  <2> QED BY <2>2, <2>4, <2>5
<1>11. c = N - r + 1
  <2>1. IsFiniteSet(S) /\ Cardinality(S) <= N - r + 1
    <3>1. r <= N + 1 /\ r \in Int /\ N \in Int BY <1>1, <1>5
    <3> QED BY <1>6, <3>1, SegsFinite
  <2>2. PICK R : R = r..N OBVIOUS
  <2>3. IsFiniteSet(R) /\ Cardinality(R) = N - r + 1
    <3>1. r \in Int /\ N \in Int BY <1>1, <1>5
    <3>2. IsFiniteSet(r..N) /\ Cardinality(r..N) = IF r > N THEN 0 ELSE N - r + 1 BY <3>1, FS_Interval
    <3>3. r > N => N - r + 1 = 0 BY <1>1, <1>5
    <3> QED BY <2>2, <3>2, <3>3
  <2> DEFINE f == [j \in R |-> Seg(sn, D, j)]
  <2>4. f \in [R -> S] BY <1>7, <2>2
  <2>5. \A x, y \in R : f[x] = f[y] => x = y
    <3> SUFFICES ASSUME NEW x \in R, NEW y \in R, f[x] = f[y] PROVE x = y OBVIOUS
    <3>1. Nr(sn, x) = Nr(sn, y) BY DEF Seg
    <3>2. x \in 1..(Len(D) + RcvWnd) /\ y \in 1..(Len(D) + RcvWnd) BY <1>1, <1>4, <1>5, <2>2
    <3> QED BY <1>2, <3>1, <3>2, SegInjective
  <2> HIDE DEF f
  <2>6. f \in Injection(R, S) BY <2>4, <2>5 DEF Injection, IsInjective
  <2>7. Cardinality(R) <= Cardinality(S) BY <2>1, <2>6, FS_Injection
  <2> QED BY <1>1, <1>5, <1>20, <2>1, <2>3, <2>7
<1>12. \A i \in 1..c : e[i] = r + i - 1
  <2>1. r + c - 1 = N BY <1>1, <1>5, <1>11
  <2>2. \A i \in 1..c : e[i] \in r..(r + c - 1) BY <1>10, <2>1
  <2>3. c \in Nat /\ r \in Nat /\ \A i, j \in 1..c : i < j => e[i] < e[j] BY <1>5, <1>9
  <2> QED BY ONLY <2>2, <2>3, IncreasingIs
<1>13. PICK O : O = [i \in DOMAIN InOrder(S) |-> InOrder(S)[i].data] OBVIOUS
<1>14. DOMAIN O = 1..c /\ \A i \in 1..c : O[i] = D[r + i - 1] BY <1>9, <1>12, <1>13 DEF Seg
<1>15. PICK T : T = SubSeq(D, r, N) OBVIOUS
<1>16. T \in Seq(Pieces) /\ Len(T) = c /\ \A i \in 1..c : T[i] = D[r + i - 1]
  <2>1. r \in Int /\ N \in Int /\ r <= N + 1 /\ N <= Len(D) BY <1>1, <1>5
  <2> QED BY <1>1, <1>5, <1>11, <1>15, <2>1, SubSeqIs
<1>17. O = T
  <2>1. O = [i \in 1..c |-> D[r + i - 1]] BY <1>13, <1>14
  <2>2. T = [i \in 1..c |-> T[i]] /\ DOMAIN T = 1..c BY <1>16
  <2> QED BY <1>14, <1>16, <2>1, <2>2
<1> QED BY <1>1, <1>5, <1>13, <1>15, <1>17

(* ---------------------------- nothing is lost ----------------------------- *)

\* The units of the numbered segments that kp has not put in order, in order.
Unseen(kn, kp) ==
    LET S == {s \in kn.snd_buf \cup kp.rcv_buf : TimeDiff(s.sn, kp.rcv_nxt) >= 0}
    IN  [i \in DOMAIN InOrder(S) |-> InOrder(S)[i].data]

\* What was sent is what is read, buffered, received in order, numbered and queued.
LEMMA LinkKeeps ==
    ASSUME NEW kn, NEW kp, NEW out, NEW back, NEW F, NEW G, NEW d, Link(kn, kp, out, back, F, G, d)
    PROVE  F = (((G \o Readable(d)) \o FlattenSeq(kp.rcv_queue)) \o FlattenSeq(Unseen(kn, kp)))
                  \o FlattenSeq(kn.snd_queue)
<1>1. PICK sn, D, u, q, r : Dir(kn, kp, out, back, sn, D, u, q, r) /\ Str(kn, F, G, d, D, q)
  BY DEF Link
<1>2. /\ r \in Nat /\ 1 <= r /\ r <= Len(D) + 1
      /\ Unseen(kn, kp) = SubSeq(D, r, Len(D))
  <2>1. PICK S : S = {s \in kn.snd_buf \cup kp.rcv_buf : TimeDiff(s.sn, kp.rcv_nxt) >= 0} OBVIOUS
  <2>2. Unseen(kn, kp) = [i \in DOMAIN InOrder(S) |-> InOrder(S)[i].data] BY <2>1 DEF Unseen
  <2> QED BY <1>1, <2>1, <2>2, UnseenIs
<1>3. D \in Seq(Seq(Units)) /\ Len(D) \in Nat BY <1>1, DataIs DEF Dir
<1>4. q \in Nat /\ 1 <= q /\ q <= r /\ kp.rcv_queue = SubSeq(D, q, r - 1)
  BY <1>1, <1>2 DEF Dir, Receiver
<1>5. PICK one \in Int, q2 \in Int, r2 \in Int, t \in Int :
         one = 1 /\ q2 = q /\ r2 = r /\ t = Len(D) + 1
  BY <1>2, <1>3, <1>4
<1>6. PICK x, y, z, xy :
         /\ x = SubSeq(D, one, q2 - 1) /\ y = SubSeq(D, q2, r2 - 1) /\ z = SubSeq(D, r2, t - 1)
         /\ xy = SubSeq(D, one, r2 - 1)
  OBVIOUS
<1>7. x \in Seq(Seq(Units)) /\ y \in Seq(Seq(Units)) /\ z \in Seq(Seq(Units)) /\ xy \in Seq(Seq(Units))
  <2>1. PICK h1 \in Int, h2 \in Int, h3 \in Int : h1 = q2 - 1 /\ h2 = r2 - 1 /\ h3 = t - 1 OBVIOUS
  <2>2. /\ 1 <= one /\ one <= h1 + 1 /\ h1 <= Len(D) /\ 1 <= q2 /\ q2 <= h2 + 1 /\ h2 <= Len(D)
        /\ 1 <= r2 /\ r2 <= h3 + 1 /\ h3 <= Len(D) /\ one <= h2 + 1
    BY <1>2, <1>3, <1>4, <1>5, <2>1
  <2>3. SubSeq(D, one, h1) \in Seq(Seq(Units)) /\ SubSeq(D, q2, h2) \in Seq(Seq(Units))
    BY <1>3, <2>2, SubSeqIs
  <2>4. SubSeq(D, r2, h3) \in Seq(Seq(Units)) /\ SubSeq(D, one, h2) \in Seq(Seq(Units))
    BY <1>3, <2>2, SubSeqIs
  <2> QED BY <1>6, <2>1, <2>3, <2>4
<1>8. x \o y = xy
  <2>1. 1 <= one /\ one <= q2 /\ q2 <= r2 /\ r2 <= Len(D) + 1 BY <1>2, <1>3, <1>4, <1>5
  <2> QED BY <1>3, <1>6, <2>1, SubSeqJoin
<1>9. xy \o z = SubSeq(D, one, t - 1)
  <2>1. 1 <= one /\ one <= r2 /\ r2 <= t /\ t <= Len(D) + 1 BY <1>2, <1>3, <1>4, <1>5
  <2> QED BY <1>3, <1>6, <2>1, SubSeqJoin
<1>10. SubSeq(D, one, t - 1) = D
  <2>1. t - 1 = Len(D) BY <1>3, <1>5
  <2> QED BY <1>3, <1>5, <2>1, SubSeqAll
<1>11. kn.snd_queue \in Seq(Seq(Units)) BY <1>1, PiecesAre DEF Dir, Sender
<1>12. PICK fx \in Seq(Units), fy \in Seq(Units), fz \in Seq(Units) :
          fx = FlattenSeq(x) /\ fy = FlattenSeq(y) /\ fz = FlattenSeq(z)
  BY <1>7, FlattenType
<1>13. FlattenSeq(xy) = fx \o fy BY <1>7, <1>8, <1>12, FlattenConcat
<1>14. FlattenSeq(D) = (fx \o fy) \o fz
  <2>1. FlattenSeq(xy \o z) = FlattenSeq(xy) \o FlattenSeq(z) BY <1>7, FlattenConcat
  <2> QED BY <1>9, <1>10, <1>12, <1>13, <2>1
<1>15. fx = G \o Readable(d) BY <1>1, <1>5, <1>6, <1>12 DEF Str
<1>16. FlattenSeq(kp.rcv_queue) = fy BY <1>4, <1>5, <1>6, <1>12
<1>17. FlattenSeq(Unseen(kn, kp)) = fz
  <2>1. t - 1 = Len(D) BY <1>3, <1>5
  <2> QED BY <1>2, <1>5, <1>6, <1>12, <2>1
<1>18. F = FlattenSeq(D) \o FlattenSeq(kn.snd_queue) BY <1>1 DEF Str
<1> QED BY <1>14, <1>15, <1>16, <1>17, <1>18

\* The same of the two nodes.
LEMMA Forgets == Linked => NothingForgotten
<1> SUFFICES ASSUME Linked, NEW n \in Nodes
             PROVE  FlattenSeq(sent[n]) =
                        (((FlattenSeq(got[Other(n)]) \o Readable(buf[Other(n)]))
                          \o FlattenSeq(kcp[Other(n)].rcv_queue))
                          \o FlattenSeq(Unseen(kcp[n], kcp[Other(n)])))
                          \o FlattenSeq(kcp[n].snd_queue)
  BY DEF NothingForgotten, Unseen
<1>1. Link(kcp[n], kcp[Other(n)], net[Other(n)], net[n], FlattenSeq(sent[n]),
           FlattenSeq(got[Other(n)]), buf[Other(n)])
  BY DEF Linked, Pair, Both
<1> QED BY <1>1, LinkKeeps

\* No loss between session.cpp and ikcp.c: as long as the numbers of the segments have
\* not come half around, what one side has given to send_reliable and the other has not
\* yet read lies, once and in order, in the receive buffer, in rcv_queue, among the
\* numbered segments that snd_buf or rcv_buf still keep, or in snd_queue, whatever
\* datagrams are lost, doubled and overtaken.
THEOREM NothingIsForgotten == Spec => []((\A n \in Nodes : FirstRound(n)) => NothingForgotten)
<1>1. StreamInv => ((\A n \in Nodes : FirstRound(n)) => NothingForgotten) BY Forgets DEF StreamInv
<1> QED BY <1>1, SpecStreamInv, PTL

\* As long as they have not, read() returns the messages of the other side once each,
\* whole and in the order of send_reliable: the detailed stream, with its windows,
\* retransmissions, acknowledgements, buffers and workers, implements Channel.
THEOREM StreamIsChannel ==
    Spec => ([](\A n \in Nodes : FirstRound(n)) => ImplementsChannel)
<1> DEFINE Round == \A n \in Nodes : FirstRound(n)
<1>1. Init => Abstract!Init BY DEF Init, Abstract!Init
<1>2. StreamInv /\ Round /\ [Next]_vars => [Abstract!Next]_<<sent, got>>
  <2> SUFFICES ASSUME StreamInv, Round, [Next]_vars PROVE [Abstract!Next]_<<sent, got>> OBVIOUS
  <2>1. Shape /\ Linked BY DEF StreamInv
  <2>2. CASE UNCHANGED <<sent, got>> BY <2>2
  <2>3. ASSUME NEW n \in Nodes, SendReliable(n) PROVE Abstract!Next
    <3>1. PICK message : sent' = [sent EXCEPT ![n] = Append(@, message)] /\ UNCHANGED got
      BY <2>3 DEF SendReliable
    <3>2. PICK s \in Seq(Seq(Units)) : s = sent[n] BY <2>1 DEF Shape
    <3>3. PICK s2 : s2 = Append(s, message) /\ s2 = sent'[n] BY <2>1, <3>1, <3>2 DEF Shape
    <3>4. PICK X : X = Seq(Units) \cup {message} OBVIOUS
    <3>5. PICK y \in Seq(X), z \in X : y = s /\ z = message BY <3>2, <3>4, SeqMonotonic
    <3>6. PICK y2 : y2 = Append(y, z) OBVIOUS
    <3>7. y2 \in Seq(X) /\ Len(y2) = Len(y) + 1 /\ \A i \in 1..Len(y) : y2[i] = y[i]
      <4>1. /\ Append(y, z) \in Seq(X) /\ Len(Append(y, z)) = Len(y) + 1
            /\ \A i \in 1..Len(y) : Append(y, z)[i] = y[i]
        BY ONLY y \in Seq(X), z \in X, AppendProperties
      <4> QED BY <3>6, <4>1
    <3>8. SubSeq(y2, 1, Len(y)) = y
      <4>1. PICK m \in Int, one \in Int : m = Len(y) /\ m + 1 = Len(y2) /\ one = 1 /\ m \in Nat BY <3>7
      <4>2. 1 <= one /\ one <= m + 1 /\ m <= Len(y2) BY <4>1
      <4>3. PICK x : x = SubSeq(y2, one, m) OBVIOUS
      <4>4. /\ x \in Seq(X) /\ Len(x) = m - one + 1
            /\ \A i \in 1..(m - one + 1) : x[i] = y2[one + i - 1]
        BY <3>7, <4>2, <4>3, SubSeqIs
      <4>5. \A i \in 1..Len(x) : x[i] = y[i] BY <3>7, <4>1, <4>4
      <4>6. x = y BY <4>1, <4>4, <4>5, SeqEqual
      <4> QED BY <4>1, <4>3, <4>6
    <3>9. y2 = s2 BY <3>3, <3>5, <3>6
    <3>10. /\ Len(sent'[n]) = Len(sent[n]) + 1
           /\ SubSeq(sent'[n], 1, Len(sent[n])) = sent[n]
      BY <3>2, <3>3, <3>5, <3>7, <3>8, <3>9
    <3>11. \A m \in Nodes \ {n} : sent'[m] = sent[m] BY <2>1, <3>1 DEF Shape
    <3>12. Abstract!Send(n) BY <3>1, <3>10, <3>11 DEF Abstract!Send
    <3> QED BY <3>12 DEF Abstract!Next
  <2>4. ASSUME NEW n \in Nodes, NEW w \in Workers[n], ReadMessage(n, w) PROVE Abstract!Next
    <3>1. /\ Len(got[n]) < Len(sent[Other(n)])
          /\ got' = [got EXCEPT ![n] = Append(@, sent[Other(n)][Len(@) + 1])]
          /\ UNCHANGED sent
      BY <2>1, <2>4, ReadMessageIs
    <3>2. Abstract!Deliver(n) BY <3>1 DEF Abstract!Deliver
    <3> QED BY <3>2 DEF Abstract!Next
  <2> QED BY <2>2, <2>3, <2>4 DEF Next, vars, Update, Input, Wake, ReadNothing, ReadOver
<1> HIDE DEF Round
<1>3. Spec /\ []Round => Abstract!Spec
  BY <1>1, <1>2, SpecStreamInv, PTL DEF Spec, Abstract!Spec
<1> QED BY <1>3, PTL DEF Round, ImplementsChannel

(* ---------------------- types, and who must be awake ---------------------- *)

Steps == {"idle", "asleep", "read", "handle"}
Parts(n) == ((1..Len(buf[n].mem)) \X (1..Len(buf[n].mem))) \cup {NoPart}

\* What TypeOK says of the workers and the network.
NetOk(n) == IsFiniteSet(net[n]) /\ Cardinality(net[n]) <= MaxInFlight[n]
WorkersOk(n) == pc[n] \in [Workers[n] -> Steps] /\ held[n] \in [Workers[n] -> Parts(n)]

Rests(n) ==
    /\ (ReadableSize(buf[n]) >= 2 /\ \A len \in LengthsRead(buf[n]) : len + 2 <= ReadableSize(buf[n]))
          => \E w \in Workers[n] : pc[n][w] \in {"read", "handle"}
    /\ kcp[n].rcv_queue # <<>> => \E w \in Workers[n] : pc[n][w] = "asleep"

Limited == DOMAIN held = Nodes /\ \A n \in Nodes : NetOk(n) /\ WorkersOk(n) /\ Rests(n)

\* A worker goes to one of its four places.
LEMMA GotoSteps ==
    ASSUME Domains, NEW n \in Nodes, NEW w \in Workers[n], NEW to \in Steps, Goto(n, w, to),
           NEW m \in Nodes, pc[m] \in [Workers[m] -> Steps]
    PROVE  pc'[m] \in [Workers[m] -> Steps]
BY DEF Goto, Domains

\* The workers and the memory of the node they work in move on; the rest of it stays.
LEMMA WorkersKept ==
    ASSUME Domains, Limited, NEW n \in Nodes, NEW w \in Workers[n], NEW to \in Steps, Goto(n, w, to),
           \A m \in Nodes : Len(buf[m].mem) \in Nat /\ Len(buf'[m].mem) \in Nat /\ Len(buf[m].mem) <= Len(buf'[m].mem),
           \/ held' = held
           \/ \E x \in Parts(n)' : held' = [held EXCEPT ![n][w] = x]
    PROVE  DOMAIN held' = Nodes /\ \A m \in Nodes : WorkersOk(m)'
<1>1. \A m \in Nodes : pc'[m] \in [Workers[m] -> Steps] BY GotoSteps DEF Limited, WorkersOk
<1>2. \A m \in Nodes : Parts(m) \subseteq Parts(m)'
  <2> TAKE m \in Nodes
  <2>1. PICK i \in Nat, j \in Nat : i = Len(buf[m].mem) /\ j = Len(buf'[m].mem) /\ i <= j OBVIOUS
  <2>2. 1..i \subseteq 1..j BY <2>1
  <2> QED BY <2>1, <2>2 DEF Parts
<1>3. \A m \in Nodes : held[m] \in [Workers[m] -> Parts(m)'] BY <1>2 DEF Limited, WorkersOk
<1>4. CASE held' = held BY <1>1, <1>3, <1>4 DEF WorkersOk, Limited
<1>5. ASSUME NEW x \in Parts(n)', held' = [held EXCEPT ![n][w] = x]
      PROVE  DOMAIN held' = Nodes /\ \A m \in Nodes : WorkersOk(m)'
  <2>1. held'[n] = [held[n] EXCEPT ![w] = x] /\ DOMAIN held' = Nodes /\ \A m \in Nodes \ {n} : held'[m] = held[m]
    BY <1>5 DEF Limited
  <2>2. held'[n] \in [Workers[n] -> Parts(n)'] BY <1>3, <2>1
  <2> QED BY <1>1, <1>3, <2>1, <2>2 DEF WorkersOk
<1> QED BY <1>4, <1>5

\* A node where nothing moves.
LEMMA RestsSame ==
    ASSUME NEW m \in Nodes, Rests(m), buf'[m] = buf[m],
           \A w \in Workers[m] : pc'[m][w] = pc[m][w], kcp'[m].rcv_queue = kcp[m].rcv_queue
    PROVE  Rests(m)'
<1>1. ReadableSize(buf'[m]) = ReadableSize(buf[m]) /\ LengthsRead(buf'[m]) = LengthsRead(buf[m])
  BY DEF ReadableSize, LengthsRead
<1> QED BY <1>1 DEF Rests

\* The buffers and blocks of linked nodes.
LEMMA BufLen ==
    ASSUME Linked, NEW n \in Nodes
    PROVE  BufOk(buf[n]) /\ Len(buf[n].mem) \in Nat /\ Block(kcp[n])
<1>1. BufOk(buf[n]) /\ Block(kcp[n]) BY DEF Linked, Pair, Both
<1>2. buf[n].mem \in Seq(Bytes) BY <1>1 DEF BufOk
<1> QED BY <1>1, <1>2

\* A node sends or flushes: its workers and buffers stay.
LEMMA FlushLimited ==
    ASSUME Shape, Linked, Limited, NEW n \in Nodes, NEW out, Transmit(n, out), UNCHANGED <<buf, pc, held>>,
           IsFiniteSet(net'[Other(n)]), kcp'[n].rcv_queue = kcp[n].rcv_queue,
           kcp'[Other(n)] = kcp[Other(n)]
    PROVE  Limited'
<1>1. PICK o \in Nodes : o = Other(n) /\ o # n /\ Nodes = {n, o} BY TwoNodes
<1>2. /\ net'[n] = net[n]
      /\ net'[o] = net[o] \/ Cardinality(net'[o]) <= MaxInFlight[o]
  BY <1>1, TransmitIs DEF Shape
<1>3. NetOk(n)' /\ NetOk(o)' BY <1>1, <1>2 DEF Limited, NetOk
<1>4. \A m \in Nodes : WorkersOk(m)' BY DEF Limited, WorkersOk, Parts
<1>5. \A m \in Nodes : Rests(m)' BY <1>1, RestsSame DEF Limited
<1> QED BY <1>1, <1>3, <1>4, <1>5 DEF Limited

\* A datagram comes; the worker falls asleep on data or reads on without.
LEMMA InputLimited ==
    ASSUME Shape, Domains, Linked, Linked', Limited, NEW n \in Nodes, NEW w \in Workers[n], NEW datagram,
           Input(n, w, datagram), FirstRound(n)
    PROVE  Limited'
<1>1. PICK o \in Nodes : o = Other(n) /\ o # n /\ Nodes = {n, o} BY TwoNodes
<1>2. /\ Len(buf[n].mem) <= Len(buf'[n].mem)
      /\ kcp'[n].rcv_queue = <<>> \/ Goto(n, w, "asleep")
      /\ IsFiniteSet(net[o]) => IsFiniteSet(net'[o])
  BY <1>1, InputLinked
<1>3. PICK to \in {"asleep", "read"} : Goto(n, w, to) /\ (to = "asleep" => UNCHANGED buf)
  BY DEF Input, Fill
<1>4. UNCHANGED held /\ kcp'[o] = kcp[o] /\ buf'[o] = buf[o]
  BY <1>1 DEF Input, Fill, Shape
<1>5. Cardinality(net'[o]) <= MaxInFlight[o] /\ net'[n] \subseteq net[n] BY <1>1 DEF Input, Shape
<1>6. NetOk(n)' /\ NetOk(o)'
  <2>1. NetOk(n) /\ NetOk(o) BY DEF Limited
  <2>2. IsFiniteSet(net'[n]) /\ Cardinality(net'[n]) <= Cardinality(net[n]) BY <1>5, <2>1, FS_Subset DEF NetOk
  <2>3. PICK i \in Nat, j \in Nat, m \in Nat :
            i = Cardinality(net'[n]) /\ j = Cardinality(net[n]) /\ m = MaxInFlight[n]
    BY <2>1, <2>2, FS_CardinalityType, StreamAssumption DEF NetOk
  <2>4. i <= j /\ j <= m BY <2>1, <2>2, <2>3 DEF NetOk
  <2>5. i <= m BY <2>3, <2>4
  <2> QED BY <1>2, <1>5, <2>1, <2>2, <2>3, <2>5 DEF NetOk
<1>7. \A m \in Nodes : Len(buf[m].mem) \in Nat /\ Len(buf'[m].mem) \in Nat
  <2>1. \A m \in Nodes : Len(buf[m].mem) \in Nat BY BufLen
  <2>2. \A m \in Nodes : BufOk(buf'[m]) BY DEF Linked, Pair, Both
  <2>3. \A m \in Nodes : buf'[m].mem \in Seq(Bytes) BY <2>2 DEF BufOk
  <2> QED BY <2>1, <2>3
<1>8. \A m \in Nodes : Len(buf[m].mem) <= Len(buf'[m].mem) BY <1>1, <1>2, <1>4, <1>7
<1>9. DOMAIN held' = Nodes /\ \A m \in Nodes : WorkersOk(m)'
  BY <1>3, <1>4, <1>7, <1>8, WorkersKept DEF Steps
<1>10. pc'[n][w] = to /\ (\A x \in Workers[o] : pc'[o][x] = pc[o][x]) /\ pc[n][w] = "idle"
       /\ \A x \in Workers[n] \ {w} : pc'[n][x] = pc[n][x]
  BY <1>1, <1>3, GotoMoves DEF Input
<1>11. Rests(o)' BY <1>1, <1>4, <1>10, RestsSame DEF Limited
<1>12. Rests(n)'
  <2>1. CASE to = "read"
    <3>1. kcp'[n].rcv_queue = <<>>
      <4>1. Goto(n, w, "asleep") => pc'[n][w] = "asleep" BY GotoMoves
      <4> QED BY <1>2, <1>10, <2>1, <4>1
    <3> QED BY <1>10, <2>1, <3>1 DEF Rests
  <2>2. CASE to = "asleep"
    <3>1. buf'[n] = buf[n] BY <1>3, <2>2
    <3>2. ReadableSize(buf'[n]) = ReadableSize(buf[n]) /\ LengthsRead(buf'[n]) = LengthsRead(buf[n])
      BY <3>1 DEF ReadableSize, LengthsRead
    <3>3. \A x \in Workers[n] : pc[n][x] \in {"read", "handle"} => pc'[n][x] \in {"read", "handle"}
      BY <1>10
    <3> QED BY <1>10, <2>2, <3>2, <3>3 DEF Rests, Limited
  <2> QED BY <2>1, <2>2
<1> QED BY <1>1, <1>6, <1>9, <1>11, <1>12 DEF Limited

\* The workers move and nothing gets into the network.
LEMMA NetSame ==
    ASSUME Limited, UNCHANGED net
    PROVE  \A m \in Nodes : NetOk(m)'
BY DEF Limited, NetOk

\* Only the worker that moves is somewhere else.
LEMMA MovedFacts ==
    ASSUME Domains, NEW n \in Nodes, NEW w \in Workers[n], NEW to, Goto(n, w, to)
    PROVE  /\ pc'[n][w] = to
           /\ \A x \in Workers[n] \ {w} : pc'[n][x] = pc[n][x]
           /\ \A m \in Nodes \ {n} : \A x \in Workers[m] : pc'[m][x] = pc[m][x]
BY GotoMoves

\* A worker is woken: it takes what is left in KCP with it.
LEMMA WakeLimited ==
    ASSUME Shape, Domains, Linked, Linked', Limited, NEW n \in Nodes, NEW w \in Workers[n], Wake(n, w)
    PROVE  Limited'
<1>1. Goto(n, w, "read") /\ UNCHANGED <<held, net>> BY DEF Wake, Fill
<1>2. kcp'[n].rcv_queue = <<>> /\ Len(buf[n].mem) <= Len(buf'[n].mem) BY WakeLinked
<1>3. \A m \in Nodes \ {n} : kcp'[m] = kcp[m] /\ buf'[m] = buf[m] BY DEF Wake, Fill, Shape
<1>4. \A m \in Nodes : Len(buf[m].mem) \in Nat BY BufLen
<1>5. \A m \in Nodes : Len(buf'[m].mem) \in Nat
  <2>1. \A m \in Nodes : BufOk(buf'[m]) BY DEF Linked, Pair, Both
  <2>2. \A m \in Nodes : buf'[m].mem \in Seq(Bytes) BY <2>1 DEF BufOk
  <2> QED BY <2>2
<1>6. \A m \in Nodes : Len(buf[m].mem) <= Len(buf'[m].mem) BY <1>2, <1>3, <1>4
<1>7. DOMAIN held' = Nodes /\ \A m \in Nodes : WorkersOk(m)'
  BY <1>1, <1>4, <1>5, <1>6, WorkersKept DEF Steps
<1>8. \A m \in Nodes \ {n} : Rests(m)' BY <1>1, <1>3, MovedFacts, RestsSame DEF Limited
<1>9. Rests(n)'
  <2>1. pc'[n][w] = "read" BY <1>1, MovedFacts
  <2> QED BY <1>2, <2>1 DEF Rests
<1> QED BY <1>1, <1>7, <1>8, <1>9, NetSame DEF Limited

\* A length is a number, whatever memcpy finds.
LEMMA LengthsReadAre ==
    ASSUME NEW d, BufOk(d)
    PROVE  LengthsRead(d) \subseteq Nat
<1>1. CASE ~(ReadableSize(d) >= 2) BY <1>1, LengthsAre DEF LengthsRead
<1>2. CASE ReadableSize(d) >= 2
  <2>1. PICK r \in Nat, v \in Nat : r = d.read /\ v = d.write /\ r <= v BY DEF BufOk
  <2>2. 1 \in 1..(d.write - d.read) BY <1>2, <2>1 DEF ReadableSize
  <2>3. /\ Readable(d) \in Seq(Units) /\ Len(Readable(d)) = d.write - d.read
        /\ \A i \in 1..(d.write - d.read) : Readable(d)[i] = d.mem[d.read + i]
    BY ReadableIs DEF BufOk
  <2>4. d.mem[d.read + 1] \in Units BY <2>2, <2>3
  <2>5. d.mem[d.read + 1][2] \in Nat BY <2>4 DEF Units
  <2> QED BY <2>5, LengthsAre DEF LengthsRead
<1> QED BY <1>1, <1>2

\* A worker reads no message and is done: there is none.
LEMMA ReadNothingLimited ==
    ASSUME Shape, Domains, Linked, Limited, NEW n \in Nodes, NEW w \in Workers[n], ReadNothing(n, w)
    PROVE  Limited'
<1>1. /\ Goto(n, w, "idle") /\ pc[n][w] = "read" /\ UNCHANGED <<kcp, buf, held, net>>
      /\ \/ ReadableSize(buf[n]) = 0
         \/ \E len \in LengthsRead(buf[n]) : len + 2 > ReadableSize(buf[n])
  BY DEF ReadNothing
<1>2. \A m \in Nodes : Len(buf[m].mem) \in Nat /\ buf'[m] = buf[m] BY <1>1, BufLen
<1>3. DOMAIN held' = Nodes /\ \A m \in Nodes : WorkersOk(m)' BY <1>1, <1>2, WorkersKept DEF Steps
<1>4. \A m \in Nodes \ {n} : Rests(m)' BY <1>1, MovedFacts, RestsSame DEF Limited
<1>5. Rests(n)'
  <2>1. ~(ReadableSize(buf[n]) >= 2 /\ \A len \in LengthsRead(buf[n]) : len + 2 <= ReadableSize(buf[n]))
    <3> SUFFICES ASSUME ReadableSize(buf[n]) >= 2, \A len \in LengthsRead(buf[n]) : len + 2 <= ReadableSize(buf[n])
                 PROVE  FALSE
      OBVIOUS
    <3>1. PICK size : size = ReadableSize(buf[n]) OBVIOUS
    <3>2. PICK len \in LengthsRead(buf[n]) : len + 2 > size BY <1>1, <3>1
    <3>3. size \in Int
      <4>1. BufOk(buf[n]) BY BufLen
      <4> QED BY <3>1, <4>1 DEF BufOk, ReadableSize
    <3>4. len + 2 <= size BY <3>1
    <3>5. len \in Nat BY <3>2, BufLen, LengthsReadAre
    <3> QED BY <3>2, <3>3, <3>4, <3>5
  <2>2. ReadableSize(buf'[n]) = ReadableSize(buf[n]) /\ LengthsRead(buf'[n]) = LengthsRead(buf[n])
    BY <1>1 DEF ReadableSize, LengthsRead
  <2>3. \A x \in Workers[n] : pc[n][x] = "asleep" => pc'[n][x] = "asleep" BY <1>1, MovedFacts
  <2> QED BY <1>1, <2>1, <2>2, <2>3 DEF Rests, Limited
<1> QED BY <1>1, <1>3, <1>4, <1>5, NetSame DEF Limited

\* A worker reads a message and handles it.
LEMMA ReadMessageLimited ==
    ASSUME Shape, Domains, Linked, Limited, NEW n \in Nodes, NEW w \in Workers[n], ReadMessage(n, w)
    PROVE  Limited'
<1>1. Goto(n, w, "handle") /\ pc[n][w] = "read" /\ UNCHANGED <<kcp, net>> BY DEF ReadMessage
<1>2. PICK len \in Nat :
         /\ len + 2 <= ReadableSize(buf[n])
         /\ buf' = [buf EXCEPT ![n] = Retrieve(@, len + 2)]
         /\ held' = [held EXCEPT ![n][w] = <<buf[n].read + 1, buf[n].read + len + 2>>]
  BY ReadMessageIs
<1>3. PICK r \in Nat, v \in Nat, m \in Nat :
         r = buf[n].read /\ v = buf[n].write /\ m = Len(buf[n].mem) /\ v <= m
  BY BufLen DEF BufOk
<1>4. /\ \A i \in Nodes : Len(buf[i].mem) \in Nat
      /\ \A i \in Nodes : buf'[i].mem = buf[i].mem
      /\ \A i \in Nodes \ {n} : buf'[i] = buf[i]
  BY <1>2, BufLen DEF Shape, Retrieve
<1>5. <<r + 1, r + len + 2>> \in (1..m) \X (1..m)
  <2>1. len + 2 <= v - r BY <1>2, <1>3 DEF ReadableSize
  <2>2. r \in Nat /\ v \in Nat /\ m \in Nat /\ len \in Nat /\ v <= m BY <1>3
  <2>3. r + 1 \in 1..m /\ r + len + 2 \in 1..m BY <2>1, <2>2
  <2> QED BY <2>3
<1>6. <<buf[n].read + 1, buf[n].read + len + 2>> \in Parts(n)' BY <1>3, <1>4, <1>5 DEF Parts
<1>7. DOMAIN held' = Nodes /\ \A i \in Nodes : WorkersOk(i)'
  <2>1. \A i \in Nodes : Len(buf'[i].mem) \in Nat /\ Len(buf[i].mem) <= Len(buf'[i].mem) BY <1>4
  <2> QED BY <1>1, <1>2, <1>4, <1>6, <2>1, WorkersKept DEF Steps
<1>8. \A i \in Nodes \ {n} : Rests(i)' BY <1>1, <1>4, MovedFacts, RestsSame DEF Limited
<1>9. Rests(n)'
  <2>1. pc'[n][w] = "handle" /\ \A x \in Workers[n] : pc[n][x] = "asleep" => pc'[n][x] = "asleep"
    BY <1>1, MovedFacts
  <2> QED BY <1>1, <2>1 DEF Rests, Limited
<1> QED BY <1>1, <1>7, <1>8, <1>9, NetSame DEF Limited

\* The handler returns and the worker reads on.
LEMMA ReadOverLimited ==
    ASSUME Shape, Domains, Linked, Limited, NEW n \in Nodes, NEW w \in Workers[n], ReadOver(n, w)
    PROVE  Limited'
<1>1. /\ Goto(n, w, "read") /\ pc[n][w] = "handle" /\ UNCHANGED <<kcp, buf, net>>
      /\ held' = [held EXCEPT ![n][w] = NoPart]
  BY DEF ReadOver
<1>2. \A m \in Nodes : Len(buf[m].mem) \in Nat /\ buf'[m] = buf[m] BY <1>1, BufLen
<1>3. \E x \in Parts(n)' : held' = [held EXCEPT ![n][w] = x]
  <2>1. PICK x : x = NoPart OBVIOUS
  <2>2. x \in Parts(n)' BY <2>1 DEF Parts
  <2> QED BY <1>1, <2>1, <2>2
<1>4. DOMAIN held' = Nodes /\ \A m \in Nodes : WorkersOk(m)'
  <2>1. \A m \in Nodes : Len(buf'[m].mem) \in Nat /\ Len(buf[m].mem) <= Len(buf'[m].mem) BY <1>2
  <2>2. "read" \in Steps BY DEF Steps
  <2> QED BY <1>1, <1>2, <1>3, <2>1, <2>2, WorkersKept
<1>5. \A m \in Nodes \ {n} : Rests(m)' BY <1>1, MovedFacts, RestsSame DEF Limited
<1>6. Rests(n)'
  <2>1. ReadableSize(buf'[n]) = ReadableSize(buf[n]) /\ LengthsRead(buf'[n]) = LengthsRead(buf[n])
    BY <1>1 DEF ReadableSize, LengthsRead
  <2>2. pc'[n][w] = "read" /\ \A x \in Workers[n] : pc[n][x] = "asleep" => pc'[n][x] = "asleep"
    BY <1>1, MovedFacts
  <2> QED BY <1>1, <2>1, <2>2 DEF Rests, Limited
<1> QED BY <1>1, <1>4, <1>5, <1>6, NetSame DEF Limited

\* Every step leaves the limits.
LEMMA LimitedNext ==
    ASSUME Shape, Domains, Linked, Linked', Limited, [Next]_vars,
           \A n \in Nodes : FirstRound(n), \A n \in Nodes : FirstRound(n)'
    PROVE  Limited'
<1>1. CASE UNCHANGED vars BY <1>1 DEF vars, Limited, NetOk, WorkersOk, Parts, Rests, ReadableSize, LengthsRead
<1>2. ASSUME NEW n \in Nodes, SendReliable(n) PROVE Limited'
  <2>1. PICK out : Transmit(n, out) /\ UNCHANGED <<buf, pc, held>> BY <1>2 DEF SendReliable
  <2>2. /\ kcp'[n].rcv_queue = kcp[n].rcv_queue
        /\ IsFiniteSet(net[Other(n)]) => IsFiniteSet(net'[Other(n)])
    BY <1>2, ShapeNext, SendLinked
  <2>3. IsFiniteSet(net[Other(n)]) BY TwoNodes DEF Limited, NetOk
  <2>4. kcp'[Other(n)] = kcp[Other(n)] BY <1>2, TwoNodes DEF SendReliable, Shape
  <2> QED BY <2>1, <2>2, <2>3, <2>4, FlushLimited
<1>3. ASSUME NEW n \in Nodes, Update(n) PROVE Limited'
  <2>1. PICK out : Transmit(n, out) /\ UNCHANGED <<buf, pc, held>> BY <1>3 DEF Update
  <2>2. /\ kcp'[n].rcv_queue = kcp[n].rcv_queue
        /\ IsFiniteSet(net[Other(n)]) => IsFiniteSet(net'[Other(n)])
    BY <1>3, UpdateLinked
  <2>3. IsFiniteSet(net[Other(n)]) BY TwoNodes DEF Limited, NetOk
  <2>4. kcp'[Other(n)] = kcp[Other(n)] BY <1>3, TwoNodes DEF Update, Shape
  <2> QED BY <2>1, <2>2, <2>3, <2>4, FlushLimited
<1>4. ASSUME NEW n \in Nodes, NEW w \in Workers[n], NEW datagram, Input(n, w, datagram) PROVE Limited'
  BY <1>4, InputLimited
<1>5. ASSUME NEW n \in Nodes, NEW w \in Workers[n], Wake(n, w) PROVE Limited' BY <1>5, WakeLimited
<1>6. ASSUME NEW n \in Nodes, NEW w \in Workers[n], ReadNothing(n, w) PROVE Limited'
  BY <1>6, ReadNothingLimited
<1>7. ASSUME NEW n \in Nodes, NEW w \in Workers[n], ReadMessage(n, w) PROVE Limited'
  BY <1>7, ReadMessageLimited
<1>8. ASSUME NEW n \in Nodes, NEW w \in Workers[n], ReadOver(n, w) PROVE Limited'
  BY <1>8, ReadOverLimited
<1> QED BY <1>1, <1>2, <1>3, <1>4, <1>5, <1>6, <1>7, <1>8 DEF Next

\* The numbers and the windows of the blocks.
LEMMA LinkTypes ==
    ASSUME NEW kn, NEW kp, NEW out, NEW back, NEW F, NEW G, NEW d, Link(kn, kp, out, back, F, G, d)
    PROVE  /\ kn.snd_una \in SegmentNumbers /\ kn.snd_nxt \in SegmentNumbers
           /\ kp.rcv_nxt \in SegmentNumbers
           /\ Cardinality(kn.snd_buf) <= SndWnd
           /\ Len(kp.rcv_queue) <= RcvWnd
           /\ Cardinality(kp.rcv_buf) <= RcvWnd
<1>1. PICK sn, D, u, q, r : Dir(kn, kp, out, back, sn, D, u, q, r) BY DEF Link
<1>2. PICK N \in Nat : N = Len(D) /\ N + RcvWnd < Half /\ D \in Seq(Pieces) BY <1>1, DataIs DEF Dir
<1>3. /\ sn \in SegmentNumbers
      /\ r \in 1..(N + 1) /\ q \in 1..r /\ r - q <= RcvWnd /\ kp.rcv_nxt = Nr(sn, r)
      /\ \A s \in kp.rcv_buf : \E j \in r..N : j < r + RcvWnd /\ s = Seg(sn, D, j)
      /\ kp.rcv_queue = SubSeq(D, q, r - 1)
  BY <1>1, <1>2 DEF Dir, Receiver
<1>4. /\ u \in 1..(N + 1) /\ N + 1 - u <= SndWnd /\ kn.snd_una = Nr(sn, u) /\ kn.snd_nxt = Nr(sn, N + 1)
      /\ \A s \in kn.snd_buf : \E j \in u..N : s = Seg(sn, D, j)
  BY <1>1, <1>2 DEF Dir, Sender
<1>5. /\ RcvWnd \in Nat /\ SndWnd \in Nat /\ Half \in Nat /\ Word = 2 * Half /\ 0 < RcvWnd
  BY Words
<1>6. /\ r \in Nat /\ u \in Nat /\ q \in Nat /\ 1 <= q /\ q <= r /\ 1 <= r /\ r <= N + 1 /\ 1 <= u /\ u <= N + 1
  BY <1>2, <1>3, <1>4
<1>7. \A j \in 1..(N + 1) : Nr(sn, j) \in SegmentNumbers
  <2> TAKE j \in 1..(N + 1)
  <2>1. j \in Nat /\ 1 <= j /\ j <= Word BY <1>2, <1>5
  <2> QED BY <1>3, <2>1, NrIs
<1>8. N + 1 \in 1..(N + 1) BY <1>2
<1>9. Cardinality(kn.snd_buf) <= SndWnd
  <2>1. u \in Int /\ N \in Int /\ u <= N + 1 BY <1>2, <1>6
  <2>2. Cardinality(kn.snd_buf) \in Nat /\ Cardinality(kn.snd_buf) <= N - u + 1 BY <1>4, <2>1, SegsFinite
  <2>3. PICK c \in Nat : c = Cardinality(kn.snd_buf) /\ c <= N - u + 1 BY <2>2
  <2>4. N + 1 - u <= SndWnd /\ SndWnd \in Nat /\ u \in Nat BY <1>4, <1>5, <1>6
  <2> QED BY <2>3, <2>4
<1>10. Cardinality(kp.rcv_buf) <= RcvWnd
  <2>1. PICK hi \in Int : hi = r + RcvWnd - 1 BY <1>5, <1>6
  <2>2. \A j \in r..N : j < r + RcvWnd => j \in r..hi BY <1>2, <1>5, <1>6, <2>1
  <2>3. \A s \in kp.rcv_buf : \E j \in r..hi : s = Seg(sn, D, j) BY <1>3, <2>2
  <2>4. r \in Int /\ r <= hi + 1 BY <1>5, <1>6, <2>1
  <2>5. Cardinality(kp.rcv_buf) \in Nat /\ Cardinality(kp.rcv_buf) <= hi - r + 1 BY <2>3, <2>4, SegsFinite
  <2> QED BY <1>5, <1>6, <2>1, <2>5
<1>11. Len(kp.rcv_queue) <= RcvWnd
  <2>1. PICK l \in Int, h \in Int : l = q /\ h = r - 1 BY <1>6
  <2>2. 1 <= l /\ l <= h + 1 /\ h <= Len(D) BY <1>2, <1>6, <2>1
  <2>3. Len(SubSeq(D, l, h)) = h - l + 1 BY <1>2, <2>2, SubSeqIs
  <2> QED BY <1>3, <1>6, <2>1, <2>3
<1> QED BY <1>3, <1>4, <1>7, <1>8, <1>9, <1>10, <1>11

\* What the limits and the links say of the types.
LEMMA Types ==
    ASSUME Linked, Limited, ReadersCounted
    PROVE  TypeOK
<1> SUFFICES ASSUME NEW n \in Nodes
    PROVE /\ {kcp[n].snd_una, kcp[n].snd_nxt, kcp[n].rcv_nxt} \subseteq SegmentNumbers
          /\ Cardinality(kcp[n].snd_buf) <= SndWnd
          /\ Len(kcp[n].rcv_queue) <= RcvWnd
          /\ Cardinality(kcp[n].rcv_buf) <= RcvWnd
          /\ 0 <= buf[n].read /\ buf[n].read <= buf[n].write /\ buf[n].write <= Len(buf[n].mem)
          /\ readers[n] \in 0..Cardinality(Workers[n])
          /\ pc[n] \in [Workers[n] -> {"idle", "asleep", "read", "handle"}]
          /\ held[n] \in [Workers[n] -> ((1..Len(buf[n].mem)) \X (1..Len(buf[n].mem))) \cup {NoPart}]
          /\ Cardinality(net[n]) <= MaxInFlight[n]
  BY DEF TypeOK
<1>1. Pair(n) BY DEF Linked
<1>2. /\ Link(kcp[n], kcp[Other(n)], net[Other(n)], net[n], FlattenSeq(sent[n]),
              FlattenSeq(got[Other(n)]), buf[Other(n)])
      /\ Link(kcp[Other(n)], kcp[n], net[n], net[Other(n)], FlattenSeq(sent[Other(n)]),
              FlattenSeq(got[n]), buf[n])
  BY <1>1 DEF Pair, Both
<1>3. /\ kcp[n].snd_una \in SegmentNumbers /\ kcp[n].snd_nxt \in SegmentNumbers
      /\ Cardinality(kcp[n].snd_buf) <= SndWnd
  BY <1>2, LinkTypes
<1>4. /\ kcp[n].rcv_nxt \in SegmentNumbers
      /\ Len(kcp[n].rcv_queue) <= RcvWnd /\ Cardinality(kcp[n].rcv_buf) <= RcvWnd
  BY <1>2, LinkTypes
<1>5. 0 <= buf[n].read /\ buf[n].read <= buf[n].write /\ buf[n].write <= Len(buf[n].mem)
  BY BufLen DEF BufOk
<1>6. readers[n] \in 0..Cardinality(Workers[n])
  <2>1. IsFiniteSet(Workers[n]) BY StreamAssumption
  <2>2. Handling(n) \subseteq Workers[n] BY DEF Handling
  <2>3. Cardinality(Handling(n)) <= Cardinality(Workers[n]) /\ Cardinality(Workers[n]) \in Nat
    BY <2>1, <2>2, FS_Subset, FS_CardinalityType
  <2> QED BY <2>3, HandlingFinite DEF ReadersCounted
<1>7. NetOk(n) /\ WorkersOk(n) BY DEF Limited
<1> QED BY <1>3, <1>4, <1>5, <1>6, <1>7 DEF NetOk, WorkersOk, Steps, Parts

\* The whole inductive invariant.
StreamIInv == IInv /\ StreamInv /\ ((\A n \in Nodes : FirstRound(n)) => Limited)

\* The start.
LEMMA InitStreamIInv == Init => StreamIInv
<1> SUFFICES ASSUME Init PROVE StreamIInv OBVIOUS
<1>1. IInv /\ Shape /\ Linked BY InitIInv, InitLinked
<1>2. DOMAIN held = Nodes /\ \A n \in Nodes : net[n] = {} BY DEF Init
<1>3. \A n \in Nodes : WorkersOk(n) BY DEF Init, WorkersOk, Steps, Parts
<1>4. \A n \in Nodes : NetOk(n)
  <2>1. \A n \in Nodes : MaxInFlight[n] \in Nat BY StreamAssumption
  <2> QED BY <1>2, <2>1, FS_EmptySet DEF NetOk
<1>5. \A n \in Nodes : Rests(n)
  <2> TAKE n \in Nodes
  <2>1. kcp[n].rcv_queue = <<>> BY DEF Init, Create
  <2>2. ReadableSize(buf[n]) = 0 BY DEF Init, ReadableSize
  <2> QED BY <2>1, <2>2 DEF Rests
<1> QED BY <1>1, <1>2, <1>3, <1>4, <1>5 DEF StreamIInv, StreamInv, Limited

\* Every step leaves the whole invariant.
LEMMA StreamIInvNext == StreamIInv /\ [Next]_vars => StreamIInv'
<1> SUFFICES ASSUME StreamIInv, [Next]_vars PROVE StreamIInv' OBVIOUS
<1>1. IInv' /\ StreamInv' BY NextIInv, StreamInvNext DEF StreamIInv
<1>2. ASSUME \A n \in Nodes : FirstRound(n)' PROVE Limited'
  <2>1. Shape /\ Domains BY DEF StreamIInv, StreamInv, IInv
  <2>2. \A n \in Nodes : FirstRound(n) BY <1>2, <2>1, RoundBegan
  <2>3. Linked /\ Limited BY <2>2 DEF StreamIInv, StreamInv
  <2>4. Linked' BY <1>1, <1>2 DEF StreamInv
  <2> QED BY <1>2, <2>1, <2>2, <2>3, <2>4, LimitedNext
<1> QED BY <1>1, <1>2 DEF StreamIInv

\* The whole invariant.
LEMMA SpecStreamIInv == Spec => []StreamIInv
BY InitStreamIInv, StreamIInvNext, PTL DEF Spec

\* As long as they have not, the windows of KCP are kept (snd_buf, rcv_queue and rcv_buf
\* never hold more than init_kcp allows), the indices of the receive buffer are in
\* order, what a handler holds lies in the memory, and every worker is in its place.
THEOREM StreamTypes == Spec => []((\A n \in Nodes : FirstRound(n)) => TypeOK)
<1>1. StreamIInv => ((\A n \in Nodes : FirstRound(n)) => TypeOK)
  BY Types DEF StreamIInv, StreamInv, IInv
<1> QED BY <1>1, SpecStreamIInv, PTL

\* As long as they have not, a whole message never lies in the receive buffer without a
\* worker that reads on or handles one, and data never lies in rcv_queue without a
\* worker asleep in input() that will take it from there.
THEOREM NothingIsLeftResting == Spec => []((\A n \in Nodes : FirstRound(n)) => NothingRests)
<1>1. StreamIInv => ((\A n \in Nodes : FirstRound(n)) => NothingRests)
  BY DEF StreamIInv, Limited, Rests, NothingRests
<1> QED BY <1>1, SpecStreamIInv, PTL
===============================================================================
