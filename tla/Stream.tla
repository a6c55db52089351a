------------------------------- MODULE Stream -------------------------------
(***************************************************************************)
(* Two nodes with a session to each other, and what goes over it reliably: *)
(* Session::send_reliable, input, read, read_over and update of session.cpp*)
(* with the receive buffer of base/buffer.cpp and a KCP at each end, and   *)
(* the loop of HandlerManager::handle_on_recv that the workers of the pool *)
(* run.  The datagrams are lost, doubled and overtake each other.          *)
(*                                                                         *)
(* Everything under m_KcpMutex is one step, except that input() gives the  *)
(* mutex away while it waits on m_CondVrb until nobody reads the buffer.   *)
(* No code notifies m_CondVrb: what ends a wait is a spurious wake-up.     *)
(*                                                                         *)
(* The session stays open: what closing it does is in SessionManager and   *)
(* Handshake.  The handlers do not look at the buffer once they are done.  *)
(***************************************************************************)
EXTENDS Kcp

CONSTANTS
    a, b,             \* the two nodes
    Workers,          \* the workers of each node's pool
    MessageLens,      \* the lengths of the messages each node sends
    StartNumbers,     \* the numbers the next segment may have
    BufferSize,       \* the initial size of m_RecvBuffer
    MaxInFlight,      \* bound: datagrams on the way to a node
    MaxAcks           \* bound: acknowledgements that wait for a flush

Nodes == {a, b}
Other(n) == IF n = a THEN b ELSE a

ASSUME StreamAssumption ==
    /\ a # b
    /\ \A n \in Nodes : Workers[n] # {} /\ IsFiniteSet(Workers[n])
    /\ MessageLens \in [Nodes -> Seq(Nat)]
    /\ StartNumbers \subseteq SegmentNumbers
    /\ MaxInFlight \in [Nodes -> Nat]
    /\ {BufferSize, MaxAcks} \subseteq Nat \ {0}

VARIABLES
    kcp,    \* m_Kcp of each node's session
    buf,    \* m_RecvBuffer
    readers,\* its m_ReadingCount
    pc,     \* what each worker is doing
    held,   \* the part of the buffer a worker's handler looks at
    net,    \* the datagrams on the way to each node
    sent,   \* history: the messages given to send_reliable()
    got     \* history: the messages read() has returned

vars == <<kcp, buf, readers, pc, held, net, sent, got>>

-----------------------------------------------------------------------------
(* base/buffer.cpp: bytes 1..Len(mem), those in read+1..write are readable. *)

NoUnit == <<>>
NoPart == <<0, 0>>

ReadableSize(d) == d.write - d.read
Readable(d) == SubSeq(d.mem, d.read + 1, d.write)

MakeSpace(d, len) ==
    IF Len(d.mem) - d.write + d.read < len
    THEN [d EXCEPT !.mem = @ \o [i \in 1..(d.write + len - Len(@)) |-> NoUnit]]
    ELSE [d EXCEPT !.mem = Readable(d) \o SubSeq(@, ReadableSize(d) + 1, Len(@)),
                   !.read = 0, !.write = ReadableSize(d)]

BufferAppend(d, data) ==
    LET e == IF Len(d.mem) - d.write < Len(data) THEN MakeSpace(d, Len(data)) ELSE d
    IN  [e EXCEPT !.mem = SubSeq(@, 1, e.write) \o data
                             \o SubSeq(@, e.write + Len(data) + 1, Len(@)),
                  !.write = @ + Len(data)]

Retrieve(d, len) ==
    LET rest == len < ReadableSize(d)
    IN  [mem |-> d.mem, read |-> IF rest THEN d.read + len ELSE 0,
         write |-> IF rest THEN d.write ELSE 0]

\* Only the branch that leaves something readable counts the reader.
SlipCountReader(n, len) == readers[n] + IF len < ReadableSize(buf[n]) THEN 1 ELSE 0

\* retrieve() and retrieve_all() both do.
CountReader(n, len) == readers[n] + 1

-----------------------------------------------------------------------------
\* A message is preceded by its length in two bytes: its units 1 and 2.
Message(i, len) == [j \in 1..(2 + len) |-> <<i, len, j>>]
Lengths == UNION {Range(MessageLens[n]) : n \in Nodes}

\* The lengths memcpy may find at the beginning of the readable bytes.
LengthsRead(d) ==
    LET lo == d.mem[d.read + 1]
        hi == d.mem[d.read + 2]
    IN  IF ReadableSize(d) >= 2 /\ lo[1] = hi[1] /\ lo[3] = 1 /\ hi[3] = 2
        THEN {lo[2]} ELSE Lengths

Init ==
    /\ kcp \in {[n \in Nodes |-> Create(sn)] : sn \in StartNumbers}
    /\ buf = [n \in Nodes |-> [mem |-> [i \in 1..BufferSize |-> NoUnit],
                               read |-> 0, write |-> 0]]
    /\ readers = [n \in Nodes |-> 0]
    /\ pc = [n \in Nodes |-> [w \in Workers[n] |-> "idle"]]
    /\ held = [n \in Nodes |-> [w \in Workers[n] |-> NoPart]]
    /\ net = [n \in Nodes |-> {}]
    /\ sent = [n \in Nodes |-> <<>>]
    /\ got = [n \in Nodes |-> <<>>]

\* What is sent arrives or is lost, as may be what was on the way already.
Transmit(n, out) ==
    /\ out = <<>> => UNCHANGED net
    /\ out # <<>> => \E on \in SUBSET (net[Other(n)] \cup Range(out)) :
                        /\ Cardinality(on) <= MaxInFlight[Other(n)]
                        /\ net' = [net EXCEPT ![Other(n)] = on]

Goto(n, w, to) == pc' = [pc EXCEPT ![n][w] = to]

\* send_reliable(): the length, the message, and an update.
SendReliable(n) ==
    LET i == Len(sent[n]) + 1
        message == Message(i, MessageLens[n][i])
    IN  /\ i <= Len(MessageLens[n])
        /\ \E u \in KcpUpdates(KcpSend(KcpSend(kcp[n], SubSeq(message, 1, 2)),
                                       SubSeq(message, 3, Len(message)))) :
              /\ kcp' = [kcp EXCEPT ![n] = u.kcp]
              /\ Transmit(n, u.out)
        /\ sent' = [sent EXCEPT ![n] = Append(@, message)]
        /\ UNCHANGED <<buf, readers, pc, held, got>>

\* The timer callback update().
Update(n) ==
    /\ \E u \in KcpUpdates(kcp[n]) :
          /\ kcp' = [kcp EXCEPT ![n] = u.kcp]
          /\ Transmit(n, u.out)
    /\ UNCHANGED <<buf, readers, pc, held, sent, got>>

\* input() from the end of the wait on: ikcp_recv until there is nothing.
Fill(n, w, k) ==
    LET r == KcpRecvAll(k)
    IN  /\ kcp' = [kcp EXCEPT ![n] = r.kcp]
        /\ buf' = [buf EXCEPT ![n] = FoldLeft(BufferAppend, @, r.data)]
        /\ Goto(n, w, "read")

SlipNobodyReads(n) == TRUE

\* The guard the wait tests first.
NobodyReads(n) == readers[n] = 0

\* A worker takes a datagram, which may come again, to input().
Input(n, w, datagram) ==
    /\ pc[n][w] = "idle"
    /\ datagram \in net[n]
    /\ Len(kcp[n].acklist) < MaxAcks
    /\ \E u \in KcpUpdates(KcpInput(kcp[n], datagram)) :
          /\ \E again \in BOOLEAN, on \in SUBSET (net[Other(n)] \cup Range(u.out)) :
                /\ u.out = <<>> => on = net[Other(n)]
                /\ Cardinality(on) <= MaxInFlight[Other(n)]
                /\ net' = [net EXCEPT ![n] = IF again THEN @ ELSE @ \ {datagram},
                                      ![Other(n)] = on]
          /\ IF NobodyReads(n) THEN Fill(n, w, u.kcp)
             ELSE /\ kcp' = [kcp EXCEPT ![n] = u.kcp]
                  /\ Goto(n, w, "asleep")
                  /\ UNCHANGED buf
    /\ UNCHANGED <<readers, held, sent, got>>

\* A spurious wake-up.
Wake(n, w) ==
    /\ pc[n][w] = "asleep"
    /\ NobodyReads(n)
    /\ Fill(n, w, kcp[n])
    /\ UNCHANGED <<readers, held, net, sent, got>>

SlipReadNothing(n, w) ==
    /\ pc[n][w] = "read"
    /\ \/ ReadableSize(buf[n]) = 0
       \/ \E len \in LengthsRead(buf[n]) : len + 2 >= ReadableSize(buf[n])
    /\ Goto(n, w, "idle")
    /\ UNCHANGED <<kcp, buf, readers, held, net, sent, got>>

\* read() returns nullptr: no message, or not all of it.
ReadNothing(n, w) ==
    /\ pc[n][w] = "read"
    /\ \/ ReadableSize(buf[n]) = 0
       \/ \E len \in LengthsRead(buf[n]) : len + 2 > ReadableSize(buf[n])
    /\ Goto(n, w, "idle")
    /\ UNCHANGED <<kcp, buf, readers, held, net, sent, got>>

\* read() returns a message, which a handler is called with.
ReadMessage(n, w) ==
    /\ pc[n][w] = "read"
    /\ ReadableSize(buf[n]) # 0
    /\ \E len \in LengthsRead(buf[n]) :
          /\ len + 2 <= ReadableSize(buf[n])
          /\ buf' = [buf EXCEPT ![n] = Retrieve(@, len + 2)]
          /\ readers' = [readers EXCEPT ![n] = CountReader(n, len + 2)]
          /\ held' = [held EXCEPT ![n][w] = <<buf[n].read + 1, buf[n].read + len + 2>>]
          /\ got' = [got EXCEPT ![n] = Append(@, SubSeq(Readable(buf[n]), 1, len + 2))]
    /\ Goto(n, w, "handle")
    /\ UNCHANGED <<kcp, net, sent>>

\* `continue` after a message too short for a type, without read_over().
SlipReadOver(n, w) ==
    /\ pc[n][w] = "handle"
    /\ readers' = [readers EXCEPT ![n] = @ - IF held[n][w][2] - held[n][w][1] = 1 THEN 0 ELSE 1]
    /\ held' = [held EXCEPT ![n][w] = NoPart]
    /\ Goto(n, w, "read")
    /\ UNCHANGED <<kcp, buf, net, sent, got>>

ReadOver(n, w) ==
    /\ pc[n][w] = "handle"
    /\ readers' = [readers EXCEPT ![n] = @ - 1]
    /\ held' = [held EXCEPT ![n][w] = NoPart]
    /\ Goto(n, w, "read")
    /\ UNCHANGED <<kcp, buf, net, sent, got>>

Next ==
    \E n \in Nodes :
        \/ SendReliable(n)
        \/ Update(n)
        \/ \E w \in Workers[n] :
              \/ \E datagram \in net[n] : Input(n, w, datagram)
              \/ Wake(n, w)
              \/ ReadNothing(n, w)
              \/ ReadMessage(n, w)
              \/ ReadOver(n, w)

Spec == Init /\ [][Next]_vars

Abstract == INSTANCE Channel

-----------------------------------------------------------------------------
(* Properties.                                                             *)

\* Types, and the limits of the windows.
TypeOK ==
    \A n \in Nodes :
        /\ {kcp[n].snd_una, kcp[n].snd_nxt, kcp[n].rcv_nxt} \subseteq SegmentNumbers
        /\ Cardinality(kcp[n].snd_buf) <= SndWnd
        /\ Len(kcp[n].rcv_queue) <= RcvWnd
        /\ Cardinality(kcp[n].rcv_buf) <= RcvWnd
        /\ 0 <= buf[n].read /\ buf[n].read <= buf[n].write /\ buf[n].write <= Len(buf[n].mem)
        /\ readers[n] \in 0..Cardinality(Workers[n])
        /\ pc[n] \in [Workers[n] -> {"idle", "asleep", "read", "handle"}]
        /\ held[n] \in [Workers[n] -> ((1..Len(buf[n].mem)) \X (1..Len(buf[n].mem))) \cup {NoPart}]
        /\ Cardinality(net[n]) <= MaxInFlight[n]

\* What read() returns is what the other side gave to send_reliable(): every
\* message whole, once, in order, whatever the network does.
ImplementsChannel == Abstract!Spec

\* What one side has sent and the other not yet read is in the receive buffer,
\* in the receive queues or still with the sender, and in order: the sender
\* drops no segment that the receiver does not have.
NothingForgotten ==
    \A n \in Nodes :
        LET p == Other(n)
            unseen == {s \in kcp[n].snd_buf \cup kcp[p].rcv_buf :
                           TimeDiff(s.sn, kcp[p].rcv_nxt) >= 0}
            inOrder == InOrder(unseen)
        IN  FlattenSeq(sent[n]) =
                FlattenSeq(got[p]) \o Readable(buf[p]) \o FlattenSeq(kcp[p].rcv_queue)
                \o FlattenSeq([i \in DOMAIN inOrder |-> inOrder[i].data])
                \o FlattenSeq(kcp[n].snd_queue)

\* While a handler looks at a message in the receive buffer, nobody writes
\* over it, moves it or lets the vector allocate new memory.
ReadersUndisturbed ==
    [][\A n \in Nodes : \A w \in Workers[n] :
          pc[n][w] = "handle" /\ pc'[n][w] = "handle" =>
              /\ Len(buf'[n].mem) = Len(buf[n].mem)
              /\ LET part == held[n][w] IN
                     SubSeq(buf'[n].mem, part[1], part[2]) = SubSeq(buf[n].mem, part[1], part[2])
      ]_vars

\* A message that is complete in the receive buffer has a worker that will read
\* it, and what KCP has put in order lies there only because a worker sleeps.
NothingRests ==
    \A n \in Nodes :
        /\ (ReadableSize(buf[n]) >= 2 /\ \A len \in LengthsRead(buf[n]) : len + 2 <= ReadableSize(buf[n]))
              => \E w \in Workers[n] : pc[n][w] \in {"read", "handle"}
        /\ kcp[n].rcv_queue # <<>> => \E w \in Workers[n] : pc[n][w] = "asleep"

\* However many workers fall asleep in input(), one never does.
OneAwake == \A n \in Nodes : \E w \in Workers[n] : pc[n][w] # "asleep"
=============================================================================
