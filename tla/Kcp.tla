-------------------------------- MODULE Kcp --------------------------------
(***************************************************************************)
(* One end of a reliable stream over datagrams: third/kcp/ikcp.c, as       *)
(* session.cpp sets it up (stream mode, no congestion window).  Like the C *)
(* file this module has no state of its own; each operator takes a control *)
(* block and returns the next one.                                         *)
(*                                                                         *)
(* Lengths are in units.  The queues of numbered segments are sets, whose  *)
(* order is that of the numbers.  Time is abstracted to what it decides:   *)
(* whether ikcp_update flushes, which segments are due to be sent again    *)
(* (by their timer, or by acknowledgements that overtook theirs), and      *)
(* whether a probe of the window is due.  The number of transmissions and  *)
(* the round-trip estimate only feed those decisions, `state` and cwnd are *)
(* read by nobody.                                                         *)
(***************************************************************************)
EXTENDS Integers, SequencesExt

CONSTANTS
    Word,      \* 2^32: segment numbers wrap
    SndWnd,    \* 1024, from init_kcp
    RcvWnd,    \* 2048, from init_kcp
    WndRcv,    \* IKCP_WND_RCV, 128: the window assumed of the other side
    Mss,       \* the units a segment may carry
    Overhead   \* IKCP_OVERHEAD: the room its header takes

ASSUME KcpAssumption ==
    /\ {Word, SndWnd, RcvWnd, WndRcv, Mss, Overhead} \subseteq Nat \ {0}
    /\ Word % 2 = 0
    /\ 2 * (SndWnd + RcvWnd) < Word

Mtu == Mss + Overhead
SegmentNumbers == 0..(Word - 1)

\* later - earlier as a signed word.
TimeDiff(later, earlier) ==
    LET d == (later - earlier) % Word IN IF d < Word \div 2 THEN d ELSE d - Word

Before(s, t) == TimeDiff(s.sn, t.sn) < 0

\* The queues of numbered segments are kept in this order.
InOrder(segments) ==
    CHOOSE q \in [1..Cardinality(segments) -> segments] :
        \A i, j \in DOMAIN q : i < j => Before(q[i], q[j])

Create(sn) ==
    [snd_una |-> sn, snd_nxt |-> sn, rcv_nxt |-> sn, rmt_wnd |-> WndRcv,
     ask_tell |-> FALSE,    \* IKCP_ASK_TELL is set in probe
     probe_wait |-> FALSE,  \* a probe of the window is being timed
     acklist |-> <<>>,
     snd_queue |-> <<>>,    \* segments without a number
     snd_buf |-> {},        \* sent and not acknowledged
     rcv_buf |-> {},        \* received, but the window is full or one before is missing
     rcv_queue |-> <<>>]

-----------------------------------------------------------------------------
(* Sending.                                                                *)

\* data cut into segments of at most Mss units.
Fragments(data) ==
    [i \in 1..((Len(data) + Mss - 1) \div Mss) |->
        SubSeq(data, (i - 1) * Mss + 1, IF i * Mss < Len(data) THEN i * Mss ELSE Len(data))]

\* Without the fragment that fills the last segment being taken off the data.
SlipKcpSend(k, data) ==
    LET q == k.snd_queue
        capacity == IF q = <<>> THEN 0 ELSE Mss - Len(Last(q))
        extend == IF Len(data) < capacity THEN Len(data) ELSE capacity
        filled == IF extend = 0 THEN q
                  ELSE Append(Front(q), Last(q) \o SubSeq(data, 1, extend))
    IN  [k EXCEPT !.snd_queue = filled \o Fragments(data)]

\* Stream mode: fill the last segment first.
KcpSend(k, data) ==
    LET q == k.snd_queue
        capacity == IF q = <<>> THEN 0 ELSE Mss - Len(Last(q))
        extend == IF Len(data) < capacity THEN Len(data) ELSE capacity
        filled == IF extend = 0 THEN q
                  ELSE Append(Front(q), Last(q) \o SubSeq(data, 1, extend))
    IN  [k EXCEPT !.snd_queue = filled \o Fragments(SubSeq(data, extend + 1, Len(data)))]

-----------------------------------------------------------------------------
(* Receiving.                                                              *)

\* Move the segments that are next in order, while there is room.
MoveAvailable(k, room) ==
    LET Next(i) == (k.rcv_nxt + i - 1) % Word
        Has(n) == \A i \in 1..n : \E s \in k.rcv_buf : s.sn = Next(i)
        n == CHOOSE m \in 0..room : Has(m) /\ (m < room => ~Has(m + 1))
        Moved(i) == CHOOSE s \in k.rcv_buf : s.sn = Next(i)
        moved == [i \in 1..n |-> Moved(i)]
    IN  [k EXCEPT !.rcv_buf = @ \ Range(moved),
                  !.rcv_queue = @ \o [i \in 1..n |-> moved[i].data],
                  !.rcv_nxt = (@ + n) % Word]

Room(k) == IF Len(k.rcv_queue) < RcvWnd THEN RcvWnd - Len(k.rcv_queue) ELSE 0

\* ikcp_recv until it returns -1: the pieces read, and the block after it.
KcpRecvAll(k) ==
    LET all == MoveAvailable(k, Cardinality(k.rcv_buf))
    IN  [data |-> all.rcv_queue,
         kcp |-> [all EXCEPT !.rcv_queue = <<>>, !.ask_tell = @ \/ Room(k) = 0]]

\* The first unacknowledged segment, or the next one when there is none.
ShrinkBuf(k) ==
    [k EXCEPT !.snd_una =
        IF k.snd_buf = {} THEN k.snd_nxt
        ELSE (CHOOSE s \in k.snd_buf : \A t \in k.snd_buf \ {s} : Before(s, t)).sn]

\* Takes the one that is expected next for received as well.
SlipParseUna(k, una) == [k EXCEPT !.snd_buf = {s \in @ : TimeDiff(una, s.sn) < 0}]

ParseUna(k, una) == [k EXCEPT !.snd_buf = {s \in @ : TimeDiff(una, s.sn) <= 0}]

ParseAck(k, sn) ==
    IF TimeDiff(sn, k.snd_una) < 0 \/ TimeDiff(sn, k.snd_nxt) >= 0 THEN k
    ELSE [k EXCEPT !.snd_buf = {s \in @ : s.sn # sn}]

ParseData(k, sn, data) ==
    LET new == ~\E s \in k.rcv_buf : s.sn = sn
        kept == IF new THEN [k EXCEPT !.rcv_buf = @ \cup {[sn |-> sn, data |-> data]}] ELSE k
    IN  MoveAvailable(kept, Room(k))

\* A segment beyond the window is dropped, one before it acknowledged again.
ParsePush(k, sn, data) ==
    IF TimeDiff(sn, (k.rcv_nxt + RcvWnd) % Word) >= 0 THEN k
    ELSE LET acked == [k EXCEPT !.acklist = Append(@, sn)]
         IN  IF TimeDiff(sn, k.rcv_nxt) >= 0 THEN ParseData(acked, sn, data) ELSE acked

InputSegment(k, seg) ==
    LET known == ShrinkBuf(ParseUna([k EXCEPT !.rmt_wnd = seg.wnd], seg.una))
    IN  CASE seg.cmd = "ACK"  -> ShrinkBuf(ParseAck(known, seg.sn))
          [] seg.cmd = "PUSH" -> ParsePush(known, seg.sn, seg.data)
          [] seg.cmd = "WASK" -> [known EXCEPT !.ask_tell = TRUE]
          [] seg.cmd = "WINS" -> known

\* A datagram is a sequence of segments.
KcpInput(k, datagram) == FoldLeft(InputSegment, k, datagram)

-----------------------------------------------------------------------------
(* Flushing.                                                               *)

SizeOf(datagram) == FoldLeft(LAMBDA size, s : size + Overhead + Len(s.data), 0, datagram)

Pack(datagrams, seg) ==
    IF datagrams # <<>> /\ SizeOf(Last(datagrams)) + SizeOf(<<seg>>) <= Mtu
    THEN Append(Front(datagrams), Append(Last(datagrams), seg))
    ELSE Append(datagrams, <<seg>>)

\* What ikcp_flush sends, with the numbered segments in `again` due to be sent
\* once more and the probe due or not, and the block it leaves.
KcpFlush(k, again, probeDue) ==
    LET Segment(cmd, sn, data) ==
            [cmd |-> cmd, sn |-> sn, data |-> data, una |-> k.rcv_nxt, wnd |-> Room(k)]
        acks == [i \in DOMAIN k.acklist |-> Segment("ACK", k.acklist[i], <<>>)]
        ask == IF k.rmt_wnd = 0 /\ k.probe_wait /\ probeDue
               THEN <<Segment("WASK", 0, <<>>)>> ELSE <<>>
        tell == IF k.ask_tell THEN <<Segment("WINS", 0, <<>>)>> ELSE <<>>
        cwnd == IF SndWnd < k.rmt_wnd THEN SndWnd ELSE k.rmt_wnd
        free == TimeDiff((k.snd_una + cwnd) % Word, k.snd_nxt)
        n == IF free <= 0 THEN 0
             ELSE IF free < Len(k.snd_queue) THEN free ELSE Len(k.snd_queue)
        new == {[sn |-> (k.snd_nxt + i - 1) % Word, data |-> k.snd_queue[i]] : i \in 1..n}
        pushed == InOrder(new \cup again)
        push == [i \in DOMAIN pushed |-> Segment("PUSH", pushed[i].sn, pushed[i].data)]
    IN  [out |-> FoldLeft(Pack, <<>>, acks \o ask \o tell \o push),
         kcp |-> [k EXCEPT !.acklist = <<>>, !.ask_tell = FALSE,
                           !.probe_wait = (k.rmt_wnd = 0),
                           !.snd_queue = SubSeq(@, n + 1, Len(@)),
                           !.snd_buf = @ \cup new,
                           !.snd_nxt = (@ + n) % Word]]

\* What ikcp_update may do, depending on the time.
KcpUpdates(k) ==
    {[out |-> <<>>, kcp |-> k]}
    \cup {KcpFlush(k, again, probeDue) : again \in SUBSET k.snd_buf, probeDue \in BOOLEAN}
=============================================================================
