------------------------------ MODULE TunnelFlow ------------------------------
(***************************************************************************)
(* One flow-controlled stream of a tunnel (go/internal/tunnel/tunnel.go)   *)
(* with both of its ends.  Each end has a writing goroutine, a reading     *)
(* goroutine, a goroutine that returns credit, one that sends CLOSE, and   *)
(* the read loop of its connection.  The connection is a pair of FIFO      *)
(* byte streams that may break.                                            *)
(*                                                                         *)
(* Payload is counted in bytes.  A frame also carries the positions of its *)
(* bytes in the stream, which the code does not: they only serve to state  *)
(* what was sent, received and acknowledged.                               *)
(***************************************************************************)
EXTENDS Integers, Sequences

LOCAL INSTANCE FiniteSetsExt

CONSTANTS
    Window,       \* initial credit, and byte limit of the receive queue
    FrameLimit,   \* frame limit of the receive queue
    MaxFrame,     \* protocol.MaxDataPayloadSize or MaxDatagramPayloadSize
    Budget        \* bytes the application of each end may write (a bound)

Side == {"relay", "agent"}
Peer(x) == IF x = "relay" THEN "agent" ELSE "relay"

ASSUME FlowAssumption ==
    /\ Window \in Nat \ {0} /\ FrameLimit \in Nat \ {0}
    /\ MaxFrame \in Nat \ {0} /\ MaxFrame <= Window
    /\ Budget \in [Side -> Nat]

VARIABLES
    transport, \* of the stream, as OPEN named it: "tcp" or "udp"
    net,      \* net[x]: frames x has written and the peer has not read
    down,     \* down[x]: the connection is closed at x
    open,     \* the stream is in the connection's map
    done,     \* doneCh is closed
    tx,       \* sending half
    rx,       \* receiving half
    seen      \* positions: what the properties speak about

vars == <<transport, net, down, open, done, tx, rx, seen>>

-----------------------------------------------------------------------------
(* State *)

Frame == [type : {"data", "window"}, from : Nat, to : Nat]
         \cup [type : {"fin", "close"}]
Data(a, b)  == [type |-> "data", from |-> a, to |-> b]
Credit(a, b) == [type |-> "window", from |-> a, to |-> b]
Fin   == [type |-> "fin"]
Close == [type |-> "close"]
Size(f) == f.to - f.from

\* A payload in the receive queue, at its place among the payloads queued so far.
Segment == [type : {"data"}, from : Nat, to : Nat]

\* closed: txClosed.  fin: txCloseOnce has run.  credit, tok: txCredit and
\* creditNotify.  pc, want, n: the writer, what it has left, what it took credit
\* for.  closing: sendClose waits for txMu.
TxState == [closed : BOOLEAN, fin : BOOLEAN, credit : Nat, tok : BOOLEAN,
            pc : {"idle", "credit", "wait", "frame"}, want : Nat, n : Nat,
            closing : BOOLEAN]

\* closed: rxClosed.  queue, queued: rxQueue and rxQueued.  tok: rxNotify.  pc: the
\* reader.  pending, sending: windowPending and windowSending.  flush: what
\* flushWindowUpdates is about to write.
RxState == [closed : BOOLEAN, queue : Seq(Segment), queued : Int, tok : BOOLEAN,
            pc : {"ready", "wait", "eof"}, pending : Nat, sending : BOOLEAN, flush : Nat]

\* Of the bytes this end sends: sent in frames, acked by updates.  Of the bytes it
\* receives: got into the queue, freed from it, dropped before it, returned as credit,
\* announced in updates, read by the application.  lost: this end threw data away.
Seen == [sent : Nat, acked : Nat, got : Nat, freed : Nat, dropped : Nat, returned : Nat,
         announced : Nat, read : Nat, lost : BOOLEAN]

StateOK ==
    /\ net \in [Side -> Seq(Frame)]
    /\ down \in [Side -> BOOLEAN]
    /\ open \in [Side -> BOOLEAN]
    /\ done \in [Side -> BOOLEAN]
    /\ tx \in [Side -> TxState]
    /\ rx \in [Side -> RxState]
    /\ seen \in [Side -> Seen]

TypeOK == transport \in {"tcp", "udp"} /\ StateOK

\* configureTransport on both ends, after OPEN was read.
Init ==
    /\ transport \in {"tcp", "udp"}
    /\ net = [x \in Side |-> << >>]
    /\ down = [x \in Side |-> FALSE]
    /\ open = [x \in Side |-> TRUE]
    /\ done = [x \in Side |-> FALSE]
    /\ tx = [x \in Side |-> [closed |-> FALSE, fin |-> FALSE, credit |-> Window, tok |-> FALSE,
                             pc |-> "idle", want |-> 0, n |-> 0, closing |-> FALSE]]
    /\ rx = [x \in Side |-> [closed |-> FALSE, queue |-> << >>, queued |-> 0, tok |-> FALSE,
                             pc |-> "ready", pending |-> 0, sending |-> FALSE, flush |-> 0]]
    /\ seen = [x \in Side |-> [sent |-> 0, acked |-> 0, got |-> 0, freed |-> 0, dropped |-> 0,
                               returned |-> 0, announced |-> 0, read |-> 0, lost |-> FALSE]]

MinOf(a, b) == IF a <= b THEN a ELSE b

\* WriteFrame.  On a closed connection it fails, and a closed peer reads nothing.
Write(x, f) ==
    net' = IF down[x] \/ down[Peer(x)] THEN net ELSE [net EXCEPT ![x] = Append(@, f)]

-----------------------------------------------------------------------------
(* Writing: WriteContext, WriteDatagramContext, takeSendCredit *)

\* Only TCP looks at txClosed first, and keeps txMu until it returns.
StartWrite(x, n) ==
    /\ tx[x].pc = "idle"
    /\ n > 0 /\ seen[x].sent + n <= Budget[x]
    /\ IF transport = "tcp" THEN ~tx[x].closed ELSE n <= MaxFrame
    /\ tx' = [tx EXCEPT ![x].pc = "credit", ![x].want = n]
    /\ UNCHANGED <<net, down, open, done, rx, seen>>

\* A datagram needs all of its credit, a TCP write takes what there is.
Wanted(x) == MinOf(tx[x].want, MaxFrame)
Enough(x) == tx[x].credit > 0 /\ (transport = "udp" => tx[x].credit >= tx[x].want)
Taken(x) == MinOf(Wanted(x), tx[x].credit)

TakeUnlimited(x) ==                    \* mutant: the credit that is there is not a limit
    /\ tx[x].pc = "credit"
    /\ tx' = [tx EXCEPT ![x].pc = "frame", ![x].n = Wanted(x), ![x].credit = @ - Taken(x)]
    /\ UNCHANGED <<net, down, open, done, rx, seen>>

TakeSendCredit(x) ==
    /\ tx[x].pc = "credit"
    /\ tx' = IF Enough(x)
             THEN [tx EXCEPT ![x].pc = "frame", ![x].n = Taken(x), ![x].credit = @ - Taken(x)]
             ELSE [tx EXCEPT ![x].pc = "wait"]
    /\ UNCHANGED <<net, down, open, done, rx, seen>>

\* The select of takeSendCredit.  No caller passes a context that can be canceled.
WaitCredit(x) ==
    /\ tx[x].pc = "wait"
    /\ \/ /\ tx[x].tok
          /\ tx' = [tx EXCEPT ![x].pc = "credit", ![x].tok = FALSE]
       \/ /\ done[x]
          /\ tx' = [tx EXCEPT ![x].pc = "idle", ![x].want = 0]
    /\ UNCHANGED <<net, down, open, done, rx, seen>>

\* WriteFrame, then the head of WriteContext's loop, which looks at txClosed again.
WriteData(x) ==
    LET n == tx[x].n  at == seen[x].sent IN
    /\ tx[x].pc = "frame"
    /\ Write(x, Data(at, at + n))
    /\ seen' = [seen EXCEPT ![x].sent = @ + n]
    /\ tx' = IF tx[x].want > n /\ ~tx[x].closed /\ ~down[x]
             THEN [tx EXCEPT ![x].n = 0, ![x].want = @ - n, ![x].pc = "credit"]
             ELSE [tx EXCEPT ![x].n = 0, ![x].want = 0, ![x].pc = "idle"]
    /\ UNCHANGED <<down, open, done, rx>>

-----------------------------------------------------------------------------
(* Closing *)

\* closeRead under rxMu.
ClosedRead(r, discard) ==
    [r EXCEPT !.closed = TRUE, !.tok = TRUE,
              !.queue = IF discard THEN << >> ELSE @, !.queued = IF discard THEN 0 ELSE @]

\* What closeRead(true) forgets.
Discarded(x) == seen' = [seen EXCEPT ![x].freed = seen[x].got, ![x].lost = TRUE]

\* closeLocal followed by sendClose, which needs txMu: Close, and abort.
CloseLocal(x) ==
    /\ open' = [open EXCEPT ![x] = FALSE]
    /\ done' = [done EXCEPT ![x] = TRUE]
    /\ tx' = [tx EXCEPT ![x].closed = TRUE, ![x].closing = TRUE]
    /\ rx' = [rx EXCEPT ![x] = ClosedRead(@, TRUE)]
    /\ Discarded(x)

\* abort does nothing on a stream that is closed.
Abort(x) == IF done[x] THEN UNCHANGED <<open, done, tx, rx, seen>> ELSE CloseLocal(x)

\* Stream.Close: after the peer's CLOSE it only drops what is left.
CloseStream(x) ==
    /\ IF ~done[x] THEN CloseLocal(x)
       ELSE /\ open' = [open EXCEPT ![x] = FALSE]
            /\ rx' = [rx EXCEPT ![x] = ClosedRead(@, TRUE)]
            /\ Discarded(x)
            /\ UNCHANGED <<done, tx>>
    /\ UNCHANGED <<net, down>>

SendClose(x) ==
    /\ tx[x].closing
    /\ transport = "tcp" => tx[x].pc = "idle"
    /\ tx' = [tx EXCEPT ![x].closing = FALSE]
    /\ Write(x, Close)
    /\ UNCHANGED <<down, open, done, rx, seen>>

CloseWrite(x) ==
    /\ transport = "tcp"
    /\ tx[x].pc = "idle"
    /\ ~done[x] /\ ~tx[x].fin
    /\ tx' = [tx EXCEPT ![x].closed = TRUE, ![x].fin = TRUE]
    /\ Write(x, Fin)
    /\ UNCHANGED <<down, open, done, rx, seen>>

\* The connection breaks or is closed at x: closeStreams, closeTunnel.
ConnDown(x) ==
    /\ ~down[x]
    /\ down' = [down EXCEPT ![x] = TRUE]
    /\ net' = [net EXCEPT ![Peer(x)] = << >>]
    /\ IF open[x]
       THEN /\ open' = [open EXCEPT ![x] = FALSE]
            /\ done' = [done EXCEPT ![x] = TRUE]
            /\ tx' = [tx EXCEPT ![x].closed = TRUE]
            /\ rx' = [rx EXCEPT ![x] = ClosedRead(@, TRUE)]
            /\ Discarded(x)
       ELSE UNCHANGED <<open, done, tx, rx, seen>>

-----------------------------------------------------------------------------
(* Returning credit: returnCredit, flushWindowUpdates *)

Returns(x, n) == ~done[x] /\ n > 0

Returned(x, r, n) ==
    IF Returns(x, n) THEN [r EXCEPT !.pending = @ + n, !.sending = TRUE] ELSE r

TakePendingKept(x) ==                  \* mutant: windowPending is not reset
    /\ rx[x].sending /\ rx[x].flush = 0 /\ rx[x].pending > 0
    /\ rx' = [rx EXCEPT ![x].flush = rx[x].pending]
    /\ UNCHANGED <<net, down, open, done, tx, seen>>

TakePending(x) ==
    /\ rx[x].sending /\ rx[x].flush = 0
    /\ rx' = IF rx[x].pending = 0
             THEN [rx EXCEPT ![x].sending = FALSE]
             ELSE [rx EXCEPT ![x].flush = rx[x].pending, ![x].pending = 0]
    /\ UNCHANGED <<net, down, open, done, tx, seen>>

\* When the write fails the goroutine ends and windowSending stays set.
WriteCredit(x) ==
    LET n == rx[x].flush  at == seen[x].announced IN
    /\ n > 0 /\ ~down[x]
    /\ Write(x, Credit(at, at + n))
    /\ rx' = [rx EXCEPT ![x].flush = 0]
    /\ seen' = [seen EXCEPT ![x].announced = @ + n]
    /\ UNCHANGED <<down, open, done, tx>>

-----------------------------------------------------------------------------
(* The read loop: Run *)

Incoming(x, type) == net[Peer(x)] # << >> /\ Head(net[Peer(x)]).type \in type
Consume(x) == net' = [net EXCEPT ![Peer(x)] = Tail(@)] /\ UNCHANGED down

ReceiveLate(x) ==
    /\ ~down[x] /\ ~open[x]
    /\ Incoming(x, {"data", "window", "fin", "close"})
    /\ Consume(x)
    /\ UNCHANGED <<open, done, tx, rx, seen>>

\* The stream's own limits.
Fits(x, n) == ~rx[x].closed /\ n <= Window - rx[x].queued /\ Len(rx[x].queue) < FrameLimit

Queue(x, n) ==
    /\ rx' = [rx EXCEPT ![x].queued = @ + n, ![x].tok = TRUE,
                        ![x].queue = Append(@, Data(seen[x].got, seen[x].got + n))]
    /\ seen' = [seen EXCEPT ![x].got = @ + n]
    /\ UNCHANGED <<open, done, tx>>

DropKeepsCredit(x, n) ==               \* mutant: a dropped datagram returns no credit
    /\ seen' = [seen EXCEPT ![x].dropped = @ + n, ![x].lost = TRUE]
    /\ UNCHANGED <<open, done, tx, rx>>

Drop(x, n) ==
    /\ rx' = [rx EXCEPT ![x] = Returned(x, @, n)]
    /\ seen' = [seen EXCEPT ![x].dropped = @ + n, ![x].lost = TRUE,
                            ![x].returned = IF Returns(x, n) THEN @ + n ELSE @]
    /\ UNCHANGED <<open, done, tx>>

\* queuePayload may also refuse because the other streams of the tunnel use up the
\* shared budget.
ReceiveData(x) ==
    LET n == Size(Head(net[Peer(x)])) IN
    /\ ~down[x] /\ open[x]
    /\ Incoming(x, {"data"})
    /\ Consume(x)
    /\ \/ Fits(x, n) /\ Queue(x, n)
       \/ IF transport = "tcp" THEN Abort(x) ELSE Drop(x, n)

ReceiveFin(x) ==
    /\ ~down[x] /\ open[x]
    /\ Incoming(x, {"fin"})
    /\ Consume(x)
    /\ rx' = [rx EXCEPT ![x] = ClosedRead(@, FALSE)]
    /\ UNCHANGED <<open, done, tx, seen>>

ReceiveCloseDiscards(x) ==             \* mutant: the peer's CLOSE drops the queue
    /\ ~down[x] /\ open[x]
    /\ Incoming(x, {"close"})
    /\ Consume(x)
    /\ IF done[x] THEN UNCHANGED <<done, tx, rx>>
       ELSE /\ done' = [done EXCEPT ![x] = TRUE]
            /\ tx' = [tx EXCEPT ![x].closed = TRUE]
            /\ rx' = [rx EXCEPT ![x] = ClosedRead(@, TRUE)]
    /\ UNCHANGED <<open, seen>>

\* closeRX: the stream stays in the map until the application closes it.
ReceiveClose(x) ==
    /\ ~down[x] /\ open[x]
    /\ Incoming(x, {"close"})
    /\ Consume(x)
    /\ IF done[x] THEN UNCHANGED <<done, tx, rx>>
       ELSE /\ done' = [done EXCEPT ![x] = TRUE]
            /\ tx' = [tx EXCEPT ![x].closed = TRUE]
            /\ rx' = [rx EXCEPT ![x] = ClosedRead(@, FALSE)]
    /\ UNCHANGED <<open, seen>>

ReceiveCredit(x) ==
    LET n == Size(Head(net[Peer(x)])) IN
    /\ ~down[x] /\ open[x]
    /\ Incoming(x, {"window"})
    /\ Consume(x)
    /\ IF n = 0 \/ (~tx[x].closed /\ n > Window - tx[x].credit) THEN Abort(x)
       ELSE IF tx[x].closed THEN UNCHANGED <<open, done, tx, rx, seen>>
       ELSE /\ tx' = [tx EXCEPT ![x].credit = @ + n, ![x].tok = TRUE]
            /\ seen' = [seen EXCEPT ![x].acked = @ + n]
            /\ UNCHANGED <<open, done, rx>>

-----------------------------------------------------------------------------
(* Reading: Read, ReadDatagram.  A read takes a whole frame; one that takes part  *)
(* of it changes no account.                                                      *)

Dequeued(r) == [r EXCEPT !.queue = Tail(@), !.queued = @ - Size(Head(r.queue))]

Read(x) ==
    LET n == Size(Head(rx[x].queue)) IN
    /\ rx[x].pc = "ready" /\ rx[x].queue # << >>
    /\ rx' = [rx EXCEPT ![x] = Returned(x, Dequeued(@), n)]
    /\ seen' = [seen EXCEPT ![x].freed = @ + n, ![x].read = @ + n,
                            ![x].returned = IF Returns(x, n) THEN @ + n ELSE @]
    /\ UNCHANGED <<net, down, open, done, tx>>

ReadNothing(x) ==
    /\ rx[x].pc = "ready" /\ rx[x].queue = << >>
    /\ rx' = [rx EXCEPT ![x].pc = IF rx[x].closed THEN "eof" ELSE "wait"]
    /\ UNCHANGED <<net, down, open, done, tx, seen>>

WaitRead(x) ==
    /\ rx[x].pc = "wait" /\ rx[x].tok
    /\ rx' = [rx EXCEPT ![x].pc = "ready", ![x].tok = FALSE]
    /\ UNCHANGED <<net, down, open, done, tx, seen>>

-----------------------------------------------------------------------------
(* Specification *)

Goroutines(x) ==
    \/ TakeSendCredit(x) \/ WaitCredit(x) \/ WriteData(x)
    \/ SendClose(x)
    \/ TakePending(x) \/ WriteCredit(x)
    \/ ReceiveLate(x) \/ ReceiveData(x) \/ ReceiveFin(x) \/ ReceiveClose(x) \/ ReceiveCredit(x)
    \/ Read(x) \/ ReadNothing(x) \/ WaitRead(x)

Next ==
    /\ \E x \in Side :
       \/ \E n \in 1..Budget[x] : StartWrite(x, n)
       \/ Goroutines(x)
       \/ CloseWrite(x) \/ CloseStream(x) \/ ConnDown(x)
    /\ UNCHANGED transport

Spec == Init /\ [][Next]_vars

-----------------------------------------------------------------------------
(* Properties *)

\* Payload always fits the byte limit of the queue it arrives at: a sender that
\* follows takeSendCredit never makes queuePayload abort the stream on bytes.
ReceiverNeverOverrun == \A x \in Side :
    open[x] /\ Incoming(x, {"data"})
        => Size(Head(net[Peer(x)])) <= Window - rx[x].queued

\* addSendCredit accepts every update that returnCredit produces, so between two
\* ends that run this code no stream is aborted as inflationary.
CreditNeverInflated == \A x \in Side :
    open[x] /\ Incoming(x, {"window"})
        => Size(Head(net[Peer(x)])) \in 1..(Window - tx[x].credit)

\* Bytes in the frames of one type that x has under way.
Travelling(x, type) ==
    MapThenSumSet(LAMBDA i : Size(net[x][i]),
                  {i \in DOMAIN net[x] : net[x][i].type = type})

\* No credit leaks: while the stream is usable the window is the credit at the
\* sender, what it took, what travels or waits in the queue, and what travels or
\* waits on its way back.
CreditConserved == \A x \in Side : LET y == Peer(x) IN
    open[x] /\ open[y] /\ ~tx[x].closed /\ ~done[y]
        => tx[x].credit + tx[x].n + Travelling(x, "data") + rx[y].queued
           + rx[y].pending + rx[y].flush + Travelling(y, "window") = Window

\* A TCP end that did not throw data away reads EOF only after every byte the peer
\* sent before its CLOSE_WRITE or CLOSE.
OrderlyEof == \A x \in Side :
    transport = "tcp" /\ rx[x].pc = "eof" /\ ~seen[x].lost
        => seen[x].read = seen[Peer(x)].sent

=============================================================================
