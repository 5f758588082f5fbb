--------------------------- MODULE TunnelFlowProofs ---------------------------
(***************************************************************************)
(* Proofs about TunnelFlow, for every window, frame size and amount of     *)
(* payload: the receiver is never overrun, credit is never inflated, and a *)
(* reader that is told of the end has been given all that came before it.  *)
(***************************************************************************)
EXTENDS TunnelFlow, TLAPS

-----------------------------------------------------------------------------
(* Positions in a sequence of frames *)

\* The frames of one type lie between two positions, in order.
Between(s, type, lo, hi) ==
    /\ \A i \in DOMAIN s : s[i].type = type =>
          lo <= s[i].from /\ s[i].from < s[i].to /\ s[i].to <= hi
    /\ \A i, j \in DOMAIN s :
          i < j /\ s[i].type = type /\ s[j].type = type => s[i].to <= s[j].from

\* A frame with a position is one of the two types that have one.
LEMMA FramePosition ==
    ASSUME NEW f \in Frame, f.type \in {"data", "window"}
    PROVE  f.from \in Nat /\ f.to \in Nat
BY Zenon DEF Frame

\* Tail shifts a sequence by one.
LEMMA TailShifts ==
    ASSUME NEW S, NEW s \in Seq(S), s # << >>
    PROVE  /\ 1 \in DOMAIN s /\ Head(s) = s[1] /\ Head(s) \in S
           /\ Tail(s) \in Seq(S)
           /\ \A i \in DOMAIN Tail(s) : i \in Nat /\ i >= 1 /\ i + 1 \in DOMAIN s
                                        /\ Tail(s)[i] = s[i + 1]
OBVIOUS

\* Append keeps the elements and adds one at the end.
LEMMA AppendAdds ==
    ASSUME NEW S, NEW s \in Seq(S), NEW e \in S
    PROVE  /\ Append(s, e) \in Seq(S)
           /\ \A i \in DOMAIN s : i \in Nat /\ i <= Len(s)
           /\ \A i \in DOMAIN Append(s, e) :
                 \/ i \in DOMAIN s /\ Append(s, e)[i] = s[i]
                 \/ i = Len(s) + 1 /\ Append(s, e)[i] = e
OBVIOUS

\* An empty sequence lies anywhere.
LEMMA BetweenEmpty ==
    ASSUME NEW type, NEW lo, NEW hi
    PROVE  Between(<< >>, type, lo, hi)
BY DEF Between

\* The upper position may grow.
LEMMA BetweenWider ==
    ASSUME NEW s \in Seq(Frame), NEW type \in {"data", "window"}, NEW lo \in Nat,
           NEW hi \in Nat, NEW top \in Nat, hi <= top, Between(s, type, lo, hi)
    PROVE  Between(s, type, lo, top)
<1>1. \A i \in DOMAIN s : s[i] \in Frame
  OBVIOUS
<1> QED BY <1>1, FramePosition DEF Between

\* A frame of another type does not matter.
LEMMA BetweenAppendOther ==
    ASSUME NEW s \in Seq(Frame), NEW e \in Frame, NEW type, NEW lo, NEW hi,
           e.type # type, Between(s, type, lo, hi)
    PROVE  Between(Append(s, e), type, lo, hi)
BY Zenon, AppendAdds DEF Between

\* A frame that starts at the upper position moves it to its end.
LEMMA BetweenAppend ==
    ASSUME NEW s \in Seq(Frame), NEW type \in {"data", "window"}, NEW lo \in Nat,
           NEW hi \in Nat, NEW e \in Frame, lo <= hi,
           e.type = type, e.from = hi, e.from < e.to, Between(s, type, lo, hi)
    PROVE  Between(Append(s, e), type, lo, e.to)
<1> DEFINE t == Append(s, e)
<1>1. \A i \in DOMAIN s : s[i] \in Frame
  OBVIOUS
<1>2. /\ \A i \in DOMAIN s : i \in Nat /\ i <= Len(s)
      /\ \A i \in DOMAIN t : \/ i \in DOMAIN s /\ t[i] = s[i]
                             \/ i = Len(s) + 1 /\ t[i] = e
  BY Zenon, AppendAdds
<1>3. Len(s) \in Nat /\ e.from \in Nat /\ e.to \in Nat
  BY FramePosition
<1>4. \A i \in DOMAIN s : s[i].type = type =>
         s[i].from \in Nat /\ s[i].to \in Nat
  BY Zenon, <1>1, FramePosition
<1> HIDE DEF t
<1>5. \A i \in DOMAIN t : t[i].type = type =>
         lo <= t[i].from /\ t[i].from < t[i].to /\ t[i].to <= e.to
  BY <1>2, <1>3, <1>4 DEF Between
<1>6. ASSUME NEW i \in DOMAIN t, NEW j \in DOMAIN t, i < j, t[i].type = type, t[j].type = type
      PROVE  t[i].to <= t[j].from
  <2>1. i \in DOMAIN s /\ t[i] = s[i]
    BY <1>2, <1>3, <1>6
  <2>2. CASE j \in DOMAIN s /\ t[j] = s[j]
    BY Zenon, <2>1, <2>2, <1>6 DEF Between
  <2>3. CASE j = Len(s) + 1 /\ t[j] = e
    BY Zenon, <2>1, <2>3, <1>6 DEF Between
  <2> QED BY Zenon, <2>2, <2>3, <1>2
<1> QED BY Zenon, <1>5, <1>6 DEF Between, t

\* Without its first frame a sequence lies where it lay, and after that frame when
\* it is of the type.
LEMMA BetweenTail ==
    ASSUME NEW s \in Seq(Frame), NEW type \in {"data", "window"}, NEW lo \in Nat,
           NEW hi \in Nat, s # << >>, Between(s, type, lo, hi)
    PROVE  /\ Between(Tail(s), type, lo, hi)
           /\ Head(s).type = type =>
                /\ Head(s).from \in Nat /\ Head(s).to \in Nat
                /\ lo <= Head(s).from /\ Head(s).from < Head(s).to /\ Head(s).to <= hi
                /\ Between(Tail(s), type, lo + Size(Head(s)), hi)
<1> DEFINE t == Tail(s)
<1>1. /\ 1 \in DOMAIN s /\ Head(s) = s[1] /\ Head(s) \in Frame
      /\ \A i \in DOMAIN t : i \in Nat /\ i >= 1 /\ i + 1 \in DOMAIN s /\ t[i] = s[i + 1]
  BY Zenon, TailShifts
<1>2. \A i \in DOMAIN s : s[i].type = type => s[i].from \in Nat /\ s[i].to \in Nat
  <2>1. \A i \in DOMAIN s : s[i] \in Frame
    OBVIOUS
  <2> QED BY Zenon, <2>1, FramePosition
<1> HIDE DEF t
<1>3. \A i, j \in DOMAIN t : i < j => i + 1 < j + 1
  BY <1>1
<1>4. \A i \in DOMAIN t : 1 < i + 1
  BY <1>1
<1>5. Between(t, type, lo, hi)
  BY <1>1, <1>3 DEF Between
<1>6. ASSUME Head(s).type = type
      PROVE  /\ Head(s).from \in Nat /\ Head(s).to \in Nat
             /\ lo <= Head(s).from /\ Head(s).from < Head(s).to /\ Head(s).to <= hi
  BY Zenon, <1>1, <1>2, <1>6 DEF Between
<1>7. ASSUME Head(s).type = type
      PROVE  Between(t, type, lo + Size(Head(s)), hi)
  <2>1. lo + Size(Head(s)) <= Head(s).to /\ lo + Size(Head(s)) \in Nat
    BY <1>6, <1>7 DEF Size
  <2>2. ASSUME NEW i \in DOMAIN t, t[i].type = type
        PROVE  lo + Size(Head(s)) <= t[i].from
    <3>1. Head(s).to <= t[i].from
      BY ZenonT(30), <1>1, <1>4, <1>7, <2>2 DEF Between
    <3>2. t[i].from \in Nat
      BY Zenon, <1>1, <1>2, <2>2
    <3> QED BY <3>1, <3>2, <2>1, <1>6, <1>7
  <2> QED BY Zenon, <2>2, <1>5 DEF Between
<1> QED BY Zenon, <1>5, <1>6, <1>7 DEF t

-----------------------------------------------------------------------------
(* The inductive invariant *)

\* What the sender has under way and its credit are the window.
SenderOK(x) ==
    /\ tx[x].credit + tx[x].n + seen[x].sent = Window + seen[x].acked
    /\ IF tx[x].pc = "frame" THEN tx[x].n > 0 ELSE tx[x].n = 0
    /\ tx[x].pc \in {"credit", "wait"} => tx[x].want > 0

\* Credit passes from one account to the next: x sends, y receives.
ChainOK(x, y) ==
    /\ seen[x].acked <= seen[y].announced
    /\ seen[y].announced + rx[y].flush + rx[y].pending <= seen[y].returned
    /\ seen[y].returned <= seen[y].freed + seen[y].dropped
    /\ seen[y].freed <= seen[y].got
    /\ seen[y].got + seen[y].dropped <= seen[x].sent
    /\ rx[y].queued = seen[y].got - seen[y].freed

\* Payload under way lies after what y took in, updates under way after what x was
\* given, the queue of y between what it freed and what it took in.
Link(x, y) ==
    /\ SenderOK(x)
    /\ ChainOK(x, y)
    /\ Between(net[x], "data", seen[y].got + seen[y].dropped, seen[x].sent)
    /\ Between(net[y], "window", seen[x].acked, seen[y].announced)
    /\ Between(rx[y].queue, "data", seen[y].freed, seen[y].got)

FlowInv == StateOK /\ \A x \in Side : Link(x, Peer(x))

\* Both directions, seen from the end x that takes a step.
Ends(x, y) == /\ x \in Side /\ y \in Side /\ x # y
              /\ Peer(x) = y /\ Peer(y) = x
              /\ \A z \in Side : z = x \/ z = y

\* There are two ends, each the peer of the other.
LEMMA TwoEnds == \A x \in Side : Ends(x, Peer(x))
BY Zenon DEF Side, Peer, Ends

\* The queue holds frames.
LEMMA QueueFrames == StateOK => \A x \in Side : rx[x].queue \in Seq(Frame)
<1> SUFFICES ASSUME StateOK, NEW x \in Side PROVE rx[x].queue \in Seq(Frame)
  BY Zenon
<1>1. Segment \subseteq Frame
  BY Zenon DEF Segment, Frame
<1>2. rx[x].queue \in Seq(Segment)
  BY Zenon DEF StateOK, RxState
<1> QED BY <1>1, <1>2

\* WriteFrame appends or does nothing.
LEMMA WriteAppends ==
    ASSUME StateOK, NEW x, NEW y, Ends(x, y), NEW f \in Frame, Write(x, f)
    PROVE  /\ net' \in [Side -> Seq(Frame)]
           /\ net'[y] = net[y]
           /\ net'[x] = net[x] \/ net'[x] = Append(net[x], f)
<1>1. net \in [Side -> Seq(Frame)]
  BY Zenon DEF StateOK
<1>2. CASE net' = net
  BY Zenon, <1>1, <1>2
<1>3. CASE net' = [net EXCEPT ![x] = Append(@, f)]
  BY <1>1, <1>3 DEF Ends
<1> QED BY Zenon, <1>2, <1>3 DEF Write

\* A read loop takes the first frame of its peer.
LEMMA ConsumeTail ==
    ASSUME StateOK, NEW x, NEW y, Ends(x, y), NEW T, Incoming(x, T), Consume(x)
    PROVE  /\ net[y] \in Seq(Frame) /\ net[y] # << >>
           /\ net' \in [Side -> Seq(Frame)]
           /\ net'[x] = net[x] /\ net'[y] = Tail(net[y])
           /\ Head(net[y]).type \in T
           /\ down' = down
<1>1. net \in [Side -> Seq(Frame)]
  BY Zenon DEF StateOK
<1>2. net[y] \in Seq(Frame) /\ net[y] # << >> /\ Head(net[y]).type \in T
  BY Zenon, <1>1 DEF Ends, Incoming
<1>3. Tail(net[y]) \in Seq(Frame)
  BY Zenon, <1>2, TailShifts
<1> QED BY Zenon, <1>1, <1>2, <1>3 DEF Ends, Consume

\* The initial state: no payload, no credit under way, a full window.
LEMMA FlowInit == Init => FlowInv
<1> SUFFICES ASSUME Init PROVE FlowInv
  BY Zenon
<1>1. StateOK
  BY FlowAssumption DEF Init, StateOK, TxState, RxState, Seen
<1>2. ASSUME NEW x \in Side PROVE Link(x, Peer(x))
  <2>1. Peer(x) \in Side
    BY Zenon, TwoEnds DEF Ends
  <2>2. SenderOK(x) /\ ChainOK(x, Peer(x))
    BY <2>1, FlowAssumption DEF Init, SenderOK, ChainOK
  <2>3. net[x] = << >> /\ net[Peer(x)] = << >> /\ rx[Peer(x)].queue = << >>
    BY Zenon, <2>1 DEF Init
  <2> QED BY Zenon, <2>2, <2>3, BetweenEmpty DEF Link
<1> QED BY Zenon, <1>1, <1>2 DEF FlowInv

-----------------------------------------------------------------------------
(* Steps that change only the sending half *)

\* Where only the sender of x moves, its account decides.
LEMMA SenderMoves ==
    ASSUME FlowInv, NEW x, NEW y, Ends(x, y),
           tx' \in [Side -> TxState], tx'[y] = tx[y], SenderOK(x)',
           UNCHANGED <<net, down, open, done, rx, seen>>
    PROVE  StateOK' /\ Link(x, y)' /\ Link(y, x)'
<1>1. StateOK'
  BY Zenon DEF FlowInv, StateOK
<1>2. Link(x, y) /\ Link(y, x)
  BY Zenon DEF FlowInv, Ends
<1>3. SenderOK(y)' /\ ChainOK(x, y)' /\ ChainOK(y, x)'
  BY Zenon, <1>2 DEF Link, SenderOK, ChainOK
<1> QED BY Zenon, <1>1, <1>2, <1>3 DEF Link

\* A write begins.
LEMMA StartWriteKeeps ==
    ASSUME FlowInv, NEW x, NEW y, Ends(x, y), NEW n \in Nat, StartWrite(x, n)
    PROVE  StateOK' /\ Link(x, y)' /\ Link(y, x)'
<1>1. tx \in [Side -> TxState] /\ x \in Side /\ y \in Side /\ x # y /\ SenderOK(x)
  BY Zenon DEF FlowInv, StateOK, Ends, Link
<1>2. tx' \in [Side -> TxState] /\ tx'[y] = tx[y]
  <2>1. tx' = [tx EXCEPT ![x] = [tx[x] EXCEPT !.pc = "credit", !.want = n]]
    BY Zenon, <1>1 DEF StartWrite
  <2>2. [tx[x] EXCEPT !.pc = "credit", !.want = n] \in TxState
    BY Zenon, <1>1 DEF TxState
  <2> QED BY Zenon, <1>1, <2>1, <2>2
<1>3. SenderOK(x)'
  BY Zenon, <1>1 DEF StartWrite, SenderOK, TxState
<1> QED BY Zenon, <1>2, <1>3, SenderMoves DEF StartWrite

\* takeSendCredit moves credit to the frame it is taken for.
LEMMA TakeSendCreditKeeps ==
    ASSUME FlowInv, NEW x, NEW y, Ends(x, y), TakeSendCredit(x)
    PROVE  StateOK' /\ Link(x, y)' /\ Link(y, x)'
<1>1. tx \in [Side -> TxState] /\ x \in Side /\ y \in Side /\ x # y /\ SenderOK(x)
  BY Zenon DEF FlowInv, StateOK, Ends, Link
<1>2. tx[x].credit \in Nat /\ tx[x].want \in Nat /\ tx[x].want > 0 /\ tx[x].n = 0
  BY Zenon, <1>1 DEF TxState, SenderOK, TakeSendCredit
<1>3. seen[x].sent \in Nat /\ seen[x].acked \in Nat
  BY Zenon, <1>1 DEF FlowInv, StateOK, Seen
<1>4. CASE Enough(x)
  <2>1. Taken(x) \in Nat /\ Taken(x) > 0 /\ Taken(x) <= tx[x].credit
    BY <1>2, <1>4, FlowAssumption DEF Taken, Wanted, Enough, MinOf
  <2> HIDE DEF Taken
  <2>2. tx' = [tx EXCEPT ![x].pc = "frame", ![x].n = Taken(x), ![x].credit = @ - Taken(x)]
    BY Zenon, <1>4 DEF TakeSendCredit
  <2>3. tx' \in [Side -> TxState] /\ tx'[y] = tx[y]
    BY <1>1, <1>2, <2>1, <2>2 DEF TxState
  <2>4. SenderOK(x)'
    BY <1>1, <1>2, <1>3, <2>1, <2>2, FlowAssumption DEF SenderOK, TxState, TakeSendCredit
  <2> QED BY Zenon, <2>3, <2>4, SenderMoves DEF TakeSendCredit
<1>5. CASE ~Enough(x)
  <2>1. tx' = [tx EXCEPT ![x].pc = "wait"]
    BY Zenon, <1>5 DEF TakeSendCredit
  <2>2. tx' \in [Side -> TxState] /\ tx'[y] = tx[y]
    BY ZenonT(30), <1>1, <2>1 DEF TxState
  <2>3. SenderOK(x)'
    BY Zenon, <1>1, <1>2, <2>1 DEF SenderOK, TxState, TakeSendCredit
  <2> QED BY Zenon, <2>2, <2>3, SenderMoves DEF TakeSendCredit
<1> QED BY Zenon, <1>4, <1>5

\* The writer is woken.
LEMMA WaitCreditKeeps ==
    ASSUME FlowInv, NEW x, NEW y, Ends(x, y), WaitCredit(x)
    PROVE  StateOK' /\ Link(x, y)' /\ Link(y, x)'
<1>1. tx \in [Side -> TxState] /\ x \in Side /\ y \in Side /\ x # y /\ SenderOK(x)
  BY Zenon DEF FlowInv, StateOK, Ends, Link
<1>2. tx' \in [Side -> TxState] /\ tx'[y] = tx[y]
  BY <1>1 DEF WaitCredit, TxState
<1>3. SenderOK(x)'
  BY <1>1 DEF WaitCredit, SenderOK, TxState
<1> QED BY Zenon, <1>2, <1>3, SenderMoves DEF WaitCredit

\* Frames without a position, CLOSE_WRITE and CLOSE, change no account.
LEMMA ControlFrames ==
    ASSUME FlowInv, NEW x, NEW y, Ends(x, y), NEW f \in {Fin, Close}, Write(x, f),
           tx' \in [Side -> TxState], tx'[y] = tx[y], SenderOK(x)',
           UNCHANGED <<down, open, done, rx, seen>>
    PROVE  StateOK' /\ Link(x, y)' /\ Link(y, x)'
<1>1. StateOK /\ Link(x, y) /\ Link(y, x)
  BY Zenon DEF FlowInv, Ends
<1>2. f \in Frame /\ f.type # "data" /\ f.type # "window"
  BY DEF Frame, Fin, Close
<1>3. /\ net' \in [Side -> Seq(Frame)] /\ net'[y] = net[y]
      /\ net'[x] = net[x] \/ net'[x] = Append(net[x], f)
  BY Zenon, <1>1, <1>2, WriteAppends
<1>4. StateOK'
  BY Zenon, <1>1, <1>3 DEF StateOK
<1>5. SenderOK(y)' /\ ChainOK(x, y)' /\ ChainOK(y, x)'
  BY Zenon, <1>1 DEF Link, SenderOK, ChainOK
<1>6. net[x] \in Seq(Frame)
  BY Zenon, <1>1 DEF StateOK, Ends
<1>7. /\ Between(net'[x], "data", seen[y].got + seen[y].dropped, seen[x].sent)
      /\ Between(net'[x], "window", seen[y].acked, seen[x].announced)
  BY Zenon, <1>1, <1>2, <1>3, <1>6, BetweenAppendOther DEF Link
<1> QED BY Zenon, <1>1, <1>3, <1>4, <1>5, <1>7 DEF Link

\* sendClose.
LEMMA SendCloseKeeps ==
    ASSUME FlowInv, NEW x, NEW y, Ends(x, y), SendClose(x)
    PROVE  StateOK' /\ Link(x, y)' /\ Link(y, x)'
<1>1. tx \in [Side -> TxState] /\ x \in Side /\ y \in Side /\ x # y /\ SenderOK(x)
  BY Zenon DEF FlowInv, StateOK, Ends, Link
<1>2. tx' \in [Side -> TxState] /\ tx'[y] = tx[y]
  BY ZenonT(30), <1>1 DEF SendClose, TxState
<1>3. SenderOK(x)'
  BY Zenon, <1>1 DEF SendClose, SenderOK, TxState
<1> QED BY Zenon, <1>2, <1>3, ControlFrames DEF SendClose

\* CloseWrite.
LEMMA CloseWriteKeeps ==
    ASSUME FlowInv, NEW x, NEW y, Ends(x, y), CloseWrite(x)
    PROVE  StateOK' /\ Link(x, y)' /\ Link(y, x)'
<1>1. tx \in [Side -> TxState] /\ x \in Side /\ y \in Side /\ x # y /\ SenderOK(x)
  BY Zenon DEF FlowInv, StateOK, Ends, Link
<1>2. tx' \in [Side -> TxState] /\ tx'[y] = tx[y]
  BY <1>1 DEF CloseWrite, TxState
<1>3. SenderOK(x)'
  BY Zenon, <1>1 DEF CloseWrite, SenderOK, TxState
<1> QED BY Zenon, <1>2, <1>3, ControlFrames DEF CloseWrite

-----------------------------------------------------------------------------
(* Steps that close a half or drop frames *)

\* The writer of x and its credit stay as they are.
SameSender(x, y) ==
    /\ tx' \in [Side -> TxState] /\ tx'[y] = tx[y]
    /\ tx'[x].credit = tx[x].credit /\ tx'[x].n = tx[x].n
    /\ tx'[x].pc = tx[x].pc /\ tx'[x].want = tx[x].want

\* The receiving half of x stays, is closed, or is closed and emptied.
ReadCloses(x) ==
    \/ UNCHANGED <<rx, seen>>
    \/ rx' = [rx EXCEPT ![x] = ClosedRead(@, FALSE)] /\ seen' = seen
    \/ rx' = [rx EXCEPT ![x] = ClosedRead(@, TRUE)] /\ Discarded(x)

\* What x has still to read stays, loses its first frame, or is lost.
NetShrinks(x, y) ==
    /\ net' \in [Side -> Seq(Frame)] /\ net'[x] = net[x]
    /\ \/ net'[y] = net[y]
       \/ net'[y] = << >>
       \/ net[y] # << >> /\ net'[y] = Tail(net[y])

\* closeRead as a function of the receiving half.
LEMMA ClosedReadType ==
    ASSUME NEW r \in RxState, NEW d \in BOOLEAN
    PROVE  /\ ClosedRead(r, d) \in RxState
           /\ ClosedRead(r, d).flush = r.flush /\ ClosedRead(r, d).pending = r.pending
           /\ ClosedRead(r, d).queue = IF d THEN << >> ELSE r.queue
           /\ ClosedRead(r, d).queued = IF d THEN 0 ELSE r.queued
<1>1. << >> \in Seq(Segment)
  OBVIOUS
<1>2. CASE d = TRUE
  <2>1. ClosedRead(r, d) = [r EXCEPT !.closed = TRUE, !.tok = TRUE, !.queue = << >>, !.queued = 0]
    BY Zenon, <1>2 DEF ClosedRead
  <2>2. ASSUME NEW b \in BOOLEAN, NEW e \in Seq(Segment), NEW q \in Int
        PROVE  [r EXCEPT !.closed = b, !.tok = b, !.queue = e, !.queued = q] \in RxState
    BY Zenon DEF RxState
  <2>3. 0 \in Int /\ TRUE \in BOOLEAN
    OBVIOUS
  <2>4. ClosedRead(r, d) \in RxState
    BY Zenon, <1>1, <2>1, <2>2, <2>3, Zenon
  <2> QED BY Zenon, <1>2, <2>1, <2>4 DEF RxState
<1>3. CASE d = FALSE
  BY Zenon, <1>3 DEF ClosedRead, RxState
<1> QED BY Zenon, <1>2, <1>3

\* closeRead changes only the receiving half, and empties it in step with the account.
LEMMA ReadCloseAccounts ==
    ASSUME FlowInv, NEW x, NEW y, Ends(x, y), ReadCloses(x)
    PROVE  /\ rx' \in [Side -> RxState] /\ seen' \in [Side -> Seen]
           /\ rx'[y] = rx[y] /\ seen'[y] = seen[y]
           /\ seen'[x].sent = seen[x].sent /\ seen'[x].acked = seen[x].acked
           /\ seen'[x].got = seen[x].got /\ seen'[x].dropped = seen[x].dropped
           /\ seen'[x].announced = seen[x].announced
           /\ ChainOK(y, x)'
           /\ Between(rx'[x].queue, "data", seen'[x].freed, seen'[x].got)
<1>1. /\ rx \in [Side -> RxState] /\ seen \in [Side -> Seen]
      /\ x \in Side /\ y \in Side /\ x # y
      /\ ChainOK(y, x) /\ Between(rx[x].queue, "data", seen[x].freed, seen[x].got)
  BY Zenon DEF FlowInv, StateOK, Ends, Link
<1>2. CASE UNCHANGED <<rx, seen>>
  BY Zenon, <1>1, <1>2 DEF ChainOK
<1>3. CASE rx' = [rx EXCEPT ![x] = ClosedRead(@, FALSE)] /\ seen' = seen
  <2>0. LET r == ClosedRead(rx[x], FALSE) IN
          /\ r \in RxState /\ r.flush = rx[x].flush /\ r.pending = rx[x].pending
          /\ r.queue = rx[x].queue /\ r.queued = rx[x].queued
    BY Zenon, <1>1, ClosedReadType
  <2>1. /\ rx'[x].queue = rx[x].queue /\ rx'[x].queued = rx[x].queued
        /\ rx'[x].flush = rx[x].flush /\ rx'[x].pending = rx[x].pending
        /\ rx'[y] = rx[y]
    BY Zenon, <1>1, <1>3, <2>0
  <2>2. rx' \in [Side -> RxState]
    BY Zenon, <1>1, <1>3, <2>0
  <2> QED BY Zenon, <1>1, <1>3, <2>1, <2>2 DEF ChainOK
<1>4. CASE rx' = [rx EXCEPT ![x] = ClosedRead(@, TRUE)] /\ Discarded(x)
  <2>0. LET r == ClosedRead(rx[x], TRUE) IN
          /\ r \in RxState /\ r.flush = rx[x].flush /\ r.pending = rx[x].pending
          /\ r.queue = << >> /\ r.queued = 0
    BY Zenon, <1>1, ClosedReadType
  <2>1. /\ rx'[x].queue = << >> /\ rx'[x].queued = 0
        /\ rx'[x].flush = rx[x].flush /\ rx'[x].pending = rx[x].pending
        /\ rx'[y] = rx[y]
    BY Zenon, <1>1, <1>4, <2>0
  <2>2. rx' \in [Side -> RxState]
    BY Zenon, <1>1, <1>4, <2>0
  <2>3. /\ seen' \in [Side -> Seen] /\ seen'[y] = seen[y]
        /\ seen'[x].freed = seen[x].got
        /\ seen'[x].sent = seen[x].sent /\ seen'[x].acked = seen[x].acked
        /\ seen'[x].got = seen[x].got /\ seen'[x].dropped = seen[x].dropped
        /\ seen'[x].announced = seen[x].announced /\ seen'[x].returned = seen[x].returned
    BY Zenon, <1>1, <1>4 DEF Discarded, Seen
  <2>4. /\ seen[x].got \in Nat /\ seen[x].freed \in Nat /\ seen[x].dropped \in Nat
        /\ seen[x].returned \in Nat
    BY Zenon, <1>1 DEF Seen
  <2>5. ChainOK(y, x)'
    BY <1>1, <2>1, <2>3, <2>4 DEF ChainOK
  <2> QED BY Zenon, <2>1, <2>2, <2>3, <2>5, BetweenEmpty
<1> QED BY Zenon, <1>2, <1>3, <1>4 DEF ReadCloses

\* Such a step keeps both directions in order.
LEMMA CloseMoves ==
    ASSUME FlowInv, NEW x, NEW y, Ends(x, y),
           SameSender(x, y), ReadCloses(x), NetShrinks(x, y),
           down' \in [Side -> BOOLEAN], open' \in [Side -> BOOLEAN], done' \in [Side -> BOOLEAN]
    PROVE  StateOK' /\ Link(x, y)' /\ Link(y, x)'
<1>1. StateOK /\ Link(x, y) /\ Link(y, x)
  BY Zenon DEF FlowInv, Ends
<1>2. /\ rx' \in [Side -> RxState] /\ seen' \in [Side -> Seen]
      /\ rx'[y] = rx[y] /\ seen'[y] = seen[y]
      /\ seen'[x].sent = seen[x].sent /\ seen'[x].acked = seen[x].acked
      /\ seen'[x].got = seen[x].got /\ seen'[x].dropped = seen[x].dropped
      /\ seen'[x].announced = seen[x].announced
      /\ ChainOK(y, x)'
      /\ Between(rx'[x].queue, "data", seen'[x].freed, seen'[x].got)
  BY Zenon, ReadCloseAccounts
<1>3. StateOK'
  BY Zenon, <1>2 DEF StateOK, SameSender, NetShrinks
<1>4. SenderOK(x)' /\ SenderOK(y)' /\ ChainOK(x, y)'
  BY Zenon, <1>1, <1>2 DEF SameSender, Link, SenderOK, ChainOK
<1>5. /\ net[y] \in Seq(Frame)
      /\ seen[x].got + seen[x].dropped \in Nat /\ seen[y].sent \in Nat
      /\ seen[x].acked \in Nat /\ seen[y].announced \in Nat
  <2>1. net[y] \in Seq(Frame) /\ seen[x] \in Seen /\ seen[y] \in Seen
    BY Zenon, <1>1 DEF StateOK, Ends
  <2>2. /\ seen[x].got \in Nat /\ seen[x].dropped \in Nat /\ seen[x].acked \in Nat
        /\ seen[y].sent \in Nat /\ seen[y].announced \in Nat
    BY Zenon, <2>1 DEF Seen
  <2> QED BY <2>1, <2>2
<1>6. Between(net'[y], "data", seen[x].got + seen[x].dropped, seen[y].sent)
  BY Zenon, <1>1, <1>5, BetweenEmpty, BetweenTail DEF Link, NetShrinks
<1>7. Between(net'[y], "window", seen[x].acked, seen[y].announced)
  BY Zenon, <1>1, <1>5, BetweenEmpty, BetweenTail DEF Link, NetShrinks
<1> QED BY Zenon, <1>1, <1>2, <1>3, <1>4, <1>6, <1>7 DEF Link, NetShrinks

\* What closeLocal does to the stream.
LEMMA CloseLocalShape ==
    ASSUME FlowInv, NEW x, NEW y, Ends(x, y), CloseLocal(x)
    PROVE  /\ SameSender(x, y) /\ ReadCloses(x)
           /\ open' \in [Side -> BOOLEAN] /\ done' \in [Side -> BOOLEAN]
<1>1. /\ tx \in [Side -> TxState] /\ x \in Side /\ y \in Side /\ x # y
      /\ open \in [Side -> BOOLEAN] /\ done \in [Side -> BOOLEAN]
  BY Zenon DEF FlowInv, StateOK, Ends
<1>2. SameSender(x, y)
  <2>0. PICK b \in BOOLEAN : b = TRUE
    BY Zenon
  <2>1. tx' = [tx EXCEPT ![x] = [@ EXCEPT !.closed = b, !.closing = b]]
    BY Zenon, <2>0 DEF CloseLocal
  <2>2. [tx[x] EXCEPT !.closed = b, !.closing = b] \in TxState
    BY ZenonT(30), <1>1 DEF TxState
  <2>4. tx' \in [Side -> TxState] /\ tx'[y] = tx[y]
    BY Zenon, <1>1, <2>1, <2>2
  <2>3. /\ tx'[x].credit = tx[x].credit /\ tx'[x].n = tx[x].n
        /\ tx'[x].pc = tx[x].pc /\ tx'[x].want = tx[x].want
    BY ZenonT(30), <1>1, <2>1 DEF TxState
  <2> QED BY Zenon, <2>3, <2>4 DEF SameSender
<1>3. open' \in [Side -> BOOLEAN] /\ done' \in [Side -> BOOLEAN]
  BY Zenon, <1>1 DEF CloseLocal
<1> QED BY Zenon, <1>2, <1>3 DEF CloseLocal, ReadCloses

\* A half that does not change has the shape, too.
LEMMA SameShape ==
    ASSUME FlowInv, NEW x, NEW y, UNCHANGED tx
    PROVE  SameSender(x, y)
BY Zenon DEF FlowInv, StateOK, SameSender

\* abort closes the stream or finds it closed.
LEMMA AbortShape ==
    ASSUME FlowInv, NEW x, NEW y, Ends(x, y), Abort(x)
    PROVE  /\ SameSender(x, y) /\ ReadCloses(x)
           /\ open' \in [Side -> BOOLEAN] /\ done' \in [Side -> BOOLEAN]
<1>1. CASE CloseLocal(x)
  BY Zenon, <1>1, CloseLocalShape
<1>2. CASE UNCHANGED <<open, done, tx, rx, seen>>
  BY Zenon, <1>2, SameShape DEF ReadCloses, FlowInv, StateOK
<1> QED BY Zenon, <1>1, <1>2 DEF Abort

\* Stream.Close.
LEMMA CloseStreamKeeps ==
    ASSUME FlowInv, NEW x, NEW y, Ends(x, y), CloseStream(x)
    PROVE  StateOK' /\ Link(x, y)' /\ Link(y, x)'
<1>1. StateOK /\ x \in Side
  BY Zenon DEF FlowInv, Ends
<1>2. NetShrinks(x, y) /\ down' \in [Side -> BOOLEAN]
  BY Zenon, <1>1 DEF CloseStream, NetShrinks, StateOK
<1>3. CASE ~done[x]
  BY Zenon, <1>2, <1>3, CloseLocalShape, CloseMoves DEF CloseStream
<1>4. CASE done[x]
  <2>1. SameSender(x, y) /\ ReadCloses(x)
    BY Zenon, <1>4, SameShape DEF CloseStream, ReadCloses
  <2>2. open' \in [Side -> BOOLEAN] /\ done' \in [Side -> BOOLEAN]
    BY Zenon, <1>1, <1>4 DEF CloseStream, StateOK
  <2> QED BY Zenon, <1>2, <2>1, <2>2, CloseMoves
<1> QED BY Zenon, <1>3, <1>4

\* Loss of the connection.
LEMMA ConnDownKeeps ==
    ASSUME FlowInv, NEW x, NEW y, Ends(x, y), ConnDown(x)
    PROVE  StateOK' /\ Link(x, y)' /\ Link(y, x)'
<1>1. /\ StateOK /\ x \in Side /\ y \in Side /\ x # y /\ Peer(x) = y
      /\ net \in [Side -> Seq(Frame)] /\ << >> \in Seq(Frame)
  BY DEF FlowInv, Ends, StateOK
<1>2. net' = [net EXCEPT ![y] = << >>]
  BY Zenon, <1>1 DEF ConnDown
<1>3. NetShrinks(x, y)
  BY Zenon, <1>1, <1>2 DEF NetShrinks
<1>4. down' \in [Side -> BOOLEAN]
  BY Zenon, <1>1 DEF ConnDown, StateOK
<1>5. CASE open[x]
  <2>1. SameSender(x, y)
    <3>1. tx' = [tx EXCEPT ![x].closed = TRUE]
      BY Zenon, <1>5 DEF ConnDown
    <3>2. tx \in [Side -> TxState] /\ x \in Side /\ y \in Side /\ x # y
      BY Zenon, <1>1 DEF StateOK
    <3> QED BY ZenonT(30), <3>1, <3>2 DEF SameSender, TxState
  <2>2. ReadCloses(x)
    BY Zenon, <1>5 DEF ConnDown, ReadCloses
  <2>3. open' \in [Side -> BOOLEAN] /\ done' \in [Side -> BOOLEAN]
    BY Zenon, <1>1, <1>5 DEF ConnDown, StateOK
  <2> QED BY Zenon, <1>3, <1>4, <2>1, <2>2, <2>3, CloseMoves
<1>6. CASE ~open[x]
  <2>1. UNCHANGED <<open, done, tx, rx, seen>>
    BY Zenon, <1>6 DEF ConnDown
  <2>2. SameSender(x, y) /\ ReadCloses(x)
    BY Zenon, <2>1, SameShape DEF ReadCloses
  <2>3. open' \in [Side -> BOOLEAN] /\ done' \in [Side -> BOOLEAN]
    BY Zenon, <1>1, <2>1 DEF StateOK
  <2> QED BY Zenon, <1>3, <1>4, <2>2, <2>3, CloseMoves
<1> QED BY Zenon, <1>5, <1>6

\* A frame that is read and has no account shrinks the net.
LEMMA ConsumeShrinks ==
    ASSUME FlowInv, NEW x, NEW y, Ends(x, y), NEW T, Incoming(x, T), Consume(x)
    PROVE  NetShrinks(x, y) /\ down' \in [Side -> BOOLEAN]
<1>1. StateOK
  BY Zenon DEF FlowInv
<1>2. /\ net[y] # << >> /\ net' \in [Side -> Seq(Frame)]
      /\ net'[x] = net[x] /\ net'[y] = Tail(net[y]) /\ down' = down
  BY Zenon, <1>1, ConsumeTail
<1> QED BY Zenon, <1>1, <1>2 DEF NetShrinks, StateOK

\* A frame for a stream that is gone.
LEMMA ReceiveLateKeeps ==
    ASSUME FlowInv, NEW x, NEW y, Ends(x, y), ReceiveLate(x)
    PROVE  StateOK' /\ Link(x, y)' /\ Link(y, x)'
<1>1. NetShrinks(x, y) /\ down' \in [Side -> BOOLEAN]
  BY Zenon, ConsumeShrinks DEF ReceiveLate
<1>2. SameSender(x, y) /\ ReadCloses(x)
  BY Zenon, SameShape DEF ReceiveLate, ReadCloses
<1>3. open' \in [Side -> BOOLEAN] /\ done' \in [Side -> BOOLEAN]
  BY Zenon DEF ReceiveLate, FlowInv, StateOK
<1> QED BY Zenon, <1>1, <1>2, <1>3, CloseMoves

\* The peer's CLOSE_WRITE.
LEMMA ReceiveFinKeeps ==
    ASSUME FlowInv, NEW x, NEW y, Ends(x, y), ReceiveFin(x)
    PROVE  StateOK' /\ Link(x, y)' /\ Link(y, x)'
<1>1. NetShrinks(x, y) /\ down' \in [Side -> BOOLEAN]
  BY Zenon, ConsumeShrinks DEF ReceiveFin
<1>2. SameSender(x, y) /\ ReadCloses(x)
  BY Zenon, SameShape DEF ReceiveFin, ReadCloses
<1>3. open' \in [Side -> BOOLEAN] /\ done' \in [Side -> BOOLEAN]
  BY Zenon DEF ReceiveFin, FlowInv, StateOK
<1> QED BY Zenon, <1>1, <1>2, <1>3, CloseMoves

\* The peer's CLOSE.
LEMMA ReceiveCloseKeeps ==
    ASSUME FlowInv, NEW x, NEW y, Ends(x, y), ReceiveClose(x)
    PROVE  StateOK' /\ Link(x, y)' /\ Link(y, x)'
<1>1. NetShrinks(x, y) /\ down' \in [Side -> BOOLEAN]
  BY Zenon, ConsumeShrinks DEF ReceiveClose
<1>2. StateOK /\ x \in Side /\ y \in Side /\ x # y
  BY Zenon DEF FlowInv, Ends
<1>3. open' \in [Side -> BOOLEAN] /\ done' \in [Side -> BOOLEAN]
  BY Zenon, <1>2 DEF ReceiveClose, StateOK
<1>4. CASE done[x]
  <2>1. SameSender(x, y) /\ ReadCloses(x)
    BY Zenon, <1>4, SameShape DEF ReceiveClose, ReadCloses
  <2> QED BY Zenon, <1>1, <1>3, <2>1, CloseMoves
<1>5. CASE ~done[x]
  <2>1. tx' = [tx EXCEPT ![x].closed = TRUE]
    BY Zenon, <1>5 DEF ReceiveClose
  <2>2. SameSender(x, y)
    <3>1. tx \in [Side -> TxState] /\ x \in Side /\ y \in Side /\ x # y
      BY Zenon, <1>2 DEF StateOK
    <3> QED BY Zenon, <2>1, <3>1 DEF SameSender, TxState
  <2>3. ReadCloses(x)
    BY Zenon, <1>5 DEF ReceiveClose, ReadCloses
  <2> QED BY Zenon, <1>1, <1>3, <2>2, <2>3, CloseMoves
<1> QED BY Zenon, <1>4, <1>5

-----------------------------------------------------------------------------
(* Payload *)

\* A DATA or DATAGRAM frame takes the place of the credit it was taken for.
LEMMA WriteDataKeeps ==
    ASSUME FlowInv, NEW x, NEW y, Ends(x, y), WriteData(x)
    PROVE  StateOK' /\ Link(x, y)' /\ Link(y, x)'
<1> DEFINE n == tx[x].n
           at == seen[x].sent
           f == Data(at, at + n)
<1>1. StateOK /\ Link(x, y) /\ Link(y, x) /\ x \in Side /\ y \in Side /\ x # y
  BY Zenon DEF FlowInv, Ends
<1>2. /\ tx \in [Side -> TxState] /\ seen \in [Side -> Seen] /\ net[x] \in Seq(Frame)
      /\ n \in Nat /\ n > 0 /\ at \in Nat /\ tx[x].want \in Nat /\ tx[x].credit \in Nat
  BY Zenon, <1>1 DEF StateOK, TxState, Seen, WriteData, Link, SenderOK
<1>3. f \in Frame /\ f.type = "data" /\ f.from = at /\ f.to = at + n
  BY <1>2 DEF Data, Frame
<1>4. Write(x, f) /\ UNCHANGED <<down, open, done, rx>>
  BY Zenon DEF WriteData
<1>5. /\ net' \in [Side -> Seq(Frame)] /\ net'[y] = net[y]
      /\ net'[x] = net[x] \/ net'[x] = Append(net[x], f)
  BY Zenon, <1>1, <1>3, <1>4, WriteAppends
<1>6. /\ seen' \in [Side -> Seen] /\ seen'[y] = seen[y] /\ seen'[x].sent = at + n
      /\ seen'[x].acked = seen[x].acked /\ seen'[x].announced = seen[x].announced
      /\ seen'[x].got = seen[x].got /\ seen'[x].dropped = seen[x].dropped
      /\ seen'[x].freed = seen[x].freed /\ seen'[x].returned = seen[x].returned
  <2>1. seen' = [seen EXCEPT ![x].sent = at + n]
    BY Zenon DEF WriteData
  <2>2. at + n \in Nat
    BY <1>2
  <2> HIDE DEF n, at
  <2> QED BY Zenon, <1>1, <1>2, <2>1, <2>2 DEF Seen
<1>7. /\ tx' \in [Side -> TxState] /\ tx'[y] = tx[y] /\ tx'[x].n = 0
      /\ tx'[x].credit = tx[x].credit /\ tx'[x].pc \in {"credit", "idle"}
      /\ tx'[x].pc = "credit" => tx'[x].want > 0
  <2>1. CASE tx[x].want > n /\ ~tx[x].closed /\ ~down[x]
    <3>1. PICK w \in Nat : w = tx[x].want - n /\ w > 0
      BY <1>2, <2>1
    <3>2. tx' = [tx EXCEPT ![x].n = 0, ![x].want = w, ![x].pc = "credit"]
      BY Zenon, <2>1, <3>1 DEF WriteData
    <3>3. tx[x] \in TxState /\ 0 \in Nat
      BY Zenon, <1>1, <1>2
    <3> HIDE DEF n, at
    <3> QED BY Zenon, <1>1, <1>2, <3>1, <3>2, <3>3 DEF TxState
  <2>2. CASE ~(tx[x].want > n /\ ~tx[x].closed /\ ~down[x])
    <3>1. PICK z \in Nat : z = 0
      BY Zenon
    <3>2. tx' = [tx EXCEPT ![x].n = z, ![x].want = z, ![x].pc = "idle"]
      BY Zenon, <2>2, <3>1 DEF WriteData
    <3>3. tx \in [Side -> TxState] /\ x \in Side /\ y \in Side /\ x # y
      BY Zenon, <1>1, <1>2
    <3> HIDE DEF n, at
    <3>4. [tx[x] EXCEPT !.n = z, !.want = z, !.pc = "idle"] \in TxState
      BY Zenon, <3>3 DEF TxState
    <3>5. tx' = [tx EXCEPT ![x] = [tx[x] EXCEPT !.n = z, !.want = z, !.pc = "idle"]]
      BY Zenon, <3>2, <3>3
    <3>6. tx' \in [Side -> TxState] /\ tx'[y] = tx[y]
      BY Zenon, <3>3, <3>4, <3>5
    <3>7. tx'[x].n = z /\ tx'[x].credit = tx[x].credit /\ tx'[x].pc = "idle"
      BY Zenon, <3>3, <3>5 DEF TxState
    <3> QED BY Zenon, <3>1, <3>6, <3>7
  <2> QED BY Zenon, <2>1, <2>2
<1>8. StateOK'
  BY Zenon, <1>1, <1>4, <1>5, <1>6, <1>7 DEF StateOK
<1> HIDE DEF f
<1>9. SenderOK(x)'
  <2>1. tx[x].credit + n + at = Window + seen[x].acked
    BY Zenon, <1>1 DEF Link, SenderOK
  <2> HIDE DEF n, at
  <2>2. tx[x].credit + 0 + (at + n) = Window + seen[x].acked
    BY <1>2, <2>1
  <2> QED BY Zenon, <1>6, <1>7, <2>2 DEF SenderOK
<1>10. SenderOK(y)' /\ ChainOK(y, x)'
  BY Zenon, <1>1, <1>4, <1>6, <1>7 DEF Link, SenderOK, ChainOK
<1>11. seen[y].got \in Nat /\ seen[y].dropped \in Nat /\ seen[y].got + seen[y].dropped <= at
  BY Zenon, <1>1, <1>2 DEF Link, ChainOK, Seen
<1>12. ChainOK(x, y)'
  <2>1. seen[y].got + seen[y].dropped <= at + n
    <3> HIDE DEF n, at
    <3> QED BY <1>2, <1>11
  <2> QED BY Zenon, <1>1, <1>4, <1>6, <2>1 DEF Link, ChainOK
<1>13. Between(net'[x], "data", seen[y].got + seen[y].dropped, at + n)
  <2>1. seen[y].got + seen[y].dropped \in Nat /\ at + n \in Nat /\ at <= at + n /\ at < at + n
    <3> HIDE DEF n, at
    <3> QED BY <1>2, <1>11
  <2>2. Between(net[x], "data", seen[y].got + seen[y].dropped, at)
    BY Zenon, <1>1 DEF Link
  <2>3. Between(net[x], "data", seen[y].got + seen[y].dropped, at + n)
    BY Zenon, <1>2, <2>1, <2>2, BetweenWider
  <2>4. Between(Append(net[x], f), "data", seen[y].got + seen[y].dropped, at + n)
    BY Zenon, <1>2, <1>3, <1>11, <2>1, <2>2, BetweenAppend
  <2> QED BY Zenon, <1>5, <2>3, <2>4
<1>14. Between(net'[x], "window", seen[y].acked, seen[x].announced)
  BY Zenon, <1>1, <1>2, <1>3, <1>5, BetweenAppendOther DEF Link
<1> QED BY Zenon, <1>1, <1>4, <1>5, <1>6, <1>8, <1>9, <1>10, <1>12, <1>13, <1>14 DEF Link

-----------------------------------------------------------------------------
(* Steps that change only the receiving half *)

\* Where the receiving half of x moves without the net, its accounts decide.
LEMMA ReceiverMoves ==
    ASSUME FlowInv, NEW x, NEW y, Ends(x, y),
           NEW r \in RxState, NEW h \in Seen,
           rx' = [rx EXCEPT ![x] = r], seen' = [seen EXCEPT ![x] = h],
           h.sent = seen[x].sent, h.acked = seen[x].acked, h.announced = seen[x].announced,
           h.got = seen[x].got, h.dropped = seen[x].dropped,
           h.announced + r.flush + r.pending <= h.returned,
           h.returned <= h.freed + h.dropped,
           h.freed <= h.got, r.queued = h.got - h.freed,
           Between(r.queue, "data", h.freed, h.got),
           UNCHANGED <<net, down, open, done, tx>>
    PROVE  StateOK' /\ Link(x, y)' /\ Link(y, x)'
<1>1. StateOK /\ Link(x, y) /\ Link(y, x) /\ x \in Side /\ y \in Side /\ x # y
  BY Zenon DEF FlowInv, Ends
<1>2. rx \in [Side -> RxState] /\ seen \in [Side -> Seen]
  BY Zenon, <1>1 DEF StateOK
<1>3. rx'[x] = r /\ rx'[y] = rx[y] /\ seen'[x] = h /\ seen'[y] = seen[y]
  BY Zenon, <1>1, <1>2
<1>4. rx' \in [Side -> RxState] /\ seen' \in [Side -> Seen]
  BY Zenon, <1>1, <1>2
<1>5. StateOK'
  BY Zenon, <1>1, <1>4 DEF StateOK
<1>6. SenderOK(x)' /\ SenderOK(y)'
  BY Zenon, <1>1, <1>3 DEF Link, SenderOK
<1>7. ChainOK(x, y)'
  BY Zenon, <1>1, <1>3 DEF Link, ChainOK
<1>8. ChainOK(y, x)'
  BY Zenon, <1>1, <1>3 DEF Link, ChainOK
<1> QED BY Zenon, <1>1, <1>3, <1>5, <1>6, <1>7, <1>8 DEF Link

\* The accounts of an end as numbers.
LEMMA Accounts ==
    ASSUME FlowInv, NEW x, NEW y, Ends(x, y)
    PROVE  /\ rx[x] \in RxState /\ seen[x] \in Seen /\ tx[x] \in TxState
           /\ rx \in [Side -> RxState] /\ seen \in [Side -> Seen] /\ tx \in [Side -> TxState]
           /\ seen[x].announced + rx[x].flush + rx[x].pending <= seen[x].returned
           /\ seen[x].returned <= seen[x].freed + seen[x].dropped
           /\ seen[x].freed <= seen[x].got
           /\ rx[x].queued = seen[x].got - seen[x].freed
           /\ Between(rx[x].queue, "data", seen[x].freed, seen[x].got)
           /\ seen[x].announced \in Nat /\ seen[x].returned \in Nat /\ seen[x].freed \in Nat
           /\ seen[x].dropped \in Nat /\ seen[x].got \in Nat /\ seen[x].read \in Nat
           /\ seen[x].acked \in Nat /\ seen[x].sent \in Nat
           /\ rx[x].flush \in Nat /\ rx[x].pending \in Nat /\ rx[x].queued \in Int
<1>1. /\ rx \in [Side -> RxState] /\ seen \in [Side -> Seen] /\ tx \in [Side -> TxState]
      /\ x \in Side /\ Link(y, x)
  BY Zenon DEF FlowInv, StateOK, Ends
<1>2. rx[x] \in RxState /\ seen[x] \in Seen /\ tx[x] \in TxState
  BY Zenon, <1>1
<1>3. /\ seen[x].announced \in Nat /\ seen[x].returned \in Nat /\ seen[x].freed \in Nat
      /\ seen[x].dropped \in Nat /\ seen[x].got \in Nat /\ seen[x].read \in Nat
      /\ seen[x].acked \in Nat /\ seen[x].sent \in Nat
  BY Zenon, <1>2 DEF Seen
<1>4. rx[x].flush \in Nat /\ rx[x].pending \in Nat /\ rx[x].queued \in Int
  BY Zenon, <1>2 DEF RxState
<1> QED BY Zenon, <1>1, <1>2, <1>3, <1>4 DEF Link, ChainOK

\* Nothing to read, or a wakeup.
LEMMA ReadWaitKeeps ==
    ASSUME FlowInv, NEW x, NEW y, Ends(x, y), ReadNothing(x) \/ WaitRead(x)
    PROVE  StateOK' /\ Link(x, y)' /\ Link(y, x)'
<1>1. x \in Side /\ rx[x] \in RxState /\ seen[x] \in Seen
      /\ rx \in [Side -> RxState] /\ seen \in [Side -> Seen]
  BY Accounts DEF Ends
<1>2. PICK b \in BOOLEAN, p \in {"ready", "wait", "eof"} :
         rx' = [rx EXCEPT ![x].pc = p, ![x].tok = b]
  <2>1. CASE ReadNothing(x)
    <3>1. rx[x].tok \in BOOLEAN
      BY Zenon, <1>1 DEF RxState
    <3>2. CASE rx[x].closed
      BY Zenon, <1>1, <2>1, <3>1, <3>2 DEF ReadNothing, RxState
    <3>3. CASE ~rx[x].closed
      BY ZenonT(30), <1>1, <2>1, <3>1, <3>3 DEF ReadNothing, RxState
    <3> QED BY Zenon, <3>2, <3>3
  <2>2. CASE WaitRead(x)
    BY Zenon, <2>2 DEF WaitRead
  <2> QED BY Zenon, <2>1, <2>2
<1> DEFINE r == [rx[x] EXCEPT !.pc = p, !.tok = b]
<1>3. r \in RxState
  BY Zenon, <1>1 DEF RxState
<1>4. /\ r.queue = rx[x].queue /\ r.queued = rx[x].queued
      /\ r.flush = rx[x].flush /\ r.pending = rx[x].pending
  BY Zenon, <1>1 DEF RxState
<1>5. rx' = [rx EXCEPT ![x] = r]
  BY Zenon, <1>1, <1>2
<1>6. seen' = [seen EXCEPT ![x] = seen[x]] /\ UNCHANGED <<net, down, open, done, tx>>
  BY Zenon, <1>1 DEF ReadNothing, WaitRead
<1> HIDE DEF r
<1> QED BY Zenon, <1>1, <1>3, <1>4, <1>5, <1>6, Accounts, ReceiverMoves

\* flushWindowUpdates moves windowPending to what it writes.
LEMMA TakePendingKeeps ==
    ASSUME FlowInv, NEW x, NEW y, Ends(x, y), TakePending(x)
    PROVE  StateOK' /\ Link(x, y)' /\ Link(y, x)'
<1>1. /\ x \in Side /\ rx[x] \in RxState /\ seen[x] \in Seen
      /\ rx \in [Side -> RxState] /\ seen \in [Side -> Seen]
      /\ rx[x].flush = 0 /\ rx[x].pending \in Nat /\ seen[x].announced \in Nat
  BY Accounts DEF Ends, TakePending
<1>2. PICK b \in BOOLEAN, z \in Nat : z = 0
         /\ rx' = [rx EXCEPT ![x].sending = b, ![x].flush = rx[x].pending, ![x].pending = z]
  <2>1. rx[x].sending \in BOOLEAN
    BY Zenon, <1>1 DEF RxState
  <2>2. CASE rx[x].pending = 0
    <3>1. rx' = [rx EXCEPT ![x].sending = FALSE]
      BY Zenon, <2>2 DEF TakePending
    <3>2. rx' = [rx EXCEPT ![x].sending = FALSE, ![x].flush = rx[x].pending, ![x].pending = 0]
      BY Zenon, <1>1, <2>2, <3>1 DEF RxState
    <3> QED BY Zenon, <3>2
  <2>3. CASE rx[x].pending # 0
    <3>1. rx' = [rx EXCEPT ![x].flush = rx[x].pending, ![x].pending = 0]
      BY Zenon, <2>3 DEF TakePending
    <3>2. rx' = [rx EXCEPT ![x].sending = rx[x].sending, ![x].flush = rx[x].pending,
                           ![x].pending = 0]
      BY Zenon, <1>1, <3>1 DEF RxState
    <3> QED BY Zenon, <2>1, <3>2
  <2> QED BY Zenon, <2>2, <2>3
<1> DEFINE r == [rx[x] EXCEPT !.sending = b, !.flush = rx[x].pending, !.pending = z]
<1>3. r \in RxState
  BY Zenon, <1>1 DEF RxState
<1>4. /\ r.queue = rx[x].queue /\ r.queued = rx[x].queued
      /\ r.flush = rx[x].pending /\ r.pending = z
  BY Zenon, <1>1 DEF RxState
<1>5. rx' = [rx EXCEPT ![x] = r]
  BY Zenon, <1>1, <1>2
<1>6. seen' = [seen EXCEPT ![x] = seen[x]] /\ UNCHANGED <<net, down, open, done, tx>>
  BY Zenon, <1>1 DEF TakePending
<1> HIDE DEF r
<1>7. seen[x].announced + r.flush + r.pending <= seen[x].returned
  BY <1>1, <1>2, <1>4, Accounts
<1> QED BY Zenon, <1>1, <1>3, <1>4, <1>5, <1>6, <1>7, Accounts, ReceiverMoves

\* returnCredit as a function of the receiving half.
LEMMA ReturnedType ==
    ASSUME NEW x, NEW r \in RxState, NEW n \in Int
    PROVE  /\ Returned(x, r, n) \in RxState
           /\ Returned(x, r, n).queue = r.queue /\ Returned(x, r, n).queued = r.queued
           /\ Returned(x, r, n).flush = r.flush
           /\ Returned(x, r, n).pending = IF Returns(x, n) THEN r.pending + n ELSE r.pending
<1>1. CASE Returns(x, n)
  <2>1. PICK k \in Nat : k = r.pending + n
    BY <1>1 DEF Returns, RxState
  <2>2. Returned(x, r, n) = [r EXCEPT !.pending = k, !.sending = TRUE]
    BY Zenon, <1>1, <2>1 DEF Returned
  <2>3. [r EXCEPT !.pending = k, !.sending = TRUE] \in RxState
    BY Zenon DEF RxState
  <2> QED BY Zenon, <1>1, <2>1, <2>2, <2>3 DEF RxState
<1>2. CASE ~Returns(x, n)
  BY Zenon, <1>2 DEF Returned
<1> QED BY Zenon, <1>1, <1>2

\* The application reads the first payload: its bytes leave the queue and become credit.
LEMMA ReadKeeps ==
    ASSUME FlowInv, NEW x, NEW y, Ends(x, y), Read(x)
    PROVE  StateOK' /\ Link(x, y)' /\ Link(y, x)'
<1> DEFINE q == rx[x].queue
           n == Size(Head(q))
           ret == IF Returns(x, n) THEN seen[x].returned + n ELSE seen[x].returned
           r0 == Dequeued(rx[x])
           r == Returned(x, r0, n)
           h == [seen[x] EXCEPT !.freed = @ + n, !.read = @ + n, !.returned = ret]
<1>1. /\ x \in Side /\ rx[x] \in RxState /\ seen[x] \in Seen
      /\ rx \in [Side -> RxState] /\ seen \in [Side -> Seen]
  BY Accounts DEF Ends
<1>0. /\ seen[x].announced + rx[x].flush + rx[x].pending <= seen[x].returned
      /\ seen[x].returned <= seen[x].freed + seen[x].dropped
      /\ rx[x].queued = seen[x].got - seen[x].freed
      /\ Between(q, "data", seen[x].freed, seen[x].got)
      /\ seen[x].announced \in Nat /\ seen[x].returned \in Nat /\ seen[x].freed \in Nat
      /\ seen[x].dropped \in Nat /\ seen[x].got \in Nat /\ seen[x].read \in Nat
      /\ rx[x].flush \in Nat /\ rx[x].pending \in Nat /\ rx[x].queued \in Int
  BY Zenon, Accounts
<1>2. q \in Seq(Segment) /\ q \in Seq(Frame) /\ q # << >>
  BY Zenon, <1>1, QueueFrames DEF RxState, Read, FlowInv
<1>3. Tail(q) \in Seq(Segment) /\ Head(q) \in Segment
  BY Zenon, <1>2, TailShifts
<1>4. Head(q).type = "data"
  BY Zenon, <1>3 DEF Segment
<1>5. /\ Head(q).from \in Nat /\ Head(q).to \in Nat
      /\ seen[x].freed <= Head(q).from /\ Head(q).from < Head(q).to
      /\ Head(q).to <= seen[x].got
      /\ Between(Tail(q), "data", seen[x].freed + n, seen[x].got)
  BY Zenon, <1>2, <1>4, <1>0, BetweenTail
<1>6. n \in Nat /\ n > 0 /\ seen[x].freed + n <= seen[x].got
  <2>1. n = Head(q).to - Head(q).from
    BY Zenon DEF Size
  <2>2. seen[x].freed \in Nat /\ seen[x].got \in Nat
    BY Zenon, <1>0
  <2> HIDE DEF n, q
  <2> QED BY <1>5, <2>1, <2>2
<1>7. rx' = [rx EXCEPT ![x] = r] /\ seen' = [seen EXCEPT ![x] = h]
      /\ UNCHANGED <<net, down, open, done, tx>>
  <2>1. rx' = [rx EXCEPT ![x] = r]
    BY Zenon, <1>1 DEF Read
  <2>2. seen' = [seen EXCEPT ![x] = h]
    <3>1. CASE Returns(x, n)
      BY Zenon, <1>1, <3>1 DEF Read
    <3>2. CASE ~Returns(x, n)
      BY Zenon, <1>1, <3>2 DEF Read
    <3> QED BY Zenon, <3>1, <3>2
  <2> QED BY Zenon, <2>1, <2>2 DEF Read
<1> HIDE DEF n, q
<1>8. r0 \in RxState /\ r0.queue = Tail(q) /\ r0.queued = rx[x].queued - n
      /\ r0.flush = rx[x].flush /\ r0.pending = rx[x].pending
  <2>1. PICK k \in Int : k = rx[x].queued - n
    BY <1>6, <1>0
  <2>2. r0 = [rx[x] EXCEPT !.queue = Tail(q), !.queued = k]
    BY Zenon, <2>1 DEF Dequeued, n, q
  <2>3. PICK t \in Seq(Segment) : t = Tail(q)
    BY Zenon, <1>3
  <2>4. [rx[x] EXCEPT !.queue = t, !.queued = k] \in RxState
    BY Zenon, <1>1 DEF RxState
  <2> QED BY Zenon, <1>1, <2>1, <2>2, <2>3, <2>4 DEF RxState
<1> HIDE DEF r0
<1>9. /\ r \in RxState /\ r.queue = Tail(q) /\ r.queued = rx[x].queued - n
      /\ r.flush = rx[x].flush
      /\ r.pending = IF Returns(x, n) THEN rx[x].pending + n ELSE rx[x].pending
  BY <1>6, <1>8, ReturnedType
<1>10. ret \in Nat /\ (Returns(x, n) => ret = seen[x].returned + n)
       /\ (~Returns(x, n) => ret = seen[x].returned)
  BY <1>6, <1>0
<1> HIDE DEF r, ret
<1>11. /\ h \in Seen /\ h.freed = seen[x].freed + n /\ h.returned = ret
       /\ h.sent = seen[x].sent /\ h.acked = seen[x].acked
       /\ h.announced = seen[x].announced
       /\ h.got = seen[x].got /\ h.dropped = seen[x].dropped
  <2>1. PICK a \in Nat, b \in Nat : a = seen[x].freed + n /\ b = seen[x].read + n
    BY <1>6, <1>0
  <2>2. h = [seen[x] EXCEPT !.freed = a, !.read = b, !.returned = ret]
    BY Zenon, <2>1
  <2>3. [seen[x] EXCEPT !.freed = a, !.read = b, !.returned = ret] \in Seen
    BY Zenon, <1>1, <1>10 DEF Seen
  <2> QED BY Zenon, <1>1, <2>1, <2>2, <2>3 DEF Seen
<1> HIDE DEF h
<1>12. h.announced + r.flush + r.pending <= h.returned
  <2>1. CASE Returns(x, n)
    <3>1. /\ r.pending = rx[x].pending + n /\ h.returned = seen[x].returned + n
          /\ r.flush = rx[x].flush /\ h.announced = seen[x].announced
      BY Zenon, <1>9, <1>10, <1>11, <2>1
    <3> QED BY <1>0, <1>6, <3>1
  <2>2. CASE ~Returns(x, n)
    <3>1. /\ r.pending = rx[x].pending /\ h.returned = seen[x].returned
          /\ r.flush = rx[x].flush /\ h.announced = seen[x].announced
      BY Zenon, <1>9, <1>10, <1>11, <2>2
    <3> QED BY Zenon, <1>0, <3>1
  <2> QED BY Zenon, <2>1, <2>2
<1>13. h.returned <= h.freed + h.dropped
  BY <1>6, <1>10, <1>11, <1>0
<1>14. h.freed <= h.got /\ r.queued = h.got - h.freed
  <2>1. r.queued = rx[x].queued - n /\ h.freed = seen[x].freed + n /\ h.got = seen[x].got
    BY Zenon, <1>9, <1>11
  <2> QED BY <1>0, <1>6, <2>1
<1>15. Between(r.queue, "data", h.freed, h.got)
  BY Zenon, <1>5, <1>9, <1>11 DEF n, q
<1> QED BY Zenon, <1>7, <1>9, <1>11, <1>12, <1>13, <1>14, <1>15, ReceiverMoves

-----------------------------------------------------------------------------
(* Arrivals *)

\* x reads a payload of n bytes; h and r are its accounts and receiving half then.
LEMMA DataMoves ==
    ASSUME FlowInv, NEW x, NEW y, Ends(x, y), Incoming(x, {"data"}), Consume(x),
           NEW n, n = Size(Head(net[y])), NEW r \in RxState, NEW h \in Seen,
           rx' = [rx EXCEPT ![x] = r], seen' = [seen EXCEPT ![x] = h],
           h.sent = seen[x].sent, h.acked = seen[x].acked, h.announced = seen[x].announced,
           h.got + h.dropped = seen[x].got + seen[x].dropped + n,
           h.announced + r.flush + r.pending <= h.returned,
           h.returned <= h.freed + h.dropped,
           h.freed <= h.got, r.queued = h.got - h.freed,
           Between(r.queue, "data", h.freed, h.got),
           UNCHANGED <<open, done, tx>>
    PROVE  StateOK' /\ Link(x, y)' /\ Link(y, x)'
<1>1. StateOK /\ Link(x, y) /\ Link(y, x) /\ x \in Side /\ y \in Side /\ x # y
  BY Zenon DEF FlowInv, Ends
<1>2. rx \in [Side -> RxState] /\ seen \in [Side -> Seen]
  BY Zenon, <1>1 DEF StateOK
<1>3. rx'[x] = r /\ rx'[y] = rx[y] /\ seen'[x] = h /\ seen'[y] = seen[y]
  BY Zenon, <1>1, <1>2
<1>4. rx' \in [Side -> RxState] /\ seen' \in [Side -> Seen]
  BY Zenon, <1>1, <1>2
<1>5. /\ net[y] \in Seq(Frame) /\ net[y] # << >> /\ net' \in [Side -> Seq(Frame)]
      /\ net'[x] = net[x] /\ net'[y] = Tail(net[y])
      /\ Head(net[y]).type = "data" /\ down' = down
  BY <1>1, ConsumeTail
<1>6. StateOK'
  BY Zenon, <1>1, <1>4, <1>5 DEF StateOK
<1>7. /\ seen[x].got \in Nat /\ seen[x].dropped \in Nat /\ seen[y].sent \in Nat
      /\ seen[x].acked \in Nat /\ seen[y].announced \in Nat
      /\ seen[x].got + seen[x].dropped \in Nat
  BY <1>1, <1>2 DEF Seen
<1>8. /\ Head(net[y]).from \in Nat /\ Head(net[y]).to \in Nat
      /\ seen[x].got + seen[x].dropped <= Head(net[y]).from
      /\ Head(net[y]).from < Head(net[y]).to /\ Head(net[y]).to <= seen[y].sent
      /\ Between(Tail(net[y]), "data", seen[x].got + seen[x].dropped + n, seen[y].sent)
  BY Zenon, <1>1, <1>5, <1>7, BetweenTail DEF Link
<1>9. Between(Tail(net[y]), "window", seen[x].acked, seen[y].announced)
  BY Zenon, <1>1, <1>5, <1>7, BetweenTail DEF Link
<1>10. h.got + h.dropped <= seen[y].sent
  BY <1>7, <1>8 DEF Size
<1>11. SenderOK(x)' /\ SenderOK(y)'
  BY Zenon, <1>1, <1>3 DEF Link, SenderOK
<1>12. ChainOK(x, y)'
  BY Zenon, <1>1, <1>3 DEF Link, ChainOK
<1>13. ChainOK(y, x)'
  BY Zenon, <1>1, <1>3, <1>10 DEF Link, ChainOK
<1> QED BY Zenon, <1>1, <1>3, <1>5, <1>6, <1>8, <1>9, <1>11, <1>12, <1>13 DEF Link

\* The first payload under way is not empty.
LEMMA DataSize ==
    ASSUME FlowInv, NEW x, NEW y, Ends(x, y), Incoming(x, {"data"})
    PROVE  /\ Size(Head(net[y])) \in Nat /\ Size(Head(net[y])) > 0
           /\ seen[x].got + seen[x].dropped + Size(Head(net[y])) <= seen[y].sent
<1>1. /\ StateOK /\ Link(y, x) /\ net[y] \in Seq(Frame) /\ net[y] # << >>
      /\ Head(net[y]).type = "data"
  BY Zenon DEF FlowInv, Ends, StateOK, Incoming
<1>2. seen[x].got + seen[x].dropped \in Nat /\ seen[y].sent \in Nat
  <2>1. seen[x] \in Seen /\ seen[y] \in Seen
    BY Zenon, <1>1 DEF Ends, StateOK
  <2> QED BY <2>1 DEF Seen
<1>3. /\ Head(net[y]).from \in Nat /\ Head(net[y]).to \in Nat
      /\ seen[x].got + seen[x].dropped <= Head(net[y]).from
      /\ Head(net[y]).from < Head(net[y]).to /\ Head(net[y]).to <= seen[y].sent
  BY Zenon, <1>1, <1>2, BetweenTail DEF Link
<1> QED BY <1>2, <1>3 DEF Size

\* queuePayload accepts a payload.
LEMMA QueueKeeps ==
    ASSUME FlowInv, NEW x, NEW y, Ends(x, y), Incoming(x, {"data"}), Consume(x),
           Queue(x, Size(Head(net[y])))
    PROVE  StateOK' /\ Link(x, y)' /\ Link(y, x)'
<1> DEFINE got == seen[x].got
<1>1. PICK n \in Nat : n = Size(Head(net[y])) /\ n > 0
  BY Zenon, DataSize
<1>2. /\ rx[x] \in RxState /\ seen[x] \in Seen /\ x \in Side
      /\ rx \in [Side -> RxState] /\ seen \in [Side -> Seen]
      /\ seen[x].announced + rx[x].flush + rx[x].pending <= seen[x].returned
      /\ seen[x].returned <= seen[x].freed + seen[x].dropped
      /\ seen[x].freed <= got /\ rx[x].queued = got - seen[x].freed
      /\ Between(rx[x].queue, "data", seen[x].freed, got)
      /\ seen[x].freed \in Nat /\ seen[x].dropped \in Nat /\ got \in Nat
      /\ rx[x].queued \in Int
  <2>1. x \in Side
    BY Zenon DEF Ends
  <2> QED BY Zenon, <2>1, Accounts, Zenon
<1>3. PICK m \in Nat, k \in Int, f \in Segment :
         m = got + n /\ k = rx[x].queued + n /\ f = Data(got, got + n)
  <2>1. got + n \in Nat /\ rx[x].queued + n \in Int /\ got \in Nat
    BY <1>1, <1>2
  <2>2. \A a, b \in Nat : Data(a, b) \in Segment
    BY Zenon DEF Data, Segment
  <2> HIDE DEF got
  <2> QED BY Zenon, <2>1, <2>2
<1>4. f.type = "data" /\ f.from = got /\ f.to = m /\ f \in Frame
  BY Zenon, <1>2, <1>3 DEF Data, Segment, Frame
<1>5. PICK t \in Seq(Segment) : t = Append(rx[x].queue, f)
  <2>1. rx[x].queue \in Seq(Segment)
    BY Zenon, <1>2 DEF RxState
  <2> QED BY Zenon, <2>1, <1>3, AppendAdds
<1> DEFINE r == [rx[x] EXCEPT !.queued = k, !.tok = TRUE, !.queue = t]
           h == [seen[x] EXCEPT !.got = m]
<1>6. rx' = [rx EXCEPT ![x].queued = k, ![x].tok = TRUE, ![x].queue = t]
  BY Zenon, <1>1, <1>3, <1>5 DEF Queue
<1>7. rx' = [rx EXCEPT ![x] = r]
  BY Zenon, <1>2, <1>6
<1>8. seen' = [seen EXCEPT ![x] = h] /\ UNCHANGED <<open, done, tx>>
  BY Zenon, <1>1, <1>2, <1>3 DEF Queue
<1>9. /\ r \in RxState /\ r.queued = k /\ r.queue = t
      /\ r.flush = rx[x].flush /\ r.pending = rx[x].pending
  <2>1. r \in RxState
    BY Zenon, <1>2 DEF RxState
  <2> QED BY Zenon, <1>2, <2>1 DEF RxState
<1>10. /\ h \in Seen /\ h.got = m /\ h.freed = seen[x].freed
       /\ h.sent = seen[x].sent /\ h.acked = seen[x].acked
       /\ h.announced = seen[x].announced /\ h.returned = seen[x].returned
       /\ h.dropped = seen[x].dropped
  BY Zenon, <1>2 DEF Seen
<1> HIDE DEF r, h, got
<1>11. Between(t, "data", seen[x].freed, m)
  <2>1. rx[x].queue \in Seq(Frame)
    BY Zenon, <1>2, QueueFrames DEF FlowInv
  <2>2. f.from < f.to
    BY <1>1, <1>2, <1>3, <1>4
  <2> QED BY Zenon, <1>2, <1>4, <1>5, <2>1, <2>2, BetweenAppend
<1>12. h.got + h.dropped = seen[x].got + seen[x].dropped + n
  BY <1>1, <1>2, <1>3, <1>10 DEF got
<1>13. h.freed <= h.got /\ r.queued = h.got - h.freed
  BY <1>1, <1>2, <1>3, <1>9, <1>10
<1>14. h.announced + r.flush + r.pending <= h.returned /\ h.returned <= h.freed + h.dropped
  BY Zenon, <1>2, <1>9, <1>10
<1>15. Between(r.queue, "data", h.freed, h.got)
  BY Zenon, <1>9, <1>10, <1>11
<1> QED BY Zenon, <1>1, <1>7, <1>8, <1>9, <1>10, <1>12, <1>13, <1>14, <1>15, DataMoves

\* A datagram that does not fit is dropped and its credit returned.
LEMMA DropKeeps ==
    ASSUME FlowInv, NEW x, NEW y, Ends(x, y), Incoming(x, {"data"}), Consume(x),
           Drop(x, Size(Head(net[y])))
    PROVE  StateOK' /\ Link(x, y)' /\ Link(y, x)'
<1>1. PICK n \in Nat : n = Size(Head(net[y])) /\ n > 0
  BY Zenon, DataSize
<1>2. /\ rx[x] \in RxState /\ seen[x] \in Seen /\ x \in Side
      /\ rx \in [Side -> RxState] /\ seen \in [Side -> Seen]
      /\ seen[x].announced + rx[x].flush + rx[x].pending <= seen[x].returned
      /\ seen[x].returned <= seen[x].freed + seen[x].dropped
      /\ seen[x].freed <= seen[x].got /\ rx[x].queued = seen[x].got - seen[x].freed
      /\ Between(rx[x].queue, "data", seen[x].freed, seen[x].got)
      /\ seen[x].announced \in Nat /\ seen[x].returned \in Nat /\ seen[x].freed \in Nat
      /\ seen[x].dropped \in Nat /\ seen[x].got \in Nat
      /\ rx[x].flush \in Nat /\ rx[x].pending \in Nat
  <2>1. x \in Side
    BY Zenon DEF Ends
  <2> QED BY Zenon, <2>1, Accounts, Zenon
<1>3. PICK d \in Nat, b \in Nat :
         /\ d = seen[x].dropped + n
         /\ b = IF Returns(x, n) THEN seen[x].returned + n ELSE seen[x].returned
  BY <1>1, <1>2
<1> DEFINE r == Returned(x, rx[x], n)
           h == [seen[x] EXCEPT !.dropped = d, !.lost = TRUE, !.returned = b]
<1>4. rx' = [rx EXCEPT ![x] = r] /\ UNCHANGED <<open, done, tx>>
  BY Zenon, <1>1 DEF Drop
<1>5. seen' = [seen EXCEPT ![x].dropped = d, ![x].lost = TRUE, ![x].returned = b]
  <2>1. CASE Returns(x, n)
    BY Zenon, <1>1, <1>3, <2>1 DEF Drop
  <2>2. CASE ~Returns(x, n)
    BY Zenon, <1>1, <1>3, <2>2 DEF Drop
  <2> QED BY Zenon, <2>1, <2>2
<1>6. seen' = [seen EXCEPT ![x] = h]
  BY Zenon, <1>2, <1>5
<1>7. /\ r \in RxState /\ r.queue = rx[x].queue /\ r.queued = rx[x].queued
      /\ r.flush = rx[x].flush
      /\ r.pending = IF Returns(x, n) THEN rx[x].pending + n ELSE rx[x].pending
  BY <1>1, <1>2, ReturnedType
<1>8. /\ h \in Seen /\ h.dropped = d /\ h.returned = b /\ h.got = seen[x].got
      /\ h.freed = seen[x].freed /\ h.sent = seen[x].sent /\ h.acked = seen[x].acked
      /\ h.announced = seen[x].announced
  <2>1. h \in Seen
    BY Zenon, <1>2 DEF Seen
  <2> QED BY Zenon, <1>2, <2>1 DEF Seen
<1> HIDE DEF r, h
<1>9. h.got + h.dropped = seen[x].got + seen[x].dropped + n
  BY <1>1, <1>2, <1>3, <1>8
<1>10. h.announced + r.flush + r.pending <= h.returned /\ h.returned <= h.freed + h.dropped
  <2>1. CASE Returns(x, n)
    <3>1. r.pending = rx[x].pending + n /\ b = seen[x].returned + n
      BY Zenon, <1>3, <1>7, <2>1
    <3>2. r.flush = rx[x].flush
      BY Zenon, <1>7
    <3> QED BY <1>1, <1>2, <1>3, <1>8, <3>1, <3>2
  <2>2. CASE ~Returns(x, n)
    <3>1. r.pending = rx[x].pending /\ b = seen[x].returned
      BY Zenon, <1>3, <1>7, <2>2
    <3>2. r.flush = rx[x].flush
      BY Zenon, <1>7
    <3> QED BY <1>1, <1>2, <1>3, <1>8, <3>1, <3>2
  <2> QED BY Zenon, <2>1, <2>2
<1>11. h.freed <= h.got /\ r.queued = h.got - h.freed
  BY Zenon, <1>2, <1>7, <1>8
<1>12. Between(r.queue, "data", h.freed, h.got)
  BY Zenon, <1>2, <1>7, <1>8
<1> QED BY Zenon, <1>1, <1>4, <1>6, <1>7, <1>8, <1>9, <1>10, <1>11, <1>12, DataMoves

\* Arriving payload is queued, dropped, or aborts the stream.
LEMMA ReceiveDataKeeps ==
    ASSUME FlowInv, NEW x, NEW y, Ends(x, y), ReceiveData(x)
    PROVE  StateOK' /\ Link(x, y)' /\ Link(y, x)'
<1>1. Peer(x) = y /\ Incoming(x, {"data"}) /\ Consume(x)
  BY Zenon DEF Ends, ReceiveData
<1>2. CASE Queue(x, Size(Head(net[y])))
  BY Zenon, <1>1, <1>2, QueueKeeps
<1>3. CASE Drop(x, Size(Head(net[y])))
  BY Zenon, <1>1, <1>3, DropKeeps
<1>4. CASE Abort(x)
  BY Zenon, <1>1, <1>4, AbortShape, ConsumeShrinks, CloseMoves
<1> QED BY Zenon, <1>1, <1>2, <1>3, <1>4 DEF ReceiveData

\* A WINDOW_UPDATE carries the credit that the flusher took.
LEMMA WriteCreditKeeps ==
    ASSUME FlowInv, NEW x, NEW y, Ends(x, y), WriteCredit(x)
    PROVE  StateOK' /\ Link(x, y)' /\ Link(y, x)'
<1>1. StateOK /\ Link(x, y) /\ Link(y, x) /\ x \in Side /\ y \in Side /\ x # y
  BY Zenon DEF FlowInv, Ends
<1>2. /\ rx[x] \in RxState /\ seen[x] \in Seen /\ seen[y] \in Seen
      /\ rx \in [Side -> RxState] /\ seen \in [Side -> Seen] /\ net[x] \in Seq(Frame)
  BY Zenon, <1>1 DEF StateOK
<1>3. /\ rx[x].flush \in Nat /\ rx[x].flush > 0 /\ rx[x].pending \in Nat
      /\ seen[x].announced \in Nat /\ seen[x].returned \in Nat /\ seen[y].acked \in Nat
      /\ seen[y].acked <= seen[x].announced
      /\ seen[x].announced + rx[x].flush + rx[x].pending <= seen[x].returned
  <2>1. rx[x].flush \in Nat /\ rx[x].pending \in Nat
    BY Zenon, <1>2 DEF RxState
  <2>2. seen[x].announced \in Nat /\ seen[x].returned \in Nat /\ seen[y].acked \in Nat
    BY Zenon, <1>2 DEF Seen
  <2> QED BY Zenon, <1>1, <2>1, <2>2 DEF Link, ChainOK, WriteCredit
<1>4. PICK at \in Nat, m \in Nat, z \in Nat :
         at = seen[x].announced /\ m = seen[x].announced + rx[x].flush /\ z = 0
  BY <1>3
<1>5. PICK f \in Frame : f = Credit(at, m)
  BY Zenon DEF Credit, Frame
<1>6. f.type = "window" /\ f.from = at /\ f.to = m
  BY Zenon, <1>5 DEF Credit
<1>7. Write(x, f) /\ UNCHANGED <<down, open, done, tx>>
  BY Zenon, <1>4, <1>5 DEF WriteCredit
<1>8. /\ net' \in [Side -> Seq(Frame)] /\ net'[y] = net[y]
      /\ net'[x] = net[x] \/ net'[x] = Append(net[x], f)
  BY Zenon, <1>1, <1>7, WriteAppends
<1>9. rx' = [rx EXCEPT ![x].flush = z] /\ seen' = [seen EXCEPT ![x].announced = m]
  BY Zenon, <1>4 DEF WriteCredit
<1>10. /\ rx' \in [Side -> RxState] /\ rx'[y] = rx[y] /\ rx'[x].flush = z
       /\ rx'[x].pending = rx[x].pending /\ rx'[x].queue = rx[x].queue
       /\ rx'[x].queued = rx[x].queued
  BY Zenon, <1>1, <1>2, <1>9 DEF RxState
<1>11. /\ seen' \in [Side -> Seen] /\ seen'[y] = seen[y] /\ seen'[x].announced = m
       /\ seen'[x].sent = seen[x].sent /\ seen'[x].acked = seen[x].acked
       /\ seen'[x].got = seen[x].got /\ seen'[x].dropped = seen[x].dropped
       /\ seen'[x].freed = seen[x].freed /\ seen'[x].returned = seen[x].returned
  BY Zenon, <1>1, <1>2, <1>9 DEF Seen
<1>12. StateOK'
  BY Zenon, <1>1, <1>7, <1>8, <1>10, <1>11 DEF StateOK
<1>13. SenderOK(x)' /\ SenderOK(y)' /\ ChainOK(x, y)'
  BY Zenon, <1>1, <1>7, <1>10, <1>11 DEF Link, SenderOK, ChainOK
<1>14. seen[y].acked <= m /\ m + z + rx[x].pending <= seen[x].returned
  <2>1. seen[y].acked <= m
    BY <1>3, <1>4
  <2>2. m + z + rx[x].pending = seen[x].announced + rx[x].flush + rx[x].pending
    BY <1>3, <1>4
  <2> QED BY Zenon, <1>3, <2>1, <2>2
<1>15. ChainOK(y, x)'
  BY Zenon, <1>1, <1>10, <1>11, <1>14 DEF Link, ChainOK
<1>16. Between(net'[x], "data", seen[y].got + seen[y].dropped, seen[x].sent)
  BY Zenon, <1>1, <1>2, <1>6, <1>8, BetweenAppendOther DEF Link
<1>17. Between(net'[x], "window", seen[y].acked, m)
  <2>1. Between(net[x], "window", seen[y].acked, at)
    BY Zenon, <1>1, <1>4 DEF Link
  <2>2. at <= m /\ at < m /\ seen[y].acked <= at
    BY <1>3, <1>4
  <2>3. Between(net[x], "window", seen[y].acked, m)
    BY Zenon, <1>2, <1>3, <2>1, <2>2, BetweenWider
  <2>4. Between(Append(net[x], f), "window", seen[y].acked, m)
    BY Zenon, <1>2, <1>3, <1>6, <2>1, <2>2, BetweenAppend
  <2> QED BY Zenon, <1>8, <2>3, <2>4
<1> QED BY Zenon, <1>1, <1>8, <1>10, <1>11, <1>12, <1>13, <1>15, <1>16, <1>17 DEF Link

\* An update under way is positive and not more than the credit that x lacks.
LEMMA UpdateSize ==
    ASSUME FlowInv, NEW x, NEW y, Ends(x, y), Incoming(x, {"window"})
    PROVE  /\ Size(Head(net[y])) \in Nat /\ Size(Head(net[y])) > 0
           /\ seen[x].acked + Size(Head(net[y])) <= seen[y].announced
           /\ Size(Head(net[y])) <= Window - tx[x].credit
           /\ Between(Tail(net[y]), "window", seen[x].acked + Size(Head(net[y])),
                      seen[y].announced)
<1>1. /\ StateOK /\ Link(x, y) /\ net[y] \in Seq(Frame) /\ net[y] # << >>
      /\ Head(net[y]).type = "window"
  BY Zenon DEF FlowInv, Ends, StateOK, Incoming
<1>2. seen[x] \in Seen /\ seen[y] \in Seen /\ tx[x] \in TxState /\ rx[y] \in RxState
  BY Zenon, <1>1 DEF Ends, StateOK
<1>3. /\ seen[x].acked \in Nat /\ seen[x].sent \in Nat
      /\ seen[y].announced \in Nat /\ seen[y].returned \in Nat /\ seen[y].freed \in Nat
      /\ seen[y].dropped \in Nat /\ seen[y].got \in Nat
  BY Zenon, <1>2 DEF Seen
<1>4. tx[x].credit \in Nat /\ tx[x].n \in Nat
  BY Zenon, <1>2 DEF TxState
<1>5. rx[y].flush \in Nat /\ rx[y].pending \in Nat
  BY Zenon, <1>2 DEF RxState
<1>6. seen[y].announced <= seen[x].sent
  <2>1. /\ seen[y].announced + rx[y].flush + rx[y].pending <= seen[y].returned
        /\ seen[y].returned <= seen[y].freed + seen[y].dropped
        /\ seen[y].freed <= seen[y].got
        /\ seen[y].got + seen[y].dropped <= seen[x].sent
    BY Zenon, <1>1 DEF Link, ChainOK
  <2>2. seen[y].announced <= seen[y].returned
    BY <1>3, <1>5, <2>1
  <2> QED BY <1>3, <2>1, <2>2
<1>7. /\ Head(net[y]).from \in Nat /\ Head(net[y]).to \in Nat
      /\ seen[x].acked <= Head(net[y]).from
      /\ Head(net[y]).from < Head(net[y]).to /\ Head(net[y]).to <= seen[y].announced
      /\ Between(Tail(net[y]), "window", seen[x].acked + Size(Head(net[y])), seen[y].announced)
  BY Zenon, <1>1, <1>3, BetweenTail DEF Link
<1>8. tx[x].credit + tx[x].n + seen[x].sent = Window + seen[x].acked /\ Window \in Nat
  BY Zenon, <1>1, FlowAssumption DEF Link, SenderOK
<1>9. PICK n \in Nat : n = Size(Head(net[y])) /\ n > 0 /\ seen[x].acked + n <= seen[y].announced
  BY <1>3, <1>7 DEF Size
<1>10. n <= Window - tx[x].credit
  BY <1>3, <1>4, <1>6, <1>8, <1>9
<1> QED BY Zenon, <1>7, <1>9, <1>10

\* addSendCredit adds an update to the credit.
LEMMA ReceiveCreditKeeps ==
    ASSUME FlowInv, NEW x, NEW y, Ends(x, y), ReceiveCredit(x)
    PROVE  StateOK' /\ Link(x, y)' /\ Link(y, x)'
<1>1. Peer(x) = y /\ Incoming(x, {"window"}) /\ Consume(x)
  BY Zenon DEF Ends, ReceiveCredit
<1>2. CASE Abort(x)
  BY Zenon, <1>1, <1>2, AbortShape, ConsumeShrinks, CloseMoves
<1>3. CASE UNCHANGED <<open, done, tx, rx, seen>>
  <2>1. SameSender(x, y) /\ ReadCloses(x)
    BY Zenon, <1>3, SameShape DEF ReadCloses
  <2>2. open' \in [Side -> BOOLEAN] /\ done' \in [Side -> BOOLEAN]
    BY Zenon, <1>3 DEF FlowInv, StateOK
  <2> QED BY Zenon, <1>1, <2>1, <2>2, ConsumeShrinks, CloseMoves
<1>4. ASSUME NEW n, n = Size(Head(net[y])),
             tx' = [tx EXCEPT ![x].credit = @ + n, ![x].tok = TRUE],
             seen' = [seen EXCEPT ![x].acked = @ + n], UNCHANGED <<open, done, rx>>
      PROVE  StateOK' /\ Link(x, y)' /\ Link(y, x)'
  <2>1. StateOK /\ Link(x, y) /\ Link(y, x) /\ x \in Side /\ y \in Side /\ x # y
    BY Zenon DEF FlowInv, Ends
  <2>2. /\ n \in Nat /\ seen[x].acked + n <= seen[y].announced
        /\ Between(Tail(net[y]), "window", seen[x].acked + n, seen[y].announced)
    BY Zenon, <1>1, <1>4, UpdateSize
  <2>3. /\ tx \in [Side -> TxState] /\ seen \in [Side -> Seen]
        /\ tx[x].credit \in Nat /\ tx[x].n \in Nat /\ seen[x].acked \in Nat
        /\ seen[x].sent \in Nat /\ seen[x].got + seen[x].dropped \in Nat
        /\ seen[y].sent \in Nat
    <3>1. /\ tx \in [Side -> TxState] /\ seen \in [Side -> Seen]
          /\ tx[x] \in TxState /\ seen[x] \in Seen /\ seen[y] \in Seen
      BY Zenon, <2>1 DEF StateOK
    <3>2. tx[x].credit \in Nat /\ tx[x].n \in Nat
      BY Zenon, <3>1 DEF TxState
    <3>3. /\ seen[x].acked \in Nat /\ seen[x].sent \in Nat /\ seen[y].sent \in Nat
          /\ seen[x].got + seen[x].dropped \in Nat
      BY <3>1 DEF Seen
    <3> QED BY Zenon, <3>1, <3>2, <3>3
  <2>4. PICK c \in Nat, a \in Nat : c = tx[x].credit + n /\ a = seen[x].acked + n
    BY <2>2, <2>3
  <2>5. tx' = [tx EXCEPT ![x].credit = c, ![x].tok = TRUE] /\ seen' = [seen EXCEPT ![x].acked = a]
    BY Zenon, <1>4, <2>4
  <2>6. /\ tx' \in [Side -> TxState] /\ tx'[y] = tx[y] /\ tx'[x].credit = c
        /\ tx'[x].n = tx[x].n /\ tx'[x].pc = tx[x].pc /\ tx'[x].want = tx[x].want
    BY ZenonT(30), <2>1, <2>3, <2>5 DEF TxState
  <2>7. /\ seen' \in [Side -> Seen] /\ seen'[y] = seen[y] /\ seen'[x].acked = a
        /\ seen'[x].sent = seen[x].sent /\ seen'[x].announced = seen[x].announced
        /\ seen'[x].got = seen[x].got /\ seen'[x].dropped = seen[x].dropped
        /\ seen'[x].freed = seen[x].freed /\ seen'[x].returned = seen[x].returned
    BY Zenon, <2>1, <2>3, <2>5 DEF Seen
  <2>8. /\ net[y] \in Seq(Frame) /\ net[y] # << >> /\ net' \in [Side -> Seq(Frame)]
        /\ net'[x] = net[x] /\ net'[y] = Tail(net[y]) /\ down' = down
    BY Zenon, <1>1, <2>1, ConsumeTail
  <2>9. StateOK'
    BY Zenon, <1>4, <2>1, <2>6, <2>7, <2>8 DEF StateOK
  <2>10. tx[x].credit + tx[x].n + seen[x].sent = Window + seen[x].acked /\ Window \in Nat
    BY Zenon, <2>1, FlowAssumption DEF Link, SenderOK
  <2>11. c + tx[x].n + seen[x].sent = Window + a
    BY <2>2, <2>3, <2>4, <2>10
  <2>12. SenderOK(x)'
    BY Zenon, <2>1, <2>6, <2>7, <2>11 DEF Link, SenderOK
  <2>13. SenderOK(y)' /\ ChainOK(y, x)'
    BY Zenon, <1>4, <2>1, <2>6, <2>7 DEF Link, SenderOK, ChainOK
  <2>14. ChainOK(x, y)'
    BY Zenon, <1>4, <2>1, <2>2, <2>4, <2>7 DEF Link, ChainOK
  <2>15. Between(Tail(net[y]), "data", seen[x].got + seen[x].dropped, seen[y].sent)
    BY Zenon, <2>1, <2>3, <2>8, BetweenTail DEF Link
  <2> QED BY ZenonT(30), <1>4, <2>1, <2>2, <2>4, <2>7, <2>8, <2>9, <2>12, <2>13, <2>14, <2>15 DEF Link
<1> QED BY Zenon, <1>1, <1>2, <1>3, <1>4 DEF ReceiveCredit

-----------------------------------------------------------------------------
(* Theorems *)

\* Every step keeps the invariant.
LEMMA FlowNext == FlowInv /\ [Next]_vars => FlowInv'
<1> SUFFICES ASSUME FlowInv, [Next]_vars PROVE FlowInv'
  BY Zenon
<1>1. CASE UNCHANGED vars
  <2>1. StateOK'
    BY Zenon, <1>1 DEF FlowInv, StateOK, vars
  <2>2. ASSUME NEW x \in Side PROVE Link(x, Peer(x))'
    BY Zenon, <1>1 DEF FlowInv, Link, SenderOK, ChainOK, vars
  <2> QED BY Zenon, <2>1, <2>2 DEF FlowInv
<1>2. CASE Next
  <2>1. PICK x \in Side :
           \/ \E n \in 1..Budget[x] : StartWrite(x, n)
           \/ Goroutines(x)
           \/ CloseWrite(x) \/ CloseStream(x) \/ ConnDown(x)
    BY Zenon, <1>2 DEF Next
  <2>2. PICK y : y = Peer(x)
    BY Zenon
  <2>3. Ends(x, y)
    BY Zenon, <2>2, TwoEnds
  <2>4. SUFFICES StateOK' /\ Link(x, y)' /\ Link(y, x)'
    BY Zenon, <2>3 DEF FlowInv, Ends
  <2>5. CASE \E n \in 1..Budget[x] : StartWrite(x, n)
    <3>1. PICK n \in 1..Budget[x] : StartWrite(x, n)
      BY Zenon, <2>5
    <3>2. n \in Nat
      BY FlowAssumption
    <3> QED BY Zenon, <2>3, <3>1, <3>2, StartWriteKeeps
  <2>6. CASE Goroutines(x)
    <3>1. CASE TakeSendCredit(x)
      BY Zenon, <2>3, <3>1, TakeSendCreditKeeps
    <3>2. CASE WaitCredit(x)
      BY ZenonT(30), <2>3, <3>2, WaitCreditKeeps
    <3>3. CASE WriteData(x)
      BY Zenon, <2>3, <3>3, WriteDataKeeps
    <3>4. CASE SendClose(x)
      BY Zenon, <2>3, <3>4, SendCloseKeeps
    <3>5. CASE TakePending(x)
      BY Zenon, <2>3, <3>5, TakePendingKeeps
    <3>6. CASE WriteCredit(x)
      BY Zenon, <2>3, <3>6, WriteCreditKeeps
    <3>7. CASE ReceiveLate(x)
      BY Zenon, <2>3, <3>7, ReceiveLateKeeps
    <3>8. CASE ReceiveData(x)
      BY Zenon, <2>3, <3>8, ReceiveDataKeeps
    <3>9. CASE ReceiveFin(x)
      BY Zenon, <2>3, <3>9, ReceiveFinKeeps
    <3>10. CASE ReceiveClose(x)
      BY Zenon, <2>3, <3>10, ReceiveCloseKeeps
    <3>11. CASE ReceiveCredit(x)
      BY Zenon, <2>3, <3>11, ReceiveCreditKeeps
    <3>12. CASE Read(x)
      BY Zenon, <2>3, <3>12, ReadKeeps
    <3>13. CASE ReadNothing(x) \/ WaitRead(x)
      BY ZenonT(30), <2>3, <3>13, ReadWaitKeeps
    <3> QED BY ZenonT(30), <2>6, <3>1, <3>2, <3>3, <3>4, <3>5, <3>6, <3>7, <3>8, <3>9, <3>10, <3>11,
               <3>12, <3>13 DEF Goroutines
  <2>7. CASE CloseWrite(x)
    BY Zenon, <2>3, <2>7, CloseWriteKeeps
  <2>8. CASE CloseStream(x)
    BY Zenon, <2>3, <2>8, CloseStreamKeeps
  <2>9. CASE ConnDown(x)
    BY Zenon, <2>3, <2>9, ConnDownKeeps
  <2> QED BY Zenon, <2>1, <2>5, <2>6, <2>7, <2>8, <2>9
<1> QED BY Zenon, <1>1, <1>2

\* The positions and accounts of both directions always agree.
THEOREM FlowCorrect == Spec => []FlowInv
BY FlowInit, FlowNext, PTL DEF Spec

\* The window bounds what arrives: credit the sender lacks covers the queue and the
\* payload under way.
LEMMA InvFits == FlowInv => ReceiverNeverOverrun
<1> SUFFICES ASSUME FlowInv, NEW x \in Side, Incoming(x, {"data"})
             PROVE  Size(Head(net[Peer(x)])) <= Window - rx[x].queued
  BY Zenon DEF ReceiverNeverOverrun
<1>1. PICK y : y = Peer(x) /\ Ends(x, y) /\ Ends(y, x)
  BY Zenon, TwoEnds DEF Ends
<1>2. PICK n \in Nat : n = Size(Head(net[y])) /\ n > 0
                       /\ seen[x].got + seen[x].dropped + n <= seen[y].sent
  BY Zenon, <1>1, DataSize
<1>3. /\ seen[x].announced + rx[x].flush + rx[x].pending <= seen[x].returned
      /\ seen[x].returned <= seen[x].freed + seen[x].dropped
      /\ rx[x].queued = seen[x].got - seen[x].freed
      /\ seen[x].announced \in Nat /\ seen[x].returned \in Nat /\ seen[x].freed \in Nat
      /\ seen[x].dropped \in Nat /\ seen[x].got \in Nat
      /\ rx[x].flush \in Nat /\ rx[x].pending \in Nat
  BY Zenon, <1>1, Accounts
<1>4. seen[y].sent \in Nat /\ seen[y].acked \in Nat /\ tx[y] \in TxState
  BY Zenon, <1>1, Accounts
<1>5. tx[y].credit \in Nat /\ tx[y].n \in Nat /\ Window \in Nat
  BY Zenon, <1>4, FlowAssumption DEF TxState
<1>6. /\ tx[y].credit + tx[y].n + seen[y].sent = Window + seen[y].acked
      /\ seen[y].acked <= seen[x].announced
  BY ZenonT(30), <1>1 DEF FlowInv, Ends, Link, SenderOK, ChainOK
<1>7. seen[y].acked <= seen[x].freed + seen[x].dropped
  <2>1. seen[x].announced <= seen[x].returned
    BY <1>3
  <2>2. seen[x].announced <= seen[x].freed + seen[x].dropped
    BY <1>3, <2>1
  <2> QED BY <1>3, <1>4, <1>6, <2>2
<1>8. seen[y].sent <= Window + seen[y].acked
  BY <1>4, <1>5, <1>6
<1>9. n <= Window - rx[x].queued
  BY <1>2, <1>3, <1>4, <1>5, <1>7, <1>8
<1> QED BY Zenon, <1>1, <1>2, <1>9

\* Types of TunnelFlow.
THEOREM FlowTypes == Spec => []TypeOK
<1> DEFINE Named == transport \in {"tcp", "udp"}
<1>1. Init => Named
  BY Zenon DEF Init
<1>2. Named /\ [Next]_vars => Named'
  BY Zenon DEF Next, vars
<1>3. FlowInv /\ Named => TypeOK
  BY Zenon DEF FlowInv, TypeOK
<1> HIDE DEF Named
<1> QED BY <1>1, <1>2, <1>3, FlowCorrect, PTL DEF Spec

\* queuePayload never refuses a payload for its bytes: for every window, frame size
\* and amount of payload, over TCP and UDP.
THEOREM ReceiverIsNeverOverrun == Spec => []ReceiverNeverOverrun
BY InvFits, FlowCorrect, PTL

\* addSendCredit never refuses an update.
THEOREM CreditIsNeverInflated == Spec => []CreditNeverInflated
<1>1. FlowInv => CreditNeverInflated
  <2> SUFFICES ASSUME FlowInv, NEW x \in Side, Incoming(x, {"window"})
               PROVE  Size(Head(net[Peer(x)])) \in 1..(Window - tx[x].credit)
    BY Zenon DEF CreditNeverInflated
  <2>1. PICK n \in Nat : n = Size(Head(net[Peer(x)])) /\ n > 0 /\ n <= Window - tx[x].credit
    BY Zenon, TwoEnds, UpdateSize
  <2>2. tx[x].credit \in Nat /\ Window \in Nat
    BY Zenon, FlowAssumption DEF FlowInv, StateOK, TxState
  <2> QED BY <2>1, <2>2
<1> QED BY <1>1, FlowCorrect, PTL

-----------------------------------------------------------------------------
(* End of file *)

\* A frame that ends the payload of its sender.
Ending(f) == f.type \in {"fin", "close"}
Ended(s) == \E i \in DOMAIN s : Ending(s[i])

\* Every position from lo up to hi lies in a payload of the sequence.
Covered(s, lo, hi) ==
    \A p \in Nat : lo <= p /\ p < hi =>
        \E i \in DOMAIN s : s[i].type = "data" /\ s[i].from <= p /\ p < s[i].to

\* What an end x that closed or lost something says of itself.
SelfOK(x) ==
    /\ done[x] => rx[x].closed
    /\ ~open[x] \/ down[x] \/ seen[x].dropped # 0 => seen[x].lost
    /\ tx[x].closing => tx[x].closed
    /\ rx[x].pc = "eof" => rx[x].closed /\ rx[x].queue = << >>
    /\ ~seen[x].lost => seen[x].read = seen[x].freed
    /\ Covered(rx[x].queue, seen[x].freed, seen[x].got)

\* An end of payload, under way or taken in, is the last thing that y sends; until x
\* has it the payload under way is all of what y sent and x has not taken in.
EofOK(x, y) ==
    /\ Ended(net[y]) \/ (rx[x].closed /\ ~seen[x].lost) => tx[y].closed /\ tx[y].pc = "idle"
    /\ \A i, j \in DOMAIN net[y] : i < j /\ Ending(net[y][i]) => net[y][j].type # "data"
    /\ ~seen[x].lost /\ ~rx[x].closed /\ (~down[y] \/ Ended(net[y]))
         => Covered(net[y], seen[x].got, seen[y].sent)
    /\ ~seen[x].lost /\ rx[x].closed => seen[x].got = seen[y].sent

EofInv == transport = "tcp" => \A x \in Side : SelfOK(x) /\ EofOK(x, Peer(x))

\* Nothing is covered where nothing is.
LEMMA CoveredEmpty ==
    ASSUME NEW lo \in Nat
    PROVE  Covered(<< >>, lo, lo)
BY DEF Covered

\* More frames cover more.
LEMMA CoveredAppendAny ==
    ASSUME NEW s \in Seq(Frame), NEW e \in Frame, NEW lo, NEW hi, Covered(s, lo, hi)
    PROVE  Covered(Append(s, e), lo, hi)
<1>1. \A i \in DOMAIN s : i \in DOMAIN Append(s, e) /\ Append(s, e)[i] = s[i]
  OBVIOUS
<1> QED BY Zenon, <1>1 DEF Covered

\* A payload at the upper position moves it to its end.
LEMMA CoveredAppend ==
    ASSUME NEW s \in Seq(Frame), NEW e \in Frame, NEW lo \in Nat, NEW hi \in Nat,
           e.type = "data", e.from = hi, Covered(s, lo, hi)
    PROVE  Covered(Append(s, e), lo, e.to)
<1>1. /\ \A i \in DOMAIN s : i \in DOMAIN Append(s, e) /\ Append(s, e)[i] = s[i]
      /\ Len(s) + 1 \in DOMAIN Append(s, e) /\ Append(s, e)[Len(s) + 1] = e
  OBVIOUS
<1>2. e.to \in Nat
  BY Zenon, FramePosition
<1> SUFFICES ASSUME NEW p \in Nat, lo <= p, p < e.to
             PROVE  \E i \in DOMAIN Append(s, e) :
                       Append(s, e)[i].type = "data" /\ Append(s, e)[i].from <= p /\ p < Append(s, e)[i].to
  BY Zenon DEF Covered
<1>3. CASE p < hi
  BY Zenon, <1>1, <1>3 DEF Covered
<1>4. CASE ~(p < hi)
  <2>1. e.from <= p /\ p < e.to
    BY <1>4
  <2> QED BY Zenon, <1>1, <2>1
<1> QED BY Zenon, <1>3, <1>4

\* Without its first frame a sequence covers what it covered, without that payload.
LEMMA CoveredTail ==
    ASSUME NEW s \in Seq(Frame), NEW lo \in Nat, NEW hi \in Nat, s # << >>,
           Between(s, "data", lo, hi), Covered(s, lo, hi)
    PROVE  /\ Head(s).type # "data" => Covered(Tail(s), lo, hi)
           /\ Head(s).type = "data" => Covered(Tail(s), lo + Size(Head(s)), hi)
<1>1. /\ 1 \in DOMAIN s /\ Head(s) = s[1] /\ Head(s) \in Frame
      /\ \A i \in DOMAIN s : i \in Nat /\ i >= 1 /\ s[i] \in Frame
      /\ \A i \in DOMAIN s : i # 1 => i - 1 \in DOMAIN Tail(s) /\ Tail(s)[i - 1] = s[i]
  OBVIOUS
<1>2. \A i \in DOMAIN s : s[i].type = "data" => s[i].from \in Nat /\ s[i].to \in Nat
  BY Zenon, <1>1, FramePosition
<1>3. CASE Head(s).type # "data"
  <2>1. \A i \in DOMAIN s : s[i].type = "data" => i - 1 \in DOMAIN Tail(s) /\ Tail(s)[i - 1] = s[i]
    BY Zenon, <1>1, <1>3
  <2> QED BY ZenonT(30), <1>3, <2>1 DEF Covered
<1>4. CASE Head(s).type = "data"
  <2>1. PICK a \in Nat, b \in Nat : a = Head(s).from /\ b = Head(s).to
    BY Zenon, <1>1, <1>2, <1>4
  <2>2. lo <= a /\ a < b /\ b <= hi
    BY Zenon, <1>1, <1>4, <2>1 DEF Between
  <2>3. \A i \in DOMAIN s : i # 1 /\ s[i].type = "data" => b <= s[i].from
    BY <1>1, <1>4, <2>1 DEF Between
  <2>4. a = lo
    <3>1. PICK i \in DOMAIN s : s[i].type = "data" /\ s[i].from <= lo /\ lo < s[i].to
      BY <2>2 DEF Covered
    <3>2. i = 1
      BY <1>2, <2>2, <2>3, <3>1
    <3> QED BY <1>1, <2>1, <2>2, <3>1, <3>2
  <2>5. lo + Size(Head(s)) = b
    BY <2>1, <2>4 DEF Size
  <2>6. ASSUME NEW p \in Nat, b <= p, p < hi
        PROVE  \E i \in DOMAIN Tail(s) : Tail(s)[i].type = "data" /\ Tail(s)[i].from <= p /\ p < Tail(s)[i].to
    <3>1. PICK i \in DOMAIN s : s[i].type = "data" /\ s[i].from <= p /\ p < s[i].to
      BY <2>2, <2>6 DEF Covered
    <3>2. i # 1
      BY <1>1, <2>1, <2>6, <3>1
    <3> QED BY Zenon, <1>1, <3>1, <3>2
  <2> QED BY Zenon, <1>4, <2>5, <2>6 DEF Covered
<1> QED BY Zenon, <1>3, <1>4

\* Without payload a sequence covers nothing.
LEMMA CoveredNone ==
    ASSUME NEW s, NEW lo \in Nat, NEW hi \in Nat, Covered(s, lo, hi),
           \A i \in DOMAIN s : s[i].type # "data"
    PROVE  hi <= lo
BY DEF Covered

\* What an end looks like in the invariants.
LEMMA EofView ==
    ASSUME FlowInv, EofInv, transport = "tcp", NEW x, NEW y, Ends(x, y)
    PROVE  /\ x \in Side /\ y \in Side /\ x # y
           /\ SelfOK(x) /\ SelfOK(y) /\ EofOK(x, y) /\ EofOK(y, x)
           /\ Link(x, y) /\ Link(y, x)
           /\ tx \in [Side -> TxState] /\ rx \in [Side -> RxState] /\ seen \in [Side -> Seen]
           /\ net \in [Side -> Seq(Frame)] /\ net[x] \in Seq(Frame) /\ net[y] \in Seq(Frame)
           /\ seen[x].got \in Nat /\ seen[x].freed \in Nat /\ seen[x].sent \in Nat /\ seen[x].dropped \in Nat
           /\ seen[y].got \in Nat /\ seen[y].sent \in Nat /\ seen[x].read \in Nat
           /\ rx[x].queue \in Seq(Frame)
           /\ down \in [Side -> BOOLEAN] /\ open \in [Side -> BOOLEAN] /\ done \in [Side -> BOOLEAN]
<1>1. StateOK /\ x \in Side /\ y \in Side /\ x # y /\ Peer(x) = y /\ Peer(y) = x
  BY Zenon DEF FlowInv, Ends
<1>2. SelfOK(x) /\ SelfOK(y) /\ EofOK(x, y) /\ EofOK(y, x)
  BY Zenon, <1>1 DEF EofInv
<1>3. Link(x, y) /\ Link(y, x)
  BY Zenon, <1>1 DEF FlowInv
<1>4. seen[x] \in Seen /\ seen[y] \in Seen
  BY Zenon, <1>1 DEF StateOK
<1> QED BY Zenon, <1>1, <1>2, <1>3, <1>4, QueueFrames DEF StateOK, Seen

\* The end y takes no part.
Still(y) ==
    /\ tx'[y] = tx[y] /\ rx'[y] = rx[y] /\ seen'[y] = seen[y]
    /\ down'[y] = down[y] /\ open'[y] = open[y] /\ done'[y] = done[y]

\* What is left to show of a step of x.
LEMMA EofStep ==
    ASSUME FlowInv, EofInv, transport = "tcp", transport' = transport, NEW x, NEW y, Ends(x, y),
           Still(y), SelfOK(x)', EofOK(x, y)', EofOK(y, x)'
    PROVE  EofInv'
<1>1. SelfOK(y)
  BY Zenon, EofView
<1>2. SelfOK(y)'
  BY Zenon, <1>1 DEF SelfOK, Still, Covered
<1> QED BY Zenon, <1>2 DEF EofInv, Ends

\* A receiver that stays as it is, of a sender that stays as it is.
LEMMA EofSame ==
    ASSUME NEW x, NEW y, EofOK(x, y), net'[y] = net[y], rx'[x].closed = rx[x].closed,
           seen'[x].lost = seen[x].lost, seen'[x].got = seen[x].got, seen'[y].sent = seen[y].sent,
           tx'[y].closed = tx[y].closed, tx'[y].pc = tx[y].pc, down'[y] = down[y]
    PROVE  EofOK(x, y)'
<1>1. Ended(net'[y]) \/ (rx'[x].closed /\ ~seen'[x].lost) => tx'[y].closed /\ tx'[y].pc = "idle"
  BY Zenon DEF EofOK
<1>2. \A i, j \in DOMAIN net'[y] : i < j /\ Ending(net'[y][i]) => net'[y][j].type # "data"
  BY Zenon DEF EofOK
<1>3. ~seen'[x].lost /\ ~rx'[x].closed /\ (~down'[y] \/ Ended(net'[y]))
        => Covered(net'[y], seen'[x].got, seen'[y].sent)
  BY Zenon DEF EofOK
<1>4. ~seen'[x].lost /\ rx'[x].closed => seen'[x].got = seen'[y].sent
  BY Zenon DEF EofOK
<1> QED BY Zenon, <1>1, <1>2, <1>3, <1>4 DEF EofOK, Covered, Ended, Ending

\* The payload of a sender that ends nothing and has ended nothing.
LEMMA EofWriter ==
    ASSUME FlowInv, EofInv, transport = "tcp", transport' = transport, NEW x, NEW y, Ends(x, y), Still(y),
           UNCHANGED <<net, down, open, done, rx, seen>>, tx'[x].closed = tx[x].closed,
           tx'[x].closing = tx[x].closing,
           tx[x].closed /\ tx[x].pc = "idle" => tx'[x].pc = "idle"
    PROVE  EofInv'
<1>1. SelfOK(x)'
  BY Zenon, EofView DEF SelfOK, Covered
<1>2. EofOK(x, y)'
  BY Zenon, EofView, EofSame DEF Still
<1>3. EofOK(y, x)'
  <2>1. EofOK(y, x)
    BY Zenon, EofView
  <2>2. Ended(net'[x]) \/ (rx'[y].closed /\ ~seen'[y].lost) => tx'[x].closed /\ tx'[x].pc = "idle"
    BY Zenon, <2>1 DEF EofOK
  <2>3. \A i, j \in DOMAIN net'[x] : i < j /\ Ending(net'[x][i]) => net'[x][j].type # "data"
    BY Zenon, <2>1 DEF EofOK
  <2>4. ~seen'[y].lost /\ ~rx'[y].closed /\ (~down'[x] \/ Ended(net'[x]))
          => Covered(net'[x], seen'[y].got, seen'[x].sent)
    BY Zenon, <2>1 DEF EofOK
  <2>5. ~seen'[y].lost /\ rx'[y].closed => seen'[y].got = seen'[x].sent
    BY Zenon, <2>1 DEF EofOK
  <2> QED BY Zenon, <2>2, <2>3, <2>4, <2>5 DEF EofOK, Covered, Ended, Ending
<1> QED BY Zenon, <1>1, <1>2, <1>3, EofStep

\* A write begins, takes credit, waits.
LEMMA WriterEof ==
    ASSUME FlowInv, EofInv, transport = "tcp", transport' = transport, NEW x, NEW y, Ends(x, y),
           (\E n \in Nat : StartWrite(x, n)) \/ TakeSendCredit(x) \/ WaitCredit(x)
    PROVE  EofInv'
<1>1. x \in Side /\ y \in Side /\ x # y /\ tx \in [Side -> TxState]
  BY Zenon, EofView
<1>2. UNCHANGED <<net, down, open, done, rx, seen>>
  BY Zenon DEF StartWrite, TakeSendCredit, WaitCredit
<1>3. /\ tx'[y] = tx[y] /\ tx'[x].closed = tx[x].closed /\ tx'[x].closing = tx[x].closing
      /\ tx[x].closed /\ tx[x].pc = "idle" => tx'[x].pc = "idle"
  <2>1. CASE \E n \in Nat : StartWrite(x, n)
    <3>1. PICK n \in Nat : StartWrite(x, n)
      BY Zenon, <2>1
    <3>2. tx' = [tx EXCEPT ![x].pc = "credit", ![x].want = n] /\ ~tx[x].closed
      BY Zenon, <3>1 DEF StartWrite
    <3> QED BY Zenon, <1>1, <3>2 DEF TxState
  <2>2. CASE TakeSendCredit(x)
    BY Zenon, <1>1, <2>2 DEF TakeSendCredit, TxState
  <2>3. CASE WaitCredit(x)
    <3>1. CASE tx' = [tx EXCEPT ![x].pc = "credit", ![x].tok = FALSE]
      BY <1>1, <2>3, <3>1 DEF WaitCredit, TxState
    <3>2. CASE tx' = [tx EXCEPT ![x].pc = "idle", ![x].want = 0]
      BY Zenon, <1>1, <3>2 DEF TxState
    <3> QED BY Zenon, <2>3, <3>1, <3>2 DEF WaitCredit
  <2> QED BY Zenon, <2>1, <2>2, <2>3
<1>4. Still(y)
  BY Zenon, <1>2, <1>3 DEF Still
<1> QED BY Zenon, <1>2, <1>3, <1>4, EofWriter

\* Payload goes out at the position where the last one ended.
LEMMA WriteDataEof ==
    ASSUME FlowInv, EofInv, transport = "tcp", transport' = transport, NEW x, NEW y, Ends(x, y),
           WriteData(x)
    PROVE  EofInv'
<1>1. /\ x \in Side /\ y \in Side /\ x # y /\ tx \in [Side -> TxState] /\ seen \in [Side -> Seen]
      /\ net \in [Side -> Seq(Frame)] /\ net[x] \in Seq(Frame)
      /\ SelfOK(x) /\ SelfOK(y) /\ EofOK(x, y) /\ EofOK(y, x)
      /\ seen[x].sent \in Nat /\ seen[y].got \in Nat
  BY Zenon, EofView
<1>2. /\ UNCHANGED <<down, open, done, rx>> /\ tx[x].pc = "frame"
      /\ tx'[y] = tx[y] /\ tx'[x].closed = tx[x].closed /\ tx'[x].closing = tx[x].closing
  BY <1>1 DEF WriteData, TxState
<1>3. PICK n, e : n = tx[x].n /\ e = Data(seen[x].sent, seen[x].sent + n)
  BY Zenon
<1>4. n \in Nat /\ e \in Frame /\ e.type = "data" /\ e.from = seen[x].sent /\ e.to = seen[x].sent + n
  BY <1>1, <1>3 DEF TxState, Data, Frame
<1>5. /\ seen'[y] = seen[y] /\ seen'[x].sent = e.to /\ seen'[x].lost = seen[x].lost /\ seen'[x].got = seen[x].got
      /\ seen'[x].read = seen[x].read /\ seen'[x].freed = seen[x].freed /\ seen'[x].dropped = seen[x].dropped
  BY ZenonT(30), <1>1, <1>3, <1>4 DEF WriteData, Seen
<1>6. /\ net'[y] = net[y] /\ net'[x] = IF down[x] \/ down[y] THEN net[x] ELSE Append(net[x], e)
  BY Zenon, <1>1, <1>3 DEF WriteData, Write, Ends
<1>7. Still(y)
  BY Zenon, <1>2, <1>5 DEF Still
<1>8. SelfOK(x)'
  BY Zenon, <1>1, <1>2, <1>5 DEF SelfOK, Covered
<1>9. EofOK(x, y)'
  BY Zenon, <1>1, <1>2, <1>5, <1>6, EofSame
<1>10. ~Ended(net[x]) /\ ~(rx[y].closed /\ ~seen[y].lost)
  BY Zenon, <1>1, <1>2 DEF EofOK
<1>11. ~Ended(net'[x])
  BY <1>1, <1>4, <1>6, <1>10, AppendAdds DEF Ended, Ending
<1>12. ~seen[y].lost /\ ~rx[y].closed /\ ~down[x] => Covered(net'[x], seen[y].got, seen'[x].sent)
  <2> SUFFICES ASSUME ~seen[y].lost, ~rx[y].closed, ~down[x]
               PROVE  Covered(net'[x], seen[y].got, e.to)
    BY Zenon, <1>5
  <2>1. ~down[y] /\ Covered(net[x], seen[y].got, seen[x].sent)
    BY Zenon, <1>1 DEF EofOK, SelfOK
  <2> QED BY Zenon, <1>1, <1>4, <1>6, <2>1, CoveredAppend
<1>13. EofOK(y, x)'
  <2>1. \A i \in DOMAIN net'[x] : ~Ending(net'[x][i])
    BY Zenon, <1>11 DEF Ended
  <2> QED BY ZenonT(30), <1>2, <1>5, <1>10, <1>11, <1>12, <2>1 DEF EofOK, Ended, Ending, Covered
<1> QED BY Zenon, <1>7, <1>8, <1>9, <1>13, EofStep

\* The end of payload goes out behind it.
LEMMA EndEof ==
    ASSUME FlowInv, EofInv, transport = "tcp", transport' = transport, NEW x, NEW y, Ends(x, y),
           SendClose(x) \/ CloseWrite(x)
    PROVE  EofInv'
<1>1. /\ x \in Side /\ y \in Side /\ x # y /\ tx \in [Side -> TxState]
      /\ net \in [Side -> Seq(Frame)] /\ net[x] \in Seq(Frame)
      /\ SelfOK(x) /\ SelfOK(y) /\ EofOK(x, y) /\ EofOK(y, x)
  BY Zenon, EofView
<1>2. /\ UNCHANGED <<down, open, done, rx, seen>> /\ tx[x].pc = "idle" /\ tx'[x].pc = "idle"
      /\ tx'[y] = tx[y] /\ tx'[x].closed /\ (tx'[x].closing => tx[x].closing)
  <2>1. CASE SendClose(x)
    <3>1. tx[x].closed = TRUE
      BY Zenon, <1>1, <2>1 DEF SendClose, SelfOK, TxState
    <3>2. tx' = [tx EXCEPT ![x].closing = FALSE] /\ tx[x].pc = "idle" /\ UNCHANGED <<down, open, done, rx, seen>>
      BY Zenon, <2>1 DEF SendClose
    <3> QED BY Zenon, <1>1, <3>1, <3>2 DEF TxState
  <2>2. CASE CloseWrite(x)
    <3>1. /\ tx' = [tx EXCEPT ![x].closed = TRUE, ![x].fin = TRUE] /\ tx[x].pc = "idle"
          /\ UNCHANGED <<down, open, done, rx, seen>>
      BY Zenon, <2>2 DEF CloseWrite
    <3> QED BY Zenon, <1>1, <3>1 DEF TxState
  <2> QED BY Zenon, <2>1, <2>2
<1>3. PICK e \in {Fin, Close} : Write(x, e)
  BY Zenon DEF SendClose, CloseWrite
<1>4. e \in Frame /\ Ending(e) /\ e.type # "data"
  BY DEF Fin, Close, Frame, Ending
<1>5. net'[y] = net[y] /\ net'[x] = IF down[x] \/ down[y] THEN net[x] ELSE Append(net[x], e)
  BY Zenon, <1>1, <1>3 DEF Write, Ends
<1>6. Still(y)
  BY Zenon, <1>2 DEF Still
<1>7. SelfOK(x)'
  BY Zenon, <1>1, <1>2 DEF SelfOK, Covered
<1>8. EofOK(x, y)'
  BY Zenon, <1>1, <1>2, <1>5, EofSame
<1>9. EofOK(y, x)'
  <2>1. \A i, j \in DOMAIN net'[x] : i < j /\ Ending(net'[x][i]) => net'[x][j].type # "data"
    <3>1. CASE net'[x] = net[x]
      BY Zenon, <1>1, <3>1 DEF EofOK
    <3>2. CASE net'[x] = Append(net[x], e)
      <4> SUFFICES ASSUME NEW i \in DOMAIN net'[x], NEW j \in DOMAIN net'[x], i < j, Ending(net'[x][i]),
                          net'[x][j].type = "data"
                   PROVE  FALSE
        BY Zenon
      <4>1. j \in DOMAIN net[x] /\ net'[x][j] = net[x][j]
        BY <1>1, <1>4, <3>2, AppendAdds
      <4>2. i \in DOMAIN net[x] /\ net'[x][i] = net[x][i]
        BY <1>1, <1>4, <3>2, <4>1, AppendAdds
      <4> QED BY Zenon, <1>1, <4>1, <4>2 DEF EofOK
    <3> QED BY Zenon, <1>5, <3>1, <3>2
  <2>2. ~seen[y].lost /\ ~rx[y].closed /\ (~down[x] \/ Ended(net'[x]))
          => Covered(net'[x], seen[y].got, seen[x].sent)
    <3>1. CASE net'[x] = net[x]
      BY Zenon, <1>1, <3>1 DEF EofOK
    <3>2. CASE net'[x] = Append(net[x], e) /\ ~down[x]
      BY Zenon, <1>1, <1>4, <3>2, CoveredAppendAny DEF EofOK
    <3> QED BY Zenon, <1>5, <3>1, <3>2
  <2> QED BY Zenon, <1>1, <1>2, <2>1, <2>2 DEF EofOK, Ended, Ending, Covered
<1> QED BY Zenon, <1>6, <1>7, <1>8, <1>9, EofStep

\* A frame less: what was ended is still the end of it.
LEMMA TailEnds ==
    ASSUME NEW s \in Seq(Frame), s # << >>
    PROVE  /\ Ended(Tail(s)) => Ended(s)
           /\ (\A i, j \in DOMAIN s : i < j /\ Ending(s[i]) => s[j].type # "data")
              => \A i, j \in DOMAIN Tail(s) : i < j /\ Ending(Tail(s)[i]) => Tail(s)[j].type # "data"
<1>1. \A i \in DOMAIN Tail(s) : i \in Nat /\ i + 1 \in DOMAIN s /\ Tail(s)[i] = s[i + 1]
  BY Zenon, TailShifts
<1>2. \A i, j \in DOMAIN Tail(s) : i < j => i + 1 < j + 1
  BY <1>1
<1> QED BY Zenon, <1>1, <1>2 DEF Ended

\* An end that threw its data away has nothing left to promise about it.
LEMMA EofLost ==
    ASSUME FlowInv, EofInv, transport = "tcp", NEW x, NEW y, Ends(x, y), seen'[x].lost = TRUE, tx'[y] = tx[y],
           \/ net'[y] = net[y]
           \/ net'[y] = << >>
           \/ net[y] # << >> /\ net'[y] = Tail(net[y])
    PROVE  EofOK(x, y)'
<1>1. EofOK(x, y) /\ net[y] \in Seq(Frame)
  BY Zenon, EofView
<1>2. /\ Ended(net'[y]) => Ended(net[y])
      /\ \A i, j \in DOMAIN net'[y] : i < j /\ Ending(net'[y][i]) => net'[y][j].type # "data"
  <2>1. CASE net'[y] = net[y]
    BY Zenon, <1>1, <2>1 DEF EofOK
  <2>2. CASE net'[y] = << >>
    BY <2>2 DEF Ended
  <2>3. CASE net[y] # << >> /\ net'[y] = Tail(net[y])
    BY Zenon, <1>1, <2>3, TailEnds DEF EofOK
  <2> QED BY Zenon, <2>1, <2>2, <2>3
<1> QED BY Zenon, <1>1, <1>2 DEF EofOK, Ended, Ending

\* A frame that is taken in without being kept: one that is no payload, or one for a
\* half that is closed.
LEMMA EofConsumed ==
    ASSUME FlowInv, EofInv, transport = "tcp", NEW x, NEW y, Ends(x, y), tx'[y] = tx[y],
           net[y] # << >>, net'[y] = Tail(net[y]), down' = down,
           Head(net[y]).type # "data" \/ rx[x].closed,
           rx'[x].closed = rx[x].closed, seen'[x].lost = seen[x].lost, seen'[x].got = seen[x].got,
           seen'[y].sent = seen[y].sent
    PROVE  EofOK(x, y)'
<1>1. /\ EofOK(x, y) /\ net[y] \in Seq(Frame) /\ SelfOK(x) /\ Link(y, x)
      /\ seen[x].got \in Nat /\ seen[y].sent \in Nat /\ seen[x].dropped \in Nat
  BY Zenon, EofView
<1>2. /\ Ended(net'[y]) => Ended(net[y])
      /\ \A i, j \in DOMAIN net'[y] : i < j /\ Ending(net'[y][i]) => net'[y][j].type # "data"
  BY ZenonT(30), <1>1, TailEnds DEF EofOK
<1>3. ~seen[x].lost /\ ~rx[x].closed /\ (~down[y] \/ Ended(net'[y]))
        => Covered(net'[y], seen[x].got, seen[y].sent)
  <2> SUFFICES ASSUME ~seen[x].lost, ~rx[x].closed, ~down[y] \/ Ended(net'[y])
               PROVE  Covered(Tail(net[y]), seen[x].got, seen[y].sent)
    BY Zenon
  <2>1. Covered(net[y], seen[x].got, seen[y].sent)
    BY Zenon, <1>1, <1>2 DEF EofOK
  <2>2. seen[x].dropped = 0
    BY Zenon, <1>1 DEF SelfOK
  <2>3. Between(net[y], "data", seen[x].got, seen[y].sent)
    BY <1>1, <2>2 DEF Link
  <2> QED BY Zenon, <1>1, <2>1, <2>3, CoveredTail
<1> QED BY Zenon, <1>1, <1>2, <1>3 DEF EofOK, Ended, Ending, Covered

\* The sending half of x may close, its connection too, and nothing else.
LEMMA EofSender ==
    ASSUME FlowInv, EofInv, transport = "tcp", NEW x, NEW y, Ends(x, y), net'[x] = net[x],
           rx'[y] = rx[y], seen'[y] = seen[y], seen'[x].sent = seen[x].sent,
           tx'[x].pc = tx[x].pc, tx[x].closed => tx'[x].closed, down[x] => down'[x]
    PROVE  EofOK(y, x)'
<1>1. EofOK(y, x)
  BY Zenon, EofView
<1> QED BY ZenonT(30), <1>1 DEF EofOK, Ended, Ending, Covered

\* x throws away what it has: closeRead(true).
LEMMA EofDiscards ==
    ASSUME FlowInv, EofInv, transport = "tcp", transport' = transport, NEW x, NEW y, Ends(x, y), Still(y),
           \/ net'[y] = net[y]
           \/ net'[y] = << >>
           \/ net[y] # << >> /\ net'[y] = Tail(net[y]),
           net'[x] = net[x], rx' = [rx EXCEPT ![x] = ClosedRead(@, TRUE)], Discarded(x),
           tx'[x].pc = tx[x].pc, tx[x].closed => tx'[x].closed, tx'[x].closing => tx'[x].closed,
           down[x] => down'[x]
    PROVE  EofInv'
<1>1. /\ x \in Side /\ rx \in [Side -> RxState] /\ seen \in [Side -> Seen]
      /\ seen[x].got \in Nat
  BY Zenon, EofView
<1>2. rx'[x].closed = TRUE /\ rx'[x].queue = << >>
  BY Zenon, <1>1 DEF ClosedRead, RxState
<1>3. seen'[x].freed = seen[x].got /\ seen'[x].got = seen[x].got /\ seen'[x].lost = TRUE /\ seen'[x].sent = seen[x].sent
  BY Zenon, <1>1 DEF Discarded, Seen
<1>4. Covered(rx'[x].queue, seen'[x].freed, seen'[x].got)
  BY Zenon, <1>1, <1>2, <1>3, CoveredEmpty
<1>5. SelfOK(x)'
  BY Zenon, <1>2, <1>3, <1>4 DEF SelfOK, Covered
<1>6. EofOK(x, y)'
  BY Zenon, <1>3, EofLost DEF Still
<1>7. EofOK(y, x)'
  BY Zenon, <1>3, EofSender DEF Still
<1> QED BY Zenon, <1>5, <1>6, <1>7, EofStep

\* Close and abort.
LEMMA CloseLocalEof ==
    ASSUME FlowInv, EofInv, transport = "tcp", transport' = transport, NEW x, NEW y, Ends(x, y),
           CloseLocal(x), net'[x] = net[x], down' = down,
           net'[y] = net[y] \/ (net[y] # << >> /\ net'[y] = Tail(net[y]))
    PROVE  EofInv'
<1>1. /\ x \in Side /\ y \in Side /\ x # y /\ tx \in [Side -> TxState] /\ rx \in [Side -> RxState]
      /\ seen \in [Side -> Seen] /\ open \in [Side -> BOOLEAN] /\ done \in [Side -> BOOLEAN]
  BY Zenon, EofView
<1>2. Still(y)
  BY Zenon, <1>1 DEF CloseLocal, Discarded, Still
<1>3. tx'[x].pc = tx[x].pc /\ tx'[x].closed = TRUE
  BY ZenonT(30), <1>1 DEF CloseLocal, TxState
<1> QED BY Zenon, <1>2, <1>3, EofDiscards DEF CloseLocal

\* Stream.Close.
LEMMA CloseStreamEof ==
    ASSUME FlowInv, EofInv, transport = "tcp", transport' = transport, NEW x, NEW y, Ends(x, y),
           CloseStream(x)
    PROVE  EofInv'
<1>1. CASE ~done[x]
  BY Zenon, <1>1, CloseLocalEof DEF CloseStream
<1>2. CASE done[x]
  <2>1. /\ x \in Side /\ y \in Side /\ x # y /\ tx \in [Side -> TxState] /\ rx \in [Side -> RxState]
        /\ seen \in [Side -> Seen] /\ open \in [Side -> BOOLEAN] /\ SelfOK(x)
    BY Zenon, EofView
  <2>2. /\ rx' = [rx EXCEPT ![x] = ClosedRead(@, TRUE)] /\ Discarded(x) /\ UNCHANGED <<done, tx, net, down>>
        /\ open' = [open EXCEPT ![x] = FALSE]
    BY Zenon, <1>2 DEF CloseStream
  <2>3. Still(y)
    BY Zenon, <2>1, <2>2 DEF Discarded, Still
  <2>4. tx'[x].closing => tx'[x].closed
    BY Zenon, <2>1, <2>2 DEF SelfOK
  <2> QED BY Zenon, <2>2, <2>3, <2>4, EofDiscards
<1> QED BY Zenon, <1>1, <1>2

\* The connection breaks.
LEMMA ConnDownEof ==
    ASSUME FlowInv, EofInv, transport = "tcp", transport' = transport, NEW x, NEW y, Ends(x, y),
           ConnDown(x)
    PROVE  EofInv'
<1>1. /\ x \in Side /\ y \in Side /\ x # y /\ tx \in [Side -> TxState] /\ rx \in [Side -> RxState]
      /\ seen \in [Side -> Seen] /\ open \in [Side -> BOOLEAN] /\ done \in [Side -> BOOLEAN]
      /\ down \in [Side -> BOOLEAN] /\ net \in [Side -> Seq(Frame)] /\ SelfOK(x)
  BY Zenon, EofView
<1>2. net'[x] = net[x] /\ net'[y] = << >> /\ down'[y] = down[y] /\ down'[x] = TRUE
  BY Zenon, <1>1 DEF ConnDown, Ends
<1>3. CASE open[x]
  <2>1. /\ rx' = [rx EXCEPT ![x] = ClosedRead(@, TRUE)] /\ Discarded(x) /\ tx' = [tx EXCEPT ![x].closed = TRUE]
        /\ open' = [open EXCEPT ![x] = FALSE] /\ done' = [done EXCEPT ![x] = TRUE]
    BY Zenon, <1>3 DEF ConnDown
  <2>2. Still(y)
    BY Zenon, <1>1, <1>2, <2>1 DEF Discarded, Still
  <2>3. tx'[x].pc = tx[x].pc /\ tx'[x].closed = TRUE
    BY ZenonT(30), <1>1, <2>1 DEF TxState
  <2> QED BY Zenon, <1>2, <2>1, <2>2, <2>3, EofDiscards
<1>4. CASE ~open[x]
  <2>1. UNCHANGED <<open, done, tx, rx, seen>>
    BY Zenon, <1>4 DEF ConnDown
  <2>2. seen'[x].lost = TRUE
    BY Zenon, <1>1, <1>4, <2>1 DEF SelfOK, Seen
  <2>3. SelfOK(x)'
    BY Zenon, <1>1, <2>1, <2>2 DEF SelfOK, Covered
  <2>4. Still(y)
    BY Zenon, <1>2, <2>1 DEF Still
  <2>5. EofOK(x, y)'
    BY Zenon, <1>2, <2>1, <2>2, EofLost
  <2>6. EofOK(y, x)'
    BY Zenon, <1>2, <2>1, EofSender
  <2> QED BY Zenon, <2>3, <2>4, <2>5, <2>6, EofStep
<1> QED BY Zenon, <1>3, <1>4

\* The read loop: a frame that changes neither half of the stream, or only credit.
LEMMA ConsumedEof ==
    ASSUME FlowInv, EofInv, transport = "tcp", transport' = transport, NEW x, NEW y, Ends(x, y), Still(y),
           net[y] # << >>, net'[y] = Tail(net[y]), net'[x] = net[x], UNCHANGED <<down, open, done, rx>>,
           Head(net[y]).type # "data" \/ rx[x].closed \/ seen[x].lost,
           tx'[x].pc = tx[x].pc, tx'[x].closed = tx[x].closed, tx'[x].closing = tx[x].closing,
           seen'[x].lost = seen[x].lost, seen'[x].got = seen[x].got, seen'[x].sent = seen[x].sent,
           seen'[x].read = seen[x].read, seen'[x].freed = seen[x].freed, seen'[x].dropped = seen[x].dropped
    PROVE  EofInv'
<1>1. SelfOK(x) /\ seen[x].lost \in BOOLEAN
  BY Zenon, EofView DEF Seen
<1>2. SelfOK(x)'
  BY Zenon, <1>1 DEF SelfOK, Covered
<1>3. EofOK(x, y)'
  <2>1. CASE seen[x].lost
    BY Zenon, <1>1, <2>1, EofLost DEF Still
  <2>2. CASE ~seen[x].lost
    BY Zenon, <2>2, EofConsumed DEF Still
  <2> QED BY Zenon, <2>1, <2>2
<1>4. EofOK(y, x)'
  BY Zenon, EofSender DEF Still
<1> QED BY Zenon, <1>2, <1>3, <1>4, EofStep

\* abort, in the read loop.
LEMMA AbortEof ==
    ASSUME FlowInv, EofInv, transport = "tcp", transport' = transport, NEW x, NEW y, Ends(x, y),
           Abort(x), NEW T, Incoming(x, T), Consume(x)
    PROVE  EofInv'
<1>1. /\ net[y] # << >> /\ net'[x] = net[x] /\ net'[y] = Tail(net[y]) /\ down' = down
  BY Zenon, ConsumeTail DEF FlowInv
<1>2. CASE ~done[x]
  BY Zenon, <1>1, <1>2, CloseLocalEof DEF Abort
<1>3. CASE done[x]
  <2>1. UNCHANGED <<open, done, tx, rx, seen>> /\ rx[x].closed
    BY Zenon, <1>3, EofView DEF Abort, SelfOK
  <2>2. Still(y)
    BY Zenon, <1>1, <2>1 DEF Still
  <2> QED BY Zenon, <1>1, <2>1, <2>2, ConsumedEof
<1> QED BY Zenon, <1>2, <1>3

\* A frame for a stream that is gone.
LEMMA ReceiveLateEof ==
    ASSUME FlowInv, EofInv, transport = "tcp", transport' = transport, NEW x, NEW y, Ends(x, y),
           ReceiveLate(x)
    PROVE  EofInv'
<1>1. UNCHANGED <<down, open, done, tx, rx, seen>> /\ ~open[x]
  BY Zenon DEF ReceiveLate, Consume
<1>2. net[y] # << >> /\ net'[x] = net[x] /\ net'[y] = Tail(net[y])
  BY Zenon, ConsumeTail DEF ReceiveLate, FlowInv
<1>3. seen[x].lost /\ Still(y)
  BY Zenon, <1>1, EofView DEF SelfOK, Still
<1> QED BY Zenon, <1>1, <1>2, <1>3, ConsumedEof

\* Payload goes into the queue behind what is there.
LEMMA QueueEof ==
    ASSUME FlowInv, EofInv, transport = "tcp", transport' = transport, NEW x, NEW y, Ends(x, y),
           Incoming(x, {"data"}), Consume(x), NEW n, n = Size(Head(net[y])), Fits(x, n), Queue(x, n)
    PROVE  EofInv'
<1>1. /\ x \in Side /\ y \in Side /\ x # y /\ rx \in [Side -> RxState] /\ seen \in [Side -> Seen]
      /\ SelfOK(x) /\ EofOK(x, y) /\ EofOK(y, x) /\ Link(y, x)
      /\ seen[x].got \in Nat /\ seen[x].freed \in Nat /\ seen[x].dropped \in Nat /\ seen[y].sent \in Nat
      /\ rx[x].queue \in Seq(Frame) /\ net[y] \in Seq(Frame)
  BY Zenon, EofView
<1>2. /\ net[y] # << >> /\ net'[x] = net[x] /\ net'[y] = Tail(net[y]) /\ down' = down
      /\ Head(net[y]).type = "data"
  BY ConsumeTail DEF FlowInv
<1>3. n \in Nat
  <2>1. Between(net[y], "data", seen[x].got + seen[x].dropped, seen[y].sent)
    BY Zenon, <1>1 DEF Link
  <2>2. seen[x].got + seen[x].dropped \in Nat
    BY <1>1
  <2>3. Head(net[y]).from \in Nat /\ Head(net[y]).to \in Nat /\ Head(net[y]).from < Head(net[y]).to
    BY ZenonT(30), <1>1, <1>2, <2>1, <2>2, BetweenTail
  <2> QED BY <2>3 DEF Size
<1>4. PICK e : e = Data(seen[x].got, seen[x].got + n)
  BY ZenonT(30)
<1>5. e \in Frame /\ e.type = "data" /\ e.from = seen[x].got /\ e.to = seen[x].got + n
  BY <1>1, <1>3, <1>4 DEF Data, Frame
<1>6. ~rx[x].closed
  BY Zenon DEF Fits
<1>7. /\ rx'[y] = rx[y] /\ rx'[x].closed = rx[x].closed /\ rx'[x].pc = rx[x].pc
      /\ rx'[x].queue = Append(rx[x].queue, e)
  BY ZenonT(30), <1>1, <1>4 DEF Queue, RxState
<1>8. /\ seen'[y] = seen[y] /\ seen'[x].got = seen[x].got + n /\ seen'[x].lost = seen[x].lost
      /\ seen'[x].freed = seen[x].freed /\ seen'[x].read = seen[x].read /\ seen'[x].dropped = seen[x].dropped
      /\ seen'[x].sent = seen[x].sent
  BY Zenon, <1>1 DEF Queue, Seen
<1>9. UNCHANGED <<open, done, tx, down>>
  BY Zenon, <1>2 DEF Queue
<1>10. Still(y)
  BY Zenon, <1>7, <1>8, <1>9 DEF Still
<1>11. SelfOK(x)'
  <2>1. Covered(rx'[x].queue, seen'[x].freed, seen'[x].got)
    BY Zenon, <1>1, <1>5, <1>7, <1>8, CoveredAppend DEF SelfOK
  <2> QED BY ZenonT(30), <1>1, <1>6, <1>7, <1>8, <1>9, <2>1 DEF SelfOK, Covered
<1>12. EofOK(x, y)'
  <2>1. /\ Ended(net'[y]) => Ended(net[y])
        /\ \A i, j \in DOMAIN net'[y] : i < j /\ Ending(net'[y][i]) => net'[y][j].type # "data"
    BY Zenon, <1>1, <1>2, TailEnds DEF EofOK
  <2>2. ~seen[x].lost /\ (~down[y] \/ Ended(net'[y])) => Covered(net'[y], seen'[x].got, seen[y].sent)
    <3> SUFFICES ASSUME ~seen[x].lost, ~down[y] \/ Ended(net'[y])
                 PROVE  Covered(Tail(net[y]), seen[x].got + n, seen[y].sent)
      BY Zenon, <1>2, <1>8
    <3>1. Covered(net[y], seen[x].got, seen[y].sent)
      BY Zenon, <1>1, <1>6, <2>1 DEF EofOK
    <3>2. seen[x].dropped = 0
      BY ZenonT(30), <1>1 DEF SelfOK
    <3>3. Between(net[y], "data", seen[x].got, seen[y].sent)
      BY <1>1, <3>2 DEF Link
    <3> QED BY ZenonT(30), <1>1, <1>2, <3>1, <3>3, CoveredTail
  <2> QED BY Zenon, <1>1, <1>6, <1>7, <1>8, <1>9, <2>1, <2>2 DEF EofOK, Ended, Ending, Covered
<1>13. EofOK(y, x)'
  BY Zenon, <1>1, <1>2, <1>7, <1>8, <1>9, EofSame
<1> QED BY Zenon, <1>10, <1>11, <1>12, <1>13, EofStep

\* DATA.
LEMMA ReceiveDataEof ==
    ASSUME FlowInv, EofInv, transport = "tcp", transport' = transport, NEW x, NEW y, Ends(x, y),
           ReceiveData(x)
    PROVE  EofInv'
<1>1. Incoming(x, {"data"}) /\ Consume(x) /\ Peer(x) = y
  BY Zenon DEF ReceiveData, Ends
<1>2. CASE Abort(x)
  BY Zenon, <1>1, <1>2, AbortEof
<1>3. CASE Fits(x, Size(Head(net[y]))) /\ Queue(x, Size(Head(net[y])))
  BY Zenon, <1>1, <1>3, QueueEof
<1> QED BY Zenon, <1>1, <1>2, <1>3 DEF ReceiveData

\* The end of payload is taken in: all of it is there.
LEMMA EndTaken ==
    ASSUME FlowInv, EofInv, transport = "tcp", NEW x, NEW y, Ends(x, y), tx'[y] = tx[y],
           net[y] # << >>, net'[y] = Tail(net[y]), Ending(Head(net[y])), down' = down,
           rx'[x].closed = TRUE, seen'[x].lost = seen[x].lost, seen'[x].got = seen[x].got,
           seen'[y].sent = seen[y].sent
    PROVE  EofOK(x, y)'
<1>1. /\ EofOK(x, y) /\ net[y] \in Seq(Frame) /\ Link(y, x)
      /\ seen[x].got \in Nat /\ seen[y].sent \in Nat /\ seen[x].dropped \in Nat
  BY Zenon, EofView
<1>2. 1 \in DOMAIN net[y] /\ Head(net[y]) = net[y][1] /\ \A i \in DOMAIN net[y] : i = 1 \/ 1 < i
  BY <1>1
<1>3. Ended(net[y])
  BY Zenon, <1>2 DEF Ended
<1>4. \A i \in DOMAIN net[y] : net[y][i].type # "data"
  BY Zenon, <1>1, <1>2 DEF EofOK, Ending
<1>5. /\ Ended(net'[y]) => Ended(net[y])
      /\ \A i, j \in DOMAIN net'[y] : i < j /\ Ending(net'[y][i]) => net'[y][j].type # "data"
  BY Zenon, <1>1, TailEnds DEF EofOK
<1>6. ~seen[x].lost => seen[x].got = seen[y].sent
  <2>1. CASE rx[x].closed
    BY Zenon, <1>1, <2>1 DEF EofOK
  <2>2. CASE ~rx[x].closed
    <3> SUFFICES ASSUME ~seen[x].lost PROVE seen[x].got = seen[y].sent
      BY Zenon
    <3>1. seen[y].sent <= seen[x].got
      BY ZenonT(30), <1>1, <1>3, <1>4, <2>2, CoveredNone DEF EofOK
    <3>2. seen[x].got <= seen[y].sent
      BY <1>1 DEF Link, ChainOK
    <3> QED BY <1>1, <3>1, <3>2
  <2> QED BY Zenon, <2>1, <2>2
<1> QED BY Zenon, <1>1, <1>3, <1>5, <1>6 DEF EofOK, Ended, Ending, Covered

\* CLOSE_WRITE and CLOSE.
LEMMA ReceiveEndEof ==
    ASSUME FlowInv, EofInv, transport = "tcp", transport' = transport, NEW x, NEW y, Ends(x, y),
           ReceiveFin(x) \/ ReceiveClose(x)
    PROVE  EofInv'
<1>1. /\ x \in Side /\ y \in Side /\ x # y /\ tx \in [Side -> TxState] /\ rx \in [Side -> RxState]
      /\ done \in [Side -> BOOLEAN] /\ SelfOK(x)
  BY Zenon, EofView
<1>2. PICK T \in {{"fin"}, {"close"}} : Incoming(x, T) /\ Consume(x)
  BY Zenon DEF ReceiveFin, ReceiveClose
<1>3. /\ net[y] # << >> /\ net'[x] = net[x] /\ net'[y] = Tail(net[y]) /\ down' = down
      /\ Head(net[y]).type \in T
  BY Zenon, <1>2, ConsumeTail DEF FlowInv
<1>4. Ending(Head(net[y])) /\ UNCHANGED <<open, seen>>
  BY Zenon, <1>2, <1>3 DEF Ending, ReceiveFin, ReceiveClose
<1>5. CASE UNCHANGED <<done, tx, rx>> /\ done[x]
  <2>1. rx[x].closed
    BY Zenon, <1>1, <1>5 DEF SelfOK
  <2>2. Still(y)
    BY Zenon, <1>3, <1>4, <1>5 DEF Still
  <2> QED BY Zenon, <1>3, <1>4, <1>5, <2>1, <2>2, ConsumedEof
<1>6. CASE rx' = [rx EXCEPT ![x] = ClosedRead(@, FALSE)]
  <2>1. /\ rx'[y] = rx[y] /\ rx'[x].closed = TRUE /\ rx'[x].queue = rx[x].queue /\ rx'[x].pc = rx[x].pc
    BY ZenonT(30), <1>1, <1>6 DEF ClosedRead, RxState
  <2>2. \/ UNCHANGED <<done, tx>>
        \/ done' = [done EXCEPT ![x] = TRUE] /\ tx' = [tx EXCEPT ![x].closed = TRUE]
    BY Zenon DEF ReceiveFin, ReceiveClose
  <2>3. /\ tx'[y] = tx[y] /\ done'[y] = done[y] /\ tx'[x].pc = tx[x].pc /\ tx'[x].closing = tx[x].closing
        /\ tx[x].closed => tx'[x].closed
    <3>1. CASE UNCHANGED <<done, tx>>
      BY Zenon, <3>1
    <3>2. CASE done' = [done EXCEPT ![x] = TRUE] /\ tx' = [tx EXCEPT ![x].closed = TRUE]
      <4>1. tx'[x].closed = TRUE
        BY Zenon, <1>1, <3>2 DEF TxState
      <4> QED BY ZenonT(30), <1>1, <3>2, <4>1 DEF TxState
    <3> QED BY Zenon, <2>2, <3>1, <3>2
  <2>4. Still(y)
    BY Zenon, <1>3, <1>4, <2>1, <2>3 DEF Still
  <2>5. SelfOK(x)'
    BY Zenon, <1>1, <1>3, <1>4, <2>1, <2>3 DEF SelfOK, Covered
  <2>6. EofOK(x, y)'
    BY Zenon, <1>3, <1>4, <2>1, <2>3, EndTaken
  <2>7. EofOK(y, x)'
    BY Zenon, <1>3, <1>4, <2>1, <2>3, EofSender
  <2> QED BY ZenonT(30), <2>4, <2>5, <2>6, <2>7, EofStep
<1> QED BY Zenon, <1>5, <1>6 DEF ReceiveFin, ReceiveClose

\* WINDOW_UPDATE.
LEMMA ReceiveCreditEof ==
    ASSUME FlowInv, EofInv, transport = "tcp", transport' = transport, NEW x, NEW y, Ends(x, y),
           ReceiveCredit(x)
    PROVE  EofInv'
<1>1. Incoming(x, {"window"}) /\ Consume(x)
  BY Zenon DEF ReceiveCredit
<1>2. /\ net[y] # << >> /\ net'[x] = net[x] /\ net'[y] = Tail(net[y]) /\ down' = down
      /\ Head(net[y]).type # "data"
  BY <1>1, ConsumeTail DEF FlowInv
<1>3. CASE Abort(x)
  BY Zenon, <1>1, <1>3, AbortEof
<1>4. CASE UNCHANGED <<open, done, tx, rx, seen>>
  <2>1. Still(y)
    BY Zenon, <1>2, <1>4 DEF Still
  <2> QED BY Zenon, <1>2, <1>4, <2>1, ConsumedEof
<1>5. ASSUME NEW n, tx' = [tx EXCEPT ![x].credit = @ + n, ![x].tok = TRUE],
             seen' = [seen EXCEPT ![x].acked = @ + n], UNCHANGED <<open, done, rx>>
      PROVE  EofInv'
  <2>1. x \in Side /\ y \in Side /\ x # y /\ tx \in [Side -> TxState] /\ seen \in [Side -> Seen]
    BY Zenon, EofView
  <2>2. /\ tx'[y] = tx[y] /\ seen'[y] = seen[y]
        /\ tx'[x].pc = tx[x].pc /\ tx'[x].closed = tx[x].closed /\ tx'[x].closing = tx[x].closing
    BY ZenonT(30), <1>5, <2>1 DEF TxState
  <2>3. /\ seen'[x].lost = seen[x].lost /\ seen'[x].got = seen[x].got /\ seen'[x].sent = seen[x].sent
        /\ seen'[x].read = seen[x].read /\ seen'[x].freed = seen[x].freed /\ seen'[x].dropped = seen[x].dropped
    BY Zenon, <1>5, <2>1 DEF Seen
  <2>4. Still(y)
    BY Zenon, <1>2, <1>5, <2>2 DEF Still
  <2> QED BY Zenon, <1>2, <1>5, <2>2, <2>3, <2>4, ConsumedEof
<1> QED BY Zenon, <1>3, <1>4, <1>5 DEF ReceiveCredit

\* Nothing that the end of file is about changes but the queue and the reader.
LEMMA ReaderEof ==
    ASSUME FlowInv, EofInv, transport = "tcp", transport' = transport, NEW x, NEW y, Ends(x, y), Still(y),
           UNCHANGED <<net, down, open, done, tx>>, rx'[x].closed = rx[x].closed,
           seen'[x].lost = seen[x].lost, seen'[x].got = seen[x].got, seen'[x].sent = seen[x].sent,
           seen'[x].dropped = seen[x].dropped,
           rx'[x].pc = "eof" => rx'[x].closed /\ rx'[x].queue = << >>,
           ~seen[x].lost => seen'[x].read = seen'[x].freed,
           Covered(rx'[x].queue, seen'[x].freed, seen'[x].got)
    PROVE  EofInv'
<1>1. SelfOK(x) /\ EofOK(x, y) /\ EofOK(y, x)
  BY Zenon, EofView
<1>2. SelfOK(x)'
  BY Zenon, <1>1 DEF SelfOK, Covered
<1>3. EofOK(x, y)' /\ EofOK(y, x)'
  BY Zenon, <1>1, EofSame DEF Still
<1> QED BY Zenon, <1>2, <1>3, EofStep

\* Read takes the first payload of the queue.
LEMMA ReadEof ==
    ASSUME FlowInv, EofInv, transport = "tcp", transport' = transport, NEW x, NEW y, Ends(x, y),
           Read(x)
    PROVE  EofInv'
<1>1. /\ x \in Side /\ y \in Side /\ x # y /\ rx \in [Side -> RxState] /\ seen \in [Side -> Seen]
      /\ SelfOK(x) /\ Link(y, x) /\ rx[x].queue \in Seq(Frame) /\ rx[x].queue \in Seq(Segment)
      /\ seen[x].got \in Nat /\ seen[x].freed \in Nat /\ seen[x].read \in Nat
  BY Zenon, EofView DEF RxState
<1>2. PICK n : n = Size(Head(rx[x].queue))
  BY Zenon
<1>3. /\ rx' = [rx EXCEPT ![x] = Returned(x, Dequeued(rx[x]), n)] /\ rx[x].pc = "ready" /\ rx[x].queue # << >>
      /\ UNCHANGED <<net, down, open, done, tx>>
  BY Zenon, <1>1, <1>2 DEF Read
<1>4. /\ Returned(x, Dequeued(rx[x]), n).closed = rx[x].closed
      /\ Returned(x, Dequeued(rx[x]), n).pc = rx[x].pc
      /\ Returned(x, Dequeued(rx[x]), n).queue = Tail(rx[x].queue)
  BY Zenon, <1>1 DEF Returned, Dequeued, RxState
<1>5. /\ rx'[y] = rx[y] /\ rx'[x].closed = rx[x].closed /\ rx'[x].pc = "ready"
      /\ rx'[x].queue = Tail(rx[x].queue)
  BY Zenon, <1>1, <1>3, <1>4
<1>6. /\ seen'[y] = seen[y] /\ seen'[x].lost = seen[x].lost /\ seen'[x].got = seen[x].got
      /\ seen'[x].sent = seen[x].sent /\ seen'[x].dropped = seen[x].dropped
      /\ seen'[x].freed = seen[x].freed + n /\ seen'[x].read = seen[x].read + n
  BY ZenonT(30), <1>1, <1>2 DEF Read, Seen
<1>7. Head(rx[x].queue).type = "data"
  <2>1. Head(rx[x].queue) \in Segment
    BY Zenon, <1>1, <1>3, TailShifts
  <2> QED BY Zenon, <2>1 DEF Segment
<1>8. Covered(rx'[x].queue, seen'[x].freed, seen'[x].got)
  <2>1. PICK q \in Seq(Frame) : q = rx[x].queue
    BY Zenon, <1>1
  <2>2. Covered(q, seen[x].freed, seen[x].got) /\ Between(q, "data", seen[x].freed, seen[x].got) /\ q # << >>
    BY Zenon, <1>1, <1>3, <2>1 DEF SelfOK, Link
  <2>3. Covered(Tail(q), seen[x].freed + n, seen[x].got)
    BY Zenon, <1>1, <1>2, <1>7, <2>1, <2>2, CoveredTail
  <2> QED BY Zenon, <1>5, <1>6, <2>1, <2>3
<1>9. Still(y)
  BY Zenon, <1>3, <1>5, <1>6 DEF Still
<1>10. ~seen[x].lost => seen'[x].read = seen'[x].freed
  BY Zenon, <1>1, <1>6 DEF SelfOK
<1> QED BY ZenonT(30), <1>3, <1>5, <1>6, <1>8, <1>9, <1>10, ReaderEof

\* The reader finds nothing, or is woken; pending credit is gathered.
LEMMA ReadWaitEof ==
    ASSUME FlowInv, EofInv, transport = "tcp", transport' = transport, NEW x, NEW y, Ends(x, y),
           ReadNothing(x) \/ WaitRead(x) \/ TakePending(x)
    PROVE  EofInv'
<1>1. /\ x \in Side /\ y \in Side /\ x # y /\ rx \in [Side -> RxState] /\ SelfOK(x)
      /\ rx[x].closed \in BOOLEAN
  BY Zenon, EofView DEF RxState
<1>2. UNCHANGED <<net, down, open, done, tx, seen>>
  BY Zenon DEF ReadNothing, WaitRead, TakePending
<1>3. /\ rx'[y] = rx[y] /\ rx'[x].closed = rx[x].closed /\ rx'[x].queue = rx[x].queue
      /\ rx'[x].pc = "eof" => rx[x].pc = "eof" \/ (rx[x].closed /\ rx[x].queue = << >>)
  <2>1. CASE ReadNothing(x)
    <3>1. CASE rx[x].closed
      <4>1. rx' = [rx EXCEPT ![x].pc = "eof"] /\ rx[x].queue = << >>
        BY Zenon, <2>1, <3>1 DEF ReadNothing
      <4> QED BY Zenon, <1>1, <3>1, <4>1 DEF RxState
    <3>2. CASE ~rx[x].closed
      <4>1. rx' = [rx EXCEPT ![x].pc = "wait"]
        BY Zenon, <2>1, <3>2 DEF ReadNothing
      <4> QED BY Zenon, <1>1, <4>1 DEF RxState
    <3> QED BY Zenon, <3>1, <3>2
  <2>2. CASE WaitRead(x)
    <3>1. rx' = [rx EXCEPT ![x].pc = "ready", ![x].tok = FALSE]
      BY Zenon, <2>2 DEF WaitRead
    <3> QED BY ZenonT(30), <1>1, <3>1 DEF RxState
  <2>3. CASE TakePending(x)
    BY Zenon, <1>1, <2>3 DEF TakePending, RxState
  <2> QED BY Zenon, <2>1, <2>2, <2>3
<1>4. Still(y)
  BY Zenon, <1>2, <1>3 DEF Still
<1>5. /\ rx'[x].pc = "eof" => rx'[x].closed /\ rx'[x].queue = << >>
      /\ ~seen[x].lost => seen'[x].read = seen'[x].freed
      /\ Covered(rx'[x].queue, seen'[x].freed, seen'[x].got)
  BY Zenon, <1>1, <1>2, <1>3 DEF SelfOK
<1> QED BY Zenon, <1>2, <1>3, <1>4, <1>5, ReaderEof

\* An update of credit goes out.
LEMMA WriteCreditEof ==
    ASSUME FlowInv, EofInv, transport = "tcp", transport' = transport, NEW x, NEW y, Ends(x, y),
           WriteCredit(x)
    PROVE  EofInv'
<1>1. /\ x \in Side /\ y \in Side /\ x # y /\ rx \in [Side -> RxState] /\ seen \in [Side -> Seen]
      /\ net \in [Side -> Seq(Frame)] /\ net[x] \in Seq(Frame)
      /\ SelfOK(x) /\ EofOK(x, y) /\ EofOK(y, x)
  BY Zenon, EofView
<1>2. UNCHANGED <<down, open, done, tx>> /\ ~down[x]
  BY Zenon DEF WriteCredit
<1>3. PICK a \in Nat, b \in Nat : a = seen[x].announced /\ b = a + rx[x].flush
  <2>1. rx[x] \in RxState /\ seen[x] \in Seen
    BY Zenon, <1>1
  <2>2. rx[x].flush \in Nat
    BY Zenon, <2>1 DEF RxState
  <2>3. seen[x].announced \in Nat
    BY Zenon, <2>1 DEF Seen
  <2>4. seen[x].announced + rx[x].flush \in Nat
    BY <2>2, <2>3
  <2> QED BY Zenon, <2>3, <2>4
<1>4. PICK e \in Frame : e = Credit(a, b)
  BY Zenon DEF Credit, Frame
<1>5. e.type = "window" /\ ~Ending(e)
  BY Zenon, <1>4 DEF Credit, Ending
<1>6. net'[y] = net[y] /\ (net'[x] = net[x] \/ net'[x] = Append(net[x], e))
  BY Zenon, <1>1, <1>3, <1>4 DEF WriteCredit, Write, Ends
<1>7. /\ rx'[y] = rx[y] /\ rx'[x].closed = rx[x].closed /\ rx'[x].queue = rx[x].queue /\ rx'[x].pc = rx[x].pc
  BY Zenon, <1>1 DEF WriteCredit, RxState
<1>8. /\ seen'[y] = seen[y] /\ seen'[x].lost = seen[x].lost /\ seen'[x].got = seen[x].got
      /\ seen'[x].sent = seen[x].sent /\ seen'[x].dropped = seen[x].dropped
      /\ seen'[x].freed = seen[x].freed /\ seen'[x].read = seen[x].read
  BY Zenon, <1>1 DEF WriteCredit, Seen
<1>9. Still(y)
  BY Zenon, <1>2, <1>7, <1>8 DEF Still
<1>10. SelfOK(x)'
  BY ZenonT(30), <1>1, <1>2, <1>7, <1>8 DEF SelfOK, Covered
<1>11. EofOK(x, y)'
  BY Zenon, <1>1, <1>2, <1>6, <1>7, <1>8, EofSame
<1>12. EofOK(y, x)'
  <2>1. CASE net'[x] = net[x]
    BY Zenon, <1>1, <1>2, <1>7, <1>8, <2>1, EofSame
  <2>2. CASE net'[x] = Append(net[x], e)
    <3>1. \A i \in DOMAIN net'[x] : Ending(net'[x][i]) \/ net'[x][i].type = "data"
                                      => i \in DOMAIN net[x] /\ net'[x][i] = net[x][i]
      BY <1>1, <1>5, <2>2, AppendAdds
    <3>2. /\ Ended(net'[x]) => Ended(net[x])
          /\ \A i, j \in DOMAIN net'[x] : i < j /\ Ending(net'[x][i]) => net'[x][j].type # "data"
      BY Zenon, <1>1, <3>1 DEF EofOK, Ended
    <3>3. ~seen[y].lost /\ ~rx[y].closed => Covered(net'[x], seen[y].got, seen[x].sent)
      BY Zenon, <1>1, <1>2, <1>5, <2>2, CoveredAppendAny DEF EofOK
    <3> QED BY Zenon, <1>1, <1>2, <1>7, <1>8, <3>2, <3>3 DEF EofOK, Ended, Ending, Covered
  <2> QED BY Zenon, <1>6, <2>1, <2>2
<1> QED BY ZenonT(30), <1>9, <1>10, <1>11, <1>12, EofStep

\* At first nothing is sent and nothing is closed.
LEMMA EofInit == Init => EofInv
<1> SUFFICES ASSUME Init, NEW x \in Side, NEW y \in Side PROVE SelfOK(x) /\ EofOK(x, y)
  BY Zenon, TwoEnds DEF EofInv, Ends
<1>1. net[y] = << >> /\ rx[x].queue = << >> /\ seen[x].freed = 0 /\ seen[x].got = 0 /\ seen[y].sent = 0
  BY Zenon DEF Init
<1>2. Covered(<< >>, 0, 0)
  BY Zenon, CoveredEmpty
<1>3. SelfOK(x)
  BY Zenon, <1>1, <1>2 DEF Init, SelfOK
<1>4. EofOK(x, y)
  BY <1>1, <1>2 DEF Init, EofOK, Ended
<1> QED BY Zenon, <1>3, <1>4

\* Every step keeps the order of payload and its end.
LEMMA EofNext == FlowInv /\ EofInv /\ [Next]_vars => EofInv'
<1> SUFFICES ASSUME FlowInv, EofInv, [Next]_vars PROVE EofInv'
  BY ZenonT(30)
<1>1. CASE UNCHANGED vars
  BY <1>1 DEF EofInv, SelfOK, EofOK, Covered, Ended, Ending, vars
<1>2. CASE Next /\ transport # "tcp"
  BY Zenon, <1>2 DEF Next, EofInv
<1>3. CASE Next /\ transport = "tcp"
  <2>1. PICK x \in Side :
           \/ \E n \in 1..Budget[x] : StartWrite(x, n)
           \/ Goroutines(x)
           \/ CloseWrite(x) \/ CloseStream(x) \/ ConnDown(x)
    BY Zenon, <1>3 DEF Next
  <2>2. PICK y : y = Peer(x)
    BY Zenon
  <2>3. Ends(x, y) /\ transport = "tcp" /\ transport' = transport
    BY Zenon, <1>3, <2>2, TwoEnds DEF Next
  <2>4. CASE \E n \in 1..Budget[x] : StartWrite(x, n)
    <3>1. \E n \in Nat : StartWrite(x, n)
      BY <2>4, FlowAssumption
    <3> QED BY Zenon, <2>3, <3>1, WriterEof
  <2>5. CASE Goroutines(x)
    <3>1. CASE TakeSendCredit(x) \/ WaitCredit(x)
      BY Zenon, <2>3, <3>1, WriterEof
    <3>2. CASE WriteData(x) \/ WriteCredit(x)
      BY Zenon, <2>3, <3>2, WriteDataEof, WriteCreditEof
    <3>3. CASE SendClose(x)
      BY ZenonT(30), <2>3, <3>3, EndEof
    <3>4. CASE ReceiveLate(x) \/ ReceiveData(x)
      BY Zenon, <2>3, <3>4, ReceiveLateEof, ReceiveDataEof
    <3>5. CASE ReceiveFin(x) \/ ReceiveClose(x)
      BY ZenonT(30), <2>3, <3>5, ReceiveEndEof
    <3>6. CASE ReceiveCredit(x) \/ Read(x)
      BY Zenon, <2>3, <3>6, ReceiveCreditEof, ReadEof
    <3>7. CASE ReadNothing(x) \/ WaitRead(x) \/ TakePending(x)
      BY Zenon, <2>3, <3>7, ReadWaitEof
    <3> QED BY ZenonT(30), <2>5, <3>1, <3>2, <3>3, <3>4, <3>5, <3>6, <3>7 DEF Goroutines
  <2>6. CASE CloseWrite(x)
    BY ZenonT(30), <2>3, <2>6, EndEof
  <2>7. CASE CloseStream(x) \/ ConnDown(x)
    BY Zenon, <2>3, <2>7, CloseStreamEof, ConnDownEof
  <2> QED BY ZenonT(30), <2>1, <2>4, <2>5, <2>6, <2>7
<1> QED BY Zenon, <1>1, <1>2, <1>3

\* A TCP end that did not throw data away reads EOF only after every byte its peer
\* sent before CLOSE_WRITE or CLOSE (Read, closeRX and sendClose behind txMu).
THEOREM EofIsOrderly == Spec => []OrderlyEof
<1>1. FlowInv /\ EofInv => OrderlyEof
  <2> SUFFICES ASSUME FlowInv, EofInv, transport = "tcp", NEW x \in Side, rx[x].pc = "eof", ~seen[x].lost
               PROVE  seen[x].read = seen[Peer(x)].sent
    BY Zenon DEF OrderlyEof
  <2>1. PICK y : y = Peer(x) /\ Ends(x, y)
    BY Zenon, TwoEnds
  <2>2. /\ SelfOK(x) /\ EofOK(x, y) /\ Link(y, x) /\ seen[x].got \in Nat /\ seen[x].freed \in Nat
    BY Zenon, <2>1, EofView
  <2>3. Covered(<< >>, seen[x].freed, seen[x].got) /\ seen[x].read = seen[x].freed
    BY ZenonT(30), <2>2 DEF SelfOK
  <2>4. seen[x].got <= seen[x].freed
    BY <2>2, <2>3, CoveredNone
  <2>5. seen[x].freed <= seen[x].got
    BY Zenon, <2>2 DEF Link, ChainOK
  <2>6. seen[x].got = seen[y].sent
    BY Zenon, <2>2 DEF SelfOK, EofOK
  <2> QED BY <2>1, <2>2, <2>3, <2>4, <2>5, <2>6
<1> QED BY <1>1, FlowCorrect, EofInit, EofNext, PTL DEF Spec
=============================================================================
