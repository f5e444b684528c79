------------------------ MODULE CosimLinkOrderProofs ------------------------
(***************************************************************************)
(* Theorems about CosimLink with a guest that waits for its interrupts, or *)
(* asks for none: the order of requests, what survives a shutdown, whose   *)
(* reply a read accepts, and that the BAR is a memory.  They hold for      *)
(* every value of the constants their assumptions leave open.              *)
(***************************************************************************)
EXTENDS CosimLinkProofs

Requests == toSim[Main]      \* what is on its way to the simulation
Replies  == toBridge[Main]   \* and back
IsWrite(p, a) == p.type = "MEM_WR" /\ ~IsIrq(p) /\ p.addr = a   \* a write to be stored

-----------------------------------------------------------------------------
(* The requests.                                                           *)

\* The requests under way are newer than the one served last, and in the
\* order of their numbers; only the NACK of a shutdown has none.
OrderInv ==
  /\ srv.id <= tx
  /\ \A i \in 1 .. Len(Requests) :
       IF Requests[i].type = "NACK" THEN Requests[i].id = 0
       ELSE srv.id < Requests[i].id /\ Requests[i].id <= tx
  /\ \A i, j \in 1 .. Len(Requests) :
       i < j /\ Requests[i].type # "NACK" /\ Requests[j].type # "NACK"
         => Requests[i].id < Requests[j].id

\* The memory is behind what the guest has written, and behind each write
\* under way.
MemoryInv ==
  \A a \in Addrs :
    /\ mem[a] <= issued[a] /\ issued[a] <= tx
    /\ \A i \in 1 .. Len(Requests) :
         /\ Requests[i].type # "NACK" => mem[a] < Requests[i].id
         /\ IsWrite(Requests[i], a) => Requests[i].id <= issued[a]

\* The write that gave address a its value v has been served or is under way,
\* with no NACK in front of it.
Arrives(a, v) ==
  \/ mem[a] >= v
  \/ \E i \in 1 .. Len(Requests) :
       /\ IsWrite(Requests[i], a) /\ Requests[i].id = v
       /\ \A j \in 1 .. i : Requests[j].type # "NACK"

ShutdownInv ==
  /\ tpc = "wait" => /\ \A i \in 1 .. Len(Requests) : Requests[i].type # "NACK"
                     /\ toSim[Async] = <<>> /\ spc # "done"
  /\ tpc = "wait" /\ spc # "dead" => \A a \in Addrs : Arrives(a, issued[a])
  /\ tpc \in {"nack", "shut"} /\ spc # "dead" => \A a \in Addrs : Arrives(a, atInt[a])
  /\ spc = "done" => \A a \in Addrs : mem[a] >= atInt[a]

-----------------------------------------------------------------------------
(* The replies.                                                            *)

\* The listener led the channel to ASYNC when that closed, and leaves it there.
Lost    == channel = Async /\ Irqs = <<>>
             /\ (lpc \in {"hdr", "gone"} \/ (lpc = "deliver" /\ lpkt.type = "INVALID"))
Half    == mpc \in {"again", "data"}   \* the main thread has read a header
Reading == ~Lost \/ (mpc \in {"hdr", "data"} /\ mfd = Main)

\* Header and payload alternate, each payload is its header's, and what the
\* main thread reads next, and the simulation sends next, keeps this up.
Pairs ==
  \A i \in 1 .. Len(Replies) - 1 :
    /\ Replies[i].k # Replies[i + 1].k
    /\ Replies[i].k = "H" => Replies[i].id = Replies[i + 1].id
Front ==
  Replies # <<>> /\ Reading =>
    IF Half THEN Replies[1].k = "D" /\ Replies[1].id = resp.id ELSE Replies[1].k = "H"
Back ==
  LET n == Len(Replies) IN
  /\ spc = "ack" => IF n = 0 THEN Half /\ resp.id = srv.id
                    ELSE Replies[n].k = "H" /\ Replies[n].id = srv.id
  /\ spc \in {"poll", "msg"} /\ open[Main] => IF n = 0 THEN ~Half ELSE Replies[n].k = "D"
Labelled ==
  /\ srv.tag = Tag(srv.id)
  /\ \A i \in 1 .. Len(Requests) : Requests[i].tag = Tag(Requests[i].id)
  /\ \A i \in 1 .. Len(Replies) :
       /\ Replies[i].type = "ACK"
       /\ Replies[i].tag = Tag(Replies[i].id) /\ Replies[i].id <= tx
  /\ resp.type # "INVALID" => resp.tag = Tag(resp.id) /\ resp.id <= tx
  /\ resp.type \in {"ACK", "INVALID"}
  /\ mpc # "idle" => req.id = tx /\ req.tag = Tag(tx) /\ req.type = "MEM_RD"

StreamInv == ~torn[Main] /\ Pairs /\ Front /\ Back
FrameInv  == StreamInv /\ Labelled

-----------------------------------------------------------------------------
(* What a reply carries.                                                   *)

\* MAIN takes what is sent; or will, once the interrupt is delivered.
Flowing == channel = Main /\ ~shut /\ open[Main]
Open    == ~Lost /\ ~shut /\ open[Main]
Newest  == srv.id = tx \/ \E i \in 1 .. Len(Requests) : Requests[i].id = tx

Kept(a) ==
  \/ mem[a] = issued[a]
  \/ \E i \in 1 .. Len(Requests) : IsWrite(Requests[i], a) /\ Requests[i].id = issued[a]

KeptInv == Open \/ Newest => \A a \in Addrs : Kept(a)

\* The data of the read in hand: it is the latest, wherever it is.
ReadInv ==
  /\ mpc # "idle" =>
       /\ tx > 0 /\ (srv.id = tx => srv.addr = req.addr)
       /\ \A i \in 1 .. Len(Requests) :
            Requests[i].id = tx => Requests[i].addr = req.addr
       /\ \A i \in 1 .. Len(Replies) :
            Replies[i].k = "D" /\ Replies[i].id = tx => Replies[i].val = issued[req.addr]
  /\ mpc = "disarm" /\ resp.type = "ACK" /\ resp.id = tx => resp.val = issued[req.addr]

-----------------------------------------------------------------------------
(* Without time-outs, each read has at most one reply under way: while the *)
(* main thread listens to MAIN, every unit there is of the read in hand.   *)

Before       == mpc \in {"arm", "recv", "hdr"}   \* no reply has been read yet
ReadUnderWay == \E i \in 1 .. Len(Requests) : Requests[i].type = "MEM_RD"

Lone ==
  /\ \A i \in 1 .. Len(Replies) : Replies[i].id = tx
  /\ Len(Replies) <= IF Half THEN 1 ELSE 2
  /\ spc = "ack" => srv.id = tx /\ Len(Replies) <= IF Half THEN 0 ELSE 1
  /\ mpc \in {"idle", "disarm"} => Len(Replies) = 0 /\ spc # "ack"
  /\ open[Main] /\ ReadUnderWay => spc # "ack" /\ Len(Replies) = 0 /\ Before
  /\ open[Main] => \A i \in 1 .. Len(Requests) :
       Requests[i].type = "MEM_RD" => Requests[i].id = tx

LoneInv ==
  /\ Half \/ (mpc = "disarm" /\ resp.type = "ACK") => resp.id = tx
  /\ Reading => Lone

-----------------------------------------------------------------------------
(* What the steps do to the two streams of MAIN.                           *)

LEMMA RequestsType ==
  ASSUME TypeOK
  PROVE  /\ Requests \in Seq(Request) /\ Len(Requests) \in Nat
         /\ \A i \in 1 .. Len(Requests) : Requests[i] \in Request
         /\ Replies \in Seq(Unit) /\ Len(Replies) \in Nat
         /\ \A i \in 1 .. Len(Replies) : Replies[i] \in Unit
BY ChansAre DEF TypeOK, Requests, Replies

\* A send of the bridge: MAIN takes it, or it is lost.
LEMMA Sent ==
  ASSUME TypeOK, NEW p \in Request, Send(channel, p)
  PROVE  /\ Flowing => /\ Len(Requests') = Len(Requests) + 1
                       /\ \A i \in 1 .. Len(Requests) : Requests'[i] = Requests[i]
                       /\ Requests'[Len(Requests) + 1] = p
         /\ ~Flowing => Requests' = Requests
<1>1. Requests \in Seq(Request)
  BY RequestsType
<1>2. CASE Flowing
  <2>1. Requests' = Append(Requests, p)
    BY <1>2, ChansAre DEF Flowing, Send, Gone, TypeOK, Requests
  <2> QED BY <1>1, <1>2, <2>1, AppendProperties
<1>3. CASE ~Flowing
  BY <1>3, ChansAre DEF Flowing, Send, Gone, TypeOK, Requests
<1> QED BY <1>2, <1>3

\* A receive of the simulation from MAIN: the first request.
LEMMA Served ==
  ASSUME TypeOK, NEW type, Received(Main, type)
  PROVE  /\ Requests # <<>> /\ Len(Requests) > 0
         /\ srv' = Requests[1] /\ srv' \in Request /\ srv'.type = type
         /\ Len(Requests') = Len(Requests) - 1
         /\ \A i \in 1 .. Len(Requests') : Requests'[i] = Requests[i + 1]
<1>1. Requests # <<>>
  BY DEF Received, Requests
<1>2. Requests \in Seq(Request)
  BY RequestsType
<1>3. Requests' = Tail(Requests) /\ srv' = Head(Requests) /\ srv'.type = type
  BY ChansAre DEF Received, TypeOK, Requests
<1>4. Head(Requests) = Requests[1] /\ Len(Requests) > 0
  BY <1>1, <1>2
<1> QED BY <1>1, <1>2, <1>3, <1>4, HeadTailProperties

-----------------------------------------------------------------------------
(* The channel.                                                            *)

\* Whoever uses the channel while no interrupt is under way finds it on MAIN,
\* unless it is lost for good.
LEMMA LostEnds ==
  ASSUME LinkInv
  PROVE  /\ Lost => Gone(Async)
         /\ raised = irqs => channel = Main \/ Lost
<1>1. TypeOK /\ OneAtATime /\ irqs \in Nat
  BY CountsType DEF LinkInv
<1>2. Len(<<>>) = 0
  OBVIOUS
<1>3. ASSUME Lost PROVE Gone(Async)
  BY <1>1, <1>2, <1>3, ChansAre DEF Lost, OneAtATime, Unserved, Signalled, Ended, OnMain,
                                    HeaderSent, BothSent
<1>4. ASSUME raised = irqs PROVE channel = Main \/ Lost
  BY <1>1, <1>4 DEF Lost, OneAtATime, Unserved, Signalled, Ended, OnMain
<1> QED BY <1>3, <1>4

\* The listener never leads a lost channel back.
LEMMA LostListener ==
  ASSUME LinkInv, Listener, Lost
  PROVE  Lost'
<1>1. TypeOK /\ Gone(Async)
  BY LostEnds DEF LinkInv
<1>2. ~AsyncPoll /\ ~AsyncHup /\ ~AsyncHeader /\ ~AsyncPayload
  BY DEF Lost, AsyncPoll, AsyncHup, AsyncHeader, AsyncPayload, HeaderReads, PayloadReads, Irqs
<1>3. CASE AsyncFails
  BY <1>1, <1>3 DEF AsyncFails, Lost, Irqs, TypeOK, Packet
<1>4. CASE AsyncDeliver
  BY <1>1, <1>4 DEF AsyncDeliver, Lost, Irqs, ChannelAfter, Continues
<1> QED BY <1>2, <1>3, <1>4 DEF Listener

-----------------------------------------------------------------------------
(* As far as requests and memory go there are five kinds of step: the      *)
(* guest issues a request, the monitor sends the NACK, the simulation      *)
(* serves a request, or ends on a NACK that came on ASYNC, and the rest,   *)
(* which leaves both alone.                                                *)

Issue(p) ==
  /\ p.type \in {"MEM_WR", "MEM_RD"} /\ p.id = tx + 1 /\ p.tag = Tag(p.id)
  /\ tx' = tx + 1 /\ Send(channel, p) /\ raised = irqs
  /\ issued' = IF p.type = "MEM_WR" /\ ~IsIrq(p) THEN [issued EXCEPT ![p.addr] = p.id] ELSE issued
  /\ mpc = "idle"
  /\ IF p.type = "MEM_RD" THEN mpc' = "arm" /\ req' = p ELSE UNCHANGED <<mpc, req>>
  /\ UNCHANGED <<channel, shut, open, spc, srv, mem, tpc, atInt,
                 toBridge, torn, resp, mfd, last, lpc, lpkt>>

Serve(type) ==
  /\ Received(Main, type) /\ spc = "poll" /\ open[Main]
  /\ mem' = IF type = "MEM_WR" /\ ~IsIrq(srv') THEN [mem EXCEPT ![srv'.addr] = srv'.id] ELSE mem
  /\ spc' = IF type = "NACK" THEN "done" ELSE IF type = "MEM_RD" THEN "ack"
            ELSE IF IsIrq(srv') THEN "msg" ELSE "poll"
  /\ type # "NACK" => open' = open
  /\ IF type = "MEM_RD"
       THEN SimSend(Main, [k |-> "H", type |-> "ACK", id |-> srv'.id,
                           tag |-> srv'.tag, val |-> 0])
       ELSE Replies' = Replies
  /\ open'[Main] => type # "NACK"
  /\ Lost' <=> Lost
  /\ UNCHANGED <<channel, shut, tx, issued, tpc, atInt, torn, mpc, req, resp, mfd, last>>

Hangup ==
  /\ Alive /\ spc = "poll" /\ spc' = "done" /\ toSim[Async] # <<>> /\ ~open'[Main]
  /\ Requests = <<>> /\ Requests' = <<>> /\ srv' = NoRequest
  /\ UNCHANGED <<channel, shut, tx, issued, mem, tpc, atInt, torn, mpc, req, resp, mfd, last,
                 toBridge, lpc, lpkt>>

Rest ==
  /\ UNCHANGED <<toSim, srv, mem, tx, issued, atInt>>
  /\ (Lost => Lost') /\ (shut => shut') /\ (open'[Main] => open[Main])
  /\ spc' # spc => \/ spc' = "dead"
                   \/ spc' = "done" /\ spc = "poll" /\ shut /\ Requests = <<>> /\ Alive
                   \/ spc' = "poll" /\ spc \in {"ack", "msg"}
  /\ tpc' # tpc => tpc' = "exit" \/ (tpc = "nack" /\ tpc' = "shut")

ServedTypes == {"MEM_WR", "MEM_RD", "NACK"}

LEMMA GuestIssues ==
  ASSUME GuestWaits \/ NoDoorbell, TypeOK, OneAtATime, Guest
  PROVE  \E p \in Request : Issue(p)
<1>0. tx \in Nat /\ channel \in Chans
  BY LinkAssumption DEF TypeOK, Ids
<1> USE DEF listenerVars, simVars, termVars
<1>a. raised = irqs
  BY GuestAsks DEF Asks
<1>1. ASSUME NEW a \in Addrs, NEW op \in {"wr", "irq"}, PcieBridgeWrite(a, op)
      PROVE  \E p \in Request : Issue(p)
  <2> DEFINE p == [type |-> "MEM_WR", id |-> tx + 1, tag |-> Tag(tx + 1),
                   addr |-> a, msi |-> op = "irq"]
  <2>1. tx + 1 \in Ids
    BY <1>0, <1>1, LinkAssumption DEF PcieBridgeWrite, Ids
  <2>2. p \in Request
    BY <2>1, <1>0, TagType DEF Request
  <2>3. Issue(p)
    BY <1>1, <1>a DEF Issue, PcieBridgeWrite
  <2> QED BY <2>2, <2>3
<1>2. ASSUME NEW a \in Addrs, PcieBridgeRead(a)
      PROVE  \E p \in Request : Issue(p)
  <2>1. tx + 1 \in Ids
    BY <1>0, <1>2, LinkAssumption DEF PcieBridgeRead, Ids
  <2>2. req' \in Request
    BY <2>1, <1>0, <1>2, TagType DEF Request, PcieBridgeRead
  <2>3. Issue(req')
    BY <1>2, <1>a DEF Issue, PcieBridgeRead
  <2> QED BY <2>2, <2>3
<1> QED BY <1>1, <1>2 DEF Guest

LEMMA SimServes ==
  ASSUME LinkInv, NEW ch \in Chans,
         SimWrite(ch) \/ SimIrq(ch) \/ SimRead(ch) \/ SimNack(ch)
  PROVE  (\E type \in ServedTypes : Serve(type)) \/ Hangup
<1> USE DEF mainVars, listenerVars, termVars, ServedTypes
<1>0. TypeOK /\ Main \in Chans /\ Async \in Chans /\ Main # Async
  BY ChansAre DEF LinkInv
<1>1. CASE SimWrite(ch)
  <2>1. Received(Main, "MEM_WR") /\ spc = "poll" /\ open[Main]
    BY <1>1, ServedFrom DEF SimWrite
  <2>2. ~IsIrq(srv') /\ mem' = [mem EXCEPT ![srv'.addr] = srv'.id]
        /\ UNCHANGED <<spc, open, toBridge, channel, lpc, lpkt, shut, tx, issued, tpc, atInt,
                       torn, mpc, req, resp, mfd, last>>
    BY <1>1 DEF SimWrite
  <2>3. (Lost' <=> Lost) /\ Replies' = Replies
    BY <2>2 DEF Lost, Irqs, Replies
  <2>4. Serve("MEM_WR")
    BY <2>1, <2>2, <2>3 DEF Serve
  <2> QED BY <2>4
<1>2. CASE SimIrq(ch)
  <2>1. Received(Main, "MEM_WR") /\ spc = "poll" /\ open[Main] /\ open[Async]
    BY <1>2, ServedFrom DEF SimIrq
  <2>2. IsIrq(srv') /\ spc' = "msg"
        /\ UNCHANGED <<open, mem, channel, lpc, lpkt, shut, tx, issued, tpc, atInt,
                       torn, mpc, req, resp, mfd, last>>
    BY <1>2 DEF SimIrq
  <2>3. Replies' = Replies
    BY <1>0, <1>2 DEF SimIrq, SimSend, TypeOK, Replies
  <2>4. ~Lost /\ ~Lost'
    <3>1. Irqs' = Append(Irqs, [k |-> "H", type |-> "MSG", id |-> srv'.id, tag |-> 0, val |-> 0])
      BY <1>0, <1>2, <2>1 DEF SimIrq, SimSend, TypeOK, Irqs
    <3>2. Irqs \in Seq(Unit)
      BY <1>0 DEF TypeOK, Irqs
    <3>3. Irqs' # <<>>
      BY <3>1, <3>2
    <3> QED BY <2>1, <3>3, LostEnds DEF Lost, Gone
  <2>5. Serve("MEM_WR")
    BY <2>1, <2>2, <2>3, <2>4 DEF Serve
  <2> QED BY <2>5
<1>3. CASE SimRead(ch)
  <2>1. Received(Main, "MEM_RD") /\ ch = Main /\ spc = "poll" /\ open[Main]
    BY <1>3, ServedFrom DEF SimRead
  <2>2. Irqs' = Irqs /\ spc' = "ack"
        /\ UNCHANGED <<open, mem, channel, lpc, lpkt, shut, tx, issued, tpc, atInt,
                       torn, mpc, req, resp, mfd, last>>
    BY <1>0, <1>3, <2>1 DEF SimRead, SimSend, TypeOK, Irqs
  <2>3. Lost' <=> Lost
    BY <2>2 DEF Lost
  <2>4. Serve("MEM_RD")
    BY <1>3, <2>1, <2>2, <2>3 DEF Serve, SimRead
  <2> QED BY <2>4
<1>4. CASE SimNack(ch)
  <2>1. Received(ch, "NACK") /\ spc = "poll" /\ open[ch] /\ Alive /\ ~open'[Main] /\ spc' = "done"
        /\ UNCHANGED <<toBridge, mem, channel, lpc, lpkt, shut, tx, issued, tpc, atInt,
                       torn, mpc, req, resp, mfd, last>>
    BY <1>0, <1>4, ServedFrom DEF SimNack, Stop
  <2>2. (Lost' <=> Lost) /\ Replies' = Replies
    BY <2>1 DEF Lost, Irqs, Replies
  <2>3. CASE ch = Main
    <3>1. Serve("NACK")
      BY <2>1, <2>2, <2>3 DEF Serve
    <3> QED BY <3>1
  <2>4. CASE ch = Async
    <3>1. srv' = NoRequest /\ Requests = <<>>
      BY <2>1, <2>4, ServedFrom DEF Requests
    <3>2. Requests' = <<>> /\ toSim[Async] # <<>>
      BY <1>0, <2>1, <2>4, <3>1 DEF Received, TypeOK, Requests
    <3> QED BY <2>1, <3>1, <3>2 DEF Hangup
  <2> QED BY <1>0, <2>3, <2>4, ChansAre
<1> QED BY <1>1, <1>2, <1>3, <1>4

\* The payload of a reply goes to MAIN.
LEMMA DataLeavesAsync ==
  ASSUME LinkInv, SimReadData
  PROVE  Lost' <=> Lost
<1>1. activeSocket = Main /\ TypeOK /\ UNCHANGED <<channel, lpc, lpkt>>
  BY DEF SimReadData, LinkInv, EndsInv, listenerVars
<1>2. Irqs' = Irqs
  BY <1>1, ChansAre DEF SimReadData, SimSend, TypeOK, Irqs
<1> QED BY <1>1, <1>2 DEF Lost

\* The steps of the simulation that touch no request: they leave the listener
\* and what MAIN carries to it alone, but for the payload of a reply.
LEMMA SimRests ==
  ASSUME LinkInv, SimIrqVector \/ SimReadData \/ SimDies \/ \E ch \in Chans : SimEof(ch)
  PROVE  Rest /\ (~SimReadData => Replies' = Replies /\ spc' # "ack"
                                  /\ (spc' = "poll" => spc \in {"poll", "msg"}))
<1> USE DEF mainVars, listenerVars, termVars
<1>0. TypeOK /\ EndsInv /\ Main \in Chans /\ Async \in Chans /\ Main # Async
  BY ChansAre DEF LinkInv
<1>1. CASE SimIrqVector
  <2>1. spc = "msg" /\ spc' = "poll" /\ open[Async]
        /\ UNCHANGED <<toSim, srv, open, mem, channel, lpc, lpkt, shut, tx, issued, tpc, atInt>>
    BY <1>0, <1>1 DEF SimIrqVector, EndsInv, Gone
  <2>2. Replies' = Replies
    BY <1>0, <1>1 DEF SimIrqVector, SimSend, TypeOK, Replies
  <2>3. ~Lost
    BY <2>1, LostEnds DEF Gone
  <2> QED BY <2>1, <2>2, <2>3 DEF Rest
<1>2. CASE SimReadData
  <2>1. spc = "ack" /\ spc' = "poll" /\ activeSocket = Main
        /\ UNCHANGED <<toSim, srv, open, mem, channel, lpc, lpkt, shut, tx, issued, tpc, atInt>>
    BY <1>0, <1>2 DEF SimReadData, EndsInv
  <2>2. Lost' <=> Lost
    BY <1>2, DataLeavesAsync
  <2> QED BY <1>2, <2>1, <2>2 DEF Rest
<1>3. CASE SimDies
  <2>1. spc' = "dead" /\ ~open'[Main]
        /\ UNCHANGED <<toSim, toBridge, srv, mem, channel, lpc, lpkt, shut, tx, issued, tpc, atInt>>
    BY <1>0, <1>3 DEF SimDies
  <2>2. (Lost' <=> Lost) /\ Replies' = Replies
    BY <2>1 DEF Lost, Irqs, Replies
  <2> QED BY <2>1, <2>2 DEF Rest
<1>4. ASSUME NEW ch \in Chans, SimEof(ch)
      PROVE  Rest /\ Replies' = Replies /\ spc' # "ack" /\ spc = "poll"
  <2>1. /\ shut /\ Requests = <<>> /\ spc = "poll" /\ Alive /\ ~open'[Main]
        /\ spc' \in {"poll", "done"}
    BY <1>0, <1>4, EndsEof DEF Requests
  <2>2. UNCHANGED <<toSim, toBridge, srv, mem, channel, lpc, lpkt, shut, tx, issued, tpc, atInt>>
    BY <1>4 DEF SimEof
  <2>3. (Lost' <=> Lost) /\ Replies' = Replies
    BY <2>2 DEF Lost, Irqs, Replies
  <2> QED BY <2>1, <2>2, <2>3 DEF Rest
<1> QED BY <1>1, <1>2, <1>3, <1>4

\* The listener takes what ASYNC carries and nothing else.
LEMMA ListenerRests ==
  ASSUME LinkInv, Listener
  PROVE  Rest /\ Replies' = Replies /\ torn'[Main] = torn[Main]
<1> USE DEF mainVars, simVars, termVars
<1>0. TypeOK /\ Main \in Chans /\ Async \in Chans /\ Main # Async
  BY ChansAre DEF LinkInv
<1>1. UNCHANGED <<toSim, srv, mem, tx, issued, atInt, shut, open, spc, tpc>>
  BY DEF Listener, AsyncPoll, AsyncHup, AsyncHeader, AsyncPayload, AsyncFails, AsyncDeliver
<1>2. Replies' = Replies /\ torn'[Main] = torn[Main]
  BY <1>0 DEF Listener, AsyncPoll, AsyncHup, AsyncHeader, AsyncPayload, AsyncFails, AsyncDeliver,
              Take, TypeOK, Replies
<1> QED BY <1>1, <1>2, LostListener DEF Rest

LEMMA MainRests ==
  ASSUME LinkInv, MainThread
  PROVE  Rest
<1> USE DEF listenerVars, simVars, termVars
<1>0. TypeOK /\ OneAtATime
  BY DEF LinkInv
<1>1. UNCHANGED <<toSim, srv, mem, tx, issued, atInt, shut, open, spc, tpc, channel, lpc, lpkt>>
  BY DEF MainThread, SetTimeout, SelectSocket, ReceiveHeader, ReceivePayload, ReceiveFails, Finish
<1>2. Irqs' = Irqs
  BY MainLeavesAsync DEF Irqs
<1>3. Lost' <=> Lost
  BY <1>1, <1>2 DEF Lost
<1> QED BY <1>1, <1>3 DEF Rest

LEMMA StepKinds ==
  ASSUME GuestWaits \/ NoDoorbell, LinkInv, [Next]_vars
  PROVE  \/ \E p \in Request : Issue(p)
         \/ Sigint
         \/ \E type \in ServedTypes : Serve(type)
         \/ Hangup
         \/ Rest
<1> USE DEF mainVars, listenerVars, simVars, termVars
<1>1. CASE Guest
  BY <1>1, GuestIssues DEF LinkInv
<1>2. CASE Sim \/ SimDies
  BY <1>2, SimServes, SimRests DEF Sim
<1>3. CASE Disconnect \/ Exit \/ MainReturns \/ UNCHANGED vars
  <2>1. Lost' <=> Lost
    BY <1>3 DEF Disconnect, Exit, MainReturns, EndProcess, vars, Lost, Irqs
  <2> QED BY <1>3, <2>1 DEF Rest, Disconnect, Exit, MainReturns, EndProcess, vars
<1> QED BY <1>1, <1>2, <1>3, MainRests, ListenerRests DEF Next

LEMMA IdsNat ==
  ASSUME TypeOK
  PROVE  /\ tx \in Nat /\ srv.id \in Nat
         /\ \A i \in 1 .. Len(Requests) : Requests[i].id \in Nat
         /\ \A a \in Addrs : mem[a] \in Nat /\ issued[a] \in Nat /\ atInt[a] \in Nat
<1>1. \A n \in Ids : n \in Nat
  BY LinkAssumption DEF Ids
<1>2. tx \in Ids /\ srv.id \in Ids
  BY DEF TypeOK, Request
<1>3. \A i \in 1 .. Len(Requests) : Requests[i].id \in Ids
  BY RequestsType DEF Request
<1>4. \A a \in Addrs : mem[a] \in Ids /\ issued[a] \in Ids /\ atInt[a] \in Ids
  BY DEF TypeOK
<1> QED BY <1>1, <1>2, <1>3, <1>4

LEMMA OrderInit == Init => OrderInv /\ MemoryInv /\ ShutdownInv
<1> SUFFICES ASSUME Init PROVE OrderInv /\ MemoryInv /\ ShutdownInv
  OBVIOUS
<1>1. Len(Requests) = 0 /\ tx = 0 /\ srv.id = 0
  BY ChansAre DEF Init, Requests, NoRequest
<1>2. \A a \in Addrs : mem[a] = 0 /\ issued[a] = 0 /\ atInt[a] = 0
  BY DEF Init
<1>3. spc = "poll" /\ toSim[Async] = <<>>
  BY ChansAre DEF Init
<1> QED BY <1>1, <1>2, <1>3 DEF OrderInv, MemoryInv, ShutdownInv, Arrives

LEMMA OrderStep ==
  ASSUME GuestWaits \/ NoDoorbell, LinkInv, LinkInv', OrderInv, [Next]_vars
  PROVE  OrderInv'
<1> DEFINE n == Len(Requests)
<1>a. TypeOK /\ n \in Nat
  BY RequestsType DEF LinkInv
<1>b. srv.id \in Nat /\ tx \in Nat /\ srv.id <= tx
  BY <1>a, IdsNat DEF OrderInv
<1>c. \A i \in 1 .. n : /\ Requests[i].id \in Nat
                        /\ IF Requests[i].type = "NACK" THEN Requests[i].id = 0
                           ELSE srv.id < Requests[i].id /\ Requests[i].id <= tx
  BY <1>a, IdsNat DEF OrderInv
<1>d. \A i, j \in 1 .. n :
        i < j /\ Requests[i].type # "NACK" /\ Requests[j].type # "NACK"
          => Requests[i].id < Requests[j].id
  BY DEF OrderInv
<1> HIDE DEF n
<1>0. ASSUME NEW p \in Request, Send(channel, p), srv' = srv, tx' \in {tx, tx + 1},
             IF p.type = "NACK" THEN p.id = 0 ELSE p.id = tx + 1 /\ tx' = tx + 1
      PROVE  OrderInv'
  <2>1. CASE Flowing
    <3>1. /\ Len(Requests') = n + 1 /\ Requests'[n + 1] = p
          /\ \A i \in 1 .. n : Requests'[i] = Requests[i]
      BY <1>a, <1>0, <2>1, Sent DEF n
    <3>2. \A i \in 1 .. n + 1 : i \in 1 .. n \/ i = n + 1
      BY <1>a
    <3>3. ASSUME NEW i \in 1 .. n + 1
          PROVE  IF Requests'[i].type = "NACK" THEN Requests'[i].id = 0
                 ELSE srv'.id < Requests'[i].id /\ Requests'[i].id <= tx'
      BY <1>0, <1>b, <1>c, <3>1, <3>2
    <3>4. ASSUME NEW i \in 1 .. n + 1, NEW j \in 1 .. n + 1, i < j,
                 Requests'[i].type # "NACK", Requests'[j].type # "NACK"
          PROVE  Requests'[i].id < Requests'[j].id
      <4>1. i \in 1 .. n
        BY <1>a, <3>4
      <4> QED BY <1>0, <1>b, <1>c, <1>d, <3>1, <3>2, <3>4, <4>1
    <3> QED BY <1>0, <1>b, <3>1, <3>3, <3>4 DEF OrderInv
  <2>2. CASE ~Flowing
    <3>1. Requests' = Requests
      BY <1>a, <1>0, <2>2, Sent
    <3>2. srv'.id <= tx' /\ tx <= tx' /\ tx' \in Nat
      BY <1>0, <1>b
    <3>3. \A i \in 1 .. n : Requests[i].type # "NACK" => Requests[i].id <= tx'
      BY <1>b, <1>c, <3>2
    <3> QED BY <1>0, <1>c, <1>d, <3>1, <3>2, <3>3 DEF OrderInv, n
  <2> QED BY <2>1, <2>2
<1>1. ASSUME NEW p \in Request, Issue(p) PROVE OrderInv'
  BY <1>0, <1>1 DEF Issue
<1>2. CASE Sigint
  <2>1. NoRequest \in Request /\ NoRequest.type = "NACK" /\ NoRequest.id = 0
    BY NoRequestType DEF NoRequest
  <2> QED BY <1>0, <1>2, <2>1 DEF Sigint, mainVars, simVars
<1>3. ASSUME NEW type, Serve(type) PROVE OrderInv'
  <2>1. /\ n > 0 /\ srv' = Requests[1] /\ tx' = tx /\ Len(Requests') = n - 1
        /\ \A i \in 1 .. n - 1 : Requests'[i] = Requests[i + 1]
    BY <1>a, <1>3, Served, ChansAre DEF Serve, n
  <2>2. \A i \in 1 .. n - 1 : i + 1 \in 1 .. n /\ 1 \in 1 .. n /\ 1 < i + 1
    BY <1>a
  <2>3. srv'.id <= tx'
    BY <1>a, <1>b, <1>c, <2>1
  <2>4. ASSUME NEW i \in 1 .. n - 1
        PROVE  IF Requests'[i].type = "NACK" THEN Requests'[i].id = 0
               ELSE srv'.id < Requests'[i].id /\ Requests'[i].id <= tx'
    BY <1>b, <1>c, <1>d, <2>1, <2>2
  <2>5. ASSUME NEW i \in 1 .. n - 1, NEW j \in 1 .. n - 1, i < j,
               Requests'[i].type # "NACK", Requests'[j].type # "NACK"
        PROVE  Requests'[i].id < Requests'[j].id
    <3>1. i + 1 < j + 1
      BY <1>a, <2>5
    <3> QED BY <1>d, <2>1, <2>2, <2>5, <3>1
  <2> QED BY <2>1, <2>3, <2>4, <2>5 DEF OrderInv
<1>4. CASE Hangup
  <2>1. srv'.id = 0 /\ tx' = tx /\ Len(Requests') = 0
    BY <1>4 DEF Hangup, NoRequest
  <2> QED BY <1>b, <2>1 DEF OrderInv
<1>5. CASE Rest
  BY <1>5 DEF Rest, OrderInv, Requests
<1> QED BY <1>1, <1>2, <1>3, <1>4, <1>5, StepKinds

LEMMA MemoryStep ==
  ASSUME GuestWaits \/ NoDoorbell, LinkInv, LinkInv', OrderInv, MemoryInv, [Next]_vars
  PROVE  MemoryInv'
<1> DEFINE n == Len(Requests)
<1>a. TypeOK /\ n \in Nat
  BY RequestsType DEF LinkInv
<1>b. tx \in Nat
  BY <1>a, IdsNat
<1>c. \A i \in 1 .. n : /\ Requests[i].id \in Nat
                        /\ Requests[i].type # "NACK" => Requests[i].id <= tx
  BY <1>a, IdsNat DEF OrderInv
<1>d. \A i \in 2 .. n : Requests[1].type # "NACK" /\ Requests[i].type # "NACK"
                          => Requests[1].id < Requests[i].id
  BY <1>a DEF OrderInv
<1>e. \A a \in Addrs : /\ mem[a] \in Nat /\ issued[a] \in Nat
                       /\ mem[a] <= issued[a] /\ issued[a] <= tx
  BY <1>a, IdsNat DEF MemoryInv
<1>f. \A a \in Addrs : \A i \in 1 .. n :
        /\ Requests[i].type # "NACK" => mem[a] < Requests[i].id
        /\ IsWrite(Requests[i], a) => Requests[i].id <= issued[a]
  BY DEF MemoryInv
<1> HIDE DEF n
<1>0. ASSUME NEW p \in Request, Send(channel, p), mem' = mem, tx' \in Nat, tx <= tx',
             p.type # "NACK" => p.id = tx + 1,
             \A a \in Addrs : issued'[a] = IF IsWrite(p, a) THEN tx' ELSE issued[a],
             \A a \in Addrs : IsWrite(p, a) => p.id = tx'
      PROVE  MemoryInv'
  <2>1. \A a \in Addrs : /\ issued'[a] \in Nat /\ mem'[a] <= issued'[a] /\ issued'[a] <= tx'
                         /\ issued[a] <= issued'[a]
    <3> SUFFICES ASSUME NEW a \in Addrs
                 PROVE  /\ issued'[a] \in Nat /\ mem'[a] <= issued'[a] /\ issued'[a] <= tx'
                        /\ issued[a] <= issued'[a]
      OBVIOUS
    <3>1. issued'[a] = tx' \/ issued'[a] = issued[a]
      BY <1>0
    <3>2. mem'[a] = mem[a]
      BY <1>0
    <3> QED BY <1>0, <1>b, <1>e, <3>1, <3>2
  <2>2. ASSUME NEW a \in Addrs, NEW i \in 1 .. n
        PROVE  /\ Requests[i].type # "NACK" => mem'[a] < Requests[i].id
               /\ IsWrite(Requests[i], a) => Requests[i].id <= issued'[a]
    BY <1>0, <1>c, <1>e, <1>f, <2>1
  <2>3. CASE Flowing
    <3>1. /\ Len(Requests') = n + 1 /\ Requests'[n + 1] = p
          /\ \A i \in 1 .. n : Requests'[i] = Requests[i]
      BY <1>a, <1>0, <2>3, Sent DEF n
    <3>2. \A i \in 1 .. n + 1 : i \in 1 .. n \/ i = n + 1
      BY <1>a
    <3>3. ASSUME NEW a \in Addrs
          PROVE  /\ p.type # "NACK" => mem'[a] < p.id
                 /\ IsWrite(p, a) => p.id <= issued'[a]
      <4>1. mem[a] < tx + 1
        BY <1>b, <1>e
      <4> QED BY <1>0, <4>1
    <3>4. ASSUME NEW a \in Addrs, NEW i \in 1 .. n + 1
          PROVE  /\ Requests'[i].type # "NACK" => mem'[a] < Requests'[i].id
                 /\ IsWrite(Requests'[i], a) => Requests'[i].id <= issued'[a]
      BY <2>2, <3>1, <3>2, <3>3
    <3> QED BY <2>1, <3>1, <3>4 DEF MemoryInv, IsWrite, IsIrq
  <2>4. CASE ~Flowing
    <3>1. Requests' = Requests
      BY <1>a, <1>0, <2>4, Sent
    <3> QED BY <2>1, <2>2, <3>1 DEF MemoryInv, n, IsWrite, IsIrq
  <2> QED BY <2>3, <2>4
<1>1. ASSUME NEW p \in Request, Issue(p) PROVE MemoryInv'
  <2>1. p.id = tx + 1 /\ tx' = tx + 1 /\ mem' = mem /\ Send(channel, p)
    BY <1>1 DEF Issue
  <2>2. \A a \in Addrs : issued'[a] = IF IsWrite(p, a) THEN tx' ELSE issued[a]
    BY <1>1, <1>a DEF Issue, TypeOK, IsWrite, IsIrq
  <2> QED BY <1>0, <1>b, <2>1, <2>2 DEF IsWrite, IsIrq
<1>2. CASE Sigint
  <2>1. UNCHANGED <<mem, issued, tx>> /\ Send(channel, NoRequest)
    BY <1>2 DEF Sigint, mainVars, simVars
  <2>2. NoRequest \in Request /\ NoRequest.type = "NACK"
    BY NoRequestType DEF NoRequest
  <2>3. \A a \in Addrs : ~IsWrite(NoRequest, a)
    BY <2>2 DEF IsWrite, IsIrq
  <2> QED BY <1>0, <1>b, <2>1, <2>2, <2>3
<1>3. ASSUME NEW type, Serve(type) PROVE MemoryInv'
  <2>1. /\ n > 0 /\ srv' = Requests[1] /\ srv'.type = type /\ UNCHANGED <<tx, issued>>
        /\ Len(Requests') = n - 1
        /\ \A i \in 1 .. n - 1 : Requests'[i] = Requests[i + 1]
    BY <1>a, <1>3, Served, ChansAre DEF Serve, n
  <2>2. \A i \in 1 .. n - 1 : i + 1 \in 2 .. n /\ i + 1 \in 1 .. n
    BY <1>a
  <2>3. 1 \in 1 .. n
    BY <1>a, <2>1
  <2>4. \A a \in Addrs : mem'[a] = IF IsWrite(Requests[1], a) THEN Requests[1].id ELSE mem[a]
    BY <1>3, <1>a, <2>1 DEF Serve, TypeOK, IsWrite, IsIrq
  <2>5. ASSUME NEW a \in Addrs
        PROVE  mem'[a] <= issued'[a] /\ issued'[a] <= tx'
    BY <1>e, <1>f, <2>1, <2>3, <2>4
  <2>6. ASSUME NEW a \in Addrs, NEW i \in 1 .. n - 1
        PROVE  /\ Requests'[i].type # "NACK" => mem'[a] < Requests'[i].id
               /\ IsWrite(Requests'[i], a) => Requests'[i].id <= issued'[a]
    <3>1. CASE IsWrite(Requests[1], a)
      <4>1. Requests[1].type # "NACK"
        BY <3>1 DEF IsWrite, IsIrq
      <4> QED BY <1>d, <1>f, <2>1, <2>2, <2>4, <3>1, <4>1
    <3>2. CASE ~IsWrite(Requests[1], a)
      BY <1>f, <2>1, <2>2, <2>4, <3>2
    <3> QED BY <3>1, <3>2
  <2> QED BY <2>1, <2>5, <2>6 DEF MemoryInv, IsWrite, IsIrq
<1>4. CASE Hangup
  <2>1. UNCHANGED <<mem, issued, tx>> /\ Len(Requests') = 0
    BY <1>4 DEF Hangup
  <2> QED BY <2>1 DEF MemoryInv
<1>5. CASE Rest
  BY <1>5 DEF Rest, MemoryInv, Requests
<1> QED BY <1>1, <1>2, <1>3, <1>4, <1>5, StepKinds

\* As long as nobody disconnected and the simulation lives, MAIN is in use
\* whenever no interrupt is under way.
LEMMA WaitFlows ==
  ASSUME LinkInv, raised = irqs, tpc = "wait", spc # "dead", spc # "done"
  PROVE  Flowing
BY LostEnds, ChansAre DEF LinkInv, EndsInv, Flowing, Gone, TypeOK

LEMMA ArrivesSent ==
  ASSUME LinkInv, NEW p \in Request, Send(channel, p), mem' = mem,
         NEW a \in Addrs, NEW v, Arrives(a, v)
  PROVE  Arrives(a, v)'
<1> DEFINE n == Len(Requests)
<1>0. TypeOK /\ n \in Nat
  BY RequestsType DEF LinkInv
<1>1. /\ Len(Requests') \in {n, n + 1}
      /\ \A i \in 1 .. n : Requests'[i] = Requests[i]
  BY <1>0, Sent
<1>2. CASE mem[a] >= v
  BY <1>2 DEF Arrives
<1>3. ASSUME NEW i \in 1 .. n, IsWrite(Requests[i], a), Requests[i].id = v,
             \A j \in 1 .. i : Requests[j].type # "NACK"
      PROVE  Arrives(a, v)'
  <2>1. i \in 1 .. Len(Requests') /\ \A j \in 1 .. i : j \in 1 .. n
    BY <1>0, <1>1, <1>3
  <2> QED BY <1>1, <1>3, <2>1 DEF Arrives, IsWrite, IsIrq
<1> QED BY <1>2, <1>3 DEF Arrives

LEMMA ArrivesServed ==
  ASSUME LinkInv, MemoryInv, NEW type, Serve(type), NEW a \in Addrs, NEW v \in Nat, Arrives(a, v)
  PROVE  /\ type # "NACK" => Arrives(a, v)'
         /\ type = "NACK" => mem'[a] >= v
<1> DEFINE n == Len(Requests)
<1>0. TypeOK /\ n \in Nat
  BY RequestsType DEF LinkInv
<1>1. /\ n > 0 /\ srv' = Requests[1] /\ srv'.type = type
      /\ Len(Requests') = n - 1
      /\ \A i \in 1 .. n - 1 : Requests'[i] = Requests[i + 1]
  BY <1>0, Served, ChansAre DEF Serve
<1>2. mem'[a] = IF IsWrite(Requests[1], a) THEN Requests[1].id ELSE mem[a]
  BY <1>0, <1>1 DEF Serve, TypeOK, IsWrite, IsIrq
<1>3. mem[a] \in Nat /\ Requests[1].id \in Nat /\ 1 \in 1 .. n
  BY <1>0, <1>1, IdsNat
<1>4. mem'[a] >= mem[a]
  <2>1. IsWrite(Requests[1], a) => mem[a] < Requests[1].id
    BY <1>3 DEF MemoryInv, IsWrite, IsIrq
  <2> QED BY <1>2, <1>3, <2>1
<1> HIDE DEF n
<1>5. CASE mem[a] >= v
  <2>1. mem'[a] \in Nat
    BY <1>2, <1>3
  <2>2. mem'[a] >= v
    BY <1>3, <1>4, <1>5, <2>1
  <2> QED BY <2>2 DEF Arrives
<1>6. ASSUME NEW i \in 1 .. n, IsWrite(Requests[i], a), Requests[i].id = v,
             \A j \in 1 .. i : Requests[j].type # "NACK"
      PROVE  type # "NACK" /\ Arrives(a, v)'
  <2>1. type # "NACK"
    <3>1. 1 \in 1 .. i
      BY <1>0, <1>6
    <3> QED BY <1>1, <1>6, <3>1
  <2>2. CASE i = 1
    <3>1. mem'[a] >= v
      BY <1>2, <1>3, <1>6, <2>2
    <3> QED BY <2>1, <3>1 DEF Arrives
  <2>3. CASE i # 1
    <3> DEFINE k == i - 1
    <3>1. k \in 1 .. n - 1 /\ k + 1 = i
      BY <1>0, <1>6, <2>3
    <3>2. \A j \in 1 .. k : j \in 1 .. n - 1 /\ j + 1 \in 1 .. i
      BY <1>0, <1>6, <2>3
    <3> HIDE DEF k
    <3>3. IsWrite(Requests'[k], a) /\ Requests'[k].id = v
      BY <1>1, <1>6, <3>1
    <3>4. \A j \in 1 .. k : Requests'[j].type # "NACK"
      BY <1>1, <1>6, <3>2
    <3> QED BY <1>1, <2>1, <3>1, <3>3, <3>4 DEF Arrives, IsWrite, IsIrq
  <2> QED BY <2>1, <2>2, <2>3
<1> QED BY <1>5, <1>6 DEF Arrives, n

LEMMA ShutdownStep ==
  ASSUME GuestWaits \/ NoDoorbell, LinkInv, LinkInv', OrderInv, MemoryInv, ShutdownInv, [Next]_vars
  PROVE  ShutdownInv'
<1>a. TypeOK /\ Len(Requests) \in Nat
  BY RequestsType DEF LinkInv
<1>b. \A a \in Addrs : mem[a] \in Nat /\ issued[a] \in Nat /\ atInt[a] \in Nat
  BY <1>a, IdsNat
<1>c. tpc = "wait" => spc # "done" /\ toSim[Async] = <<>> /\ \A i \in 1 .. Len(Requests) : Requests[i].type # "NACK"
  BY DEF ShutdownInv
<1>d. tpc = "wait" /\ spc # "dead" => \A a \in Addrs : Arrives(a, issued[a])
  BY DEF ShutdownInv
<1>e. tpc \in {"nack", "shut"} /\ spc # "dead" => \A a \in Addrs : Arrives(a, atInt[a])
  BY DEF ShutdownInv
<1>f. spc = "done" => \A a \in Addrs : mem[a] >= atInt[a]
  BY DEF ShutdownInv
<1>g. tpc \in {"wait", "nack", "shut", "exit"} /\ (shut => tpc \in {"shut", "exit"})
  BY <1>a DEF LinkInv, EndsInv, TypeOK
<1>1. ASSUME NEW p \in Request, Issue(p) PROVE ShutdownInv'
  <2>1. /\ p.type # "NACK" /\ Send(channel, p) /\ UNCHANGED <<mem, spc, tpc, atInt>>
        /\ raised = irqs /\ toSim'[Async] = toSim[Async]
    BY <1>1, <1>a, LostEnds, ChansAre DEF Issue, Send, TypeOK
  <2>2. Len(Requests') = Len(Requests) \/ Len(Requests') = Len(Requests) + 1
    BY <1>a, <2>1, Sent
  <2>3. ASSUME NEW i \in 1 .. Len(Requests'), tpc = "wait"
        PROVE  Requests'[i].type # "NACK"
    <3>1. CASE Flowing
      <4>1. i \in 1 .. Len(Requests) \/ i = Len(Requests) + 1
        BY <1>a, <2>3, <2>2
      <4> QED BY <1>a, <1>c, <2>1, <2>3, <3>1, <4>1, Sent
    <3>2. CASE ~Flowing
      BY <1>a, <1>c, <2>1, <2>3, <3>2, Sent
    <3> QED BY <3>1, <3>2
  <2>4. ASSUME NEW a \in Addrs, tpc = "wait", spc # "dead"
        PROVE  Arrives(a, issued[a])'
    <3>1. CASE IsWrite(p, a)
      <4>1. Flowing
        BY <1>c, <2>1, <2>4, WaitFlows
      <4>2. issued'[a] = p.id
        BY <1>1, <1>a, <3>1 DEF Issue, IsWrite, IsIrq, TypeOK
      <4> DEFINE k == Len(Requests) + 1
      <4>3. /\ Len(Requests') = k /\ Requests'[k] = p
        BY <1>a, <2>1, <4>1, Sent
      <4>4. k \in 1 .. Len(Requests')
        BY <1>a, <4>3
      <4>5. \A j \in 1 .. k : Requests'[j].type # "NACK"
        BY <2>3, <2>4, <4>3
      <4> HIDE DEF k
      <4> QED BY <3>1, <4>2, <4>3, <4>4, <4>5 DEF Arrives, IsWrite, IsIrq
    <3>2. CASE ~IsWrite(p, a)
      <4>1. issued'[a] = issued[a]
        BY <1>1, <1>a, <3>2 DEF Issue, IsWrite, IsIrq, TypeOK
      <4>2. \A v : Arrives(a, v) => Arrives(a, v)'
        BY <2>1, ArrivesSent
      <4> QED BY <1>d, <2>4, <4>1, <4>2 DEF Arrives
    <3> QED BY <3>1, <3>2
  <2>5. ASSUME NEW a \in Addrs, tpc \in {"nack", "shut"}, spc # "dead"
        PROVE  Arrives(a, atInt[a])'
    <3>1. \A v : Arrives(a, v) => Arrives(a, v)'
      BY <2>1, ArrivesSent
    <3> QED BY <1>e, <2>1, <2>5, <3>1 DEF Arrives
  <2> QED BY <1>c, <1>f, <2>1, <2>3, <2>4, <2>5 DEF ShutdownInv
<1>2. CASE Sigint
  <2>1. /\ tpc = "wait" /\ tpc' = "nack" /\ atInt' = issued /\ Send(channel, NoRequest)
        /\ UNCHANGED <<mem, spc>>
    BY <1>2 DEF Sigint, simVars
  <2>2. ASSUME NEW a \in Addrs, spc # "dead"
        PROVE  Arrives(a, atInt[a])'
    <3>1. \A v : Arrives(a, v) => Arrives(a, v)'
      BY <2>1, NoRequestType, ArrivesSent
    <3> QED BY <1>d, <2>1, <2>2, <3>1 DEF Arrives
  <2> QED BY <1>c, <2>1, <2>2 DEF ShutdownInv
<1>3. ASSUME NEW type, Serve(type) PROVE ShutdownInv'
  <2>1. /\ srv' = Requests[1] /\ srv'.type = type /\ Len(Requests') = Len(Requests) - 1
        /\ Len(Requests) > 0 /\ UNCHANGED <<tpc, atInt, issued>> /\ toSim'[Async] = toSim[Async]
        /\ \A i \in 1 .. Len(Requests') : Requests'[i] = Requests[i + 1]
    BY <1>a, <1>3, Served, ChansAre DEF Serve, Received, TypeOK
  <2>2. spc = "poll" /\ tpc # "exit" /\ spc' \in {"done", "ack", "msg", "poll"}
        /\ (spc' = "done" => type = "NACK") /\ spc' # "dead"
    BY <1>3 DEF Serve, Received, Polled, Alive
  <2>3. ASSUME tpc = "wait"
        PROVE  type # "NACK" /\ \A i \in 1 .. Len(Requests') : Requests'[i].type # "NACK"
    <3>1. 1 \in 1 .. Len(Requests) /\ \A i \in 1 .. Len(Requests') : i + 1 \in 1 .. Len(Requests)
      BY <1>a, <2>1
    <3> QED BY <1>c, <2>1, <2>3, <3>1
  <2>4. ASSUME NEW a \in Addrs, NEW v \in Nat, Arrives(a, v)
        PROVE  /\ type # "NACK" => Arrives(a, v)'
               /\ type = "NACK" => mem'[a] >= v
    BY <1>3, <2>4, ArrivesServed
  <2>5. ASSUME NEW a \in Addrs, tpc = "wait"
        PROVE  Arrives(a, issued[a])'
    <3>1. Arrives(a, issued[a])
      BY <1>d, <2>2, <2>5
    <3>2. Arrives(a, issued[a])' \/ mem'[a] >= issued[a]
      BY <1>b, <2>4, <3>1, <2>1 DEF Arrives
    <3> QED BY <2>1, <3>2 DEF Arrives
  <2>6. ASSUME NEW a \in Addrs, tpc \in {"nack", "shut"}
        PROVE  Arrives(a, atInt[a])' /\ (type = "NACK" => mem'[a] >= atInt'[a])
    <3>1. Arrives(a, atInt[a])
      BY <1>e, <2>2, <2>6
    <3>2. type # "NACK" => Arrives(a, atInt[a])'
      BY <1>b, <2>1, <2>4, <3>1 DEF Arrives
    <3>3. type = "NACK" => mem'[a] >= atInt'[a]
      BY <1>b, <2>1, <2>4, <3>1
    <3> QED BY <3>2, <3>3 DEF Arrives
  <2> QED BY <1>g, <2>1, <2>2, <2>3, <2>5, <2>6 DEF ShutdownInv
<1>4. CASE Hangup
  <2>1. /\ UNCHANGED <<mem, atInt, tpc>> /\ spc = "poll" /\ spc' = "done" /\ Len(Requests) = 0
        /\ tpc \in {"nack", "shut"}
    BY <1>4, <1>c, <1>g DEF Hangup, Alive
  <2>2. \A a \in Addrs : mem[a] >= atInt[a]
    BY <1>e, <2>1 DEF Arrives
  <2> QED BY <2>1, <2>2 DEF ShutdownInv, Arrives
<1>5. CASE Rest
  <2>1. /\ UNCHANGED <<toSim, mem, issued, atInt>>
        /\ spc' # spc => \/ spc' = "dead"
                         \/ spc' = "done" /\ spc = "poll" /\ shut /\ Requests = <<>> /\ Alive
                         \/ spc' = "poll" /\ spc \in {"ack", "msg"}
        /\ tpc' # tpc => tpc' = "exit" \/ (tpc = "nack" /\ tpc' = "shut")
    BY <1>5 DEF Rest
  <2>2. \A a \in Addrs : /\ Arrives(a, issued[a]) => Arrives(a, issued[a])'
                         /\ Arrives(a, atInt[a]) => Arrives(a, atInt[a])'
    BY <2>1 DEF Arrives, Requests
  <2>3. Requests' = Requests
    BY <2>1 DEF Requests
  <2>4. ASSUME spc' = "done" PROVE \A a \in Addrs : mem'[a] >= atInt'[a]
    <3>1. CASE spc = "done"
      BY <1>f, <2>1, <3>1
    <3>2. CASE spc # "done"
      <4>1. tpc = "shut" /\ spc # "dead" /\ Len(Requests) = 0
        BY <1>g, <2>1, <2>4, <3>2 DEF Alive
      <4> QED BY <1>e, <2>1, <4>1 DEF Arrives
    <3> QED BY <3>1, <3>2
  <2>5. tpc' = "wait" => tpc = "wait" /\ ~shut
    BY <1>g, <2>1
  <2>6. tpc' = "wait" => /\ \A i \in 1 .. Len(Requests') : Requests'[i].type # "NACK"
                         /\ toSim'[Async] = <<>> /\ spc' # "done"
    BY <1>c, <2>1, <2>3, <2>5
  <2>7. tpc' \in {"nack", "shut"} /\ spc' # "dead" => \A a \in Addrs : Arrives(a, atInt[a])'
    BY <1>e, <2>1, <2>2, <2>4 DEF Arrives
  <2>8. tpc' = "wait" /\ spc' # "dead" => \A a \in Addrs : Arrives(a, issued[a])'
    BY <1>d, <2>1, <2>2, <2>5, <2>6
  <2> QED BY <2>4, <2>6, <2>7, <2>8 DEF ShutdownInv
<1> QED BY <1>1, <1>2, <1>3, <1>4, <1>5, StepKinds

\* What holds of the link at every moment, whatever the transport and the
\* time-outs are.
RequestInv == LinkInv /\ OrderInv /\ MemoryInv /\ ShutdownInv

LEMMA RequestInvariant ==
  ASSUME GuestWaits \/ NoDoorbell
  PROVE  Spec => []RequestInv
<1>1. Init => RequestInv
  BY LinkInit, OrderInit DEF RequestInv
<1>2. RequestInv /\ [Next]_vars => RequestInv'
  <2> SUFFICES ASSUME RequestInv, [Next]_vars PROVE RequestInv'
    OBVIOUS
  <2>1. LinkInv'
    BY LinkStep DEF RequestInv
  <2> QED BY <2>1, OrderStep, MemoryStep, ShutdownStep DEF RequestInv
<1> QED BY <1>1, <1>2, PTL DEF Spec

\* The simulation serves requests in the order the guest made them: what the
\* bridge sends is not overtaken on its way, whatever fails in between.
THEOREM ServedInOrder ==
  ASSUME GuestWaits \/ NoDoorbell
  PROVE  Spec => ServedInIssueOrder
<1>1. RequestInv /\ [Next]_vars => [srv' # srv /\ srv'.type # "NACK" => srv'.id > srv.id]_vars
  <2> SUFFICES ASSUME RequestInv, [Next]_vars, srv' # srv, srv'.type # "NACK"
               PROVE  srv'.id > srv.id
    OBVIOUS
  <2>1. \E type \in ServedTypes : Serve(type)
    BY StepKinds DEF RequestInv, Issue, Sigint, simVars, Rest, Hangup, NoRequest
  <2>2. srv' = Requests[1] /\ 1 \in 1 .. Len(Requests)
    BY <2>1, Served, RequestsType, ChansAre DEF Serve, RequestInv, LinkInv
  <2>3. srv.id < Requests[1].id /\ srv.id \in Nat /\ Requests[1].id \in Nat
    BY <2>2, IdsNat DEF RequestInv, OrderInv, LinkInv
  <2> QED BY <2>2, <2>3
<1> QED BY <1>1, RequestInvariant, PTL DEF Spec, ServedInIssueOrder

\* A simulation that ends on its own after a SIGINT has stored every write
\* posted before the SIGINT: neither the NACK nor the shutdown overtakes one.
THEOREM WritesSurviveShutdown ==
  ASSUME GuestWaits \/ NoDoorbell
  PROVE  Spec => []PostedWritesSurviveShutdown
<1>1. RequestInv => PostedWritesSurviveShutdown
  BY DEF RequestInv, ShutdownInv, PostedWritesSurviveShutdown
<1> QED BY <1>1, RequestInvariant, PTL

-----------------------------------------------------------------------------
(* The replies: who takes and who sends one, and the steps that leave the  *)
(* stream of MAIN alone.                                                   *)

Quiet ==
  /\ Rest
  /\ UNCHANGED <<resp, req>> /\ Replies' = Replies /\ torn'[Main] = torn[Main]
  /\ (Half' <=> Half) /\ (Reading' => Reading)
  /\ \/ spc' \in {spc, "done", "dead"}
     \/ spc' = "poll" /\ spc \in {"poll", "msg"}
  /\ mpc' # "idle" => mpc # "idle"
  /\ mpc' = "disarm" => mpc = "disarm"
  /\ mpc' \in {"idle", "disarm"} => mpc \in {"idle", "disarm"}
  /\ mpc \in {"arm", "recv", "hdr"} => mpc' \in {"arm", "recv", "hdr"}

LEMMA ReplyKinds ==
  ASSUME GuestWaits \/ NoDoorbell, LinkInv, [Next]_vars
  PROVE  \/ \E p \in Request : Issue(p)
         \/ Sigint
         \/ \E type \in ServedTypes : Serve(type)
         \/ Hangup
         \/ ReceiveHeader \/ ReceivePayload \/ ReceiveFails \/ SimReadData
         \/ Quiet
<1> USE DEF mainVars, listenerVars, simVars, termVars
<1>1. CASE Guest
  BY <1>1, GuestIssues DEF LinkInv
<1>2. CASE SetTimeout \/ SelectSocket \/ Finish
  <2>1. Rest
    BY <1>2, MainRests DEF MainThread
  <2>2. UNCHANGED <<channel, toBridge, torn, lpc, lpkt, resp, req, spc>>
    BY <1>2 DEF SetTimeout, SelectSocket, Finish
  <2>3. (Lost' <=> Lost) /\ Replies' = Replies
    BY <2>2 DEF Lost, Irqs, Replies
  <2>4. /\ mpc' \in {"hdr", "data"} => mfd' = channel
        /\ mpc # "idle" /\ (Half' <=> Half) /\ mpc' # "disarm"
        /\ mpc' = "idle" => mpc = "disarm"
        /\ mpc \in {"arm", "recv", "hdr"} => mpc' \in {"arm", "recv", "hdr"}
    BY <1>2 DEF SetTimeout, SelectSocket, Finish, Half
  <2>5. Reading' => Reading
    BY <2>2, <2>3, <2>4, ChansAre DEF Reading, Lost
  <2> QED BY <2>1, <2>2, <2>3, <2>4, <2>5 DEF Quiet
<1>3. CASE Listener
  <2>1. UNCHANGED <<mainVars, simVars>>
    BY <1>3 DEF Listener, AsyncPoll, AsyncHup, AsyncHeader, AsyncPayload, AsyncFails, AsyncDeliver
  <2>2. Rest /\ Replies' = Replies /\ torn'[Main] = torn[Main]
    BY <1>3, ListenerRests
  <2> QED BY <2>1, <2>2 DEF Quiet, Half, Reading, Rest
<1>4. CASE SimIrqVector \/ SimDies \/ \E ch \in Chans : SimEof(ch)
  <2>1. UNCHANGED <<mainVars, torn>> /\ ~SimReadData
    BY <1>4 DEF SimIrqVector, SimDies, SimEof, Polled, SimReadData
  <2>2. /\ Rest /\ Replies' = Replies /\ spc' # "ack"
        /\ spc' = "poll" => spc \in {"poll", "msg"}
    BY <1>4, <2>1, SimRests
  <2> QED BY <2>1, <2>2 DEF Quiet, Half, Reading, Rest
<1>5. CASE Disconnect \/ Exit \/ MainReturns \/ UNCHANGED vars
  <2>1. Lost' <=> Lost
    BY <1>5 DEF Disconnect, Exit, MainReturns, EndProcess, vars, Lost, Irqs
  <2>2. Rest
    BY <1>5, <2>1 DEF Rest, Disconnect, Exit, MainReturns, EndProcess, vars
  <2> QED BY <1>5, <2>1, <2>2 DEF Quiet, Disconnect, Exit, MainReturns, EndProcess, vars, Half,
                                 Reading, Replies
<1> QED BY <1>1, <1>2, <1>3, <1>4, <1>5, SimServes DEF Next, MainThread, Sim

\* A send of the simulation on MAIN.
LEMMA Answered ==
  ASSUME TypeOK, open[Main], NEW u \in Unit, SimSend(Main, u)
  PROVE  /\ Len(Replies') = Len(Replies) + 1
         /\ \A i \in 1 .. Len(Replies) : Replies'[i] = Replies[i]
         /\ Replies'[Len(Replies) + 1] = u
<1>1. Replies \in Seq(Unit)
  BY RequestsType
<1>2. Replies' = Append(Replies, u)
  BY ChansAre DEF SimSend, TypeOK, Replies
<1> QED BY <1>1, <1>2, AppendProperties

\* What a receive of the main thread leaves of a stream.
LEMMA Taken ==
  ASSUME TypeOK, NEW r, Take(Main, r), Replies # <<>>, r.rest = Tail(Replies)
  PROVE  /\ Len(Replies) > 0 /\ Len(Replies') = Len(Replies) - 1
         /\ \A i \in 1 .. Len(Replies') : Replies'[i] = Replies[i + 1]
         /\ torn'[Main] = r.torn
<1>1. Replies \in Seq(Unit) /\ Len(Replies) > 0
  BY RequestsType
<1>2. Replies' = Tail(Replies) /\ torn'[Main] = r.torn
  BY ChansAre DEF Take, TypeOK, Replies
<1> QED BY <1>1, <1>2, HeadTailProperties

LEMMA HeaderTaken ==
  ASSUME LinkInv, FrameInv, ReceiveHeader
  PROVE  /\ mfd = Main /\ mpc = "hdr" /\ mpc' = "again" /\ resp' = Header(Replies[1])
         /\ Len(Replies) > 0 /\ Replies[1].k = "H" /\ ~torn'[Main]
         /\ Len(Replies') = Len(Replies) - 1
         /\ \A i \in 1 .. Len(Replies') : Replies'[i] = Replies[i + 1]
<1>1. TypeOK /\ mfd \in Chans
  BY DEF LinkInv, TypeOK
<1>2. mfd = Main /\ mpc = "hdr" /\ toBridge[mfd] # <<>>
  BY <1>1, MainReads DEF ReceiveHeader, HeaderReads
<1>3. Replies # <<>> /\ Len(Replies) > 0 /\ Head(Replies) = Replies[1]
  BY <1>1, <1>2, RequestsType DEF Replies
<1>4. Replies[1].k = "H" /\ ~torn[Main]
  BY <1>2, <1>3 DEF FrameInv, StreamInv, Front, Reading, Half
<1>5. PICK r \in HeaderReads(Main) :
        /\ Take(Main, r)
        /\ resp' = r.pkt
        /\ mpc' = IF r.pkt.len > 0 THEN "again" ELSE "disarm"
  BY <1>2 DEF ReceiveHeader
<1>6. r = [pkt |-> Header(Replies[1]), rest |-> Tail(Replies), torn |-> FALSE]
  BY <1>2, <1>3, <1>4 DEF HeaderReads, Replies
<1>7. r.pkt.len = 1 /\ r.pkt = Header(Replies[1]) /\ r.rest = Tail(Replies) /\ r.torn = FALSE
  BY <1>6 DEF Header
<1> QED BY <1>1, <1>2, <1>3, <1>4, <1>5, <1>7, Taken

LEMMA PayloadTaken ==
  ASSUME LinkInv, FrameInv, ReceivePayload
  PROVE  /\ mfd = Main /\ mpc = "data" /\ mpc' = "disarm"
         /\ resp' = [resp EXCEPT !.val = Replies[1].val]
         /\ Len(Replies) > 0 /\ Replies[1].k = "D" /\ Replies[1].id = resp.id /\ ~torn'[Main]
         /\ Len(Replies') = Len(Replies) - 1
         /\ \A i \in 1 .. Len(Replies') : Replies'[i] = Replies[i + 1]
<1>1. TypeOK /\ mfd \in Chans
  BY DEF LinkInv, TypeOK
<1>2. mfd = Main /\ mpc = "data" /\ mpc' = "disarm" /\ toBridge[mfd] # <<>>
  BY <1>1, MainReads DEF ReceivePayload, PayloadReads
<1>3. Replies # <<>> /\ Len(Replies) > 0 /\ Head(Replies) = Replies[1]
  BY <1>1, <1>2, RequestsType DEF Replies
<1>4. Replies[1].k = "D" /\ Replies[1].id = resp.id /\ ~torn[Main]
  BY <1>2, <1>3 DEF FrameInv, StreamInv, Front, Reading, Half
<1>5. PICK r \in PayloadReads(Main) : Take(Main, r) /\ resp' = [resp EXCEPT !.val = r.val]
  BY <1>2 DEF ReceivePayload
<1>6. r = [val |-> Replies[1].val, rest |-> Tail(Replies), torn |-> FALSE]
  BY <1>2, <1>3, <1>4 DEF PayloadReads, Replies
<1>7. r.val = Replies[1].val /\ r.rest = Tail(Replies) /\ r.torn = FALSE
  BY <1>6
<1> QED BY <1>1, <1>2, <1>3, <1>4, <1>5, <1>7, Taken

\* What is under way after a step was so before, or is what the step sent.
LEMMA SentMembers ==
  ASSUME TypeOK, NEW p \in Request, Send(channel, p),
         NEW i \in 1 .. Len(Requests')
  PROVE  Requests'[i] = p \/ (i \in 1 .. Len(Requests) /\ Requests'[i] = Requests[i])
<1>1. Len(Requests) \in Nat
  BY RequestsType
<1>2. CASE Flowing
  <2>1. i \in 1 .. Len(Requests) \/ i = Len(Requests) + 1
    BY <1>1, <1>2, Sent
  <2> QED BY <1>2, <2>1, Sent
<1>3. CASE ~Flowing
  BY <1>3, Sent
<1> QED BY <1>2, <1>3

LEMMA ServedMembers ==
  ASSUME TypeOK, NEW type, Serve(type), NEW i \in 1 .. Len(Requests')
  PROVE  i + 1 \in 1 .. Len(Requests) /\ Requests'[i] = Requests[i + 1]
<1>1. Len(Requests) \in Nat
  BY RequestsType
<1> QED BY <1>1, Served, ChansAre DEF Serve

LEMMA AnsweredMembers ==
  ASSUME TypeOK, open[Main], NEW u \in Unit, SimSend(Main, u), NEW i \in 1 .. Len(Replies')
  PROVE  Replies'[i] = u \/ (i \in 1 .. Len(Replies) /\ Replies'[i] = Replies[i])
<1>1. Len(Replies) \in Nat
  BY RequestsType
<1>2. i \in 1 .. Len(Replies) \/ i = Len(Replies) + 1
  BY <1>1, Answered
<1> QED BY <1>2, Answered

LEMMA SimUnitType ==
  ASSUME NEW p \in Request, NEW k \in {"H", "D"}, NEW v \in Ids
  PROVE  [k |-> k, type |-> "ACK", id |-> p.id, tag |-> p.tag, val |-> v] \in Unit
BY DEF Request, Unit

LEMMA LabelledStep ==
  ASSUME GuestWaits \/ NoDoorbell, LinkInv, LinkInv', OrderInv, FrameInv, [Next]_vars
  PROVE  Labelled'
<1>a. TypeOK /\ Len(Requests) \in Nat /\ Len(Replies) \in Nat /\ 0 \in Ids
  BY RequestsType, LinkAssumption DEF LinkInv, Ids
<1>b. Labelled /\ srv.id \in Nat /\ tx \in Nat /\ srv.id <= tx /\ srv \in Request
  BY <1>a, IdsNat DEF FrameInv, OrderInv, TypeOK
<1>c. \A i \in 1 .. Len(Replies) : Replies[i].id \in Nat
  <2>1. \A i \in 1 .. Len(Replies) : Replies[i].id \in Ids
    BY <1>a, RequestsType DEF Unit
  <2> QED BY <2>1, LinkAssumption DEF Ids
<1>d. resp.id \in Nat
  BY <1>a, LinkAssumption DEF TypeOK, Packet, Ids
<1>1. ASSUME NEW p \in Request, Issue(p) PROVE Labelled'
  <2>1. /\ p.tag = Tag(p.id) /\ p.id = tx + 1 /\ tx' = tx + 1 /\ Send(channel, p)
        /\ UNCHANGED <<srv, resp, toBridge>>
        /\ IF p.type = "MEM_RD" THEN mpc' = "arm" /\ req' = p ELSE UNCHANGED <<mpc, req>>
        /\ mpc = "idle"
    BY <1>1 DEF Issue
  <2>2. ASSUME NEW i \in 1 .. Len(Requests') PROVE Requests'[i].tag = Tag(Requests'[i].id)
    BY <1>a, <1>b, <2>1, SentMembers DEF Labelled
  <2>3. ASSUME NEW n \in Nat, n <= tx PROVE n <= tx'
    BY <1>b, <2>1, <2>3
  <2>4. Replies' = Replies
    BY <2>1 DEF Replies
  <2> QED BY <1>b, <1>c, <1>d, <2>1, <2>2, <2>3, <2>4 DEF Labelled, Tag
<1>2. CASE Sigint
  <2>1. Send(channel, NoRequest) /\ UNCHANGED <<srv, resp, toBridge, tx, mpc, req>>
    BY <1>2 DEF Sigint, mainVars, simVars
  <2>2. NoRequest.tag = Tag(NoRequest.id)
    BY LinkAssumption DEF NoRequest, Tag
  <2>3. ASSUME NEW i \in 1 .. Len(Requests') PROVE Requests'[i].tag = Tag(Requests'[i].id)
    BY <1>a, <1>b, <2>1, <2>2, NoRequestType, SentMembers DEF Labelled
  <2> QED BY <1>b, <2>1, <2>3 DEF Labelled, Replies, Tag
<1>3. ASSUME NEW type, Serve(type) PROVE Labelled'
  <2>1. /\ srv' = Requests[1] /\ Len(Requests) > 0 /\ srv'.type = type /\ srv' \in Request
        /\ UNCHANGED <<tx, mpc, req, resp>> /\ open[Main]
    BY <1>a, <1>3, Served, ChansAre DEF Serve
  <2>2. 1 \in 1 .. Len(Requests)
    BY <1>a, <2>1
  <2>3. srv'.tag = Tag(srv'.id) /\ (type # "NACK" => srv'.id <= tx)
    BY <1>b, <2>1, <2>2 DEF Labelled, OrderInv
  <2>4. ASSUME NEW i \in 1 .. Len(Requests') PROVE Requests'[i].tag = Tag(Requests'[i].id)
    BY <1>a, <1>b, <1>3, ServedMembers DEF Labelled
  <2>5. ASSUME NEW i \in 1 .. Len(Replies')
        PROVE  /\ Replies'[i].type = "ACK"
               /\ Replies'[i].tag = Tag(Replies'[i].id) /\ Replies'[i].id <= tx
    <3>1. CASE type = "MEM_RD"
      <4> DEFINE u == [k |-> "H", type |-> "ACK", id |-> srv'.id, tag |-> srv'.tag, val |-> 0]
      <4>1. SimSend(Main, u) /\ u \in Unit
        BY <1>3, <1>a, <2>1, <3>1, SimUnitType DEF Serve
      <4>2. u.type = "ACK" /\ u.tag = Tag(u.id) /\ u.id <= tx
        BY <2>3, <3>1
      <4> HIDE DEF u
      <4>3. Replies'[i] = u \/ (i \in 1 .. Len(Replies) /\ Replies'[i] = Replies[i])
        BY <1>a, <2>1, <4>1, AnsweredMembers
      <4> QED BY <1>b, <4>2, <4>3 DEF Labelled
    <3>2. CASE type # "MEM_RD"
      BY <1>b, <1>3, <3>2 DEF Labelled, Serve, Replies
    <3> QED BY <3>1, <3>2
  <2> QED BY <1>b, <2>1, <2>3, <2>4, <2>5 DEF Labelled, Tag
<1>4. CASE ReceiveHeader
  <2>1. /\ resp' = Header(Replies[1]) /\ Len(Replies) > 0 /\ mpc = "hdr"
        /\ \A i \in 1 .. Len(Replies') : i + 1 \in 1 .. Len(Replies) /\ Replies'[i] = Replies[i + 1]
    BY <1>a, <1>4, HeaderTaken
  <2>2. UNCHANGED <<toSim, srv, tx, req>>
    BY <1>4 DEF ReceiveHeader, simVars
  <2>3. 1 \in 1 .. Len(Replies)
    BY <1>a, <2>1
  <2>4. resp'.type = "ACK" /\ resp'.tag = Tag(resp'.id) /\ resp'.id <= tx
    BY <1>b, <2>1, <2>3 DEF Labelled, Header
  <2> QED BY <1>b, <2>1, <2>2, <2>4 DEF Labelled, Requests, Tag
<1>5. CASE ReceivePayload
  <2>1. /\ resp' = [resp EXCEPT !.val = Replies[1].val] /\ mpc = "data"
        /\ \A i \in 1 .. Len(Replies') : i + 1 \in 1 .. Len(Replies) /\ Replies'[i] = Replies[i + 1]
    BY <1>a, <1>5, PayloadTaken
  <2>2. UNCHANGED <<toSim, srv, tx, req>>
    BY <1>5 DEF ReceivePayload, simVars
  <2>3. resp'.type = resp.type /\ resp'.tag = resp.tag /\ resp'.id = resp.id
    BY <1>a, <2>1 DEF TypeOK, Packet
  <2> QED BY <1>b, <2>1, <2>2, <2>3 DEF Labelled, Requests, Tag
<1>6. CASE ReceiveFails
  <2>1. /\ UNCHANGED <<toSim, toBridge, srv, tx, req>> /\ resp' = [resp EXCEPT !.type = "INVALID"]
        /\ mpc # "idle"
    BY <1>6 DEF ReceiveFails, simVars
  <2>2. resp'.type = "INVALID"
    BY <1>a, <2>1 DEF TypeOK, Packet
  <2> QED BY <1>b, <2>1, <2>2 DEF Labelled, Requests, Replies, Tag
<1>7. CASE SimReadData
  <2> DEFINE u == [k |-> "D", type |-> "ACK", id |-> srv.id, tag |-> srv.tag, val |-> mem[srv.addr]]
  <2>1. open[Main] /\ SimSend(Main, u) /\ UNCHANGED <<toSim, srv, tx, req, resp, mpc>>
    BY <1>7 DEF SimReadData, LinkInv, EndsInv, mainVars
  <2>2. mem[srv.addr] \in Ids
    BY <1>a, <1>b DEF TypeOK, Request
  <2>3. u \in Unit
    BY <1>b, <2>2, SimUnitType
  <2>4. u.type = "ACK" /\ u.tag = Tag(u.id) /\ u.id <= tx
    BY <1>b DEF Labelled
  <2> HIDE DEF u
  <2>5. \A i \in 1 .. Len(Replies') : Replies'[i] = u \/ (i \in 1 .. Len(Replies) /\ Replies'[i] = Replies[i])
    BY <1>a, <2>1, <2>3, AnsweredMembers
  <2> QED BY <1>b, <2>1, <2>4, <2>5 DEF Labelled, Requests, Tag
<1>8. CASE Hangup
  <2>1. /\ srv' = NoRequest /\ Len(Requests') = 0 /\ Replies' = Replies
        /\ UNCHANGED <<tx, req, resp, mpc>>
    BY <1>8 DEF Hangup, Replies
  <2>2. NoRequest.tag = Tag(NoRequest.id)
    BY LinkAssumption DEF NoRequest, Tag
  <2> QED BY <1>b, <2>1, <2>2 DEF Labelled, Tag
<1>9. CASE Quiet
  BY <1>b, <1>9 DEF Labelled, Requests, Replies, Quiet, Rest, Tag
<1> QED BY <1>1, <1>2, <1>3, <1>4, <1>5, <1>6, <1>7, <1>8, <1>9, ReplyKinds

\* A unit sent by the simulation continues the stream.
LEMMA StreamSend ==
  ASSUME LinkInv, StreamInv, open[Main], NEW u \in Unit, SimSend(Main, u),
         spc' \in {"poll", "ack"}, srv'.id = u.id,
         spc' = "ack" => spc = "poll" /\ u.k = "H",
         spc' = "poll" => spc = "ack" /\ u.k = "D" /\ srv.id = u.id,
         Lost' <=> Lost, UNCHANGED <<torn, mpc, mfd, resp>>
  PROVE  StreamInv'
<1> DEFINE n == Len(Replies)
<1>1. TypeOK /\ n \in Nat
  BY RequestsType DEF LinkInv
<1>2. /\ Len(Replies') = n + 1 /\ Replies'[n + 1] = u
      /\ \A i \in 1 .. n : Replies'[i] = Replies[i]
  BY <1>1, Answered
<1>3. (Half' <=> Half) /\ (Reading' <=> Reading)
  BY DEF Half, Reading
<1>4. IF n = 0 THEN IF u.k = "D" THEN Half /\ resp.id = u.id ELSE ~Half
      ELSE Replies[n].k # u.k /\ (u.k = "D" => Replies[n].k = "H" /\ Replies[n].id = u.id)
  BY DEF StreamInv, Back
<1>5. u.k \in {"H", "D"} /\ \A i \in 1 .. n : Replies[i].k \in {"H", "D"}
  BY <1>1, RequestsType DEF Unit
<1> HIDE DEF n
<1>6. Pairs'
  <2> SUFFICES ASSUME NEW i \in 1 .. n
               PROVE  /\ Replies'[i].k # Replies'[i + 1].k
                      /\ Replies'[i].k = "H" => Replies'[i].id = Replies'[i + 1].id
    BY <1>1, <1>2 DEF Pairs
  <2>1. CASE i = n
    BY <1>1, <1>2, <1>4, <1>5, <2>1
  <2>2. CASE i # n
    <3>1. i \in 1 .. n - 1 /\ i + 1 \in 1 .. n
      BY <1>1, <2>2
    <3> QED BY <1>2, <3>1 DEF StreamInv, Pairs, n
  <2> QED BY <2>1, <2>2
<1>7. Front'
  <2>1. CASE n = 0
    <3>1. Replies'[1] = u
      BY <1>2, <2>1
    <3> QED BY <1>3, <1>4, <1>5, <2>1, <3>1 DEF Front
  <2>2. CASE n # 0
    <3>1. 1 \in 1 .. n /\ Replies # <<>>
      BY <1>1, <2>2 DEF n
    <3> QED BY <1>2, <1>3, <3>1 DEF StreamInv, Front
  <2> QED BY <2>1, <2>2
<1>8. Back'
  <2>1. Len(Replies') # 0
    BY <1>1, <1>2
  <2> QED BY <1>2, <1>5, <2>1 DEF Back
<1>9. ~torn'[Main]
  BY DEF StreamInv
<1> QED BY <1>6, <1>7, <1>8, <1>9 DEF StreamInv

\* So does a receive by the main thread.
LEMMA StreamTake ==
  ASSUME LinkInv, LinkInv', StreamInv, ~torn'[Main], Len(Replies) > 0,
         Len(Replies') = Len(Replies) - 1,
         \A i \in 1 .. Len(Replies') : Replies'[i] = Replies[i + 1],
         Half' <=> Replies[1].k = "H", Half' => resp'.id = Replies[1].id,
         UNCHANGED <<spc, srv, open>>
  PROVE  StreamInv'
<1> DEFINE n == Len(Replies)
<1>1. TypeOK /\ n \in Nat /\ n > 0
  BY RequestsType DEF LinkInv
<1>2. \A i \in 1 .. n : Replies[i].k \in {"H", "D"}
  BY <1>1, RequestsType DEF Unit
<1>3. \A i \in 1 .. n - 1 : /\ Replies'[i] = Replies[i + 1] /\ i + 1 \in 1 .. n
                            /\ Replies[i].k # Replies[i + 1].k
                            /\ Replies[i].k = "H" => Replies[i].id = Replies[i + 1].id
  BY <1>1 DEF StreamInv, Pairs
<1>4. Len(Replies') = n - 1
  OBVIOUS
<1> HIDE DEF n
<1>5. Pairs'
  <2> SUFFICES ASSUME NEW i \in 1 .. (n - 1) - 1
               PROVE  /\ Replies'[i].k # Replies'[i + 1].k
                      /\ Replies'[i].k = "H" => Replies'[i].id = Replies'[i + 1].id
    BY <1>4 DEF Pairs
  <2>1. i \in 1 .. n - 1 /\ i + 1 \in 1 .. n - 1
    BY <1>1
  <2> QED BY <1>3, <2>1
<1>6. Front'
  <2> SUFFICES ASSUME Replies' # <<>>
               PROVE  IF Half' THEN Replies'[1].k = "D" /\ Replies'[1].id = resp'.id
                      ELSE Replies'[1].k = "H"
    BY DEF Front
  <2>1. Replies' \in Seq(Unit)
    BY ChansAre DEF LinkInv, Replies, TypeOK
  <2>2. Len(Replies') # 0
    BY <2>1
  <2>3. 1 \in 1 .. n - 1 /\ 1 \in 1 .. n
    BY <1>1, <1>4, <2>2
  <2>4. Replies'[1] = Replies[2] /\ Replies[1].k # Replies[2].k /\ Replies[2].k \in {"H", "D"}
        /\ (Replies[1].k = "H" => Replies[1].id = Replies[2].id)
    BY <1>2, <1>3, <2>3
  <2> QED BY <1>2, <2>3, <2>4
<1>7. Back'
  <2>1. CASE n = 1
    <3>1. Len(Replies') = 0
      BY <1>4, <2>1
    <3> QED BY <1>2, <2>1, <3>1 DEF StreamInv, Back, n
  <2>2. CASE n # 1
    <3>1. n - 1 \in 1 .. n - 1 /\ (n - 1) + 1 = n /\ Len(Replies') # 0
      BY <1>1, <1>4, <2>2
    <3>2. Replies'[Len(Replies')] = Replies[n]
      BY <1>3, <1>4, <3>1
    <3> QED BY <1>1, <3>1, <3>2 DEF StreamInv, Back, n
  <2> QED BY <2>1, <2>2
<1> QED BY <1>5, <1>6, <1>7 DEF StreamInv

\* And every step that leaves the stream alone.
LEMMA StreamStill ==
  ASSUME StreamInv, Replies' = Replies, torn'[Main] = torn[Main],
         Half' <=> Half, Half' => resp'.id = resp.id, Reading' => Reading,
         \/ spc' = spc /\ (spc = "ack" => srv' = srv) /\ (open'[Main] => open[Main])
         \/ spc \in {"poll", "msg"} /\ spc' \in {"poll", "msg"} /\ (open'[Main] => open[Main])
         \/ spc' \notin {"poll", "msg", "ack"}
  PROVE  StreamInv'
BY DEF StreamInv, Pairs, Front, Back

LEMMA FrameInit == Init => FrameInv
<1> SUFFICES ASSUME Init PROVE FrameInv
  OBVIOUS
<1>1. Requests = <<>> /\ Replies = <<>> /\ ~torn[Main]
  BY ChansAre DEF Init, Requests, Replies
<1>2. Tag(0) = 0
  BY LinkAssumption DEF Tag
<1> QED
  BY <1>1, <1>2 DEF Init, FrameInv, StreamInv, Pairs, Front, Back, Labelled, Half,
                    NoRequest, Invalid

LEMMA FrameStep ==
  ASSUME GuestWaits \/ NoDoorbell, "data" \notin TimeoutAt,
         LinkInv, LinkInv', OrderInv, FrameInv, [Next]_vars
  PROVE  FrameInv'
<1> SUFFICES StreamInv'
  BY LabelledStep DEF FrameInv
<1>a. 0 \in Ids
  BY LinkAssumption DEF Ids
<1>b. TypeOK /\ OneAtATime /\ EndsInv /\ StreamInv /\ srv \in Request
  BY DEF LinkInv, FrameInv, TypeOK
<1>1. ASSUME NEW p \in Request, Issue(p) PROVE StreamInv'
  <2>1. UNCHANGED <<toBridge, torn, resp, channel, lpc, lpkt, mfd, spc, srv, open>>
    BY <1>1 DEF Issue
  <2>2. ~Half /\ ~Half' /\ (Reading' => Reading) /\ Replies' = Replies
    BY <1>1, <2>1 DEF Issue, Half, Reading, Lost, Irqs, Replies
  <2> QED BY <1>b, <2>1, <2>2, StreamStill
<1>2. CASE Sigint
  <2>1. UNCHANGED <<toBridge, torn, resp, channel, lpc, lpkt, mfd, mpc, spc, srv, open>>
    BY <1>2 DEF Sigint, mainVars, simVars, listenerVars
  <2>2. (Half' <=> Half) /\ (Reading' => Reading) /\ Replies' = Replies
    BY <2>1 DEF Half, Reading, Lost, Irqs, Replies
  <2> QED BY <1>b, <2>1, <2>2, StreamStill
<1>3. ASSUME NEW type, Serve(type) PROVE StreamInv'
  <2>1. /\ srv' \in Request /\ spc = "poll" /\ open[Main]
        /\ UNCHANGED <<torn, mpc, mfd, resp>> /\ (Lost' <=> Lost)
    BY <1>b, <1>3, Served, ChansAre DEF Serve
  <2>2. CASE type = "MEM_RD"
    <3> DEFINE u == [k |-> "H", type |-> "ACK", id |-> srv'.id, tag |-> srv'.tag, val |-> 0]
    <3>1. SimSend(Main, u) /\ spc' = "ack"
      BY <1>3, <2>2 DEF Serve
    <3>2. u \in Unit
      BY <1>b, <1>a, <2>1, SimUnitType
    <3>3. srv'.id = u.id /\ u.k = "H"
      OBVIOUS
    <3> HIDE DEF u
    <3> QED BY <1>b, <2>1, <3>1, <3>2, <3>3, StreamSend
  <2>3. CASE type # "MEM_RD"
    <3>1. /\ Replies' = Replies
          /\ (spc' \in {"poll", "msg"} /\ open' = open) \/ spc' = "done"
      BY <1>3, <2>3 DEF Serve
    <3>2. (Half' <=> Half) /\ (Reading' => Reading)
      BY <2>1 DEF Half, Reading
    <3> QED BY <1>b, <2>1, <3>1, <3>2, StreamStill
  <2> QED BY <2>2, <2>3
<1>4. CASE ReceiveHeader
  <2>1. UNCHANGED <<spc, srv, open>>
    BY <1>4 DEF ReceiveHeader, simVars
  <2>2. Half' /\ resp'.id = Replies[1].id /\ Replies[1].k = "H"
    BY <1>4, HeaderTaken DEF Half, Header
  <2> QED BY <1>4, <1>b, <2>1, <2>2, HeaderTaken, StreamTake
<1>5. CASE ReceivePayload
  <2>1. UNCHANGED <<spc, srv, open>>
    BY <1>5 DEF ReceivePayload, simVars
  <2>2. ~Half' /\ Replies[1].k # "H"
    BY <1>5, PayloadTaken DEF Half
  <2> QED BY <1>5, <1>b, <2>1, <2>2, PayloadTaken, StreamTake
<1>6. CASE ReceiveFails
  <2>1. /\ mpc \in {"hdr", "data"} /\ mpc' = "disarm" /\ toBridge[mfd] = <<>>
        /\ Gone(mfd) \/ mpc = "hdr"
        /\ UNCHANGED <<toBridge, torn, channel, lpc, lpkt, mfd, spc, srv, open>>
    BY <1>6, LinkAssumption DEF ReceiveFails, simVars, listenerVars
  <2>2. ~Half' /\ (Reading' => Reading) /\ Replies' = Replies /\ (Lost' <=> Lost)
    BY <2>1 DEF Half, Reading, Lost, Irqs, Replies
  <2>3. CASE ~Half
    BY <1>b, <2>1, <2>2, <2>3, StreamStill
  <2>4. CASE Half
    <3>1. Gone(mfd) /\ mpc = "data"
      BY <2>1, <2>4 DEF Half
    <3>2. CASE mfd = Main
      <4>1. Replies' = <<>> /\ spc # "ack" /\ ~open'[Main]
        BY <1>b, <2>1, <2>2, <3>1, <3>2 DEF EndsInv, Gone, Replies
      <4> QED BY <1>b, <2>1, <4>1 DEF StreamInv, Pairs, Front, Back
    <3>3. CASE mfd # Main
      <4>1. raised = irqs /\ mfd = Async /\ spc \in {"done", "dead"}
        BY <1>b, <2>1, <3>1, <3>3, ChansAre DEF EndsInv, TypeOK, OneAtATime
      <4>2. channel = Async
        BY <1>b, <2>1, <4>1, Undisturbed
      <4>3. ~Reading'
        BY <2>1, <2>2, <4>1, <4>2, LostEnds, ChansAre DEF Reading
      <4> QED BY <1>b, <2>1, <2>2, <4>1, <4>3 DEF StreamInv, Pairs, Front, Back
    <3> QED BY <3>2, <3>3
  <2> QED BY <2>3, <2>4
<1>7. CASE SimReadData
  <2> DEFINE u == [k |-> "D", type |-> "ACK", id |-> srv.id, tag |-> srv.tag, val |-> mem[srv.addr]]
  <2>1. /\ spc = "ack" /\ spc' = "poll" /\ open[Main] /\ SimSend(Main, u)
        /\ UNCHANGED <<torn, mpc, mfd, resp, srv>> /\ (Lost' <=> Lost)
    BY <1>7, <1>b, DataLeavesAsync DEF SimReadData, EndsInv, mainVars
  <2>2. mem[srv.addr] \in Ids
    BY <1>b DEF TypeOK, Request
  <2>3. u \in Unit
    BY <1>b, <2>2, SimUnitType
  <2>4. srv'.id = u.id /\ srv.id = u.id /\ u.k = "D"
    BY <2>1
  <2> HIDE DEF u
  <2> QED BY <2>1, <2>3, <2>4, <1>b, StreamSend
<1>8. CASE Hangup
  <2>1. /\ spc' = "done" /\ Replies' = Replies /\ torn'[Main] = torn[Main] /\ resp' = resp
        /\ (Half' <=> Half) /\ (Reading' => Reading)
    BY <1>8 DEF Hangup, Half, Reading, Lost, Irqs, Replies
  <2> QED BY <1>b, <2>1, StreamStill
<1>9. CASE Quiet
  <2>1. \/ spc' = spc /\ (spc = "ack" => srv' = srv) /\ (open'[Main] => open[Main])
        \/ spc \in {"poll", "msg"} /\ spc' \in {"poll", "msg"} /\ (open'[Main] => open[Main])
        \/ spc' \notin {"poll", "msg", "ack"}
    BY <1>9 DEF Quiet, Rest
  <2> QED BY <1>9, <1>b, <2>1, StreamStill DEF Quiet
<1> QED
  BY <1>1, <1>2, <1>3, <1>4, <1>5, <1>6, <1>7, <1>8, <1>9, ReplyKinds

-----------------------------------------------------------------------------
(* What the replies carry.                                                 *)

LEMMA KeptInit == Init => KeptInv /\ ReadInv
<1> SUFFICES ASSUME Init PROVE KeptInv /\ ReadInv
  OBVIOUS
<1>1. \A a \in Addrs : mem[a] = issued[a]
  BY DEF Init
<1>2. mpc = "idle"
  BY DEF Init
<1> QED BY <1>1, <1>2 DEF KeptInv, Kept, ReadInv

LEMMA KeptStep ==
  ASSUME GuestWaits \/ NoDoorbell, LinkInv, LinkInv', OrderInv, MemoryInv, KeptInv, [Next]_vars
  PROVE  KeptInv'
<1> DEFINE n == Len(Requests)
<1>a. TypeOK /\ n \in Nat
  BY RequestsType DEF LinkInv
<1>b. srv.id \in Nat /\ tx \in Nat /\ srv.id <= tx
  BY <1>a, IdsNat DEF OrderInv
<1>c. \A i \in 1 .. n : /\ Requests[i].id \in Nat /\ Requests[i].id <= tx
                        /\ Requests[i].type = "NACK" => Requests[i].id = 0
  BY <1>a, <1>b, IdsNat DEF OrderInv
<1> HIDE DEF n
<1>1. ASSUME NEW p \in Request, Issue(p) PROVE KeptInv'
  <2>1. /\ Send(channel, p) /\ tx' = tx + 1 /\ p.id = tx + 1
        /\ UNCHANGED <<srv, mem, channel, shut, open>> /\ (Lost' <=> Lost)
        /\ channel = Main \/ Lost
    BY <1>1, LostEnds DEF Issue, Lost, Irqs
  <2>2. CASE Flowing
    <3>1. /\ Len(Requests') = n + 1 /\ Requests'[n + 1] = p
          /\ \A i \in 1 .. n : Requests'[i] = Requests[i]
      BY <1>a, <2>1, <2>2, Sent DEF n
    <3>2. n + 1 \in 1 .. n + 1 /\ \A i \in 1 .. n : i \in 1 .. n + 1
      BY <1>a
    <3>3. ASSUME NEW a \in Addrs PROVE Kept(a)'
      <4>1. CASE IsWrite(p, a)
        <5>1. issued'[a] = p.id
          BY <1>1, <1>a, <4>1 DEF Issue, IsWrite, IsIrq, TypeOK
        <5> QED BY <3>1, <3>2, <4>1, <5>1 DEF Kept, IsWrite, IsIrq
      <4>2. CASE ~IsWrite(p, a)
        <5>1. issued'[a] = issued[a]
          BY <1>1, <1>a, <4>2 DEF Issue, IsWrite, IsIrq, TypeOK
        <5>2. Kept(a)
          BY <2>2, ChansAre DEF KeptInv, Flowing, Open, Lost
        <5> QED BY <2>1, <3>1, <3>2, <5>1, <5>2 DEF Kept, IsWrite, IsIrq, n
      <4> QED BY <4>1, <4>2
    <3> QED BY <3>3 DEF KeptInv
  <2>3. CASE ~Flowing
    <3>1. Requests' = Requests
      BY <1>a, <2>1, <2>3, Sent
    <3>2. tx' \in Nat /\ \A k \in Nat : k <= tx => k # tx'
      BY <1>b, <2>1
    <3>3. ~Newest'
      BY <1>b, <1>c, <2>1, <3>1, <3>2 DEF Newest, n
    <3>4. ~Open'
      BY <2>1, <2>3 DEF Flowing, Open
    <3> QED BY <3>3, <3>4 DEF KeptInv
  <2> QED BY <2>2, <2>3
<1>2. CASE Sigint
  <2>1. /\ Send(channel, NoRequest) /\ NoRequest.id = 0
        /\ UNCHANGED <<srv, mem, issued, tx, shut, open>> /\ (Lost' <=> Lost)
    BY <1>2 DEF Sigint, mainVars, simVars, listenerVars, NoRequest, Lost, Irqs
  <2>2. \A i \in 1 .. Len(Requests') :
          Requests'[i] = NoRequest \/ (i \in 1 .. n /\ Requests'[i] = Requests[i])
    BY <1>a, <2>1, NoRequestType, SentMembers DEF n
  <2>3. 0 = tx => srv.id = tx
    BY <1>b
  <2>4. Open' \/ Newest' => Open \/ Newest
    BY <2>1, <2>2, <2>3 DEF Open, Newest, n
  <2>5. ASSUME NEW i \in 1 .. n PROVE i \in 1 .. Len(Requests') /\ Requests'[i] = Requests[i]
    BY <1>a, <2>1, NoRequestType, Sent DEF n
  <2>6. ASSUME NEW a \in Addrs, Kept(a) PROVE Kept(a)'
    BY <2>1, <2>5, <2>6 DEF Kept, IsWrite, IsIrq, n
  <2> QED BY <2>4, <2>6 DEF KeptInv
<1>3. ASSUME NEW type, Serve(type) PROVE KeptInv'
  <2>1. /\ n > 0 /\ srv' = Requests[1] /\ srv'.type = type /\ Len(Requests') = n - 1
        /\ \A i \in 1 .. n - 1 : Requests'[i] = Requests[i + 1]
        /\ UNCHANGED <<issued, tx, shut>> /\ (Lost' <=> Lost) /\ (open'[Main] => open[Main])
    BY <1>a, <1>3, Served, ChansAre DEF Serve, n
  <2>2. 1 \in 1 .. n /\ \A i \in 1 .. n - 1 : i + 1 \in 1 .. n
    BY <1>a, <2>1
  <2>3. Open' \/ Newest' => Open \/ Newest
    BY <2>1, <2>2 DEF Open, Newest, n
  <2>4. \A a \in Addrs : mem'[a] = IF IsWrite(Requests[1], a) THEN Requests[1].id ELSE mem[a]
    BY <1>3, <1>a, <2>1 DEF Serve, TypeOK, IsWrite, IsIrq
  <2>5. ASSUME NEW a \in Addrs, Kept(a) PROVE Kept(a)'
    <3>1. CASE mem[a] = issued[a]
      <4>1. ~IsWrite(Requests[1], a)
        <5>1. mem[a] \in Nat /\ issued[a] \in Nat /\ Requests[1].id \in Nat
          BY <1>a, <1>c, <2>2, IdsNat
        <5>2. IsWrite(Requests[1], a) => mem[a] < Requests[1].id /\ Requests[1].id <= issued[a]
          BY <2>2 DEF MemoryInv, IsWrite, IsIrq, n
        <5> QED BY <3>1, <5>1, <5>2
      <4> QED BY <2>1, <2>4, <3>1, <4>1 DEF Kept
    <3>2. ASSUME NEW i \in 1 .. n, IsWrite(Requests[i], a), Requests[i].id = issued[a]
          PROVE  Kept(a)'
      <4>1. CASE i = 1
        BY <2>1, <2>4, <3>2, <4>1 DEF Kept
      <4>2. CASE i # 1
        <5>1. i - 1 \in 1 .. n - 1 /\ (i - 1) + 1 = i
          BY <1>a, <4>2
        <5>2. IsWrite(Requests'[i - 1], a) /\ Requests'[i - 1].id = issued'[a]
          BY <2>1, <3>2, <5>1 DEF IsWrite, IsIrq
        <5> QED BY <2>1, <5>1, <5>2 DEF Kept, IsWrite, IsIrq
      <4> QED BY <4>1, <4>2
    <3> QED BY <2>5, <3>1, <3>2 DEF Kept, n
  <2> QED BY <2>3, <2>5 DEF KeptInv
<1>4. CASE Hangup
  <2>1. /\ ~open'[Main] /\ srv'.id = 0 /\ UNCHANGED <<mem, issued, tx>>
        /\ Len(Requests) = 0 /\ Requests' = Requests
    BY <1>4 DEF Hangup, NoRequest
  <2>2. Open' \/ Newest' => Newest
    BY <1>b, <2>1 DEF Open, Newest
  <2> QED BY <2>1, <2>2 DEF KeptInv, Kept
<1>5. CASE Rest
  <2>1. Open' \/ Newest' => Open \/ Newest
    BY <1>5 DEF Rest, Open, Newest, Requests
  <2> QED BY <1>5, <2>1 DEF Rest, KeptInv, Kept, Requests
<1> QED BY <1>1, <1>2, <1>3, <1>4, <1>5, StepKinds

LEMMA ReadStep ==
  ASSUME GuestWaits \/ NoDoorbell, LinkInv, LinkInv', OrderInv, KeptInv, FrameInv, ReadInv, [Next]_vars
  PROVE  ReadInv'
<1>a. TypeOK /\ Len(Requests) \in Nat /\ Len(Replies) \in Nat
  BY RequestsType DEF LinkInv
<1>b. srv.id \in Nat /\ tx \in Nat /\ srv.id <= tx /\ srv \in Request
  BY <1>a, IdsNat DEF OrderInv, TypeOK
<1>c. \A i \in 1 .. Len(Requests) :
        /\ Requests[i].id \in Nat /\ Requests[i].id <= tx
        /\ Requests[i].type # "NACK" => srv.id < Requests[i].id
        /\ Requests[i].type = "NACK" => Requests[i].id = 0
  BY <1>a, <1>b, IdsNat DEF OrderInv
<1>d. \A i \in 1 .. Len(Replies) : Replies[i].id \in Nat /\ Replies[i].id <= tx
  <2>1. \A i \in 1 .. Len(Replies) : Replies[i].id \in Ids
    BY <1>a, RequestsType DEF Unit
  <2> QED BY <2>1, LinkAssumption DEF Ids, FrameInv, Labelled
<1>1. ASSUME NEW p \in Request, Issue(p) PROVE ReadInv'
  <2>1. /\ Send(channel, p) /\ tx' = tx + 1 /\ p.id = tx + 1 /\ mpc = "idle"
        /\ IF p.type = "MEM_RD" THEN mpc' = "arm" /\ req' = p ELSE UNCHANGED <<mpc, req>>
        /\ UNCHANGED <<srv, toBridge>>
    BY <1>1 DEF Issue
  <2>2. Replies' = Replies /\ tx' > 0 /\ \A k \in Nat : k <= tx => k # tx'
    BY <1>b, <2>1 DEF Replies
  <2>3. ASSUME NEW i \in 1 .. Len(Requests'), Requests'[i].id = tx'
        PROVE  Requests'[i] = p
    BY <1>a, <1>c, <2>1, <2>2, <2>3, SentMembers
  <2> QED BY <1>b, <1>d, <2>1, <2>2, <2>3 DEF ReadInv
<1>2. CASE Sigint
  <2>1. /\ Send(channel, NoRequest) /\ NoRequest.id = 0
        /\ UNCHANGED <<srv, toBridge, tx, req, resp, issued, mpc>>
    BY <1>2 DEF Sigint, mainVars, simVars, NoRequest
  <2>2. \A i \in 1 .. Len(Requests') :
          Requests'[i] = NoRequest \/ (i \in 1 .. Len(Requests) /\ Requests'[i] = Requests[i])
    BY <1>a, <2>1, NoRequestType, SentMembers
  <2>3. tx > 0 => NoRequest.id # tx
    BY <1>b, <2>1
  <2> QED BY <2>1, <2>2, <2>3 DEF ReadInv, Replies
<1>3. ASSUME NEW type, Serve(type) PROVE ReadInv'
  <2>1. /\ srv' = Requests[1] /\ Len(Requests) > 0 /\ srv'.type = type /\ srv' \in Request
        /\ UNCHANGED <<tx, mpc, req, resp, issued>> /\ open[Main]
    BY <1>a, <1>3, Served, ChansAre DEF Serve
  <2>2. 1 \in 1 .. Len(Requests)
    BY <1>a, <2>1
  <2>3. \A i \in 1 .. Len(Requests') : i + 1 \in 1 .. Len(Requests) /\ Requests'[i] = Requests[i + 1]
    BY <1>a, <1>3, ServedMembers
  <2>4. ASSUME NEW i \in 1 .. Len(Replies'), Replies'[i].k = "D"
        PROVE  i \in 1 .. Len(Replies) /\ Replies'[i] = Replies[i]
    <3>1. CASE type = "MEM_RD"
      <4> DEFINE u == [k |-> "H", type |-> "ACK", id |-> srv'.id, tag |-> srv'.tag, val |-> 0]
      <4>1. SimSend(Main, u)
        BY <1>3, <3>1 DEF Serve
      <4>2. u \in Unit
        <5>1. 0 \in Ids
          BY LinkAssumption DEF Ids
        <5> QED BY <2>1, <5>1, SimUnitType
      <4>3. u.k = "H"
        OBVIOUS
      <4> HIDE DEF u
      <4> QED BY <1>a, <2>1, <2>4, <4>1, <4>2, <4>3, AnsweredMembers
    <3>2. CASE type # "MEM_RD"
      BY <1>3, <3>2 DEF Serve, Replies
    <3> QED BY <3>1, <3>2
  <2> QED BY <2>1, <2>2, <2>3, <2>4 DEF ReadInv
<1>4. CASE ReceiveHeader
  <2>1. /\ mpc = "hdr" /\ mpc' = "again"
        /\ \A i \in 1 .. Len(Replies') : i + 1 \in 1 .. Len(Replies) /\ Replies'[i] = Replies[i + 1]
    BY <1>a, <1>4, HeaderTaken
  <2>2. UNCHANGED <<toSim, srv, tx, req, issued>>
    BY <1>4 DEF ReceiveHeader, simVars
  <2> QED BY <2>1, <2>2 DEF ReadInv, Requests
<1>5. CASE ReceivePayload
  <2>1. /\ resp' = [resp EXCEPT !.val = Replies[1].val] /\ mpc = "data"
        /\ Replies[1].k = "D" /\ Replies[1].id = resp.id /\ 1 \in 1 .. Len(Replies)
        /\ \A i \in 1 .. Len(Replies') : i + 1 \in 1 .. Len(Replies) /\ Replies'[i] = Replies[i + 1]
    BY <1>a, <1>5, PayloadTaken
  <2>2. UNCHANGED <<toSim, srv, tx, req, issued>>
    BY <1>5 DEF ReceivePayload, simVars
  <2>3. resp'.id = resp.id /\ resp'.val = Replies[1].val
    BY <1>a, <2>1 DEF TypeOK, Packet
  <2> QED BY <2>1, <2>2, <2>3 DEF ReadInv, Requests
<1>6. CASE ReceiveFails
  <2>1. /\ UNCHANGED <<toSim, toBridge, srv, tx, req, issued>> /\ mpc # "idle"
        /\ resp' = [resp EXCEPT !.type = "INVALID"]
    BY <1>6 DEF ReceiveFails, simVars
  <2>2. resp'.type = "INVALID"
    BY <1>a, <2>1 DEF TypeOK, Packet
  <2> QED BY <2>1, <2>2 DEF ReadInv, Requests, Replies
<1>7. CASE SimReadData
  <2> DEFINE u == [k |-> "D", type |-> "ACK", id |-> srv.id, tag |-> srv.tag, val |-> mem[srv.addr]]
  <2>1. open[Main] /\ SimSend(Main, u) /\ UNCHANGED <<toSim, srv, tx, req, resp, mpc, issued>>
    BY <1>7 DEF SimReadData, LinkInv, EndsInv, mainVars
  <2>2. mem[srv.addr] \in Ids /\ srv.addr \in Addrs
    BY <1>a, <1>b DEF TypeOK, Request
  <2>3. u \in Unit
    BY <1>b, <2>2, SimUnitType
  <2>4. srv.id = tx => mem[srv.addr] = issued[srv.addr]
    <3> SUFFICES ASSUME srv.id = tx PROVE mem[srv.addr] = issued[srv.addr]
      OBVIOUS
    <3>1. Kept(srv.addr)
      BY <2>2 DEF KeptInv, Newest
    <3>2. \A i \in 1 .. Len(Requests) : Requests[i].type = "NACK"
      BY <1>b, <1>c
    <3> QED BY <3>1, <3>2 DEF Kept, IsWrite, IsIrq
  <2>5. u.id = srv.id /\ u.val = mem[srv.addr]
    OBVIOUS
  <2> HIDE DEF u
  <2>6. \A i \in 1 .. Len(Replies') : Replies'[i] = u \/ (i \in 1 .. Len(Replies) /\ Replies'[i] = Replies[i])
    BY <1>a, <2>1, <2>3, AnsweredMembers
  <2> QED BY <2>1, <2>4, <2>5, <2>6 DEF ReadInv, Requests
<1>8. CASE Hangup
  <2>1. /\ srv'.id = 0 /\ Len(Requests') = 0 /\ Replies' = Replies
        /\ UNCHANGED <<tx, req, resp, issued, mpc>>
    BY <1>8 DEF Hangup, NoRequest, Replies
  <2> QED BY <1>b, <2>1 DEF ReadInv
<1>9. CASE Quiet
  <2>1. /\ UNCHANGED <<toSim, srv, tx, req, resp, issued>> /\ Replies' = Replies
        /\ mpc' # "idle" => mpc # "idle"
        /\ mpc' = "disarm" => mpc = "disarm"
    BY <1>9 DEF Quiet, Rest
  <2> QED BY <2>1 DEF ReadInv, Requests, Replies
<1> QED BY <1>1, <1>2, <1>3, <1>4, <1>5, <1>6, <1>7, <1>8, <1>9, ReplyKinds

-----------------------------------------------------------------------------
(* Without time-outs.                                                      *)

LEMMA LoneInit == Init => LoneInv
<1> SUFFICES ASSUME Init PROVE LoneInv
  OBVIOUS
<1>1. Len(Requests) = 0 /\ Len(Replies) = 0
  BY ChansAre DEF Init, Requests, Replies
<1> QED BY <1>1 DEF Init, LoneInv, Lone, Half, ReadUnderWay

LEMMA LoneStep ==
  ASSUME GuestWaits \/ NoDoorbell, TimeoutAt = {}, LinkInv, LinkInv', OrderInv, FrameInv, LoneInv, [Next]_vars
  PROVE  LoneInv'
<1>a. TypeOK /\ OneAtATime /\ EndsInv /\ Len(Requests) \in Nat /\ Len(Replies) \in Nat
  BY RequestsType DEF LinkInv
<1>b. tx \in Nat
  BY <1>a, IdsNat
<1>c. Reading => Lone
  BY DEF LoneInv
<1>d. Half \/ (mpc = "disarm" /\ resp.type = "ACK") => resp.id = tx
  BY DEF LoneInv
<1>1. ASSUME NEW p \in Request, Issue(p) PROVE LoneInv'
  <2>1. /\ Send(channel, p) /\ tx' = tx + 1 /\ p.id = tx + 1 /\ mpc = "idle"
        /\ IF p.type = "MEM_RD" THEN mpc' = "arm" ELSE mpc' = mpc
        /\ UNCHANGED <<spc, srv, open, channel, lpc, lpkt, mfd, toBridge>>
    BY <1>1 DEF Issue
  <2>2. ~Half' /\ mpc' # "disarm" /\ (Reading' => Reading) /\ Replies' = Replies
    BY <2>1 DEF Half, Reading, Lost, Irqs, Replies
  <2>3. ASSUME Reading' PROVE Lone'
    <3>1. Len(Replies') = 0 /\ spc' # "ack"
      BY <1>c, <2>1, <2>2, <2>3 DEF Lone
    <3>2. ASSUME open[Main], NEW i \in 1 .. Len(Requests'), Requests'[i].type = "MEM_RD"
          PROVE  Requests'[i] = p
      <4>1. ~(i \in 1 .. Len(Requests) /\ Requests'[i] = Requests[i])
        BY <1>c, <2>1, <2>2, <2>3, <3>2 DEF Lone, ReadUnderWay, Before
      <4> QED BY <1>a, <2>1, <4>1, SentMembers
    <3>3. open'[Main] /\ ReadUnderWay' => Before'
      BY <2>1, <3>2 DEF ReadUnderWay, Before
    <3> QED BY <2>1, <2>2, <3>1, <3>2, <3>3 DEF Lone
  <2> QED BY <2>2, <2>3 DEF LoneInv
<1>2. CASE Sigint
  <2>1. /\ Send(channel, NoRequest) /\ NoRequest.type # "MEM_RD"
        /\ UNCHANGED <<spc, srv, open, channel, lpc, lpkt, mfd, mpc, resp, tx, toBridge>>
    BY <1>2 DEF Sigint, mainVars, simVars, listenerVars, NoRequest
  <2>2. (Half' <=> Half) /\ (Before' <=> Before) /\ (Reading' <=> Reading) /\ Replies' = Replies
    BY <2>1 DEF Half, Reading, Lost, Irqs, Before, Replies
  <2>3. ASSUME NEW i \in 1 .. Len(Requests'), Requests'[i].type = "MEM_RD"
        PROVE  i \in 1 .. Len(Requests) /\ Requests'[i] = Requests[i]
    BY <1>a, <2>1, <2>3, NoRequestType, SentMembers
  <2>4. ReadUnderWay' => ReadUnderWay
    BY <2>3 DEF ReadUnderWay
  <2> QED BY <1>c, <1>d, <2>1, <2>2, <2>3, <2>4 DEF LoneInv, Lone
<1>3. ASSUME NEW type, Serve(type) PROVE LoneInv'
  <2>1. /\ srv' = Requests[1] /\ Len(Requests) > 0 /\ srv'.type = type /\ srv' \in Request
        /\ open[Main] /\ (open'[Main] => type # "NACK")
        /\ UNCHANGED <<mfd, mpc, resp, tx>> /\ (Lost' <=> Lost)
        /\ spc' = "ack" <=> type = "MEM_RD"
    BY <1>a, <1>3, Served, ChansAre DEF Serve
  <2>2. (Half' <=> Half) /\ (Before' <=> Before) /\ (Reading' <=> Reading)
    BY <2>1 DEF Half, Reading, Before
  <2>3. \A i \in 1 .. Len(Requests') : i + 1 \in 1 .. Len(Requests) /\ Requests'[i] = Requests[i + 1]
    BY <1>a, <1>3, ServedMembers
  <2>4. CASE type # "MEM_RD"
    <3>1. Replies' = Replies /\ spc' # "ack"
      BY <1>3, <2>1, <2>4 DEF Serve, Replies
    <3>2. ReadUnderWay' => ReadUnderWay
      BY <2>3 DEF ReadUnderWay
    <3> QED BY <1>c, <1>d, <2>1, <2>2, <2>3, <3>1, <3>2 DEF LoneInv, Lone
  <2>5. CASE type = "MEM_RD"
    <3> SUFFICES ASSUME Reading PROVE Lone'
      BY <1>d, <2>1, <2>2 DEF LoneInv
    <3>1. 1 \in 1 .. Len(Requests) /\ Requests[1].type = "MEM_RD"
      BY <1>a, <2>1, <2>5
    <3>2. Requests[1].id = tx /\ Len(Replies) = 0 /\ Before
      BY <1>c, <2>1, <3>1 DEF Lone, ReadUnderWay
    <3> DEFINE u == [k |-> "H", type |-> "ACK", id |-> srv'.id, tag |-> srv'.tag, val |-> 0]
    <3>3. SimSend(Main, u) /\ u.id = tx
      BY <1>3, <2>1, <2>5, <3>2 DEF Serve
    <3>4. u \in Unit
      <4>1. 0 \in Ids
        BY LinkAssumption DEF Ids
      <4> QED BY <2>1, <4>1, SimUnitType
    <3> HIDE DEF u
    <3>5. Len(Replies') = 1 /\ Replies'[1] = u
      BY <1>a, <2>1, <3>2, <3>3, <3>4, Answered
    <3>6. ASSUME NEW i \in 1 .. Len(Requests') PROVE Requests'[i].type # "MEM_RD"
      <4>1. i + 1 \in 1 .. Len(Requests) /\ 1 < i + 1 /\ Requests'[i] = Requests[i + 1]
        BY <1>a, <2>3
      <4>2. Requests[i + 1].type = "MEM_RD" => Requests[1].id < Requests[i + 1].id
        BY <3>1, <4>1 DEF OrderInv
      <4>3. Requests[i + 1].type = "MEM_RD" => Requests[i + 1].id = tx
        BY <1>c, <2>1, <4>1 DEF Lone
      <4> QED BY <1>b, <3>2, <4>1, <4>2, <4>3
    <3>7. ~Half /\ mpc \notin {"idle", "disarm"}
      BY <3>2 DEF Before, Half
    <3> QED BY <1>b, <2>1, <2>2, <2>5, <3>2, <3>3, <3>5, <3>6, <3>7 DEF Lone, ReadUnderWay
  <2> QED BY <2>4, <2>5
<1>4. CASE ReceiveHeader
  <2>1. /\ mfd = Main /\ mpc = "hdr" /\ mpc' = "again" /\ resp' = Header(Replies[1])
        /\ Len(Replies) > 0 /\ Len(Replies') = Len(Replies) - 1
        /\ \A i \in 1 .. Len(Replies') : i + 1 \in 1 .. Len(Replies) /\ Replies'[i] = Replies[i + 1]
    BY <1>a, <1>4, HeaderTaken
  <2>2. UNCHANGED <<toSim, spc, srv, open, tx>>
    BY <1>4 DEF ReceiveHeader, simVars
  <2>3. Lone /\ ~Half /\ Half' /\ 1 \in 1 .. Len(Replies)
    BY <1>a, <1>c, <2>1 DEF Reading, Half
  <2>4. resp'.id = tx
    BY <2>1, <2>3 DEF Lone, Header
  <2>5. Requests' = Requests /\ ~(open[Main] /\ ReadUnderWay) /\ (ReadUnderWay' <=> ReadUnderWay)
    BY <1>a, <2>1, <2>2, <2>3 DEF Lone, Requests, ReadUnderWay
  <2>6. /\ \A i \in 1 .. Len(Replies') : Replies'[i].id = tx
        /\ Len(Replies') <= 1 /\ (spc = "ack" => srv.id = tx /\ Len(Replies') <= 0)
    BY <1>a, <2>1, <2>3 DEF Lone
  <2>7. Lone'
    BY <2>1, <2>2, <2>3, <2>5, <2>6 DEF Lone
  <2> QED BY <2>2, <2>4, <2>7 DEF LoneInv
<1>5. CASE ReceivePayload
  <2>1. /\ mfd = Main /\ mpc = "data" /\ mpc' = "disarm"
        /\ resp' = [resp EXCEPT !.val = Replies[1].val]
        /\ Len(Replies) > 0 /\ Len(Replies') = Len(Replies) - 1
    BY <1>a, <1>5, PayloadTaken
  <2>2. UNCHANGED <<toSim, spc, srv, open, tx>>
    BY <1>5 DEF ReceivePayload, simVars
  <2>3. Lone /\ Half /\ ~Half'
    BY <1>a, <1>c, <2>1 DEF Reading, Half
  <2>4. resp'.id = tx
    BY <1>a, <1>d, <2>1, <2>3 DEF TypeOK, Packet
  <2>5. Requests' = Requests /\ ~(open[Main] /\ ReadUnderWay) /\ (ReadUnderWay' <=> ReadUnderWay)
    BY <1>a, <2>1, <2>2, <2>3 DEF Lone, Requests, ReadUnderWay
  <2>6. Len(Replies') = 0 /\ spc # "ack"
    BY <1>a, <2>1, <2>3 DEF Lone
  <2>7. Lone'
    BY <2>1, <2>2, <2>3, <2>5, <2>6 DEF Lone
  <2> QED BY <2>2, <2>4, <2>7 DEF LoneInv
<1>6. CASE ReceiveFails
  <2>1. /\ mpc \in {"hdr", "data"} /\ mpc' = "disarm" /\ toBridge[mfd] = <<>> /\ Gone(mfd)
        /\ UNCHANGED <<toSim, toBridge, channel, lpc, lpkt, mfd, spc, srv, open, tx>>
        /\ resp' = [resp EXCEPT !.type = "INVALID"]
    BY <1>6 DEF ReceiveFails, simVars, listenerVars
  <2>2. resp'.type = "INVALID" /\ ~Half'
    BY <1>a, <2>1 DEF TypeOK, Packet, Half
  <2>3. ASSUME Reading' PROVE Lone'
    <3>1. ~Lost /\ raised = irqs
      BY <1>a, <2>1, <2>3 DEF Reading, Lost, Irqs, OneAtATime
    <3>2. mfd = Main
      BY <1>a, <2>1, <3>1, LostEnds, Undisturbed, ChansAre DEF TypeOK
    <3>3. Len(Replies') = 0 /\ spc # "ack" /\ ~open'[Main]
      BY <1>a, <2>1, <3>2 DEF EndsInv, Gone, Replies
    <3> QED BY <2>1, <2>2, <3>3 DEF Lone
  <2> QED BY <2>2, <2>3 DEF LoneInv
<1>7. CASE SimReadData
  <2> DEFINE u == [k |-> "D", type |-> "ACK", id |-> srv.id, tag |-> srv.tag, val |-> mem[srv.addr]]
  <2>1. /\ spc = "ack" /\ spc' = "poll" /\ open[Main] /\ SimSend(Main, u)
        /\ UNCHANGED <<toSim, mpc, mfd, resp, srv, open, tx>> /\ (Lost' <=> Lost)
    BY <1>7, <1>a, DataLeavesAsync DEF SimReadData, EndsInv, mainVars
  <2>2. u \in Unit
    <3>1. srv \in Request /\ mem[srv.addr] \in Ids
      BY <1>a DEF TypeOK, Request
    <3> QED BY <3>1, SimUnitType
  <2>3. u.id = srv.id
    OBVIOUS
  <2> HIDE DEF u
  <2>4. (Half' <=> Half) /\ (Before' <=> Before) /\ (Reading' <=> Reading) /\ Requests' = Requests
    BY <2>1 DEF Half, Reading, Before, Requests
  <2>5. /\ Len(Replies') = Len(Replies) + 1
        /\ \A i \in 1 .. Len(Replies') : Replies'[i] = u \/ (i \in 1 .. Len(Replies) /\ Replies'[i] = Replies[i])
    BY <1>a, <2>1, <2>2, Answered, AnsweredMembers
  <2>6. ASSUME Lone PROVE Lone'
    <3>1. srv.id = tx /\ Len(Replies) <= (IF Half THEN 0 ELSE 1) /\ mpc \notin {"idle", "disarm"}
          /\ ~ReadUnderWay
      BY <2>1, <2>6 DEF Lone
    <3>2. Len(Replies') <= IF Half THEN 1 ELSE 2
      BY <1>a, <2>5, <3>1
    <3>3. \A i \in 1 .. Len(Replies') : Replies'[i].id = tx
      BY <2>3, <2>5, <2>6, <3>1 DEF Lone
    <3>4. ~ReadUnderWay'
      BY <2>4, <3>1 DEF ReadUnderWay
    <3> QED BY <2>1, <2>4, <2>6, <3>1, <3>2, <3>3, <3>4 DEF Lone
  <2> QED BY <1>c, <1>d, <2>1, <2>4, <2>6 DEF LoneInv
<1>8. CASE Hangup
  <2>1. /\ spc' = "done" /\ ~open'[Main] /\ Replies' = Replies
        /\ UNCHANGED <<channel, lpc, lpkt, toBridge, mfd, mpc, resp, tx>>
    BY <1>8 DEF Hangup, Replies
  <2>2. (Half' <=> Half) /\ (Reading' <=> Reading)
    BY <2>1, <1>8 DEF Half, Reading, Lost, Irqs, Hangup
  <2> QED BY <1>c, <1>d, <2>1, <2>2 DEF LoneInv, Lone
<1>9. CASE Quiet
  <2>1. /\ UNCHANGED <<toSim, srv, tx, resp>> /\ Replies' = Replies
        /\ (Half' <=> Half) /\ (Before => Before') /\ (Reading' => Reading)
        /\ open'[Main] => open[Main]
        /\ spc' = "ack" => spc = "ack"
        /\ mpc' \in {"idle", "disarm"} => mpc \in {"idle", "disarm"}
        /\ mpc' = "disarm" => mpc = "disarm"
    BY <1>9 DEF Quiet, Rest, Before
  <2>2. Requests' = Requests /\ Replies' = Replies /\ (ReadUnderWay' <=> ReadUnderWay)
    BY <2>1 DEF Requests, Replies, ReadUnderWay
  <2>3. Lone => Lone'
    BY <2>1, <2>2 DEF Lone
  <2> QED BY <1>c, <1>d, <2>1, <2>3 DEF LoneInv
<1> QED BY <1>1, <1>2, <1>3, <1>4, <1>5, <1>6, <1>7, <1>8, <1>9, ReplyKinds

-----------------------------------------------------------------------------
(* What a read returns.                                                    *)

ReplyInv == RequestInv /\ FrameInv /\ KeptInv /\ ReadInv /\ (TimeoutAt = {} => LoneInv)

LEMMA ReplyInvariant ==
  ASSUME GuestWaits \/ NoDoorbell, "data" \notin TimeoutAt
  PROVE  Spec => []ReplyInv
<1>1. Init => ReplyInv
  BY LinkInit, OrderInit, FrameInit, KeptInit, LoneInit DEF ReplyInv, RequestInv
<1>2. ReplyInv /\ RequestInv' /\ [Next]_vars => ReplyInv'
  BY FrameStep, KeptStep, ReadStep, LoneStep DEF ReplyInv, RequestInv
<1> QED BY <1>1, <1>2, RequestInvariant, PTL DEF Spec

\* Two numbers with the same tag are the same, or a whole round apart.
LEMMA SameTag ==
  ASSUME NEW a \in Nat, NEW b \in Nat, a <= b, Tag(a) = Tag(b)
  PROVE  a = b \/ b >= a + TagMod
<1> DEFINE p == a \div TagMod
           q == b \div TagMod
<1>1. TagMod \in Nat \ {0} /\ a % TagMod = b % TagMod
  BY LinkAssumption DEF Tag
<1>2. p \in Int /\ q \in Int /\ a = TagMod * p + (a % TagMod) /\ b = TagMod * q + (b % TagMod)
  BY <1>1, SMT
<1> HIDE DEF p, q
<1>3. CASE q <= p
  <2>1. TagMod * q <= TagMod * p
    BY <1>1, <1>2, <1>3
  <2> QED BY <1>1, <1>2, <2>1
<1>4. CASE q >= p + 1
  <2>1. TagMod * q >= TagMod * (p + 1)
    BY <1>1, <1>2, <1>4
  <2>2. TagMod * (p + 1) = TagMod * p + TagMod
    BY <1>1, <1>2
  <2> QED BY <1>1, <1>2, <2>1, <2>2
<1> QED BY <1>2, <1>3, <1>4

\* What the main thread accepts is its own reply, unless the tags have wrapped.
LEMMA AcceptedOwn ==
  ASSUME ReplyInv, mpc = "disarm", Accepted
  PROVE  /\ req.id = tx /\ tx \in Nat /\ resp.id \in Nat
         /\ resp.id = tx \/ tx >= resp.id + TagMod
<1>1. TypeOK /\ Labelled
  BY DEF ReplyInv, RequestInv, LinkInv, FrameInv
<1>2. tx \in Nat /\ resp.id \in Nat
  BY <1>1, LinkAssumption DEF TypeOK, Packet, Ids
<1>3. /\ req.id = tx /\ req.tag = Tag(tx)
      /\ resp.tag = Tag(resp.id) /\ resp.id <= tx /\ resp.tag = req.tag
  BY <1>1 DEF Labelled, Accepted
<1> QED BY <1>2, <1>3, SameTag

LEMMA FinishOnly ==
  ASSUME [Next]_vars
  PROVE  Finish \/ last' = last
BY DEF Next, Guest, PcieBridgeRead, PcieBridgeWrite, MainThread, SetTimeout, SelectSocket,
       ReceiveHeader, ReceivePayload, ReceiveFails, Listener, AsyncPoll, AsyncHup, AsyncHeader,
       AsyncPayload, AsyncFails, AsyncDeliver, Sim, SimIrqVector, SimReadData, SimWrite, SimIrq,
       SimRead, SimNack, SimEof, SimDies, Sigint, Disconnect, Exit, MainReturns, EndProcess,
       vars, mainVars

\* A read that succeeds has the reply to its own request, or to one a whole
\* round of tags ago: no stale reply is accepted before the tag wraps.
THEOREM AcceptedReply ==
  ASSUME GuestWaits \/ NoDoorbell, "data" \notin TimeoutAt
  PROVE  Spec => []AcceptedReplyIsOwnOrWrapped
<1>1. Init => AcceptedReplyIsOwnOrWrapped
  BY DEF Init, AcceptedReplyIsOwnOrWrapped
<1>2. ReplyInv /\ AcceptedReplyIsOwnOrWrapped /\ [Next]_vars => AcceptedReplyIsOwnOrWrapped'
  <2> SUFFICES ASSUME ReplyInv, AcceptedReplyIsOwnOrWrapped, [Next]_vars
               PROVE  AcceptedReplyIsOwnOrWrapped'
    OBVIOUS
  <2>1. CASE Finish
    <3>1. /\ mpc = "disarm" /\ last'.ok = Accepted /\ last'.n = req.id
          /\ Accepted => last'.id = resp.id
      BY <2>1 DEF Finish
    <3> QED BY <3>1, AcceptedOwn DEF AcceptedReplyIsOwnOrWrapped
  <2>2. CASE last' = last
    BY <2>2 DEF AcceptedReplyIsOwnOrWrapped
  <2> QED BY <2>1, <2>2, FinishOnly
<1> QED BY <1>1, <1>2, ReplyInvariant, PTL DEF Spec

\* With fewer transactions than tags, or without time-outs, it is its own.
LEMMA AcceptedData ==
  ASSUME TagMod > MaxTx \/ TimeoutAt = {}, ReplyInv, mpc = "disarm", Accepted
  PROVE  resp.val = issued[req.addr]
<1>1. resp.type = "ACK" /\ ReadInv /\ tx <= MaxTx /\ TagMod \in Nat /\ MaxTx \in Nat
  BY LinkAssumption DEF Accepted, ReplyInv, RequestInv, LinkInv, TypeOK, Ids
<1>2. resp.id = tx
  <2>1. CASE TagMod > MaxTx
    BY <1>1, <2>1, AcceptedOwn
  <2>2. CASE TimeoutAt = {}
    BY <1>1, <2>2 DEF ReplyInv, LoneInv
  <2> QED BY <2>1, <2>2
<1> QED BY <1>1, <1>2 DEF ReadInv

\* The steps that are none of the guest's business.
LEMMA GuestView ==
  ASSUME [Next]_vars, ~Guest, ~Finish
  PROVE  UNCHANGED <<issued, req, last>> /\ (mpc' = "idle" <=> mpc = "idle")
<1> USE DEF mainVars
<1>1. CASE SetTimeout \/ SelectSocket \/ ReceiveHeader \/ ReceivePayload \/ ReceiveFails
  BY <1>1 DEF SetTimeout, SelectSocket, ReceiveHeader, ReceivePayload, ReceiveFails
<1>2. CASE Listener \/ Sim \/ SimDies \/ Sigint \/ Disconnect \/ Exit \/ MainReturns \/ UNCHANGED vars
  BY <1>2 DEF Listener, AsyncPoll, AsyncHup, AsyncHeader, AsyncPayload, AsyncFails, AsyncDeliver,
              Sim, SimIrqVector, SimReadData, SimWrite, SimIrq, SimRead, SimNack, SimEof, SimDies,
              Sigint, Disconnect, Exit, MainReturns, EndProcess, vars
<1> QED BY <1>1, <1>2 DEF Next, MainThread

\* The BAR is a memory: whatever the two processes, the threads and the
\* sockets do in between, a guest sees a write take effect at once, and a read
\* return what its address holds or an error.  The tag of a reply must tell
\* the reads apart that time-outs may leave behind.
THEOREM BarIsMemory ==
  ASSUME GuestWaits \/ NoDoorbell, "data" \notin TimeoutAt, TagMod > MaxTx \/ TimeoutAt = {}
  PROVE  Spec => ImplementsBarMemory
<1> DEFINE pending == IF mpc = "idle" THEN "idle" ELSE req.addr
           answer  == [ok |-> last.ok, val |-> last.val]
<1>1. Init => Bar!Init
  BY DEF Init, Bar!Init, Bar!Idle, Bar!Error
<1>2. ReplyInv /\ ReplyInv' /\ [Next]_vars => [Bar!Next]_Bar!vars
  <2> SUFFICES ASSUME ReplyInv, ReplyInv', [Next]_vars PROVE [Bar!Next]_Bar!vars
    OBVIOUS
  <2>0. TypeOK /\ req.addr \in Addrs /\ tx \in Ids /\ tx' \in Ids
    BY DEF ReplyInv, RequestInv, LinkInv, TypeOK, Request
  <2>1. ASSUME NEW a \in Addrs, NEW op \in {"wr", "irq"}, PcieBridgeWrite(a, op)
        PROVE  [Bar!Next]_Bar!vars
    <3>1. /\ mpc = "idle" /\ UNCHANGED <<mpc, req, last>>
          /\ issued' = [issued EXCEPT ![a] = tx'] \/ issued' = issued
      BY <2>1 DEF PcieBridgeWrite
    <3>2. CASE issued' = [issued EXCEPT ![a] = tx']
      <4>1. Bar!Write(a, tx')
        BY <3>1, <3>2 DEF Bar!Write, Bar!Idle
      <4> QED BY <2>0, <4>1 DEF Bar!Next
    <3>3. CASE issued' = issued
      BY <3>1, <3>3 DEF Bar!vars
    <3> QED BY <3>1, <3>2, <3>3
  <2>2. ASSUME NEW a \in Addrs, PcieBridgeRead(a)
        PROVE  Bar!Next
    <3>1. mpc = "idle" /\ mpc' = "arm" /\ req'.addr = a /\ UNCHANGED <<issued, last>>
      BY <2>2 DEF PcieBridgeRead
    <3>2. Bar!ReadRequest(a)
      BY <3>1 DEF Bar!ReadRequest, Bar!Idle
    <3> QED BY <3>2 DEF Bar!Next
  <2>3. CASE Finish
    <3>1. /\ mpc = "disarm" /\ mpc' = "idle" /\ UNCHANGED <<issued, req>>
          /\ last'.ok = Accepted /\ last'.val = IF Accepted THEN resp.val ELSE 0
      BY <2>3 DEF Finish
    <3>2. pending = req.addr /\ pending # "idle" /\ pending' = "idle"
      BY <2>0, <3>1, LinkAssumption
    <3>3. CASE Accepted
      <4>1. last'.val = issued[req.addr] /\ last'.ok = TRUE
        BY <3>1, <3>3, AcceptedData
      <4>2. Bar!ReadOk
        BY <3>1, <3>2, <4>1 DEF Bar!ReadOk, Bar!Idle
      <4> QED BY <4>2 DEF Bar!Next
    <3>4. CASE ~Accepted
      <4>1. last'.val = 0 /\ last'.ok = FALSE
        BY <3>1, <3>4
      <4>2. Bar!ReadError
        BY <3>1, <3>2, <4>1 DEF Bar!ReadError, Bar!Idle, Bar!Error
      <4> QED BY <4>2 DEF Bar!Next
    <3> QED BY <3>3, <3>4
  <2>4. CASE ~Guest /\ ~Finish
    BY <2>4, GuestView DEF Bar!vars
  <2> QED BY <2>1, <2>2, <2>3, <2>4 DEF Guest
<1> QED BY <1>1, <1>2, ReplyInvariant, PTL DEF Spec, ImplementsBarMemory, Bar!Spec
=============================================================================
