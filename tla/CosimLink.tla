----------------------------- MODULE CosimLink -----------------------------
(***************************************************************************)
(* The running co-simulation link: the PCIe bridge process (main thread,   *)
(* async interrupt listener, SIGINT monitor) and the simulation process    *)
(* it forked, over the MAIN and ASYNC stream sockets, from the end of the  *)
(* handshake (module CosimStartup) to the exit of either process.          *)
(*                                                                         *)
(* A transaction is one dword, as vfio-user hands the bridge the guest's   *)
(* 32-bit accesses.  The dword a write stores is named by the number of    *)
(* the transaction that wrote it, so a value says who wrote it; numbers    *)
(* are unbounded, the tag on the wire is the number modulo TagMod.         *)
(***************************************************************************)
EXTENDS Integers, Sequences

CONSTANTS
  Addrs,      \* dword addresses the guest uses
  IrqAddr,    \* BAR0 offset 0, where the MSI test pattern is recognised
  TagMod,     \* 256: "static uint8_t tran" wraps
  MaxTx,      \* bound: transactions the guest issues
  MsiTest,    \* ENABLE_MSI_TEST
  Transport,  \* "UDS" (default build) or "TCP" (ENABLE_TCP)
  TimeoutAt,  \* the receives a 10 s timeout may hit: {}, {"hdr"}, {"hdr", "data"}
  Ops,        \* accesses the guest makes: "rd", "wr", "irq" (a write of the MSI pattern)
  SimMayDie,  \* whether the simulation process may crash
  GuestWaits  \* the guest makes no access while an interrupt is under way

Main   == 0
Async  == 1
Chans  == {Main, Async}
NoSock == -1

ASSUME LinkAssumption ==
  /\ IrqAddr \in Addrs /\ "idle" \notin Addrs   \* BarMemory's mark for no read
  /\ TagMod \in Nat \ {0}
  /\ MaxTx \in Nat
  /\ MsiTest \in BOOLEAN
  /\ SimMayDie \in BOOLEAN
  /\ GuestWaits \in BOOLEAN
  /\ Transport \in {"UDS", "TCP"}
  /\ TimeoutAt \subseteq {"hdr", "data"}
  /\ Ops \subseteq {"rd", "wr", "irq"}

VARIABLES
  channel,      \* SocketChannel::channel, shared by the bridge's three threads
  rcvtimeo,     \* SO_RCVTIMEO armed on each socket of the bridge
  shut,         \* the bridge has shut down the sending side of both sockets
  mpc,          \* main thread: where it is in pcie_bridge()
  req,          \* main thread: the request it sent last
  mfd,          \* main thread: the socket its current recv() is blocked on
  resp,         \* main thread: the packet receive() is assembling
  tx,           \* number of transactions issued ("tran", unwrapped)
  last,         \* what the last completed read returned (with ghost fields)
  lpc,          \* listener thread: where it is
  lpkt,         \* listener thread: the packet it is assembling
  lto,          \* listener thread: its current recv() has a timeout
  irqs,         \* vfu_irq_trigger() calls
  tpc,          \* SIGINT monitor: where it is
  spc,          \* simulation: where it is in exchange()
  srv,          \* simulation: the request served last
  activeSocket, \* simulation: the socket replies go to
  open,         \* simulation: its end of each socket is open
  mem,          \* simulation: what each address holds
  toSim,        \* packets in flight to the simulation, per socket
  toBridge,     \* stream units in flight to the bridge, per socket
  torn,         \* the bridge has lost the packet boundaries of a socket
  issued,       \* ghost: memory as the program order of the guest defines it
  raised,       \* ghost: MSI pattern writes issued
  atInt         \* ghost: issued, at the time of the SIGINT

mainVars     == <<mpc, req, mfd, resp, tx, last, issued, raised>>
listenerVars == <<lpc, lpkt, lto, irqs>>
simVars      == <<spc, srv, activeSocket, open, mem>>
termVars     == <<tpc, shut, atInt>>
vars == <<channel, rcvtimeo, torn, toSim, toBridge,
          mainVars, listenerVars, simVars, termVars>>

-----------------------------------------------------------------------------
(* Packets.  Towards the simulation a packet travels whole: the bridge     *)
(* sends header and payload in one sendmsg().  Towards the bridge header   *)
(* and payload are separate sends and separate receives: units "H", "D".   *)

UnboundedTag(n) == n   \* slip: the counter is wider than the tag field
Tag(n)  == n % TagMod
Tags    == 0 .. TagMod - 1
Ids     == 0 .. MaxTx
Request == [type : {"MEM_WR", "MEM_RD", "NACK"}, id : Ids, tag : Tags,
            addr : Addrs, msi : BOOLEAN]
Packet  == [type : {"ACK", "MSG", "STATUS", "INVALID"}, id : Ids, tag : Tags,
            len : {0, 1}, val : Ids]
Unit    == [k : {"H", "D"}, type : {"ACK", "MSG"}, id : Ids, tag : Tags, val : Ids]

NoRequest == [type |-> "NACK", id |-> 0, tag |-> 0, addr |-> IrqAddr, msi |-> FALSE]
Invalid   == [type |-> "INVALID", id |-> 0, tag |-> 0, len |-> 0, val |-> 0]
Header(u) == [type |-> u.type, id |-> u.id, tag |-> u.tag, len |-> 1, val |-> 0]

\* Off the packet boundary the sixteen bytes taken for a header are arbitrary.
Garbled == [type : {"ACK", "MSG", "STATUS", "INVALID"}, id : {0}, tag : Tags,
            len : {0, 1}, val : {0}]

Alive  == tpc # "exit"
Gone(ch)  == ~open[ch]
AtEof(ch) == toBridge[ch] = <<>> /\ Gone(ch)

\* The writes the simulation turns into an interrupt instead of storing them.
IsIrq(p) == MsiTest /\ p.msi /\ p.addr = IrqAddr

\* slip: a socket that is busy is passed over for the other one
SendWhereFree(ch, p) ==
  LET free == IF toSim[ch] = <<>> THEN ch ELSE 1 - ch
  IN  toSim' = IF shut \/ Gone(ch) THEN toSim
                                   ELSE [toSim EXCEPT ![free] = Append(@, p)]
\* SocketChannel::send: a failed send is logged, the caller is not told.
Send(ch, p) ==
  toSim' = IF shut \/ Gone(ch) THEN toSim
                               ELSE [toSim EXCEPT ![ch] = Append(@, p)]

\* What a blocking receive of a header from socket ch can return.
HeaderReads(ch) ==
  LET q == toBridge[ch]
  IN  IF q = <<>> THEN {}
      ELSE IF ~torn[ch] /\ Head(q).k = "H"
      THEN {[pkt |-> Header(Head(q)), rest |-> Tail(q), torn |-> FALSE]}
      ELSE {[pkt |-> g, rest |-> SubSeq(q, n + 1, Len(q)), torn |-> TRUE] :
              g \in Garbled, n \in 1 .. Len(q)}

\* What a blocking receive of a one-dword payload from socket ch can return.
PayloadReads(ch) ==
  LET q == toBridge[ch]
  IN  IF q = <<>> THEN {}
      ELSE IF ~torn[ch] /\ Head(q).k = "D"
      THEN {[val |-> Head(q).val, rest |-> Tail(q), torn |-> FALSE]}
      ELSE {[val |-> 0, rest |-> r, torn |-> TRUE] : r \in {q, Tail(q)}}

Take(ch, r) ==
  /\ toBridge' = [toBridge EXCEPT ![ch] = r.rest]
  /\ torn' = [torn EXCEPT ![ch] = r.torn]

-----------------------------------------------------------------------------
Init ==
  /\ channel = Main
  /\ rcvtimeo = [ch \in Chans |-> FALSE]
  /\ shut = FALSE
  /\ mpc = "idle" /\ req = NoRequest /\ mfd = Main /\ resp = Invalid
  /\ tx = 0
  /\ last = [n |-> 0, ok |-> FALSE, id |-> 0, val |-> 0, exp |-> 0]
  /\ lpc = "poll" /\ lpkt = Invalid /\ lto = FALSE /\ irqs = 0
  /\ tpc = "wait"
  /\ spc = "poll" /\ srv = NoRequest /\ activeSocket = Async
  /\ open = [ch \in Chans |-> TRUE]
  /\ mem = [a \in Addrs |-> 0]
  /\ toSim = [ch \in Chans |-> <<>>]
  /\ toBridge = [ch \in Chans |-> <<>>]
  /\ torn = [ch \in Chans |-> FALSE]
  /\ issued = [a \in Addrs |-> 0] /\ raised = 0
  /\ atInt = [a \in Addrs |-> 0]

-----------------------------------------------------------------------------
(* Main thread: pcie_bridge(), called by libvfio-user for a guest access.  *)

\* Test 4 of run_pcie_agent.py (573-613) writes the MSI pattern and then sleeps
\* and reads /proc/interrupts: the interrupt is over before the next access.
Unconcerned == TRUE   \* slip: an access is made whatever interrupt is under way
GuestTurn   == GuestWaits => irqs = raised

\* A posted write: one send on the active channel, reported as done.
PcieBridgeWrite(a, op) ==
  /\ Alive /\ mpc = "idle" /\ tx < MaxTx /\ op \in Ops /\ GuestTurn
  /\ LET p == [type |-> "MEM_WR", id |-> tx + 1, tag |-> Tag(tx + 1),
               addr |-> a, msi |-> op = "irq"]
     IN  /\ Send(channel, p)
         /\ issued' = IF IsIrq(p) THEN issued ELSE [issued EXCEPT ![a] = tx + 1]
         /\ raised' = IF IsIrq(p) THEN raised + 1 ELSE raised
  /\ tx' = tx + 1
  /\ UNCHANGED <<channel, rcvtimeo, torn, toBridge, mpc, req, mfd, resp, last,
                 listenerVars, simVars, termVars>>

\* A read: its request goes out on the active channel.
PcieBridgeRead(a) ==
  /\ Alive /\ mpc = "idle" /\ tx < MaxTx /\ "rd" \in Ops /\ GuestTurn
  /\ req' = [type |-> "MEM_RD", id |-> tx + 1, tag |-> Tag(tx + 1),
             addr |-> a, msi |-> FALSE]
  /\ Send(channel, req')
  /\ tx' = tx + 1
  /\ mpc' = "arm"
  /\ UNCHANGED <<channel, rcvtimeo, torn, toBridge, mfd, resp, last, issued,
                 raised, listenerVars, simVars, termVars>>

\* setTimeout(channel, MAX_WAIT_TIME): the channel is read again.
SetTimeout ==
  /\ Alive /\ mpc = "arm"
  /\ rcvtimeo' = [rcvtimeo EXCEPT ![channel] = TRUE]
  /\ mpc' = "recv"
  /\ UNCHANGED <<channel, torn, toSim, toBridge, req, mfd, resp, tx, last,
                 issued, raised, listenerVars, simVars, termVars>>

\* receive() picks the socket, once for the header and once for the payload.
SelectSocket ==
  /\ Alive /\ mpc \in {"recv", "again"}
  /\ mfd' = channel
  /\ mpc' = IF mpc = "recv" THEN "hdr" ELSE "data"
  /\ UNCHANGED <<channel, rcvtimeo, torn, toSim, toBridge, req, resp, tx, last,
                 issued, raised, listenerVars, simVars, termVars>>

ReceiveHeader ==
  /\ Alive /\ mpc = "hdr"
  /\ \E r \in HeaderReads(mfd) :
       /\ Take(mfd, r)
       /\ resp' = r.pkt
       /\ mpc' = IF r.pkt.len > 0 THEN "again" ELSE "disarm"
  /\ UNCHANGED <<channel, rcvtimeo, toSim, req, mfd, tx, last, issued, raised,
                 listenerVars, simVars, termVars>>

ReceivePayload ==
  /\ Alive /\ mpc = "data"
  /\ \E r \in PayloadReads(mfd) :
       /\ Take(mfd, r)
       /\ resp' = [resp EXCEPT !.val = r.val]
  /\ mpc' = "disarm"
  /\ UNCHANGED <<channel, rcvtimeo, toSim, req, mfd, tx, last, issued, raised,
                 listenerVars, simVars, termVars>>

\* End of stream, or the timeout of the socket the thread is blocked on.
ReceiveFails ==
  /\ Alive /\ mpc \in {"hdr", "data"} /\ toBridge[mfd] = <<>>
  /\ Gone(mfd) \/ (rcvtimeo[mfd] /\ mpc \in TimeoutAt)
  /\ resp' = [resp EXCEPT !.type = "INVALID"]
  /\ mpc' = "disarm"
  /\ UNCHANGED <<channel, rcvtimeo, torn, toSim, toBridge, req, mfd, tx, last,
                 issued, raised, listenerVars, simVars, termVars>>

AnyTag   == resp.type = "ACK" /\ resp.len = 1   \* slip: the tag is not compared
Accepted == resp.type = "ACK" /\ resp.len = 1 /\ resp.tag = req.tag

\* setTimeout(channel, BLOCK), then the reply is compared with the request.
Finish ==
  /\ Alive /\ mpc = "disarm"
  /\ rcvtimeo' = [rcvtimeo EXCEPT ![channel] = FALSE]
  /\ last' = [n |-> req.id, ok |-> Accepted,
              id |-> IF Accepted THEN resp.id ELSE 0,
              val |-> IF Accepted THEN resp.val ELSE 0,
              exp |-> issued[req.addr]]
  /\ mpc' = "idle"
  /\ UNCHANGED <<channel, torn, toSim, toBridge, req, mfd, resp, tx, issued,
                 raised, listenerVars, simVars, termVars>>

MainThread == \/ SetTimeout \/ SelectSocket \/ ReceiveHeader \/ ReceivePayload
              \/ ReceiveFails \/ Finish
Guest == \E a \in Addrs : \/ PcieBridgeRead(a)
                          \/ \E op \in {"wr", "irq"} : PcieBridgeWrite(a, op)

-----------------------------------------------------------------------------
(* Async listener: asyncListen() and the delivery of the interrupt.        *)

\* poll() reports POLLHUP when both directions are down; a TCP socket whose
\* peer closed reports it only after the bridge's own shutdown or a reset.
HupSeen == Gone(Async) /\ (Transport = "UDS" \/ shut)

BeforePoll    == TRUE   \* slip: the channel is switched before poll() returns
AsyncReadable == ~HupSeen /\ (toBridge[Async] # <<>> \/ Gone(Async))

AsyncPoll ==
  /\ Alive /\ lpc = "poll" /\ AsyncReadable
  /\ channel' = Async
  /\ lto' = rcvtimeo[Async]
  /\ lpc' = "hdr"
  /\ UNCHANGED <<rcvtimeo, torn, toSim, toBridge, lpkt, irqs, mainVars, simVars,
                 termVars>>

AsyncHup ==
  /\ Alive /\ lpc = "poll" /\ Gone(Async)
  /\ lpc' = "gone"
  /\ UNCHANGED <<channel, rcvtimeo, torn, toSim, toBridge, lpkt, lto, irqs,
                 mainVars, simVars, termVars>>

AsyncHeader ==
  /\ Alive /\ lpc = "hdr"
  /\ \E r \in HeaderReads(Async) :
       /\ Take(Async, r)
       /\ lpkt' = r.pkt
       /\ lpc' = IF r.pkt.len > 0 THEN "data" ELSE "deliver"
  /\ lto' = rcvtimeo[Async]
  /\ UNCHANGED <<channel, rcvtimeo, toSim, irqs, mainVars, simVars, termVars>>

AsyncPayload ==
  /\ Alive /\ lpc = "data"
  /\ \E r \in PayloadReads(Async) :
       /\ Take(Async, r)
       /\ lpkt' = [lpkt EXCEPT !.val = r.val]
  /\ lpc' = "deliver"
  /\ UNCHANGED <<channel, rcvtimeo, toSim, lto, irqs, mainVars, simVars, termVars>>

AsyncFails ==
  /\ Alive /\ lpc \in {"hdr", "data"} /\ toBridge[Async] = <<>>
  /\ Gone(Async) \/ (lto /\ lpc \in TimeoutAt)
  /\ lpkt' = [lpkt EXCEPT !.type = "INVALID"]
  /\ lpc' = "deliver"
  /\ UNCHANGED <<channel, rcvtimeo, torn, toSim, toBridge, lto, irqs, mainVars,
                 simVars, termVars>>

\* Only a MSG puts the channel back; anything but MSG and STATUS ends the thread.
Triggers(p)     == p.type = "MSG"
KeepChannel(p)  == channel              \* slip: the switch back is forgotten
ChannelAfter(p) == IF p.type = "MSG" THEN Main ELSE channel
OneShot(p)      == p.type = "STATUS"    \* slip: the loop ends after an interrupt
Continues(p)    == p.type \in {"MSG", "STATUS"}

AsyncDeliver ==
  /\ Alive /\ lpc = "deliver"
  /\ channel' = ChannelAfter(lpkt)
  /\ irqs' = IF Triggers(lpkt) THEN irqs + 1 ELSE irqs
  /\ lpc' = IF Continues(lpkt) THEN "poll" ELSE "gone"
  /\ UNCHANGED <<rcvtimeo, torn, toSim, toBridge, lpkt, lto, mainVars, simVars,
                 termVars>>

Listener == \/ AsyncPoll \/ AsyncHup \/ AsyncHeader \/ AsyncPayload
            \/ AsyncFails \/ AsyncDeliver

-----------------------------------------------------------------------------
(* Simulation: one exchange() at a time, on the first readable socket.     *)

Other(ch) == 1 - ch
Readable(ch) == open[ch] /\ (toSim[ch] # <<>> \/ shut)

Polled(ch) ==
  /\ Alive /\ spc = "poll" /\ Readable(ch)
  /\ ch = Async => ~Readable(Main)

\* slip: the packet is looked at and stays in the socket
Peeked(ch, type) ==
  /\ Polled(ch) /\ toSim[ch] # <<>> /\ Head(toSim[ch]).type = type
  /\ srv' = Head(toSim[ch]) /\ UNCHANGED toSim
\* receive() takes one packet of the given type off socket ch.
Received(ch, type) ==
  /\ Polled(ch) /\ toSim[ch] # <<>> /\ Head(toSim[ch]).type = type
  /\ toSim' = [toSim EXCEPT ![ch] = Tail(@)]
  /\ srv' = Head(toSim[ch])

\* slip: the payload of a reply or interrupt is left out
HeaderOnly(ch, u) ==
  toBridge' = IF u.k = "H" THEN [toBridge EXCEPT ![ch] = Append(@, u)] ELSE toBridge
SimSend(ch, u) ==
  toBridge' = IF open[ch] THEN [toBridge EXCEPT ![ch] = Append(@, u)] ELSE toBridge

SimWrite(ch) ==
  /\ Received(ch, "MEM_WR") /\ ~IsIrq(srv')
  /\ mem' = [mem EXCEPT ![srv'.addr] = srv'.id]
  /\ activeSocket' = ch
  /\ UNCHANGED <<channel, rcvtimeo, torn, toBridge, spc, open, mainVars,
                 listenerVars, termVars>>

\* The MSI pattern: header, then vector, on the ASYNC socket; nothing is stored.
SimIrq(ch) ==
  /\ Received(ch, "MEM_WR") /\ IsIrq(srv')
  /\ activeSocket' = ch
  /\ SimSend(Async, [k |-> "H", type |-> "MSG", id |-> srv'.id, tag |-> 0, val |-> 0])
  /\ spc' = "msg"
  /\ UNCHANGED <<channel, rcvtimeo, torn, open, mem, mainVars, listenerVars, termVars>>

SimIrqVector ==
  /\ Alive /\ spc = "msg"
  /\ SimSend(Async, [k |-> "D", type |-> "MSG", id |-> srv.id, tag |-> 0, val |-> 0])
  /\ spc' = "poll"
  /\ UNCHANGED <<channel, rcvtimeo, torn, toSim, srv, activeSocket, open, mem,
                 mainVars, listenerVars, termVars>>

\* A read is answered on the socket it came from: ACK header, then the data.
SimRead(ch) ==
  /\ Received(ch, "MEM_RD")
  /\ activeSocket' = ch
  /\ SimSend(ch, [k |-> "H", type |-> "ACK", id |-> srv'.id, tag |-> srv'.tag, val |-> 0])
  /\ spc' = "ack"
  /\ UNCHANGED <<channel, rcvtimeo, torn, open, mem, mainVars, listenerVars, termVars>>

SimReadData ==
  /\ Alive /\ spc = "ack"
  /\ SimSend(activeSocket, [k |-> "D", type |-> "ACK", id |-> srv.id,
                            tag |-> srv.tag, val |-> mem[srv.addr]])
  /\ spc' = "poll"
  /\ UNCHANGED <<channel, rcvtimeo, torn, toSim, srv, activeSocket, open, mem,
                 mainVars, listenerVars, termVars>>

\* exchange() has run out of sockets: the process ends, closing what is open.
\* slip: the sockets are closed but the loop does not notice
StayInLoop ==
  UNCHANGED <<activeSocket, spc>> /\ open' = [ch \in Chans |-> FALSE]
Stop ==
  /\ activeSocket' = NoSock
  /\ spc' = "done"
  /\ open' = [ch \in Chans |-> FALSE]

SimNack(ch) ==
  /\ Received(ch, "NACK")
  /\ Stop
  /\ UNCHANGED <<channel, rcvtimeo, torn, toBridge, mem, mainVars, listenerVars, termVars>>

\* End of stream: the alternate socket takes over only if ch was the active one.
HangupFirst(ch) == shut   \* slip: the hang-up is acted on before the data is read
Drained(ch)     == toSim[ch] = <<>>

SimEof(ch) ==
  /\ Polled(ch) /\ Drained(ch)
  /\ IF activeSocket = ch /\ open[Other(ch)]
       THEN /\ activeSocket' = Other(ch)
            /\ open' = [open EXCEPT ![ch] = FALSE]
            /\ UNCHANGED spc
       ELSE Stop
  /\ UNCHANGED <<channel, rcvtimeo, torn, toSim, toBridge, srv, mem, mainVars,
                 listenerVars, termVars>>

Sim == \/ SimIrqVector \/ SimReadData
       \/ \E ch \in Chans : \/ SimWrite(ch) \/ SimIrq(ch) \/ SimRead(ch)
                            \/ SimNack(ch) \/ SimEof(ch)

\* The simulation process crashes; the kernel closes its sockets.
SimDies ==
  /\ Alive /\ SimMayDie /\ spc \notin {"done", "dead"}
  /\ spc' = "dead" /\ activeSocket' = NoSock
  /\ open' = [ch \in Chans |-> FALSE]
  /\ UNCHANGED <<channel, rcvtimeo, torn, toSim, toBridge, srv, mem, mainVars,
                 listenerVars, termVars>>

-----------------------------------------------------------------------------
(* SIGINT monitor: pcie_bridge_disconnect(), then _exit().                 *)

Sigint ==
  /\ tpc = "wait"
  /\ Send(channel, NoRequest)
  /\ atInt' = issued
  /\ tpc' = "nack"
  /\ UNCHANGED <<channel, rcvtimeo, torn, toBridge, shut, mainVars,
                 listenerVars, simVars>>

Disconnect ==
  /\ tpc = "nack"
  /\ shut' = TRUE
  /\ tpc' = "shut"
  /\ UNCHANGED <<channel, rcvtimeo, torn, toSim, toBridge, atInt, mainVars,
                 listenerVars, simVars>>

\* The end of the process ends every thread; PR_SET_PDEATHSIG kills a
\* simulation that is still running.
EndProcess ==
  /\ tpc' = "exit"
  /\ spc' = IF spc = "done" THEN "done" ELSE "dead"
  /\ UNCHANGED <<channel, rcvtimeo, torn, toSim, toBridge, shut, atInt, srv,
                 activeSocket, open, mem, mainVars, listenerVars>>

\* _exit(), once the monitor has slept for a millisecond.
Exit == tpc = "shut" /\ EndProcess

\* QEMU detaches and the main thread leaves its loop: no NACK, no shutdown.
MainReturns == Alive /\ mpc = "idle" /\ EndProcess

-----------------------------------------------------------------------------
Next == \/ Guest \/ MainThread \/ Listener \/ Sim \/ SimDies
        \/ Sigint \/ Disconnect \/ Exit \/ MainReturns

Spec == Init /\ [][Next]_vars

\* Every thread that can run is scheduled; the guest, the signal, a crash and
\* the end of the monitor's 1 ms sleep are left to chance.
FairSpec == Spec /\ WF_vars(MainThread) /\ WF_vars(Listener)
                 /\ WF_vars(Sim) /\ WF_vars(Disconnect)

-----------------------------------------------------------------------------
(* Properties.                                                             *)

TypeOK ==
  /\ channel \in Chans
  /\ rcvtimeo \in [Chans -> BOOLEAN] /\ torn \in [Chans -> BOOLEAN]
  /\ toSim \in [Chans -> Seq(Request)] /\ toBridge \in [Chans -> Seq(Unit)]
  /\ mpc \in {"idle", "arm", "recv", "hdr", "again", "data", "disarm"}
  /\ req \in Request /\ mfd \in Chans /\ resp \in Packet /\ tx \in Ids
  /\ last \in [n : Ids, ok : BOOLEAN, id : Ids, val : Ids, exp : Ids]
  /\ lpc \in {"poll", "hdr", "data", "deliver", "gone"}
  /\ lpkt \in Packet /\ lto \in BOOLEAN /\ irqs \in Nat
  /\ tpc \in {"wait", "nack", "shut", "exit"} /\ shut \in BOOLEAN
  /\ spc \in {"poll", "msg", "ack", "done", "dead"}
  /\ srv \in Request /\ activeSocket \in Chans \cup {NoSock}
  /\ open \in [Chans -> BOOLEAN] /\ mem \in [Addrs -> Ids]
  /\ issued \in [Addrs -> Ids] /\ raised \in 0 .. tx /\ atInt \in [Addrs -> Ids]

\* pcie_cosim_bridge.cpp:17-29 draws the main thread on the MAIN socket alone:
\* no request ever travels on the ASYNC one, though the listener points the
\* shared channel there for each interrupt.  (Only the NACK of a SIGINT that
\* comes during a delivery may.)
RequestsOnMain == \A i \in 1 .. Len(toSim[Async]) : toSim[Async][i].type = "NACK"

\* A reply is accepted only for the read that is waiting for it, or for one
\* whose eight-bit tag has come round again.
AcceptedReplyIsOwnOrWrapped ==
  last.ok => last.id = last.n \/ last.n >= last.id + TagMod

\* The simulation serves the requests in the order the guest made them: the
\* two sockets do not let one overtake another.
ServedInIssueOrder ==
  [][srv' # srv /\ srv'.type # "NACK" => srv'.id > srv.id]_vars

\* When the simulation ends on its own after a SIGINT, every write posted
\* before the SIGINT is in the memory: the NACK does not overtake it.
PostedWritesSurviveShutdown ==
  spc = "done" => \A a \in Addrs : mem[a] >= atInt[a]

\* No interrupt without an MSI pattern write, and none delivered twice.
NoSpuriousInterrupt == irqs <= raised

\* Between two interrupts the channel the main thread uses is MAIN.
ChannelRestored == lpc = "poll" => channel = Main

\* The bridge's BAR is the memory of module BarMemory, whatever the two
\* processes are doing in between: a read never succeeds with another value.
Bar == INSTANCE BarMemory WITH
         Values  <- Ids,
         memory  <- issued,
         pending <- IF mpc = "idle" THEN "idle" ELSE req.addr,
         answer  <- [ok |-> last.ok, val |-> last.val]

ImplementsBarMemory == Bar!Spec
=============================================================================
