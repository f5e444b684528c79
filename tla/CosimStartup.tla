---------------------------- MODULE CosimStartup ----------------------------
(***************************************************************************)
(* How the two processes come up: the bridge forks the simulation, waits   *)
(* for SIGUSR1, connects the MAIN and the ASYNC socket and shakes hands on *)
(* each, while the simulation listens, starts the RTL, accepts and shakes  *)
(* hands in its own order.  Covers the first requests, a SIGINT at any     *)
(* moment and the death of either process.  CosimLink starts where this    *)
(* module leaves off.                                                      *)
(***************************************************************************)
EXTENDS Integers, Sequences

CONSTANTS
  WaitTicks,      \* 1000: milliseconds the bridge waits for SIGUSR1
  MaxReq,         \* bound: requests the bridge makes once it is up
  AcceptMayFail,  \* whether accept() may fail (EMFILE, ECONNABORTED, ...)
  SimMayFail,     \* whether the simulation may fail or crash
  MayInterrupt    \* whether the user may hit SIGINT

Main   == 0
Async  == 1
Chans  == {Main, Async}
NoChan == -1

ASSUME StartupAssumption ==
  /\ WaitTicks \in Nat /\ MaxReq \in Nat
  /\ {AcceptMayFail, SimMayFail, MayInterrupt} \subseteq BOOLEAN

VARIABLES
  bpc,          \* bridge, main thread: where pcie_bridge_init() is
  ready,        \* pcieCosimReady, set by the SIGUSR1 handler
  ticks,        \* milliseconds waited for it
  reaped,       \* waitpid() has reported the end of the simulation
  channel,      \* SocketChannel::channel
  reqs,         \* requests made
  tpc,          \* bridge, SIGINT monitor
  shut,         \* channels whose sending side the bridge has shut down
  spc,          \* simulation: where runPcieCosim() is
  pdeath,       \* PR_SET_PDEATHSIG is in force
  backlog,      \* connections waiting to be accepted
  skip,         \* accept() on MAIN failed in this poll round
  order,        \* transOrder: channels in the order they were accepted
  hs,           \* index of the channel being shaken hands on
  active,       \* channels whose activeChannel[] is set
  activeSocket, \* simulation: the socket of the last packet
  open,         \* simulation: its end of each socket is open
  toSim,        \* packets in flight, per channel
  toBridge,
  failed,       \* ghost: the simulation failed by itself
  msiLost,      \* ghost: an MSI was sent on activeChannel[ASYNC] = -1
  badSend       \* ghost: socket[channel] was used with channel = -1

bridgeVars == <<bpc, ready, ticks, reaped, channel, reqs, tpc, shut, badSend>>
simVars    == <<spc, pdeath, backlog, skip, order, hs, active, activeSocket,
                open, failed, msiLost>>
vars == <<bridgeVars, simVars, toSim, toBridge>>

Init ==
  /\ bpc = "fork" /\ ready = FALSE /\ ticks = 0 /\ reaped = FALSE
  /\ channel = NoChan /\ reqs = 0 /\ tpc = "wait" /\ shut = {}
  /\ spc = "none" /\ pdeath = FALSE /\ backlog = {} /\ skip = FALSE
  /\ order = <<>> /\ hs = 1 /\ active = {} /\ activeSocket = NoChan
  /\ open = [ch \in Chans |-> FALSE]
  /\ toSim = [ch \in Chans |-> <<>>] /\ toBridge = [ch \in Chans |-> <<>>]
  /\ failed = FALSE /\ msiLost = FALSE /\ badSend = FALSE

Alive == bpc # "exit"

\* Sending to a socket the simulation has closed, or that the bridge has shut
\* down, loses the packet.
OnceServing(q, ch, p) ==   \* slip: packets before the service loop are dropped
  IF spc # "serve" THEN q ELSE [q EXCEPT ![ch] = Append(@, p)]
Deliver(q, ch, p) ==
  IF spc = "exit" \/ ch \in shut THEN q ELSE [q EXCEPT ![ch] = Append(@, p)]

-----------------------------------------------------------------------------
(* Bridge, main thread.                                                    *)

Fork ==
  /\ bpc = "fork"
  /\ bpc' = "wait" /\ spc' = "start"
  /\ UNCHANGED <<ready, ticks, reaped, channel, reqs, tpc, shut, badSend, pdeath, backlog,
                 skip, order, hs, active, activeSocket, open, failed, msiLost,
                 toSim, toBridge>>

OneMoreTick == ticks <= WaitTicks   \* slip: off by one
InTime      == ticks < WaitTicks

\* while (!pcieCosimReady): SIGUSR1 may still arrive inside the loop's body.
WaitTest ==
  /\ bpc = "wait"
  /\ bpc' = IF ready THEN "connect0" ELSE "late"
  /\ UNCHANGED <<ready, ticks, reaped, channel, reqs, tpc, shut, badSend, simVars,
                 toSim, toBridge>>

WaitTick ==
  /\ bpc = "late" /\ ~reaped /\ InTime
  /\ reaped' = (spc = "exit")
  /\ ticks' = ticks + 1
  /\ bpc' = "wait"
  /\ UNCHANGED <<ready, channel, reqs, tpc, shut, badSend, simVars, toSim, toBridge>>

\* The bridge process ends; the simulation is killed if it asked for that.
BridgeExit ==
  /\ bpc' = "exit"
  /\ spc' = IF pdeath THEN "exit" ELSE spc
  /\ UNCHANGED <<ready, ticks, reaped, channel, reqs, shut, badSend, pdeath, backlog, skip,
                 order, hs, active, activeSocket, open, failed, msiLost,
                 toSim, toBridge>>

\* "FATAL": the child is gone, or is killed for being late - also when its
\* SIGUSR1 has come since the loop's test.
WaitFatal ==
  /\ bpc = "late" /\ (reaped \/ ~InTime)
  /\ bpc' = "exit" /\ spc' = "exit"
  /\ UNCHANGED <<ready, ticks, reaped, channel, reqs, tpc, shut, badSend, pdeath, backlog,
                 skip, order, hs, active, activeSocket, open, failed, msiLost,
                 toSim, toBridge>>

ConnectAt == [ch \in Chans |-> IF ch = Main THEN "connect0" ELSE "connect1"]
\* slip: the listening sockets are closed with the first connection
UntilFirst == spc \in {"rtl", "accept"} /\ order = <<>>
Listening == spc \in {"rtl", "accept"}

Connect(ch) ==
  /\ bpc = ConnectAt[ch] /\ Listening
  /\ backlog' = backlog \cup {ch}
  /\ bpc' = IF ch = Main THEN "connect1" ELSE "hs0"
  /\ UNCHANGED <<ready, ticks, reaped, channel, reqs, tpc, shut, badSend, spc, pdeath,
                 skip, order, hs, active, activeSocket, open, failed, msiLost,
                 toSim, toBridge>>

ConnectFails ==
  /\ bpc \in {"connect0", "connect1"} /\ ~Listening
  /\ BridgeExit /\ UNCHANGED tpc

\* handshake(ch): the channel is switched before the blocking receive.
EnterHandshake ==
  /\ bpc \in {"hs0", "hs1"}
  /\ channel' = IF bpc = "hs0" THEN Main ELSE Async
  /\ bpc' = IF bpc = "hs0" THEN "rx0" ELSE "rx1"
  /\ UNCHANGED <<ready, ticks, reaped, reqs, tpc, shut, badSend, simVars, toSim, toBridge>>

HandshakeAck ==
  /\ bpc \in {"rx0", "rx1"} /\ toBridge[channel] # <<>>
  /\ toBridge' = [toBridge EXCEPT ![channel] = Tail(@)]
  /\ toSim' = Deliver(toSim, channel, "ACK")
  /\ bpc' = IF bpc = "rx0" THEN "hs1" ELSE "up"
  /\ channel' = IF bpc = "rx0" THEN channel ELSE Main
  /\ UNCHANGED <<ready, ticks, reaped, reqs, tpc, shut, badSend, simVars>>

\* End of stream instead of an ACK: pcie_bridge_init() gives up.
Closed(ch) == spc = "exit" \/ (spc \in {"hello", "await", "serve"} /\ ~open[ch])

HandshakeFails ==
  /\ bpc \in {"rx0", "rx1"} /\ toBridge[channel] = <<>> /\ Closed(channel)
  /\ BridgeExit /\ UNCHANGED tpc

\* The first accesses of the guest: an ordinary write, or the MSI pattern.
FirstRequest(p) ==
  /\ bpc = "up" /\ reqs < MaxReq
  /\ toSim' = Deliver(toSim, channel, p)
  /\ reqs' = reqs + 1
  /\ UNCHANGED <<bpc, ready, ticks, reaped, channel, tpc, shut, badSend, simVars, toBridge>>

Bridge == \/ Fork \/ WaitTest \/ WaitTick \/ WaitFatal \/ ConnectFails
          \/ EnterHandshake \/ HandshakeAck \/ HandshakeFails
          \/ \E ch \in Chans : Connect(ch)

-----------------------------------------------------------------------------
(* Bridge, SIGINT monitor: nothing to say before the SocketChannel exists, *)
(* then a NACK on whatever channel is the active one, the shutdown of what *)
(* is connected by then, and a millisecond later the end.                  *)

Sigint ==
  /\ Alive /\ MayInterrupt /\ tpc = "wait"
  /\ IF bpc \in {"fork", "wait", "late"}
       THEN tpc' = "exit" /\ UNCHANGED <<toSim, badSend>>
       ELSE /\ tpc' = "nack"
            /\ badSend' = (channel = NoChan)
            /\ toSim' = IF channel = NoChan THEN toSim ELSE Deliver(toSim, channel, "NACK")
  /\ UNCHANGED <<bpc, ready, ticks, reaped, channel, reqs, shut, simVars, toBridge>>

\* The channels the bridge has connected: shutdown(-1) does nothing.
Connected == CASE bpc = "connect0" -> {}
               [] bpc = "connect1" -> {Main}
               [] OTHER            -> Chans

Disconnect ==
  /\ Alive /\ tpc = "nack"
  /\ shut' = Connected
  /\ tpc' = "exit"
  /\ UNCHANGED <<bpc, ready, ticks, reaped, channel, reqs, badSend, simVars, toSim,
                 toBridge>>

MonitorExit ==
  /\ Alive /\ tpc = "exit"
  /\ BridgeExit /\ UNCHANGED tpc

-----------------------------------------------------------------------------
(* Simulation.                                                             *)

\* prctl(), then both listening sockets.
SimListen ==
  /\ spc = "start"
  /\ pdeath' = Alive
  /\ spc' = IF Alive THEN "rtl" ELSE "orphan"
  /\ UNCHANGED <<bridgeVars, backlog, skip, order, hs, active, activeSocket, open,
                 failed, msiLost, toSim, toBridge>>

\* initRtlSim(), then SIGUSR1 to the parent.
SimSignal ==
  /\ spc = "rtl"
  /\ ready' = TRUE
  /\ spc' = "accept"
  /\ UNCHANGED <<bpc, ticks, reaped, channel, reqs, tpc, shut, badSend, pdeath, backlog,
                 skip, order, hs, active, activeSocket, open, failed, msiLost,
                 toSim, toBridge>>

\* One poll round serves MAIN before ASYNC.
Accept(ch) ==
  /\ spc = "accept" /\ ch \in backlog
  /\ ch = Async => Main \notin backlog \/ skip
  /\ backlog' = backlog \ {ch} /\ skip' = FALSE
  /\ order' = Append(order, ch)
  /\ open' = [open EXCEPT ![ch] = TRUE]
  /\ spc' = IF Len(order') = 2 THEN "hello" ELSE "accept"
  /\ UNCHANGED <<bridgeVars, pdeath, hs, active, activeSocket, failed, msiLost,
                 toSim, toBridge>>

\* A failed accept() goes on with the other socket of the round.
AcceptFails ==
  /\ AcceptMayFail /\ spc = "accept" /\ Main \in backlog /\ ~skip
  /\ skip' = (Async \in backlog)
  /\ UNCHANGED <<bridgeVars, spc, pdeath, backlog, order, hs, active, activeSocket,
                 open, failed, msiLost, toSim, toBridge>>

\* The simulation gives up or crashes: bind() fails, nobody connects for 10 s.
SimExit ==
  /\ spc' = "exit" /\ failed' = TRUE
  /\ open' = [ch \in Chans |-> FALSE]
  /\ UNCHANGED <<bridgeVars, pdeath, backlog, skip, order, hs, active, activeSocket,
                 msiLost, toSim, toBridge>>

AcceptTimeout == spc = "accept" /\ backlog = {} /\ SimExit
SimFails      == SimMayFail /\ spc \notin {"none", "exit"} /\ SimExit

WaitsForever == FALSE   \* slip: poll() without a timeout

\* A child whose parent was already gone signals somebody else and times out.
OrphanTimeout == spc = "orphan" /\ SimExit

SimHello ==
  /\ spc = "hello"
  /\ LET x == order[hs]
     IN  /\ toBridge' = [toBridge EXCEPT ![x] = Append(@, "ACK")]
         /\ activeSocket' = x
  /\ spc' = "await"
  /\ UNCHANGED <<bridgeVars, pdeath, backlog, skip, order, hs, active, open, failed,
                 msiLost, toSim>>

\* receive() polls both sockets and takes any packet, MAIN first.
Readable(ch) == open[ch] /\ (toSim[ch] # <<>> \/ ch \in shut)

Polled(ch) ==
  /\ spc \in {"await", "serve"} /\ Readable(ch)
  /\ ch = Async => ~Readable(Main)

\* After the exchange of a handshake, the channel counts as shaken hands on;
\* a second channel that is closed by then is passed over.
AllAtEnd(closed) ==   \* slip: no channel is marked before both are done
  IF spc = "serve" THEN UNCHANGED <<active, hs, spc>>
  ELSE /\ active' = IF hs = 2 THEN Chans ELSE active
       /\ hs' = hs + 1
       /\ spc' = IF hs = 2 \/ closed THEN "serve" ELSE "hello"
HandshakeStep(closed) ==
  IF spc = "serve" THEN UNCHANGED <<active, hs, spc>>
  ELSE /\ active' = active \cup {order[hs]}
       /\ hs' = hs + 1
       /\ spc' = IF hs = 2 \/ closed THEN "serve" ELSE "hello"

SimExchange(ch) ==
  /\ Polled(ch) /\ toSim[ch] # <<>>
  /\ toSim' = [toSim EXCEPT ![ch] = Tail(@)]
  /\ LET p == Head(toSim[ch])
     IN  /\ activeSocket' = IF p = "NACK" THEN NoChan ELSE ch
         /\ open' = IF p = "NACK" THEN [c \in Chans |-> FALSE] ELSE open
         /\ msiLost' = (msiLost \/ (p = "MSI" /\ Async \notin active))
         /\ HandshakeStep(p = "NACK")
  /\ UNCHANGED <<bridgeVars, pdeath, backlog, skip, order, failed, toBridge>>

\* End of stream: the alternate socket takes over only if ch was the active one.
Other(ch) == 1 - ch

SimEof(ch) ==
  /\ Polled(ch) /\ toSim[ch] = <<>>
  /\ open' = [open EXCEPT ![ch] = FALSE]
  /\ activeSocket' = IF activeSocket = ch /\ open[Other(ch)] THEN Other(ch) ELSE NoChan
  /\ HandshakeStep(~open'[order[2]])
  /\ UNCHANGED <<bridgeVars, pdeath, backlog, skip, order, failed, msiLost, toSim,
                 toBridge>>

\* "while (activeSocket > 0)" ends after a NACK or an end of stream.
SimEnds ==
  /\ spc = "serve" /\ activeSocket = NoChan
  /\ spc' = "exit"
  /\ UNCHANGED <<bridgeVars, pdeath, backlog, skip, order, hs, active, activeSocket,
                 open, failed, msiLost, toSim, toBridge>>

Sim == \/ SimListen \/ SimSignal \/ SimHello \/ SimEnds \/ OrphanTimeout
       \/ \E ch \in Chans : Accept(ch) \/ SimExchange(ch) \/ SimEof(ch)

-----------------------------------------------------------------------------
Next == \/ Bridge \/ Sim \/ AcceptFails \/ AcceptTimeout \/ SimFails
        \/ \E p \in {"WR", "MSI"} : FirstRequest(p)
        \/ Sigint \/ Disconnect \/ MonitorExit

Spec == Init /\ [][Next]_vars

\* Both processes run; a 10 s wait that nobody ends runs out.
FairSpec == Spec /\ WF_vars(Bridge) /\ WF_vars(Sim) /\ WF_vars(Disconnect)
                 /\ WF_vars(MonitorExit) /\ WF_vars(AcceptTimeout)

-----------------------------------------------------------------------------
(* Properties.                                                             *)

TypeOK ==
  /\ bpc \in {"fork", "wait", "late", "connect0", "connect1", "hs0", "rx0", "hs1", "rx1",
              "up", "exit"}
  /\ spc \in {"none", "start", "rtl", "orphan", "accept", "hello", "await", "serve",
              "exit"}
  /\ ready \in BOOLEAN /\ reaped \in BOOLEAN /\ pdeath \in BOOLEAN /\ skip \in BOOLEAN
  /\ failed \in BOOLEAN /\ msiLost \in BOOLEAN /\ badSend \in BOOLEAN
  /\ ticks \in 0 .. WaitTicks /\ reqs \in 0 .. MaxReq /\ hs \in 1 .. 3
  /\ tpc \in {"wait", "nack", "exit"} /\ shut \subseteq Chans
  /\ channel \in Chans \cup {NoChan} /\ activeSocket \in Chans \cup {NoChan}
  /\ backlog \subseteq Chans /\ active \subseteq Chans
  /\ order \in Seq(Chans) /\ Len(order) <= 2
  /\ open \in [Chans -> BOOLEAN]
  /\ toSim \in [Chans -> Seq({"ACK", "WR", "MSI", "NACK"})]
  /\ toBridge \in [Chans -> Seq({"ACK"})]

\* When the bridge reports "Connected to PCIe-SIM", the simulation accepted MAIN
\* before ASYNC and has finished the handshake on MAIN.
UpMeansSynced ==
  bpc = "up" => order = <<Main, Async>> /\ Main \in active

\* The bridge gives up only when the simulation failed, was late, or the user
\* interrupted: SIGUSR1 never invites it before the sockets exist.
ExitHasCause ==
  bpc = "exit" => tpc # "wait" \/ failed \/ ticks >= WaitTicks

\* The bridge's start ends, in service or in an exit, and never hangs - as
\* long as the simulation accepted MAIN first.
Settled         == bpc \in {"up", "exit"}
SettlesInOrder  == ~Settled ~> (Settled \/ order = <<Async, Main>>)

\* The same in any order of acceptance: pcie_cosim_if.cpp:520 has the
\* simulation shake hands "in the order they connected".
StartupSettles == ~Settled ~> Settled

\* A bridge that is gone leaves no simulation behind, whenever it went.
NoOrphan == bpc = "exit" ~> spc \in {"none", "exit"}

\* Every interrupt the guest provokes leaves on the ASYNC socket, as
\* pcie_cosim_bridge.cpp:17-29 draws it.
InterruptsLeave == ~msiLost

\* The disconnect of a SIGINT uses one of the two sockets.
ChannelValid == ~badSend
=============================================================================
