------------------------- MODULE CosimStartupProofs -------------------------
(***************************************************************************)
(* Theorems about CosimStartup, for any waiting time, any number of        *)
(* requests and any choice of what may fail.                               *)
(***************************************************************************)
EXTENDS CosimStartup, SequenceTheorems, TLAPS

Packets == {"ACK", "WR", "MSI", "NACK"}
Shaking == {"hello", "await"}

-----------------------------------------------------------------------------
(* The order of acceptance, which is the order of the handshakes.          *)

Orders == {<<>>, <<Main>>, <<Async>>, <<Main, Async>>, <<Async, Main>>}

\* A channel is in the backlog, then in the order, and only once the bridge
\* has connected it; both are accepted before the first handshake.
OrderInv ==
  /\ spc \in {"none", "start", "rtl", "orphan", "accept", "hello", "await", "serve", "exit"}
  /\ order \in Orders /\ backlog \subseteq Chans
  /\ \A n \in 1..Len(order) : order[n] \notin backlog
  /\ bpc \in {"fork", "wait", "late", "connect0"} => backlog = {} /\ order = <<>>
  /\ bpc = "connect1" => Async \notin backlog /\ order \in {<<>>, <<Main>>}
  /\ spc \in {"none", "start", "rtl", "orphan"} => order = <<>>
  /\ spc = "accept" => Len(order) < 2
  /\ spc \in Shaking \cup {"serve"} => Len(order) = 2
  /\ hs \in 1..3 /\ (spc \in Shaking => hs \in 1..2)
  /\ hs > 1 => Len(order) = 2 /\ order[1] \in active
  /\ spc \in {"none", "start", "rtl", "orphan", "accept"} => hs = 1

LEMMA AppendToOne ==
  ASSUME NEW c \in Chans, NEW d \in Chans PROVE Append(<<c>>, d) = <<c, d>>
<1>1. <<c>> \in Seq(Chans) /\ <<c, d>> \in Seq(Chans) /\ Len(<<c>>) = 1 /\ Len(<<c, d>>) = 2
  OBVIOUS
<1> DEFINE t == Append(<<c>>, d)
<1>2. t \in Seq(Chans) /\ Len(t) = 2 /\ t[1] = <<c>>[1] /\ t[2] = d
  BY <1>1, AppendProperties
<1> HIDE DEF t
<1>3. \A n \in 1..Len(t) : t[n] = <<c, d>>[n]
  <2>1. \A n \in 1..2 : n = 1 \/ n = 2
    OBVIOUS
  <2> QED BY <1>2, <2>1
<1>4. t = <<c, d>>
  BY <1>1, <1>2, <1>3, SeqEqual
<1> QED BY <1>4 DEF t

\* The orders, one longer.
LEMMA OrderGrows ==
  ASSUME order \in Orders, NEW ch \in Chans, Len(order) < 2,
         \A n \in 1..Len(order) : order[n] # ch
  PROVE  /\ Append(order, ch) \in Orders
         /\ Len(Append(order, ch)) = Len(order) + 1
         /\ \A n \in 1..Len(Append(order, ch)) :
              Append(order, ch)[n] = ch \/ (n \in 1..Len(order) /\ Append(order, ch)[n] = order[n])
<1>1. order \in {<<>>, <<Main>>, <<Async>>} /\ ch \in {Main, Async} /\ Main # Async
  BY DEF Orders, Chans, Main, Async
<1>2. CASE order = <<>>
  <2>1. Append(order, ch) = <<ch>> /\ Len(order) = 0
    BY <1>2
  <2> QED BY <1>1, <2>1 DEF Orders
<1>3. ASSUME NEW c \in {Main, Async}, order = <<c>>
      PROVE  Append(order, ch) = <<c, ch>> /\ Len(order) = 1 /\ order[1] = c /\ c # ch
  <2>1. Len(order) = 1 /\ order[1] = c
    BY <1>3
  <2>2. Append(<<c>>, ch) = <<c, ch>>
    BY AppendToOne DEF Chans
  <2>3. c # ch
    BY <2>1, <1>3
  <2> QED BY <1>3, <2>1, <2>2, <2>3
<1>4. ASSUME NEW c \in {Main, Async}, order = <<c>>
      PROVE  /\ Append(order, ch) \in Orders /\ Len(Append(order, ch)) = Len(order) + 1
             /\ \A n \in 1..Len(Append(order, ch)) :
                  Append(order, ch)[n] = ch \/ (n \in 1..Len(order) /\ Append(order, ch)[n] = order[n])
  <2>1. Append(order, ch) \in {<<Main, Async>>, <<Async, Main>>}
    BY <1>1, <1>3, <1>4
  <2>2. \A n \in 1..2 : <<c, ch>>[n] = ch \/ (n = 1 /\ <<c, ch>>[n] = c)
    OBVIOUS
  <2>3. Len(<<c, ch>>) = 2
    OBVIOUS
  <2> QED BY <1>3, <1>4, <2>1, <2>2, <2>3 DEF Orders
<1> QED BY <1>1, <1>2, <1>4

\* The two orders in which both channels can have been accepted.
LEMMA BothAccepted ==
  ASSUME order \in Orders, Len(order) = 2
  PROVE  /\ order[1] \in Chans /\ order[2] \in Chans /\ order[1] # order[2]
         /\ order[1] = Main => order = <<Main, Async>>
<1>1. order \in {<<Main, Async>>, <<Async, Main>>}
  BY DEF Orders
<1>2. CASE order = <<Main, Async>>
  BY <1>2 DEF Chans, Main, Async
<1>3. CASE order = <<Async, Main>>
  BY <1>3 DEF Chans, Main, Async
<1> QED BY <1>1, <1>2, <1>3

LEMMA OrderInit == Init => OrderInv
BY DEF Init, OrderInv, Orders, Shaking

LEMMA OrderStep == OrderInv /\ [Next]_vars => OrderInv'
<1> SUFFICES ASSUME OrderInv, [Next]_vars PROVE OrderInv'
  OBVIOUS
<1> USE DEF OrderInv, Shaking, bridgeVars, simVars, BridgeExit
<1>1. ASSUME Fork \/ WaitTest \/ WaitTick \/ WaitFatal PROVE OrderInv'
  BY <1>1 DEF Fork, WaitTest, WaitTick, WaitFatal
<1>2. ASSUME NEW ch \in Chans, Connect(ch) PROVE OrderInv'
  BY <1>2 DEF Connect, ConnectAt, Chans, Main, Async, Orders
<1>3. ASSUME ConnectFails \/ EnterHandshake \/ HandshakeAck \/ HandshakeFails \/ MonitorExit
      PROVE OrderInv'
  BY <1>3 DEF ConnectFails, EnterHandshake, HandshakeAck, HandshakeFails, MonitorExit
<1>4. ASSUME SimListen \/ SimSignal \/ SimHello \/ SimEnds PROVE OrderInv'
  BY <1>4 DEF SimListen, SimSignal, SimHello, SimEnds
<1>5. ASSUME OrphanTimeout \/ AcceptTimeout \/ SimFails PROVE OrderInv'
  BY <1>5 DEF OrphanTimeout, AcceptTimeout, SimFails, SimExit
<1>6. ASSUME NEW ch \in Chans, Accept(ch) PROVE OrderInv'
  <2>1. /\ order' = Append(order, ch) /\ backlog' = backlog \ {ch} /\ ch \in backlog
        /\ spc = "accept" /\ hs = 1 /\ UNCHANGED <<bpc, hs, active>>
        /\ spc' = IF Len(order') = 2 THEN "hello" ELSE "accept"
    BY <1>6 DEF Accept
  <2>2. Len(order) < 2 /\ \A n \in 1..Len(order) : order[n] # ch
    BY <2>1
  <2>3. /\ order' \in Orders /\ Len(order') = Len(order) + 1
        /\ \A n \in 1..Len(order') : order'[n] \notin backlog'
    BY <2>1, <2>2, OrderGrows
  <2>4. bpc \notin {"fork", "wait", "late", "connect0"}
    BY <2>1
  <2>5. bpc = "connect1" => order' \in {<<>>, <<Main>>} /\ Async \notin backlog'
    <3> SUFFICES ASSUME bpc = "connect1" PROVE order' \in {<<>>, <<Main>>} /\ Async \notin backlog'
      OBVIOUS
    <3>1. ch = Main
      BY <2>1 DEF Chans
    <3>2. order = <<>>
      BY <2>2, <3>1
    <3> QED BY <2>1, <3>1, <3>2
  <2>6. Len(order') = 2 \/ Len(order') < 2
    BY <2>2, <2>3 DEF Orders
  <2> QED BY <2>1, <2>2, <2>3, <2>4, <2>5, <2>6
<1>7. ASSUME NEW ch \in Chans, SimExchange(ch) PROVE OrderInv'
  BY <1>7 DEF SimExchange, Polled, HandshakeStep
<1>10. ASSUME NEW ch \in Chans, SimEof(ch) PROVE OrderInv'
  BY <1>10 DEF SimEof, Polled, HandshakeStep
<1>8. ASSUME AcceptFails \/ Sigint \/ Disconnect \/ \E p \in {"WR", "MSI"} : FirstRequest(p)
      PROVE OrderInv'
  BY <1>8 DEF AcceptFails, Sigint, Disconnect, FirstRequest
<1>9. CASE UNCHANGED vars
  BY <1>9 DEF vars
<1> QED BY <1>1, <1>2, <1>3, <1>4, <1>5, <1>6, <1>7, <1>8, <1>9, <1>10 DEF Next, Bridge, Sim

-----------------------------------------------------------------------------
(* Why the bridge gives up.                                                *)

Cause == failed \/ tpc # "wait"

\* The simulation is gone, or about to go, for a cause only, as long as the
\* bridge lives; a NACK or an end of stream comes from the SIGINT monitor.
CauseInv ==
  /\ ready => spc \notin {"none", "start", "rtl", "orphan"}
  /\ bpc = "fork" => spc = "none"
  /\ bpc \notin {"fork", "wait", "late", "exit"} => ready
  /\ spc = "orphan" => bpc = "exit"
  /\ spc = "exit" /\ bpc # "exit" => Cause
  /\ reaped => Cause \/ bpc = "exit"
  /\ spc = "serve" /\ activeSocket = NoChan => tpc # "wait"
  /\ \A ch \in Chans : \A n \in 1..Len(toSim[ch]) : toSim[ch][n] = "NACK" => tpc # "wait"
  /\ shut # {} => tpc # "wait"
  /\ spc \in Shaking \cup {"accept", "serve"} =>
       \A n \in 1..Len(order) : open[order[n]] \/ tpc # "wait"
  /\ ticks \in Nat /\ ExitHasCause

PacketsOK ==
  /\ toSim \in [Chans -> Seq(Packets)] /\ toBridge \in [Chans -> Seq({"ACK"})]
  /\ channel \in Chans \cup {NoChan}
  /\ open \in [Chans -> BOOLEAN] /\ shut \in SUBSET Chans
  /\ Async \in shut => Main \in shut
  /\ bpc \in {"rx0", "hs1"} => channel = Main
  /\ bpc = "rx1" => channel = Async
  /\ bpc = "up" => channel = Main

\* What a delivery adds to the packets on their way.
LEMMA DeliverAdds ==
  ASSUME NEW q \in [Chans -> Seq(Packets)], NEW c \in Chans, NEW p \in Packets
  PROVE  /\ Deliver(q, c, p) \in [Chans -> Seq(Packets)]
         /\ \A ch \in Chans : \A n \in 1..Len(Deliver(q, c, p)[ch]) :
              Deliver(q, c, p)[ch][n] = p \/ (n \in 1..Len(q[ch]) /\ Deliver(q, c, p)[ch][n] = q[ch][n])
<1>1. CASE spc = "exit" \/ c \in shut
  BY <1>1 DEF Deliver
<1>2. CASE ~(spc = "exit" \/ c \in shut)
  <2>1. Deliver(q, c, p) = [q EXCEPT ![c] = Append(@, p)]
    BY <1>2 DEF Deliver
  <2>2. q[c] \in Seq(Packets) /\ Append(q[c], p) \in Seq(Packets)
    OBVIOUS
  <2>3. \A n \in 1..Len(Append(q[c], p)) :
          Append(q[c], p)[n] = p \/ (n \in 1..Len(q[c]) /\ Append(q[c], p)[n] = q[c][n])
    BY <2>2
  <2> QED BY <2>1, <2>2, <2>3
<1> QED BY <1>1, <1>2

LEMMA PacketsInit == Init => PacketsOK
BY DEF Init, PacketsOK, Packets, Chans

LEMMA PacketsStep == OrderInv /\ PacketsOK /\ [Next]_vars => PacketsOK'
<1> SUFFICES ASSUME OrderInv, PacketsOK, [Next]_vars PROVE PacketsOK'
  OBVIOUS
<1> USE DEF PacketsOK, bridgeVars, simVars, BridgeExit
<1>1. ASSUME Fork \/ WaitTest \/ WaitTick \/ WaitFatal \/ ConnectFails \/ HandshakeFails
             \/ MonitorExit \/ EnterHandshake
      PROVE PacketsOK'
  BY <1>1 DEF Fork, WaitTest, WaitTick, WaitFatal, ConnectFails, HandshakeFails, MonitorExit,
              EnterHandshake, Chans
<1>2. ASSUME NEW ch \in Chans, Connect(ch) PROVE PacketsOK'
  BY <1>2 DEF Connect
<1>3. ASSUME HandshakeAck PROVE PacketsOK'
  <2>1. channel \in Chans /\ "ACK" \in Packets
    BY <1>3 DEF HandshakeAck, Chans, Packets
  <2>2. toSim' \in [Chans -> Seq(Packets)]
    BY <1>3, <2>1, DeliverAdds DEF HandshakeAck
  <2>3. toBridge' \in [Chans -> Seq({"ACK"})]
    BY <1>3, <2>1 DEF HandshakeAck
  <2>4. (bpc = "rx0" /\ bpc' = "hs1" /\ channel' = Main) \/ (bpc' = "up" /\ channel' = Main)
    BY <1>3 DEF HandshakeAck
  <2>5. UNCHANGED <<open, shut>>
    BY <1>3 DEF HandshakeAck
  <2> QED BY <2>2, <2>3, <2>4, <2>5 DEF Chans
<1>4. ASSUME NEW p \in {"WR", "MSI"}, FirstRequest(p) PROVE PacketsOK'
  <2>1. channel \in Chans /\ p \in Packets
    BY <1>4 DEF FirstRequest, Chans, Packets
  <2>2. toSim' \in [Chans -> Seq(Packets)]
    BY <1>4, <2>1, DeliverAdds DEF FirstRequest
  <2> QED BY <1>4, <2>2 DEF FirstRequest
<1>5. ASSUME Sigint PROVE PacketsOK'
  <2>1. toSim' \in [Chans -> Seq(Packets)]
    BY <1>5, DeliverAdds DEF Sigint, Packets
  <2> QED BY <1>5, <2>1 DEF Sigint
<1>6. ASSUME SimHello PROVE PacketsOK'
  <2>1. order[hs] \in Chans
    BY <1>6, BothAccepted DEF SimHello, OrderInv, Shaking
  <2> QED BY <1>6, <2>1 DEF SimHello
<1>7. ASSUME NEW ch \in Chans, SimExchange(ch) PROVE PacketsOK'
  BY <1>7 DEF SimExchange, Polled
<1>10. ASSUME NEW ch \in Chans, SimEof(ch) PROVE PacketsOK'
  BY <1>10 DEF SimEof
<1>11. ASSUME Disconnect PROVE PacketsOK'
  BY <1>11 DEF Disconnect, Connected, Chans, Main, Async
<1>8. ASSUME SimListen \/ SimSignal \/ SimEnds \/ OrphanTimeout \/ AcceptTimeout \/ SimFails
             \/ AcceptFails \/ \E ch \in Chans : Accept(ch)
      PROVE PacketsOK'
  BY <1>8 DEF SimListen, SimSignal, SimEnds, OrphanTimeout, AcceptTimeout, SimFails, SimExit,
              AcceptFails, Accept
<1>9. CASE UNCHANGED vars
  BY <1>9 DEF vars
<1> QED BY <1>1, <1>2, <1>3, <1>4, <1>5, <1>6, <1>7, <1>8, <1>9, <1>10, <1>11
        DEF Next, Bridge, Sim

LEMMA CauseInit == Init => CauseInv
BY DEF Init, CauseInv, ExitHasCause, Chans

LEMMA CauseStep == OrderInv /\ PacketsOK /\ CauseInv /\ [Next]_vars => CauseInv'
<1> SUFFICES ASSUME OrderInv, PacketsOK, CauseInv, [Next]_vars PROVE CauseInv'
  OBVIOUS
<1> USE StartupAssumption DEF CauseInv, Cause, Shaking, ExitHasCause, bridgeVars, simVars, BridgeExit
<1>1. ASSUME Fork PROVE CauseInv'
  BY <1>1 DEF Fork
<1>2. ASSUME WaitTick PROVE CauseInv'
  <2>1. /\ reaped' => spc = "exit"
        /\ ticks' = ticks + 1 /\ bpc = "late" /\ bpc' = "wait"
        /\ UNCHANGED <<ready, tpc, shut, failed, spc, order, open, activeSocket, toSim>>
    BY <1>2 DEF WaitTick
  <2> QED BY <2>1
<1>12. ASSUME WaitTest \/ EnterHandshake PROVE CauseInv'
  BY <1>12 DEF WaitTest, EnterHandshake
<1>3. ASSUME WaitFatal PROVE CauseInv'
  <2>1. ticks >= WaitTicks \/ reaped
    BY <1>3 DEF WaitFatal, InTime
  <2> QED BY <1>3, <2>1 DEF WaitFatal
<1>4. ASSUME NEW ch \in Chans, Connect(ch) PROVE CauseInv'
  BY <1>4 DEF Connect, ConnectAt
<1>5. ASSUME ConnectFails PROVE CauseInv'
  <2>1. Cause
    <3>1. bpc \in {"connect0", "connect1"} /\ spc \in Shaking \cup {"serve", "exit"}
      BY <1>5 DEF ConnectFails, Listening, OrderInv, Shaking
    <3>2. order \in {<<>>, <<Main>>}
      BY <3>1 DEF OrderInv
    <3>3. Len(<<>>) = 0 /\ Len(<<Main>>) = 1
      OBVIOUS
    <3>4. Len(order) < 2
      <4>1. CASE order = <<>>
        BY <3>3, <4>1
      <4>2. CASE order = <<Main>>
        BY <3>3, <4>2
      <4> QED BY <3>2, <4>1, <4>2
    <3> QED BY <3>1, <3>4 DEF OrderInv
  <2> QED BY <1>5, <2>1 DEF ConnectFails
<1>6. ASSUME HandshakeAck \/ \E p \in {"WR", "MSI"} : FirstRequest(p) PROVE CauseInv'
  <2>1. PICK p \in {"ACK", "WR", "MSI"} : toSim' = Deliver(toSim, channel, p)
    BY <1>6 DEF HandshakeAck, FirstRequest
  <2>2. channel \in Chans /\ p \in Packets /\ p # "NACK"
    BY <1>6, <2>1 DEF HandshakeAck, FirstRequest, PacketsOK, Packets, Chans
  <2>3. ASSUME NEW ch \in Chans, NEW n \in 1..Len(toSim'[ch]), toSim'[ch][n] = "NACK"
        PROVE  tpc # "wait"
    <3>0. toSim \in [Chans -> Seq(Packets)]
      BY DEF PacketsOK
    <3> DEFINE q == Deliver(toSim, channel, p)
    <3> HIDE DEF q
    <3>2. \A k \in Chans : \A m \in 1..Len(q[k]) :
             q[k][m] = p \/ (m \in 1..Len(toSim[k]) /\ q[k][m] = toSim[k][m])
      BY <2>2, <3>0, DeliverAdds DEF q
    <3>3. toSim' = q
      BY <2>1 DEF q
    <3>1. toSim'[ch][n] = p \/ (n \in 1..Len(toSim[ch]) /\ toSim'[ch][n] = toSim[ch][n])
      BY <3>2, <3>3
    <3> QED BY <2>2, <2>3, <3>1
  <2>4. /\ UNCHANGED <<ready, ticks, reaped, tpc, shut, spc, failed, order, open, activeSocket>>
        /\ bpc \in {"rx0", "rx1", "up"} /\ bpc' \in {"hs1", "up"}
    BY <1>6 DEF HandshakeAck, FirstRequest
  <2> QED BY <2>3, <2>4
<1>7. ASSUME HandshakeFails PROVE CauseInv'
  <2>1. channel \in Chans /\ Closed(channel) /\ bpc \in {"rx0", "rx1"}
    <3>1. channel \in Chans
      BY <1>7 DEF HandshakeFails, PacketsOK, Chans
    <3> QED BY <1>7, <3>1 DEF HandshakeFails
  <2>2. Cause
    <3>1. CASE spc = "exit"
      BY <2>1, <3>1
    <3>2. CASE spc \in Shaking \cup {"serve"} /\ ~open[channel]
      <4>1. order \in Orders /\ Len(order) = 2
        BY <3>2 DEF OrderInv
      <4>2. order[1] \in Chans /\ order[2] \in Chans /\ order[1] # order[2]
        BY <4>1, BothAccepted
      <4>3. 1 \in 1..Len(order) /\ 2 \in 1..Len(order) /\ channel \in {order[1], order[2]}
        BY <2>1, <4>1, <4>2 DEF Chans
      <4> QED BY <3>2, <4>3
    <3> QED BY <2>1, <3>1, <3>2 DEF Closed, Shaking
  <2> QED BY <1>7, <2>2 DEF HandshakeFails
<1>16. ASSUME MonitorExit \/ Disconnect PROVE CauseInv'
  BY <1>16 DEF MonitorExit, Disconnect
<1>8. ASSUME Sigint PROVE CauseInv'
  BY <1>8 DEF Sigint
<1>9. ASSUME SimListen \/ SimSignal \/ SimHello \/ SimEnds PROVE CauseInv'
  <2>1. SimHello => order[hs] # NoChan
    BY BothAccepted DEF SimHello, OrderInv, Shaking, Chans, Main, Async, NoChan
  <2>2. spc = "rtl" => order = <<>> /\ \A n \in 1..Len(order) : FALSE
    <3>1. \A n \in 1..Len(<<>>) : FALSE
      OBVIOUS
    <3> QED BY <3>1 DEF OrderInv
  <2> QED BY <1>9, <2>1, <2>2 DEF SimListen, SimSignal, SimHello, SimEnds, Alive
<1>10. ASSUME OrphanTimeout \/ AcceptTimeout \/ SimFails PROVE CauseInv'
  BY <1>10 DEF OrphanTimeout, AcceptTimeout, SimFails, SimExit
<1>11. ASSUME NEW ch \in Chans, Accept(ch) PROVE CauseInv'
  <2>1. /\ order' = Append(order, ch) /\ ch \in backlog /\ spc = "accept"
        /\ open' = [open EXCEPT ![ch] = TRUE] /\ spc' \in {"hello", "accept"}
        /\ UNCHANGED <<bpc, ready, ticks, reaped, tpc, shut, failed, activeSocket, toSim>>
    BY <1>11 DEF Accept
  <2>2. order \in Orders /\ Len(order) < 2 /\ \A n \in 1..Len(order) : order[n] # ch
    BY <2>1 DEF OrderInv
  <2>3. \A n \in 1..Len(order') : order'[n] = ch \/ (n \in 1..Len(order) /\ order'[n] = order[n])
    BY <2>1, <2>2, OrderGrows
  <2>4. \A n \in 1..Len(order') : open'[order'[n]] \/ tpc # "wait"
    BY <2>1, <2>2, <2>3 DEF PacketsOK
  <2> QED BY <2>1, <2>4
<1>13. ASSUME NEW ch \in Chans, SimExchange(ch) PROVE CauseInv'
  <2>1. /\ toSim[ch] \in Seq(Packets) /\ toSim[ch] # <<>> /\ toSim' = [toSim EXCEPT ![ch] = Tail(@)]
        /\ spc \in {"await", "serve"} /\ spc' \in {"hello", "serve"}
        /\ activeSocket' = IF Head(toSim[ch]) = "NACK" THEN NoChan ELSE ch
        /\ Head(toSim[ch]) # "NACK" => open' = open
        /\ UNCHANGED <<bpc, ready, ticks, reaped, tpc, shut, order, failed>>
    BY <1>13 DEF SimExchange, Polled, HandshakeStep, PacketsOK
  <2>2. Head(toSim[ch]) = "NACK" => tpc # "wait"
    <3>1. Head(toSim[ch]) = toSim[ch][1] /\ 1 \in 1..Len(toSim[ch])
      BY <2>1
    <3> QED BY <3>1
  <2>3. \A c \in Chans : \A n \in 1..Len(toSim'[c]) : toSim'[c][n] = "NACK" => tpc # "wait"
    <3>1. \A n \in 1..Len(Tail(toSim[ch])) :
             n + 1 \in 1..Len(toSim[ch]) /\ Tail(toSim[ch])[n] = toSim[ch][n + 1]
      BY <2>1
    <3> QED BY <2>1, <3>1 DEF PacketsOK
  <2>4. spc' = "serve" /\ activeSocket' = NoChan => tpc # "wait"
    BY <2>1, <2>2 DEF Chans, Main, Async, NoChan
  <2> QED BY <2>1, <2>2, <2>3, <2>4
<1>17. ASSUME NEW ch \in Chans, SimEof(ch) PROVE CauseInv'
  <2>1. ch \in shut
    BY <1>17 DEF SimEof, Polled, Readable
  <2>2. tpc # "wait"
    BY <2>1
  <2> QED BY <1>17, <2>2 DEF SimEof, Polled, HandshakeStep
<1>14. ASSUME AcceptFails PROVE CauseInv'
  BY <1>14 DEF AcceptFails
<1>15. CASE UNCHANGED vars
  BY <1>15 DEF vars
<1> QED BY <1>1, <1>2, <1>3, <1>4, <1>5, <1>6, <1>7, <1>8, <1>9, <1>10, <1>11, <1>12, <1>13,
           <1>14, <1>15, <1>16, <1>17 DEF Next, Bridge, Sim

(* The bridge gives up only when the simulation has failed, was late, or   *)
(* the user has interrupted it.                                            *)
THEOREM ExitsHaveCause == Spec => []ExitHasCause
<1>1. CauseInv => ExitHasCause
  BY DEF CauseInv
<1> QED BY <1>1, OrderInit, OrderStep, PacketsInit, PacketsStep, CauseInit, CauseStep, PTL
        DEF Spec

-----------------------------------------------------------------------------
(* What "Connected to PCIe-SIM" means.                                     *)

\* No handshake can have begun on MAIN.
Quiet == Len(order) < 2 \/ order[1] = Async

\* While that is so, the bridge is not past its handshake on MAIN, so that
\* all it sends is the NACK of a SIGINT, and the simulation does not come to
\* its second handshake.  Otherwise the second ACK is sent after the first
\* handshake.
SyncInv ==
  /\ Quiet => /\ bpc \notin {"hs1", "rx1", "up"} /\ toBridge[Main] = <<>>
              /\ \A ch \in Chans : \A n \in 1..Len(toSim[ch]) : toSim[ch][n] = "NACK"
              /\ hs = 1 \/ spc \in {"serve", "exit"}
  /\ Len(order) < 2 => toBridge[Async] = <<>>
  /\ ~Quiet /\ toBridge[Async] # <<>> => Main \in active
  /\ bpc = "up" => Main \in active

LEMMA SyncInit == Init => SyncInv
BY DEF Init, SyncInv, Chans, Main, Async

LEMMA SyncStep == OrderInv /\ PacketsOK /\ SyncInv /\ [Next]_vars => SyncInv'
<1> SUFFICES ASSUME OrderInv, PacketsOK, SyncInv, [Next]_vars PROVE SyncInv'
  OBVIOUS
<1>0. Main \in Chans /\ Async \in Chans /\ Main # Async
  BY DEF Chans, Main, Async
<1> USE <1>0 DEF bridgeVars, simVars, BridgeExit
<1>1. ASSUME UNCHANGED <<order, toSim, toBridge, active, hs>>,
             spc \in {"serve", "exit"} => spc' \in {"serve", "exit"},
             bpc' \in {"hs1", "rx1", "up"} => bpc \in {"hs1", "rx1", "up"},
             bpc' = "up" => bpc = "up"
      PROVE SyncInv'
  BY <1>1 DEF SyncInv, Quiet
<1>2. ASSUME Fork \/ WaitTest \/ WaitTick \/ WaitFatal \/ ConnectFails \/ EnterHandshake
             \/ HandshakeFails \/ MonitorExit \/ Disconnect \/ \E ch \in Chans : Connect(ch)
      PROVE SyncInv'
  <2>1. /\ UNCHANGED <<order, toSim, toBridge, active, hs>>
        /\ bpc' \in {"hs1", "rx1", "up"} => bpc \in {"hs1", "rx1", "up"}
        /\ bpc' = "up" => bpc = "up"
    BY <1>2 DEF Fork, WaitTest, WaitTick, WaitFatal, ConnectFails, EnterHandshake,
                HandshakeFails, MonitorExit, Disconnect, Connect
  <2>2. spc' \in {spc, "exit"} \/ Fork
    BY <1>2 DEF Fork, WaitTest, WaitTick, WaitFatal, ConnectFails, EnterHandshake,
                HandshakeFails, MonitorExit, Disconnect, Connect
  <2>3. ASSUME Fork PROVE SyncInv'
    <3>1. order = <<>> /\ hs = 1
      BY <2>3 DEF Fork, OrderInv
    <3> QED BY <2>1, <3>1 DEF SyncInv, Quiet
  <2> QED BY <1>1, <2>1, <2>2, <2>3
<1>3. ASSUME HandshakeAck PROVE SyncInv'
  <2>1. /\ bpc \in {"rx0", "rx1"} /\ toBridge[channel] # <<>>
        /\ toBridge' = [toBridge EXCEPT ![channel] = Tail(@)]
        /\ bpc' = IF bpc = "rx0" THEN "hs1" ELSE "up"
        /\ UNCHANGED <<order, active, hs, spc>>
        /\ bpc = "rx0" => channel = Main
        /\ bpc = "rx1" => channel = Async
    BY <1>3 DEF HandshakeAck, PacketsOK
  <2>2. ~Quiet
    BY <2>1 DEF SyncInv
  <2>3. \A ch \in Chans : toBridge'[ch] # <<>> => toBridge[ch] # <<>>
    <3>1. channel \in Chans /\ toBridge[channel] \in Seq({"ACK"}) /\ DOMAIN toBridge = Chans
      BY <2>1 DEF PacketsOK
    <3> QED BY <2>1, <3>1
  <2> QED BY <2>1, <2>2, <2>3 DEF SyncInv, Quiet
<1>4. ASSUME NEW p \in {"WR", "MSI"}, FirstRequest(p) PROVE SyncInv'
  <2>1. bpc = "up" /\ UNCHANGED <<bpc, order, active, hs, spc, toBridge>>
    BY <1>4 DEF FirstRequest
  <2> QED BY <2>1 DEF SyncInv, Quiet
<1>5. ASSUME Sigint PROVE SyncInv'
  <2>1. UNCHANGED <<bpc, order, active, hs, spc, toBridge>>
    BY <1>5 DEF Sigint
  <2>2. toSim' = toSim \/ (channel \in Chans /\ toSim' = Deliver(toSim, channel, "NACK"))
    BY <1>5 DEF Sigint, PacketsOK
  <2>3. ASSUME Quiet, NEW ch \in Chans, NEW n \in 1..Len(toSim'[ch])
        PROVE  toSim'[ch][n] = "NACK"
    <3>1. CASE toSim' = toSim
      BY <2>3, <3>1 DEF SyncInv
    <3>2. CASE channel \in Chans /\ toSim' = Deliver(toSim, channel, "NACK")
      <4> DEFINE q == Deliver(toSim, channel, "NACK")
      <4>1. toSim \in [Chans -> Seq(Packets)] /\ "NACK" \in Packets
        BY DEF PacketsOK, Packets
      <4> HIDE DEF q
      <4>2. \A k \in Chans : \A m \in 1..Len(q[k]) :
               q[k][m] = "NACK" \/ (m \in 1..Len(toSim[k]) /\ q[k][m] = toSim[k][m])
        BY <3>2, <4>1, DeliverAdds DEF q
      <4>3. toSim' = q
        BY <3>2 DEF q
      <4> QED BY <2>3, <4>2, <4>3 DEF SyncInv
    <3> QED BY <2>2, <3>1, <3>2
  <2> QED BY <2>1, <2>3 DEF SyncInv, Quiet
<1>6. ASSUME SimListen \/ SimSignal \/ SimEnds \/ OrphanTimeout \/ AcceptTimeout \/ SimFails
             \/ AcceptFails
      PROVE SyncInv'
  <2>1. UNCHANGED <<bpc, order, toSim, toBridge, active, hs>>
    BY <1>6 DEF SimListen, SimSignal, SimEnds, OrphanTimeout, AcceptTimeout, SimFails, SimExit,
                AcceptFails
  <2>2. spc \in {"serve", "exit"} => spc' \in {"serve", "exit"}
    BY <1>6 DEF SimListen, SimSignal, SimEnds, OrphanTimeout, AcceptTimeout, SimFails, SimExit,
                AcceptFails
  <2> QED BY <1>1, <2>1, <2>2
<1>7. ASSUME NEW ch \in Chans, Accept(ch) PROVE SyncInv'
  <2>1. /\ order' = Append(order, ch) /\ spc = "accept" /\ ch \in backlog
        /\ UNCHANGED <<bpc, toSim, toBridge, active, hs>>
    BY <1>7 DEF Accept
  <2>2. Len(order) < 2 /\ hs = 1 /\ Quiet
    BY <2>1 DEF OrderInv, Quiet
  <2> QED BY <2>1, <2>2 DEF SyncInv
<1>8. ASSUME SimHello PROVE SyncInv'
  <2>1. /\ spc = "hello" /\ Len(order) = 2 /\ hs \in {1, 2} /\ order \in Orders
        /\ toBridge' = [toBridge EXCEPT ![order[hs]] = Append(@, "ACK")]
        /\ UNCHANGED <<bpc, order, toSim, active, hs>>
    BY <1>8 DEF SimHello, OrderInv, Shaking
  <2>2. order[1] \in Chans /\ order[2] \in Chans /\ order[1] # order[2]
    BY <2>1, BothAccepted
  <2>3. CASE hs = 1
    <3>1. order[1] = Async => toBridge'[Main] = toBridge[Main]
      BY <2>1, <2>3 DEF PacketsOK
    <3>2. order[1] = Main => toBridge'[Async] = toBridge[Async]
      BY <2>1, <2>3 DEF PacketsOK
    <3>3. CASE Quiet
      <4>0. order[1] = Async /\ toBridge[Main] = <<>>
        BY <2>1, <3>3 DEF SyncInv, Quiet
      <4>2. toBridge'[Main] = <<>>
        BY <3>1, <4>0
      <4>1. order' = order /\ bpc' = bpc /\ toSim' = toSim /\ active' = active /\ hs' = 1
        BY <2>1, <2>3
      <4>3. ~(Len(order') < 2) /\ Quiet'
        BY <2>1, <3>3, <4>1 DEF Quiet
      <4> QED BY <3>3, <4>1, <4>2, <4>3 DEF SyncInv
    <3>4. CASE ~Quiet
      <4>1. order[1] = Main /\ ~(Len(order) < 2)
        BY <2>2, <3>4 DEF Quiet, Chans
      <4> QED BY <2>1, <3>2, <3>4, <4>1 DEF SyncInv, Quiet
    <3> QED BY <3>3, <3>4
  <2>4. CASE hs = 2
    <3>1. ~Quiet /\ order[1] \in active
      BY <2>1, <2>4 DEF SyncInv, OrderInv
    <3>2. Main \in active
      BY <2>1, <2>2, <3>1 DEF Quiet, Chans
    <3> QED BY <2>1, <3>1, <3>2 DEF SyncInv, Quiet
  <2> QED BY <2>1, <2>3, <2>4
<1>9. ASSUME NEW ch \in Chans, SimExchange(ch) PROVE SyncInv'
  <2>1. /\ toSim[ch] \in Seq(Packets) /\ toSim[ch] # <<>> /\ toSim' = [toSim EXCEPT ![ch] = Tail(@)]
        /\ spc \in {"await", "serve"} /\ UNCHANGED <<bpc, order, toBridge>>
        /\ HandshakeStep(Head(toSim[ch]) = "NACK")
    BY <1>9 DEF SimExchange, Polled, PacketsOK
  <2>2. active \subseteq active' /\ (spc = "serve" => spc' = "serve" /\ hs' = hs)
    BY <2>1 DEF HandshakeStep
  <2>3. Quiet => spc' = "serve" /\ Head(toSim[ch]) = "NACK"
    <3>1. Head(toSim[ch]) = toSim[ch][1] /\ 1 \in 1..Len(toSim[ch])
      BY <2>1
    <3>2. Quiet => Head(toSim[ch]) = "NACK"
      BY <3>1 DEF SyncInv
    <3> QED BY <2>1, <2>2, <3>2 DEF HandshakeStep
  <2>4. Quiet => \A c \in Chans : \A n \in 1..Len(toSim'[c]) : toSim'[c][n] = "NACK"
    <3>1. \A n \in 1..Len(Tail(toSim[ch])) :
             n + 1 \in 1..Len(toSim[ch]) /\ Tail(toSim[ch])[n] = toSim[ch][n + 1]
      BY <2>1
    <3> QED BY <2>1, <3>1 DEF SyncInv, PacketsOK
  <2> QED BY <2>1, <2>2, <2>3, <2>4 DEF SyncInv, Quiet
<1>11. ASSUME NEW ch \in Chans, SimEof(ch) PROVE SyncInv'
  <2>1. /\ spc \in {"await", "serve"} /\ UNCHANGED <<bpc, order, toSim, toBridge>>
        /\ open' = [open EXCEPT ![ch] = FALSE] /\ ch \in shut
        /\ ch = Async => ~Readable(Main)
        /\ HandshakeStep(~open'[order[2]])
    BY <1>11 DEF SimEof, Polled, Readable
  <2>2. active \subseteq active' /\ (spc = "serve" => spc' = "serve" /\ hs' = hs)
    BY <2>1 DEF HandshakeStep
  <2>3. Quiet => spc' = "serve"
    <3> SUFFICES ASSUME Quiet PROVE spc' = "serve"
      OBVIOUS
    <3>1. Len(order) = 2 /\ order \in Orders
      BY <2>1 DEF OrderInv, Shaking
    <3>2. order[2] = Main
      BY <3>1, BothAccepted DEF Quiet, Chans
    <3>3. ~open'[Main]
      <4>1. CASE ch = Main
        BY <2>1, <4>1 DEF PacketsOK
      <4>2. CASE ch = Async
        <5>1. ~open[Main]
          BY <2>1, <4>2 DEF PacketsOK, Readable
        <5> QED BY <2>1, <4>2, <5>1 DEF PacketsOK
      <4> QED BY <4>1, <4>2 DEF Chans
    <3> QED BY <2>1, <2>2, <3>2, <3>3 DEF HandshakeStep
  <2> QED BY <2>1, <2>2, <2>3 DEF SyncInv, Quiet
<1>10. CASE UNCHANGED vars
  BY <1>10, <1>1 DEF vars
<1> QED BY <1>2, <1>3, <1>4, <1>5, <1>6, <1>7, <1>8, <1>9, <1>10, <1>11 DEF Next, Bridge, Sim

(* When the bridge reports that it is connected, the simulation accepted   *)
(* MAIN before ASYNC and has finished the handshake on MAIN: a bridge that *)
(* was accepted in the other order never gets there.                       *)
THEOREM UpIsSynced == Spec => []UpMeansSynced
<1>1. OrderInv /\ SyncInv => UpMeansSynced
  <2> SUFFICES ASSUME OrderInv, SyncInv, bpc = "up"
               PROVE  order = <<Main, Async>> /\ Main \in active
    BY DEF UpMeansSynced
  <2>1. ~(Len(order) < 2) /\ order[1] # Async /\ Main \in active
    BY DEF SyncInv, Quiet
  <2>2. Len(order) = 2
    BY <2>1 DEF OrderInv, Orders
  <2> QED BY <2>1, <2>2, BothAccepted DEF OrderInv, Chans
<1> QED BY <1>1, OrderInit, OrderStep, PacketsInit, PacketsStep, SyncInit, SyncStep, PTL DEF Spec
-----------------------------------------------------------------------------
(* Type correctness: what OrderInv and PacketsOK leave of it.              *)

PlacesOK ==
  /\ bpc \in {"fork", "wait", "late", "connect0", "connect1", "hs0", "rx0", "hs1", "rx1",
              "up", "exit"}
  /\ tpc \in {"wait", "nack", "exit"}
  /\ activeSocket \in Chans \cup {NoChan} /\ active \subseteq Chans
  /\ open \in [Chans -> BOOLEAN]

FlagsOK ==
  /\ ready \in BOOLEAN /\ reaped \in BOOLEAN /\ pdeath \in BOOLEAN /\ skip \in BOOLEAN
  /\ failed \in BOOLEAN /\ msiLost \in BOOLEAN /\ badSend \in BOOLEAN

BoundsOK == ticks \in 0 .. WaitTicks /\ reqs \in 0 .. MaxReq

LEMMA PlacesInit == Init => PlacesOK
BY DEF Init, PlacesOK

LEMMA PlacesStep == OrderInv /\ PlacesOK /\ [Next]_vars => PlacesOK'
<1> SUFFICES ASSUME OrderInv, PlacesOK, [Next]_vars PROVE PlacesOK'
  OBVIOUS
<1> USE DEF PlacesOK, bridgeVars, simVars, BridgeExit
<1>1. ASSUME Bridge \/ Sigint \/ Disconnect \/ MonitorExit \/ \E p \in {"WR", "MSI"} : FirstRequest(p)
      PROVE PlacesOK'
  BY <1>1 DEF Bridge, Fork, WaitTest, WaitTick, WaitFatal, ConnectFails, EnterHandshake,
              HandshakeAck, HandshakeFails, Connect, Sigint, Disconnect, MonitorExit,
              FirstRequest
<1>2. ASSUME SimHello PROVE PlacesOK'
  <2>1. order[hs] \in Chans
    BY <1>2, BothAccepted DEF SimHello, OrderInv, Shaking
  <2> QED BY <1>2, <2>1 DEF SimHello
<1>3. ASSUME NEW ch \in Chans, SimExchange(ch) PROVE PlacesOK'
  <2>1. spc = "await" => order[hs] \in Chans
    BY BothAccepted DEF OrderInv, Shaking
  <2> QED BY <1>3, <2>1 DEF SimExchange, Polled, HandshakeStep
<1>6. ASSUME NEW ch \in Chans, SimEof(ch) PROVE PlacesOK'
  <2>1. spc = "await" => order[hs] \in Chans
    BY BothAccepted DEF OrderInv, Shaking
  <2>2. Other(ch) \in Chans
    BY DEF Other, Chans, Main, Async
  <2> QED BY <1>6, <2>1, <2>2 DEF SimEof, Polled, HandshakeStep
<1>4. ASSUME SimListen \/ SimSignal \/ SimEnds \/ OrphanTimeout \/ AcceptTimeout \/ SimFails
             \/ AcceptFails \/ \E ch \in Chans : Accept(ch)
      PROVE PlacesOK'
  BY <1>4 DEF SimListen, SimSignal, SimEnds, OrphanTimeout, AcceptTimeout, SimFails, SimExit,
              AcceptFails, Accept
<1>5. CASE UNCHANGED vars
  BY <1>5 DEF vars
<1> QED BY <1>1, <1>2, <1>3, <1>4, <1>5, <1>6 DEF Next, Sim

LEMMA FlagsStep == FlagsOK /\ [Next]_vars => FlagsOK'
<1> SUFFICES ASSUME FlagsOK, [Next]_vars PROVE FlagsOK'
  OBVIOUS
<1> USE DEF FlagsOK, bridgeVars, simVars, BridgeExit
<1>1. ASSUME Bridge \/ Disconnect \/ MonitorExit \/ \E p \in {"WR", "MSI"} : FirstRequest(p)
      PROVE FlagsOK'
  BY <1>1 DEF Bridge, Fork, WaitTest, WaitTick, WaitFatal, ConnectFails, EnterHandshake,
              HandshakeAck, HandshakeFails, Connect, Disconnect, MonitorExit, FirstRequest
<1>2. ASSUME Sigint PROVE FlagsOK'
  <2>1. UNCHANGED <<ready, reaped, pdeath, skip, failed, msiLost>>
    BY <1>2 DEF Sigint
  <2>2. badSend' = badSend \/ badSend' = (channel = NoChan)
    BY <1>2 DEF Sigint
  <2>3. badSend' \in BOOLEAN
    BY <2>2
  <2> QED BY <2>1, <2>3
<1>3. ASSUME SimListen PROVE FlagsOK'
  <2>1. pdeath' = Alive /\ UNCHANGED <<ready, reaped, skip, failed, msiLost, badSend>>
    BY <1>3 DEF SimListen
  <2>2. pdeath' \in BOOLEAN
    BY <2>1 DEF Alive
  <2> QED BY <2>1, <2>2
<1>6. ASSUME SimSignal \/ SimHello \/ SimEnds \/ OrphanTimeout
             \/ \E ch \in Chans : Accept(ch) \/ SimEof(ch)
      PROVE FlagsOK'
  BY <1>6 DEF SimSignal, SimHello, SimEnds, OrphanTimeout, SimExit, Accept, SimEof
<1>7. ASSUME NEW ch \in Chans, SimExchange(ch) PROVE FlagsOK'
  <2>1. UNCHANGED <<ready, reaped, pdeath, skip, failed, badSend>>
    BY <1>7 DEF SimExchange
  <2>2. msiLost' = (msiLost \/ (Head(toSim[ch]) = "MSI" /\ Async \notin active))
    BY <1>7 DEF SimExchange
  <2>3. msiLost' \in BOOLEAN
    BY <2>2
  <2> QED BY <2>1, <2>3
<1>4. ASSUME AcceptTimeout \/ SimFails PROVE FlagsOK'
  BY <1>4 DEF AcceptTimeout, SimFails, SimExit
<1>8. ASSUME AcceptFails PROVE FlagsOK'
  <2>1. skip' = (Async \in backlog) /\ UNCHANGED <<ready, reaped, pdeath, failed, msiLost, badSend>>
    BY <1>8 DEF AcceptFails
  <2>2. skip' \in BOOLEAN
    BY <2>1
  <2> QED BY <2>1, <2>2
<1>5. CASE UNCHANGED vars
  BY <1>5 DEF vars
<1> QED BY <1>1, <1>2, <1>3, <1>4, <1>5, <1>6, <1>7, <1>8 DEF Next, Sim

LEMMA BoundsStep == BoundsOK /\ [Next]_vars => BoundsOK'
<1> SUFFICES ASSUME BoundsOK, [Next]_vars PROVE BoundsOK'
  OBVIOUS
<1> USE DEF BoundsOK, bridgeVars, simVars, BridgeExit
<1>1. CASE WaitTick
  <2>1. ticks' = ticks + 1 /\ reqs' = reqs /\ ticks < WaitTicks
    BY <1>1 DEF WaitTick, InTime
  <2> QED BY <2>1, StartupAssumption
<1>2. ASSUME NEW p \in {"WR", "MSI"}, FirstRequest(p) PROVE BoundsOK'
  <2>1. ticks' = ticks /\ reqs' = reqs + 1 /\ reqs < MaxReq
    BY <1>2 DEF FirstRequest
  <2> QED BY <2>1, StartupAssumption
<1>3. ASSUME Fork \/ WaitTest \/ WaitFatal \/ ConnectFails \/ EnterHandshake \/ HandshakeAck
             \/ HandshakeFails \/ Sigint \/ Disconnect \/ MonitorExit
             \/ \E ch \in Chans : Connect(ch)
      PROVE UNCHANGED <<ticks, reqs>>
  BY <1>3 DEF Fork, WaitTest, WaitFatal, ConnectFails, EnterHandshake, HandshakeAck,
              HandshakeFails, Sigint, Disconnect, MonitorExit, Connect
<1>4. ASSUME Sim \/ AcceptTimeout \/ SimFails \/ AcceptFails PROVE UNCHANGED <<ticks, reqs>>
  BY <1>4 DEF Sim, SimListen, SimSignal, SimHello, SimEnds, OrphanTimeout, SimExit, Accept,
              SimExchange, SimEof, AcceptTimeout, SimFails, AcceptFails
<1>5. CASE UNCHANGED vars
  BY <1>5 DEF vars
<1> QED BY <1>1, <1>2, <1>3, <1>4, <1>5 DEF Next, Bridge

\* Both processes stay in their places, at most two channels are accepted,
\* and only packets of the handshake and of the guest are on their way.
THEOREM StartupTypeCorrect == Spec => []TypeOK
<1>1. Init => FlagsOK
  BY DEF Init, FlagsOK
<1>2. Init => BoundsOK
  BY StartupAssumption DEF Init, BoundsOK
<1>3. OrderInv /\ PacketsOK /\ PlacesOK /\ FlagsOK /\ BoundsOK => TypeOK
  <2> SUFFICES ASSUME OrderInv, PacketsOK, PlacesOK, FlagsOK, BoundsOK PROVE TypeOK
    OBVIOUS
  <2>1. order \in Seq(Chans) /\ Len(order) <= 2
    <3>1. ASSUME NEW c \in Chans PROVE <<c>> \in Seq(Chans) /\ Len(<<c>>) <= 2
      OBVIOUS
    <3>2. ASSUME NEW c \in Chans, NEW d \in Chans
          PROVE  <<c, d>> \in Seq(Chans) /\ Len(<<c, d>>) <= 2
      OBVIOUS
    <3>3. <<>> \in Seq(Chans) /\ Len(<<>>) <= 2
      OBVIOUS
    <3>4. Main \in Chans /\ Async \in Chans
      BY DEF Chans
    <3>5. order \in Orders
      BY DEF OrderInv
    <3> QED BY <3>1, <3>2, <3>3, <3>4, <3>5 DEF Orders
  <2>2. spc \in {"none", "start", "rtl", "orphan", "accept", "hello", "await", "serve", "exit"}
        /\ hs \in 1..3 /\ backlog \subseteq Chans
    BY DEF OrderInv
  <2>3. toSim \in [Chans -> Seq({"ACK", "WR", "MSI", "NACK"})] /\ toBridge \in [Chans -> Seq({"ACK"})]
        /\ channel \in Chans \cup {NoChan} /\ shut \subseteq Chans
    BY DEF PacketsOK, Packets
  <2> QED BY <2>1, <2>2, <2>3, Zenon DEF TypeOK, PlacesOK, FlagsOK, BoundsOK
<1> QED BY <1>1, <1>2, <1>3, OrderInit, OrderStep, PacketsInit, PacketsStep, PlacesInit,
           PlacesStep, FlagsStep, BoundsStep, PTL DEF Spec
=============================================================================
