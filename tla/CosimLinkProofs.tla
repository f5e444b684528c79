-------------------------- MODULE CosimLinkProofs --------------------------
(***************************************************************************)
(* Theorems about CosimLink, for every value of its constants.             *)
(***************************************************************************)
EXTENDS CosimLink, FiniteSets, SequenceTheorems, FiniteSetTheorems, TLAPS

\* Chans and the socket numbers, as the provers want them.
LEMMA ChansAre == Chans = {Main, Async} /\ Main = 0 /\ Async = 1 /\ Main # Async
BY DEF Chans, Main, Async

\* The tag of a transaction fits the tag field.
LEMMA TagType == \A n \in Nat : Tag(n) \in Tags
BY LinkAssumption DEF Tag, Tags

\* Reading the head of a stream: the shape of what a receive returns.
LEMMA HeaderReadsType ==
  ASSUME TypeOK, NEW ch \in Chans, NEW r \in HeaderReads(ch)
  PROVE  /\ toBridge[ch] # <<>>
         /\ r.pkt \in Packet /\ r.rest \in Seq(Unit) /\ r.torn \in BOOLEAN
<1> DEFINE q == toBridge[ch]
<1>1. q \in Seq(Unit) /\ q # <<>>
  BY DEF TypeOK, HeaderReads
<1>2. Head(q) \in Unit /\ Tail(q) \in Seq(Unit) /\ Len(q) \in Nat
  BY <1>1, HeadTailProperties
<1>3. CASE ~torn[ch] /\ Head(q).k = "H"
  <2>1. r = [pkt |-> Header(Head(q)), rest |-> Tail(q), torn |-> FALSE]
    BY <1>1, <1>3 DEF HeaderReads
  <2>2. Header(Head(q)) \in Packet
    BY <1>2, LinkAssumption DEF Header, Packet, Unit, Ids
  <2> QED BY <1>1, <1>2, <2>1, <2>2
<1>4. CASE ~(~torn[ch] /\ Head(q).k = "H")
  <2>1. PICK g \in Garbled, n \in 1 .. Len(q) :
          r = [pkt |-> g, rest |-> SubSeq(q, n + 1, Len(q)), torn |-> TRUE]
    BY <1>1, <1>4 DEF HeaderReads
  <2>2. g \in Packet
    BY LinkAssumption DEF Garbled, Packet, Ids
  <2>3. SubSeq(q, n + 1, Len(q)) \in Seq(Unit)
    BY <1>1, <1>2
  <2> QED BY <1>1, <2>1, <2>2, <2>3
<1> QED BY <1>3, <1>4

LEMMA PayloadReadsType ==
  ASSUME TypeOK, NEW ch \in Chans, NEW r \in PayloadReads(ch)
  PROVE  /\ toBridge[ch] # <<>>
         /\ r.val \in Ids /\ r.rest \in Seq(Unit) /\ r.torn \in BOOLEAN
<1> DEFINE q == toBridge[ch]
<1>1. q \in Seq(Unit) /\ q # <<>>
  BY DEF TypeOK, PayloadReads
<1>2. Head(q) \in Unit /\ Tail(q) \in Seq(Unit)
  BY <1>1, HeadTailProperties
<1>3. 0 \in Ids /\ Head(q).val \in Ids
  BY <1>2, LinkAssumption DEF Ids, Unit
<1>4. CASE ~torn[ch] /\ Head(q).k = "D"
  <2>1. r = [val |-> Head(q).val, rest |-> Tail(q), torn |-> FALSE]
    BY <1>1, <1>4 DEF PayloadReads
  <2> QED BY <1>1, <1>2, <1>3, <2>1
<1>5. CASE ~(~torn[ch] /\ Head(q).k = "D")
  <2>1. PICK s \in {q, Tail(q)} : r = [val |-> 0, rest |-> s, torn |-> TRUE]
    BY <1>1, <1>5 DEF PayloadReads
  <2> QED BY <1>1, <1>2, <1>3, <2>1
<1> QED BY <1>4, <1>5

\* A receive leaves both streams well formed.
LEMMA TakeType ==
  ASSUME TypeOK, NEW ch \in Chans, NEW r,
         r.rest \in Seq(Unit), r.torn \in BOOLEAN, Take(ch, r)
  PROVE  toBridge' \in [Chans -> Seq(Unit)] /\ torn' \in [Chans -> BOOLEAN]
BY DEF TypeOK, Take

\* So does a send, in either direction.
LEMMA SendType ==
  ASSUME TypeOK, NEW ch \in Chans, NEW p \in Request, Send(ch, p)
  PROVE  toSim' \in [Chans -> Seq(Request)]
<1>1. Append(toSim[ch], p) \in Seq(Request)
  BY AppendProperties DEF TypeOK
<1> QED BY <1>1 DEF Send, TypeOK

LEMMA SimSendType ==
  ASSUME TypeOK, NEW ch, NEW u \in Unit, SimSend(ch, u)
  PROVE  toBridge' \in [Chans -> Seq(Unit)]
<1>1. \A c \in Chans : Append(toBridge[c], u) \in Seq(Unit)
  BY AppendProperties DEF TypeOK
<1>2. toBridge \in [Chans -> Seq(Unit)]
  BY DEF TypeOK
<1>3. CASE open[ch]
  BY <1>1, <1>2, <1>3 DEF SimSend
<1>4. CASE ~open[ch]
  BY <1>2, <1>4 DEF SimSend
<1> QED BY <1>3, <1>4

\* The packet the simulation takes off a socket is a request.
LEMMA ReceivedType ==
  ASSUME TypeOK, NEW ch \in Chans, NEW type, Received(ch, type)
  PROVE  /\ srv' \in Request
         /\ toSim' \in [Chans -> Seq(Request)]
<1>1. toSim[ch] \in Seq(Request) /\ toSim[ch] # <<>>
  BY DEF TypeOK, Received
<1>2. Head(toSim[ch]) \in Request /\ Tail(toSim[ch]) \in Seq(Request)
  BY <1>1, HeadTailProperties
<1> QED BY <1>2 DEF TypeOK, Received

LEMMA NoRequestType == NoRequest \in Request /\ Invalid \in Packet
BY LinkAssumption DEF NoRequest, Invalid, Request, Packet, Ids, Tags

LEMMA TypeInit == Init => TypeOK
<1> SUFFICES ASSUME Init PROVE TypeOK
  OBVIOUS
<1>1. 0 \in Ids /\ 0 .. 0 = {0}
  BY LinkAssumption DEF Ids
<1>2. toSim \in [Chans -> Seq(Request)] /\ toBridge \in [Chans -> Seq(Unit)]
  BY DEF Init
<1>3. last \in [n : Ids, ok : BOOLEAN, id : Ids, val : Ids, exp : Ids]
  BY <1>1 DEF Init
<1>4. /\ mem \in [Addrs -> Ids] /\ issued \in [Addrs -> Ids]
      /\ atInt \in [Addrs -> Ids] /\ raised \in 0 .. tx
  BY <1>1 DEF Init
<1> QED
  BY <1>1, <1>2, <1>3, <1>4, NoRequestType, ChansAre DEF Init, TypeOK

-----------------------------------------------------------------------------
(* The steps of each thread keep the types.                                *)

LEMMA TypeGuest ==
  ASSUME TypeOK, Guest
  PROVE  TypeOK'
<1>0. tx \in Nat /\ channel \in Chans
  BY LinkAssumption DEF TypeOK, Ids
<1>1. ASSUME NEW a \in Addrs, NEW op \in {"wr", "irq"}, PcieBridgeWrite(a, op)
      PROVE  TypeOK'
  <2> DEFINE p == [type |-> "MEM_WR", id |-> tx + 1, tag |-> Tag(tx + 1),
                   addr |-> a, msi |-> op = "irq"]
  <2>1. tx + 1 \in Ids
    BY <1>0, <1>1, LinkAssumption DEF PcieBridgeWrite, Ids
  <2>2. p \in Request
    BY <2>1, <1>0, TagType DEF Request
  <2>3. Send(channel, p)
    BY <1>1 DEF PcieBridgeWrite
  <2>4. toSim' \in [Chans -> Seq(Request)]
    BY <1>0, <2>2, <2>3, SendType
  <2>5. issued' \in [Addrs -> Ids]
    BY <1>1, <2>1 DEF PcieBridgeWrite, TypeOK
  <2>6. raised' \in 0 .. tx'
    BY <1>0, <1>1 DEF PcieBridgeWrite, TypeOK
  <2> QED
    BY <1>1, <2>1, <2>4, <2>5, <2>6
       DEF PcieBridgeWrite, TypeOK, listenerVars, simVars, termVars
<1>2. ASSUME NEW a \in Addrs, PcieBridgeRead(a)
      PROVE  TypeOK'
  <2>1. tx + 1 \in Ids
    BY <1>0, <1>2, LinkAssumption DEF PcieBridgeRead, Ids
  <2>2. req' \in Request
    BY <2>1, <1>0, <1>2, TagType DEF Request, PcieBridgeRead
  <2>3. Send(channel, req')
    BY <1>2 DEF PcieBridgeRead
  <2>4. toSim' \in [Chans -> Seq(Request)]
    BY <1>0, <2>2, <2>3, SendType
  <2>5. raised' \in 0 .. tx'
    BY <1>0, <1>2 DEF PcieBridgeRead, TypeOK
  <2> QED
    BY <1>2, <2>1, <2>2, <2>4, <2>5
       DEF PcieBridgeRead, TypeOK, listenerVars, simVars, termVars
<1> QED BY <1>1, <1>2 DEF Guest

LEMMA TypeMainThread ==
  ASSUME TypeOK, MainThread
  PROVE  TypeOK'
<1> USE DEF listenerVars, simVars, termVars
<1>1. CASE SetTimeout
  BY <1>1 DEF SetTimeout, TypeOK
<1>2. CASE SelectSocket
  BY <1>2 DEF SelectSocket, TypeOK
<1>3. CASE ReceiveHeader
  <2>1. mfd \in Chans
    BY DEF TypeOK
  <2>2. PICK r \in HeaderReads(mfd) :
          /\ Take(mfd, r)
          /\ resp' = r.pkt
          /\ mpc' = IF r.pkt.len > 0 THEN "again" ELSE "disarm"
    BY <1>3 DEF ReceiveHeader
  <2>3. r.pkt \in Packet /\ r.rest \in Seq(Unit) /\ r.torn \in BOOLEAN
    BY <2>1, HeaderReadsType
  <2>4. toBridge' \in [Chans -> Seq(Unit)] /\ torn' \in [Chans -> BOOLEAN]
    BY <2>1, <2>2, <2>3, TakeType
  <2> QED BY <1>3, <2>2, <2>3, <2>4 DEF ReceiveHeader, TypeOK
<1>4. CASE ReceivePayload
  <2>1. mfd \in Chans /\ resp \in Packet
    BY DEF TypeOK
  <2>2. PICK r \in PayloadReads(mfd) :
          Take(mfd, r) /\ resp' = [resp EXCEPT !.val = r.val]
    BY <1>4 DEF ReceivePayload
  <2>3. r.val \in Ids /\ r.rest \in Seq(Unit) /\ r.torn \in BOOLEAN
    BY <2>1, PayloadReadsType
  <2>4. toBridge' \in [Chans -> Seq(Unit)] /\ torn' \in [Chans -> BOOLEAN]
    BY <2>1, <2>2, <2>3, TakeType
  <2>5. resp' \in Packet
    BY <2>1, <2>2, <2>3 DEF Packet
  <2> QED BY <1>4, <2>4, <2>5 DEF ReceivePayload, TypeOK
<1>5. CASE ReceiveFails
  <2>1. resp' \in Packet
    BY <1>5 DEF ReceiveFails, TypeOK, Packet
  <2> QED BY <1>5, <2>1 DEF ReceiveFails, TypeOK
<1>6. CASE Finish
  <2>1. /\ req.id \in Ids /\ req.addr \in Addrs
        /\ resp.id \in Ids /\ resp.val \in Ids /\ 0 \in Ids
        /\ Accepted \in BOOLEAN
    BY LinkAssumption DEF TypeOK, Request, Packet, Ids, Accepted
  <2>2. last' \in [n : Ids, ok : BOOLEAN, id : Ids, val : Ids, exp : Ids]
    BY <1>6, <2>1 DEF Finish, TypeOK
  <2> QED BY <1>6, <2>2 DEF Finish, TypeOK
<1> QED
  BY <1>1, <1>2, <1>3, <1>4, <1>5, <1>6 DEF MainThread

LEMMA TypeListener ==
  ASSUME TypeOK, Listener
  PROVE  TypeOK'
<1> USE DEF mainVars, simVars, termVars
<1>0. Async \in Chans /\ Main \in Chans
  BY ChansAre
<1>1. CASE AsyncPoll
  BY <1>0, <1>1 DEF AsyncPoll, TypeOK
<1>2. CASE AsyncHup
  BY <1>2 DEF AsyncHup, TypeOK
<1>3. CASE AsyncHeader
  <2>1. PICK r \in HeaderReads(Async) :
          /\ Take(Async, r)
          /\ lpkt' = r.pkt
          /\ lpc' = IF r.pkt.len > 0 THEN "data" ELSE "deliver"
    BY <1>3 DEF AsyncHeader
  <2>2. r.pkt \in Packet /\ r.rest \in Seq(Unit) /\ r.torn \in BOOLEAN
    BY <1>0, HeaderReadsType
  <2>3. toBridge' \in [Chans -> Seq(Unit)] /\ torn' \in [Chans -> BOOLEAN]
    BY <1>0, <2>1, <2>2, TakeType
  <2> QED BY <1>0, <1>3, <2>1, <2>2, <2>3 DEF AsyncHeader, TypeOK
<1>4. CASE AsyncPayload
  <2>1. PICK r \in PayloadReads(Async) :
          Take(Async, r) /\ lpkt' = [lpkt EXCEPT !.val = r.val]
    BY <1>4 DEF AsyncPayload
  <2>2. r.val \in Ids /\ r.rest \in Seq(Unit) /\ r.torn \in BOOLEAN
    BY <1>0, PayloadReadsType
  <2>3. toBridge' \in [Chans -> Seq(Unit)] /\ torn' \in [Chans -> BOOLEAN]
    BY <1>0, <2>1, <2>2, TakeType
  <2>4. lpkt' \in Packet
    BY <2>1, <2>2 DEF Packet, TypeOK
  <2> QED BY <1>4, <2>3, <2>4 DEF AsyncPayload, TypeOK
<1>5. CASE AsyncFails
  <2>1. lpkt' \in Packet
    BY <1>5 DEF AsyncFails, TypeOK, Packet
  <2> QED BY <1>5, <2>1 DEF AsyncFails, TypeOK
<1>6. CASE AsyncDeliver
  BY <1>0, <1>6 DEF AsyncDeliver, ChannelAfter, Triggers, Continues, TypeOK
<1> QED
  BY <1>1, <1>2, <1>3, <1>4, <1>5, <1>6 DEF Listener

LEMMA TypeSim ==
  ASSUME TypeOK, Sim \/ SimDies
  PROVE  TypeOK'
<1> USE DEF mainVars, listenerVars, termVars
<1>0. Async \in Chans /\ 0 \in Ids /\ 0 \in Tags
  BY ChansAre, LinkAssumption DEF Ids, Tags
<1>1. ASSUME NEW ch \in Chans, SimWrite(ch)
      PROVE  TypeOK'
  <2>1. srv' \in Request /\ toSim' \in [Chans -> Seq(Request)]
    BY <1>1, ReceivedType DEF SimWrite
  <2>2. mem' \in [Addrs -> Ids]
    BY <1>1, <2>1 DEF SimWrite, TypeOK, Request
  <2> QED BY <1>1, <2>1, <2>2 DEF SimWrite, TypeOK
<1>2. ASSUME NEW ch \in Chans, SimIrq(ch)
      PROVE  TypeOK'
  <2>1. srv' \in Request /\ toSim' \in [Chans -> Seq(Request)]
    BY <1>2, ReceivedType DEF SimIrq
  <2> DEFINE u == [k |-> "H", type |-> "MSG", id |-> srv'.id, tag |-> 0, val |-> 0]
  <2>2. u \in Unit /\ SimSend(Async, u)
    BY <1>0, <1>2, <2>1 DEF SimIrq, Unit, Request
  <2>3. toBridge' \in [Chans -> Seq(Unit)]
    BY <2>2, SimSendType
  <2> QED BY <1>2, <2>1, <2>3 DEF SimIrq, TypeOK
<1>3. ASSUME NEW ch \in Chans, SimRead(ch)
      PROVE  TypeOK'
  <2>1. srv' \in Request /\ toSim' \in [Chans -> Seq(Request)]
    BY <1>3, ReceivedType DEF SimRead
  <2> DEFINE u == [k |-> "H", type |-> "ACK", id |-> srv'.id,
                   tag |-> srv'.tag, val |-> 0]
  <2>2. u \in Unit /\ SimSend(ch, u)
    BY <1>0, <1>3, <2>1 DEF SimRead, Unit, Request
  <2>3. toBridge' \in [Chans -> Seq(Unit)]
    BY <2>2, SimSendType
  <2> QED BY <1>3, <2>1, <2>3 DEF SimRead, TypeOK
<1>4. CASE SimIrqVector
  <2> DEFINE u == [k |-> "D", type |-> "MSG", id |-> srv.id, tag |-> 0, val |-> 0]
  <2>1. u \in Unit /\ SimSend(Async, u)
    BY <1>0, <1>4 DEF SimIrqVector, Unit, Request, TypeOK
  <2>2. toBridge' \in [Chans -> Seq(Unit)]
    BY <2>1, SimSendType
  <2> QED BY <1>4, <2>2 DEF SimIrqVector, TypeOK
<1>5. CASE SimReadData
  <2> DEFINE u == [k |-> "D", type |-> "ACK", id |-> srv.id,
                   tag |-> srv.tag, val |-> mem[srv.addr]]
  <2>1. u \in Unit /\ SimSend(activeSocket, u)
    BY <1>5 DEF SimReadData, Unit, Request, TypeOK
  <2>2. toBridge' \in [Chans -> Seq(Unit)]
    BY <2>1, SimSendType
  <2> QED BY <1>5, <2>2 DEF SimReadData, TypeOK
<1>6. ASSUME NEW ch \in Chans, SimNack(ch)
      PROVE  TypeOK'
  <2>1. srv' \in Request /\ toSim' \in [Chans -> Seq(Request)]
    BY <1>6, ReceivedType DEF SimNack
  <2> QED BY <1>6, <2>1 DEF SimNack, Stop, TypeOK
<1>7. ASSUME NEW ch \in Chans, SimEof(ch)
      PROVE  TypeOK'
  <2>1. Other(ch) \in Chans
    BY ChansAre DEF Other
  <2>2. /\ open' \in [Chans -> BOOLEAN]
        /\ activeSocket' \in Chans \cup {NoSock}
        /\ spc' \in {"poll", "msg", "ack", "done", "dead"}
    BY <1>7, <2>1 DEF SimEof, Stop, TypeOK
  <2> QED BY <1>7, <2>2 DEF SimEof, TypeOK
<1>8. CASE SimDies
  BY <1>8 DEF SimDies, TypeOK
<1> QED
  BY <1>1, <1>2, <1>3, <1>4, <1>5, <1>6, <1>7, <1>8 DEF Sim

LEMMA TypeTerminate ==
  ASSUME TypeOK, Sigint \/ Disconnect \/ Exit \/ MainReturns
  PROVE  TypeOK'
<1> USE DEF mainVars, listenerVars, simVars
<1>1. CASE Sigint
  <2>1. toSim' \in [Chans -> Seq(Request)]
    BY <1>1, SendType, NoRequestType DEF Sigint, TypeOK
  <2> QED BY <1>1, <2>1 DEF Sigint, TypeOK
<1>2. CASE Disconnect
  BY <1>2 DEF Disconnect, TypeOK
<1>3. CASE Exit \/ MainReturns
  BY <1>3 DEF Exit, MainReturns, EndProcess, TypeOK
<1> QED BY <1>1, <1>2, <1>3

LEMMA TypeStep ==
  ASSUME TypeOK, [Next]_vars
  PROVE  TypeOK'
<1>1. CASE UNCHANGED vars
  <2>1. UNCHANGED <<channel, rcvtimeo, torn, toSim, toBridge>>
        /\ UNCHANGED mainVars /\ UNCHANGED listenerVars
        /\ UNCHANGED simVars /\ UNCHANGED termVars
    BY <1>1 DEF vars
  <2> QED
    BY <2>1 DEF mainVars, listenerVars, simVars, termVars, TypeOK
<1>2. CASE Guest
  BY <1>2, TypeGuest
<1>3. CASE MainThread
  BY <1>3, TypeMainThread
<1>4. CASE Listener
  BY <1>4, TypeListener
<1>5. CASE Sim \/ SimDies
  BY <1>5, TypeSim
<1>6. CASE Sigint \/ Disconnect \/ Exit \/ MainReturns
  BY <1>6, TypeTerminate
<1> QED
  BY <1>1, <1>2, <1>3, <1>4, <1>5, <1>6 DEF Next

\* Every variable keeps its type: in particular no value of the counters,
\* tags and pairs of sockets the code uses ever leaves its range.
THEOREM TypeCorrect == Spec => []TypeOK
<1>1. Init => TypeOK
  BY TypeInit
<1>2. TypeOK /\ [Next]_vars => TypeOK'
  BY TypeStep
<1> QED BY <1>1, <1>2, PTL DEF Spec

-----------------------------------------------------------------------------
(* What is on its way to the simulation.                                   *)

\* What is under way on the socket a packet is sent on.
LEMMA SentOn ==
  ASSUME TypeOK, NEW ch \in Chans, NEW p \in Request, Send(ch, p),
         NEW c \in Chans, NEW i \in 1 .. Len(toSim'[c])
  PROVE  \/ toSim'[c][i] = p /\ c = ch /\ i = Len(toSim[ch]) + 1
         \/ i \in 1 .. Len(toSim[c]) /\ toSim'[c][i] = toSim[c][i]
<1>1. toSim[c] \in Seq(Request) /\ Len(toSim[c]) \in Nat
  BY DEF TypeOK
<1>2. CASE toSim'[c] = toSim[c]
  BY <1>2
<1>3. CASE toSim'[c] # toSim[c]
  <2>1. c = ch /\ toSim'[c] = Append(toSim[c], p)
    BY <1>3 DEF Send, TypeOK
  <2>2. /\ Len(toSim'[c]) = Len(toSim[c]) + 1 /\ toSim'[c][Len(toSim[c]) + 1] = p
        /\ \A j \in 1 .. Len(toSim[c]) : toSim'[c][j] = toSim[c][j]
    BY <1>1, <2>1, AppendProperties
  <2>3. i \in 1 .. Len(toSim[c]) \/ i = Len(toSim[c]) + 1
    BY <1>1, <2>2
  <2> QED BY <2>1, <2>2, <2>3
<1> QED BY <1>2, <1>3

\* What is under way after the simulation has taken a packet off socket ch.
Was(ch, c, i) == IF c = ch THEN i + 1 ELSE i

LEMMA TakenOff ==
  ASSUME TypeOK, NEW ch \in Chans, NEW type, Received(ch, type)
  PROVE  /\ srv' = toSim[ch][1] /\ 1 \in 1 .. Len(toSim[ch]) /\ srv'.type = type
         /\ \A c \in Chans : \A i \in 1 .. Len(toSim'[c]) :
              /\ Was(ch, c, i) \in 1 .. Len(toSim[c])
              /\ toSim'[c][i] = toSim[c][Was(ch, c, i)]
<1>1. toSim[ch] \in Seq(Request) /\ toSim[ch] # <<>> /\ Len(toSim[ch]) \in Nat
  BY DEF TypeOK, Received
<1>2. srv' = toSim[ch][1] /\ 1 \in 1 .. Len(toSim[ch]) /\ srv'.type = type
  BY <1>1 DEF Received
<1>3. ASSUME NEW c \in Chans, NEW i \in 1 .. Len(toSim'[c])
      PROVE  /\ Was(ch, c, i) \in 1 .. Len(toSim[c])
             /\ toSim'[c][i] = toSim[c][Was(ch, c, i)]
  <2>1. CASE c = ch
    <3>1. toSim'[c] = Tail(toSim[c])
      BY <2>1 DEF Received, TypeOK
    <3>2. /\ Len(toSim'[c]) = Len(toSim[c]) - 1
          /\ \A j \in 1 .. Len(toSim'[c]) : toSim'[c][j] = toSim[c][j + 1]
      BY <1>1, <2>1, <3>1, HeadTailProperties
    <3> QED BY <1>1, <2>1, <3>2 DEF Was
  <2>2. CASE c # ch
    <3>1. toSim'[c] = toSim[c]
      BY <2>2 DEF Received, TypeOK
    <3> QED BY <2>2, <3>1 DEF Was
  <2> QED BY <2>1, <2>2
<1> QED BY <1>2, <1>3

-----------------------------------------------------------------------------
(* What is on its way back.                                                *)

\* A unit the simulation sends is the last of its socket; on a socket it has
\* closed it is lost.
LEMMA SimSent ==
  ASSUME TypeOK, NEW ch \in Chans, NEW u \in Unit, SimSend(ch, u)
  PROVE  /\ open[ch] => /\ Len(toBridge'[ch]) = Len(toBridge[ch]) + 1
                        /\ \A i \in 1 .. Len(toBridge[ch]) : toBridge'[ch][i] = toBridge[ch][i]
                        /\ toBridge'[ch][Len(toBridge[ch]) + 1] = u
         /\ ~open[ch] => toBridge' = toBridge
<1>1. toBridge[ch] \in Seq(Unit)
  BY DEF TypeOK
<1>2. open[ch] => toBridge'[ch] = Append(toBridge[ch], u)
  BY DEF SimSend, TypeOK
<1> QED BY <1>1, <1>2, AppendProperties DEF SimSend

\* A receive on the packet boundary takes the first unit of its socket.
LEMMA Taking ==
  ASSUME TypeOK, NEW ch \in Chans, NEW r, Take(ch, r), toBridge[ch] # <<>>, r.rest = Tail(toBridge[ch])
  PROVE  /\ 1 \in 1 .. Len(toBridge[ch]) /\ Len(toBridge'[ch]) = Len(toBridge[ch]) - 1
         /\ \A i \in 1 .. Len(toBridge'[ch]) :
              i + 1 \in 1 .. Len(toBridge[ch]) /\ toBridge'[ch][i] = toBridge[ch][i + 1]
         /\ torn'[ch] = r.torn
<1>1. toBridge[ch] \in Seq(Unit) /\ Len(toBridge[ch]) > 0 /\ Len(toBridge[ch]) \in Nat
  BY DEF TypeOK
<1>2. toBridge'[ch] = Tail(toBridge[ch]) /\ torn'[ch] = r.torn
  BY DEF Take, TypeOK
<1> QED BY <1>1, <1>2, HeadTailProperties

-----------------------------------------------------------------------------
(* The listener, a guest that waits for its interrupts or asks for none,   *)
(* and the two ends of the link.                                           *)

\* The build has no MSI test, or the guest never writes the pattern.
NoDoorbell == ~MsiTest \/ "irq" \notin Ops

Irqs == toBridge[Async]

Rings(p) == p.type = "MEM_WR" /\ IsIrq(p)
Doorbell == \E i \in 1 .. Len(toSim[Main]) : Rings(toSim[Main][i])
OneBell  == \A i, j \in 1 .. Len(toSim[Main]) :
              Rings(toSim[Main][i]) /\ Rings(toSim[Main][j]) => i = j

HeaderSent  == Len(Irqs) = 1 /\ Irqs[1].k = "H" /\ Irqs[1].type = "MSG"
VectorSent  == Len(Irqs) = 1 /\ Irqs[1].k = "D"
BothSent    == /\ Len(Irqs) = 2 /\ Irqs[1].k = "H" /\ Irqs[1].type = "MSG"
               /\ Irqs[2].k = "D"

OnMain == channel = Main /\ (mpc \in {"hdr", "data"} => mfd = Main)

\* The interrupt under way, if any, is still a request, and MAIN carries it;
\* or it is a header and a vector on ASYNC, or the packet the listener is
\* about to deliver, unless the simulation died in the middle of sending it;
\* or ASYNC has closed, and the listener, if that was how it noticed, never
\* again leads the channel back to MAIN.
Unserved ==
  /\ spc # "msg" /\ Irqs = <<>> /\ lpc = "poll" /\ OnMain /\ OneBell
  /\ Doorbell => raised = irqs + 1
Signalled ==
  /\ raised = irqs + 1 /\ ~Doorbell
  /\ lpc = "poll" <=> channel = Main
  /\ \/ spc \in {"msg", "dead"} /\ HeaderSent /\ lpc \in {"poll", "hdr"}
     \/ spc \in {"msg", "dead"} /\ Irqs = <<>> /\ lpc = "data" /\ lpkt.type = "MSG"
     \/ spc # "msg" /\ BothSent /\ lpc \in {"poll", "hdr"}
     \/ spc # "msg" /\ VectorSent /\ lpc = "data" /\ lpkt.type = "MSG"
     \/ spc # "msg" /\ Irqs = <<>> /\ lpc = "deliver" /\ lpkt.type = "MSG"
Ended ==
  /\ Gone(Async)
  /\ \/ lpc = "gone" /\ OnMain
     \/ /\ channel = Async /\ Irqs = <<>>
        /\ lpc \in {"hdr", "gone"} \/ (lpc = "deliver" /\ lpkt.type = "INVALID")

OneAtATime ==
  /\ raised \in {irqs, irqs + 1} /\ (NoDoorbell => raised = 0)
  /\ mpc # "idle" => raised = irqs
  /\ ~torn[Async]
  /\ ~Gone(Async) => ~rcvtimeo[Async] /\ ~lto
  /\ Unserved \/ Signalled \/ Ended

\* The simulation stops serving before it gives up ASYNC, which carries at
\* most the NACK of a SIGINT that came while an interrupt was delivered.
EndsInv ==
  /\ Gone(Async) => spc \in {"done", "dead"}
  /\ Gone(Main) => (toSim[Main] = <<>> /\ shut) \/ spc \in {"done", "dead"}
  /\ spc = "ack" => open[Main] /\ activeSocket = Main
  /\ shut => tpc \in {"shut", "exit"}
  /\ \A i \in 1 .. Len(toSim[Async]) : toSim[Async][i] = NoRequest

LinkInv == TypeOK /\ OneAtATime /\ EndsInv

LEMMA CountsType == ASSUME TypeOK PROVE irqs \in Nat /\ raised \in Nat
BY LinkAssumption DEF TypeOK, Ids

LEMMA LinkInit == Init => LinkInv
<1> SUFFICES ASSUME Init PROVE LinkInv
  OBVIOUS
<1>1. Len(toSim[Main]) = 0 /\ Len(toSim[Async]) = 0 /\ Irqs = <<>>
  BY ChansAre DEF Init, Irqs
<1>2. Unserved
  BY <1>1 DEF Init, Unserved, OneBell, Doorbell, OnMain
<1>3. OneAtATime
  BY <1>2, ChansAre DEF Init, OneAtATime
<1>4. EndsInv
  BY <1>1, ChansAre DEF Init, EndsInv, Gone
<1> QED BY <1>3, <1>4, TypeInit DEF LinkInv

\* With no interrupt under way the channel is MAIN, or of no more use.
LEMMA Undisturbed ==
  ASSUME TypeOK, OneAtATime, raised = irqs
  PROVE  /\ (Unserved /\ ~Doorbell) \/ Ended
         /\ channel = Main \/ (channel = Async /\ Gone(Async) /\ Irqs = <<>>)
         /\ mpc \in {"hdr", "data"} /\ mfd = Async => channel = Async
<1>1. irqs \in Nat /\ raised # irqs + 1
  BY CountsType
<1> QED BY <1>1, ChansAre DEF OneAtATime, Unserved, Signalled, Ended, OnMain

\* The doorbell among what MAIN carries, after a send and after a receive.
LEMMA BellSent ==
  ASSUME TypeOK, NEW p \in Request, Send(channel, p)
  PROVE  /\ Doorbell' => Doorbell \/ Rings(p)
         /\ OneBell /\ (~Doorbell \/ ~Rings(p)) => OneBell'
<1>0. channel \in Chans /\ Main \in Chans /\ Len(toSim[Main]) \in Nat
  BY ChansAre DEF TypeOK
<1>1. ASSUME NEW i \in 1 .. Len(toSim'[Main])
      PROVE  \/ toSim'[Main][i] = p /\ i = Len(toSim[Main]) + 1
             \/ i \in 1 .. Len(toSim[Main]) /\ toSim'[Main][i] = toSim[Main][i]
  BY <1>0, SentOn
<1>2. Doorbell' => Doorbell \/ Rings(p)
  BY <1>1 DEF Doorbell, Rings, IsIrq
<1>3. ASSUME OneBell, ~Doorbell \/ ~Rings(p),
             NEW i \in 1 .. Len(toSim'[Main]), NEW j \in 1 .. Len(toSim'[Main]),
             Rings(toSim'[Main][i]), Rings(toSim'[Main][j])
      PROVE  i = j
  BY <1>1, <1>3 DEF OneBell, Doorbell
<1>4. OneBell /\ (~Doorbell \/ ~Rings(p)) =>
        \A i, j \in 1 .. Len(toSim'[Main]) : Rings(toSim'[Main][i]) /\ Rings(toSim'[Main][j]) => i = j
  BY <1>3
<1> QED BY <1>2, <1>4 DEF OneBell, Rings, IsIrq

LEMMA BellTaken ==
  ASSUME TypeOK, NEW ch \in Chans, NEW type, Received(ch, type)
  PROVE  /\ OneBell => OneBell'
         /\ Doorbell' => Doorbell
         /\ ch = Main /\ Rings(srv') => Doorbell /\ (OneBell => ~Doorbell')
<1>0. Main \in Chans /\ Len(toSim[Main]) \in Nat
  BY ChansAre DEF TypeOK
<1> DEFINE w(i) == Was(ch, Main, i)
<1>1. ASSUME NEW i \in 1 .. Len(toSim'[Main])
      PROVE  w(i) \in 1 .. Len(toSim[Main]) /\ toSim'[Main][i] = toSim[Main][w(i)]
  BY <1>0, TakenOff
<1>2. \A i, j \in 1 .. Len(toSim'[Main]) : w(i) = w(j) => i = j
  BY DEF Was
<1>3. ch = Main => /\ srv' = toSim[Main][1] /\ 1 \in 1 .. Len(toSim[Main])
                   /\ \A i \in 1 .. Len(toSim'[Main]) : w(i) # 1
  BY TakenOff DEF Was
<1> HIDE DEF w
<1>4. OneBell => OneBell'
  <2>1. ASSUME OneBell, NEW i \in 1 .. Len(toSim'[Main]), NEW j \in 1 .. Len(toSim'[Main]),
               Rings(toSim'[Main][i]), Rings(toSim'[Main][j])
        PROVE  i = j
    <3>1. /\ w(i) \in 1 .. Len(toSim[Main]) /\ Rings(toSim[Main][w(i)])
          /\ w(j) \in 1 .. Len(toSim[Main]) /\ Rings(toSim[Main][w(j)])
      BY <1>1, <2>1
    <3>2. w(i) = w(j)
      BY <2>1, <3>1 DEF OneBell
    <3> QED BY <1>2, <3>2
  <2>2. OneBell => \A i, j \in 1 .. Len(toSim'[Main]) :
                     Rings(toSim'[Main][i]) /\ Rings(toSim'[Main][j]) => i = j
    BY <2>1
  <2> QED BY <2>2 DEF OneBell, Rings, IsIrq
<1>5. Doorbell' => Doorbell
  BY <1>1 DEF Doorbell, Rings, IsIrq
<1>6. ASSUME ch = Main, Rings(srv')
      PROVE  Doorbell /\ (OneBell => ~Doorbell')
  <2>1. Rings(toSim[Main][1]) /\ 1 \in 1 .. Len(toSim[Main])
    BY <1>3, <1>6 DEF Rings, IsIrq
  <2>2. ASSUME OneBell, NEW i \in 1 .. Len(toSim'[Main]), Rings(toSim'[Main][i])
        PROVE  FALSE
    BY <1>1, <1>3, <1>6, <2>1, <2>2 DEF OneBell
  <2> QED BY <2>1, <2>2 DEF Doorbell, Rings, IsIrq
<1> QED BY <1>4, <1>5, <1>6

\* What the guest sends, and when: no interrupt is under way.
Asks(p) ==
  /\ Send(channel, p) /\ p.type # "NACK" /\ Alive /\ mpc = "idle" /\ raised = irqs
  /\ raised' = IF Rings(p) THEN raised + 1 ELSE raised
  /\ NoDoorbell => ~Rings(p)
  /\ mpc' = "idle" \/ (mpc' = "arm" /\ ~Rings(p))
  /\ UNCHANGED <<channel, rcvtimeo, torn, toBridge, mfd, listenerVars, simVars, termVars>>

LEMMA GuestAsks ==
  ASSUME GuestWaits \/ NoDoorbell, TypeOK, OneAtATime, Guest
  PROVE  \E p \in Request : Asks(p)
<1>0. tx \in Nat /\ irqs \in Nat /\ raised \in Nat
  BY CountsType, LinkAssumption DEF TypeOK, Ids
<1>1. GuestTurn => raised = irqs
  BY <1>0 DEF GuestTurn, OneAtATime
<1>2. ASSUME NEW a \in Addrs, NEW op \in {"wr", "irq"}, PcieBridgeWrite(a, op)
      PROVE  \E p \in Request : Asks(p)
  <2> DEFINE p == [type |-> "MEM_WR", id |-> tx + 1, tag |-> Tag(tx + 1),
                   addr |-> a, msi |-> op = "irq"]
  <2>1. tx + 1 \in Ids
    BY <1>0, <1>2, LinkAssumption DEF PcieBridgeWrite, Ids
  <2>2. p \in Request
    BY <1>0, <2>1, TagType DEF Request
  <2>3. /\ Send(channel, p) /\ p.type # "NACK" /\ Alive /\ mpc = "idle" /\ raised = irqs
        /\ mpc' = "idle" /\ raised' = IF Rings(p) THEN raised + 1 ELSE raised
    BY <1>1, <1>2 DEF PcieBridgeWrite, Rings, IsIrq
  <2>4. NoDoorbell => ~Rings(p)
    BY <1>2 DEF PcieBridgeWrite, Rings, IsIrq, NoDoorbell
  <2>5. UNCHANGED <<channel, rcvtimeo, torn, toBridge, mfd, listenerVars, simVars, termVars>>
    BY <1>2 DEF PcieBridgeWrite
  <2> HIDE DEF p
  <2> QED BY <2>2, <2>3, <2>4, <2>5 DEF Asks
<1>3. ASSUME NEW a \in Addrs, PcieBridgeRead(a)
      PROVE  \E p \in Request : Asks(p)
  <2> DEFINE p == [type |-> "MEM_RD", id |-> tx + 1, tag |-> Tag(tx + 1),
                   addr |-> a, msi |-> FALSE]
  <2>1. tx + 1 \in Ids
    BY <1>0, <1>3, LinkAssumption DEF PcieBridgeRead, Ids
  <2>2. p \in Request /\ ~Rings(p) /\ p.type # "NACK"
    BY <1>0, <2>1, TagType DEF Request, Rings, IsIrq
  <2>3. /\ Send(channel, p) /\ Alive /\ mpc = "idle" /\ mpc' = "arm"
        /\ raised = irqs /\ raised' = raised
    BY <1>1, <1>3 DEF PcieBridgeRead, Send
  <2>4. UNCHANGED <<channel, rcvtimeo, torn, toBridge, mfd, listenerVars, simVars, termVars>>
    BY <1>3 DEF PcieBridgeRead
  <2> HIDE DEF p
  <2> QED BY <2>2, <2>3, <2>4 DEF Asks
<1> QED BY <1>2, <1>3 DEF Guest

\* A send of the bridge leaves ASYNC to the NACKs.
LEMMA SentByBridge ==
  ASSUME TypeOK, EndsInv, NEW p \in Request, Send(channel, p),
         p = NoRequest \/ (channel = Async => Gone(Async)),
         UNCHANGED <<open, spc, shut, activeSocket>>, shut => tpc' \in {"shut", "exit"}
  PROVE  EndsInv'
<1>0. channel \in Chans /\ Async \in Chans
  BY ChansAre DEF TypeOK
<1>1. ASSUME NEW i \in 1 .. Len(toSim'[Async]) PROVE toSim'[Async][i] = NoRequest
  <2>1. CASE channel = Async /\ Gone(Async)
    BY <2>1 DEF Send, EndsInv
  <2>2. CASE p = NoRequest \/ channel # Async
    BY <1>0, <2>2, SentOn DEF EndsInv
  <2> QED BY <2>1, <2>2
<1>2. Gone(Main) => toSim'[Main] = toSim[Main]
  BY <1>0, ChansAre DEF Send, Gone, TypeOK
<1> QED BY <1>1, <1>2 DEF EndsInv, Gone

LEMMA LinkGuest ==
  ASSUME GuestWaits \/ NoDoorbell, LinkInv, Guest
  PROVE  OneAtATime' /\ EndsInv'
<1> USE DEF listenerVars, simVars, termVars
<1>1. PICK p \in Request : Asks(p)
  BY GuestAsks DEF LinkInv
<1>2. irqs \in Nat /\ TypeOK /\ OneAtATime /\ EndsInv
  BY CountsType DEF LinkInv
<1>3. /\ (Unserved /\ ~Doorbell) \/ Ended
      /\ channel = Main \/ (channel = Async /\ Gone(Async))
  BY <1>1, <1>2, Undisturbed DEF Asks
<1>4. EndsInv'
  BY <1>1, <1>2, <1>3, SentByBridge, ChansAre DEF Asks, EndsInv
<1>5. (Doorbell' => Doorbell \/ Rings(p)) /\ (OneBell /\ ~Doorbell => OneBell')
  BY <1>1, <1>2, BellSent DEF Asks
<1>6. (Unserved' \/ Signalled' \/ Ended') /\ raised' \in {irqs', irqs' + 1}
  BY <1>1, <1>2, <1>3, <1>5 DEF Asks, Unserved, Ended, OnMain, Irqs, Gone
<1>7. (mpc' # "idle" => raised' = irqs') /\ (NoDoorbell => raised' = 0)
  BY <1>1, <1>2 DEF Asks, OneAtATime
<1> QED BY <1>1, <1>2, <1>4, <1>6, <1>7 DEF Asks, OneAtATime, Gone

\* The main thread is at work: it reads MAIN, or a socket that is closed.
LEMMA MainReads ==
  ASSUME LinkInv, ReceiveHeader \/ ReceivePayload
  PROVE  mfd = Main
<1>1. mpc \in {"hdr", "data"} /\ toBridge[mfd] # <<>> /\ mfd \in Chans
  BY DEF LinkInv, TypeOK, ReceiveHeader, HeaderReads, ReceivePayload, PayloadReads
<1>2. TypeOK /\ OneAtATime /\ raised = irqs
  BY <1>1 DEF LinkInv, OneAtATime
<1> QED BY <1>1, <1>2, Undisturbed, ChansAre DEF Irqs

LEMMA MainLeavesAsync ==
  ASSUME LinkInv, MainThread
  PROVE  /\ toBridge'[Async] = toBridge[Async] /\ torn'[Async] = torn[Async]
         /\ rcvtimeo'[Async] => rcvtimeo[Async] \/ Gone(Async)
         /\ mpc' \in {"hdr", "data"} => mfd' = channel \/ (mfd' = mfd /\ mpc \in {"hdr", "data"})
<1>1. mpc # "idle"
  BY DEF MainThread, SetTimeout, SelectSocket, ReceiveHeader, ReceivePayload, ReceiveFails, Finish
<1>2. TypeOK /\ OneAtATime /\ raised = irqs
  BY <1>1 DEF LinkInv, OneAtATime
<1>3. channel = Main \/ (channel = Async /\ Gone(Async))
  BY <1>2, Undisturbed
<1>4. CASE SetTimeout \/ Finish
  BY <1>2, <1>3, <1>4, ChansAre DEF SetTimeout, Finish, TypeOK
<1>5. CASE SelectSocket
  BY <1>5 DEF SelectSocket
<1>6. CASE ReceiveHeader
  BY <1>2, <1>6, MainReads, ChansAre DEF ReceiveHeader, Take, TypeOK
<1>7. CASE ReceivePayload
  BY <1>2, <1>7, MainReads, ChansAre DEF ReceivePayload, Take, TypeOK
<1>8. CASE ReceiveFails
  BY <1>8 DEF ReceiveFails
<1> QED BY <1>4, <1>5, <1>6, <1>7, <1>8 DEF MainThread

LEMMA LinkMain ==
  ASSUME LinkInv, MainThread
  PROVE  OneAtATime' /\ EndsInv'
<1> USE DEF listenerVars, simVars, termVars
<1>1. UNCHANGED <<toSim, channel, lpc, lpkt, lto, irqs, raised, spc, activeSocket, open, tpc, shut>>
      /\ mpc # "idle"
  BY DEF MainThread, SetTimeout, SelectSocket, ReceiveHeader, ReceivePayload, ReceiveFails, Finish
<1>2. TypeOK /\ OneAtATime /\ EndsInv /\ raised = irqs
  BY <1>1 DEF LinkInv, OneAtATime
<1>3. /\ (Unserved /\ ~Doorbell) \/ Ended
      /\ channel = Main \/ (channel = Async /\ Gone(Async) /\ Irqs = <<>>)
      /\ mpc \in {"hdr", "data"} /\ mfd = Async => channel = Async
  BY <1>2, Undisturbed
<1>4. EndsInv'
  BY <1>1, <1>2 DEF EndsInv, Gone
<1>5. /\ toBridge'[Async] = toBridge[Async] /\ torn'[Async] = torn[Async]
      /\ rcvtimeo'[Async] => rcvtimeo[Async] \/ Gone(Async)
      /\ mpc' \in {"hdr", "data"} => mfd' = channel \/ (mfd' = mfd /\ mpc \in {"hdr", "data"})
  BY MainLeavesAsync
<1>6. (Doorbell' <=> Doorbell) /\ (OneBell' <=> OneBell) /\ Irqs' = Irqs /\ (OnMain => OnMain')
  BY <1>1, <1>5 DEF Doorbell, OneBell, Rings, IsIrq, Irqs, OnMain
<1>7. Unserved' \/ Ended'
  BY <1>1, <1>3, <1>6 DEF Unserved, Ended, Gone
<1> QED BY <1>1, <1>2, <1>4, <1>5, <1>7 DEF OneAtATime, Gone

\* The listener takes the header, then the vector, then delivers; or finds the
\* socket closed.
LEMMA LinkListener ==
  ASSUME LinkInv, Listener
  PROVE  OneAtATime' /\ EndsInv'
<1> USE DEF mainVars, simVars, termVars
<1>1. UNCHANGED <<toSim, raised, mpc, mfd, rcvtimeo, spc, activeSocket, open, tpc, shut>>
  BY DEF Listener, AsyncPoll, AsyncHup, AsyncHeader, AsyncPayload, AsyncFails, AsyncDeliver
<1>2. TypeOK /\ OneAtATime /\ EndsInv /\ Async \in Chans /\ Main # Async /\ irqs \in Nat
  BY ChansAre, CountsType DEF LinkInv
<1>3. EndsInv' /\ (Doorbell' <=> Doorbell) /\ (OneBell' <=> OneBell) /\ (Gone(Async)' <=> Gone(Async))
  BY <1>1, <1>2 DEF EndsInv, Gone, Doorbell, OneBell, Rings, IsIrq
<1>4. Irqs \in Seq(Unit) /\ Len(<<>>) = 0
  BY <1>2 DEF TypeOK, Irqs
<1>5. ASSUME ~torn'[Async], irqs' = irqs, lto' \in {lto, rcvtimeo[Async]}, Signalled' \/ Ended'
      PROVE  OneAtATime'
  BY <1>1, <1>2, <1>3, <1>5 DEF OneAtATime
<1>6. CASE AsyncPoll
  <2>1. /\ Irqs # <<>> \/ Gone(Async)
        /\ lpc = "poll" /\ lpc' = "hdr" /\ channel' = Async /\ lto' = rcvtimeo[Async]
        /\ UNCHANGED <<toBridge, torn, lpkt, irqs>>
    BY <1>6 DEF AsyncPoll, AsyncReadable, Irqs
  <2>2. Irqs' = Irqs /\ ~torn'[Async]
    BY <1>2, <2>1 DEF Irqs, OneAtATime
  <2>3. CASE Signalled
    <3>1. Signalled'
      BY <1>1, <1>2, <1>3, <2>1, <2>2, <2>3 DEF Signalled, HeaderSent, BothSent
    <3> QED BY <1>3, <1>5, <2>1, <2>2, <3>1
  <2>4. CASE Unserved
    <3>1. Ended'
      BY <1>3, <2>1, <2>2, <2>4 DEF Unserved, Ended
    <3> QED BY <1>3, <1>5, <2>1, <2>2, <3>1
  <2> QED BY <1>2, <2>1, <2>3, <2>4 DEF OneAtATime, Ended
<1>7. CASE AsyncHup
  <2>1. Gone(Async) /\ lpc = "poll" /\ lpc' = "gone" /\ UNCHANGED <<channel, torn, lto, irqs>>
    BY <1>7 DEF AsyncHup
  <2>2. OnMain
    BY <1>2, <2>1 DEF OneAtATime, Unserved, Signalled, Ended, OnMain
  <2>3. Ended'
    BY <1>1, <1>3, <2>1, <2>2 DEF Ended, OnMain
  <2> QED BY <1>2, <1>3, <1>5, <2>1, <2>3 DEF OneAtATime
<1>8. CASE AsyncHeader
  <2>1. PICK r \in HeaderReads(Async) :
          /\ Take(Async, r) /\ lpkt' = r.pkt
          /\ lpc' = IF r.pkt.len > 0 THEN "data" ELSE "deliver"
    BY <1>8 DEF AsyncHeader
  <2>2. lpc = "hdr" /\ Irqs # <<>> /\ lto' = rcvtimeo[Async] /\ UNCHANGED <<channel, irqs>>
    BY <1>8, <2>1 DEF AsyncHeader, HeaderReads, Irqs
  <2>3. Signalled /\ Irqs[1].k = "H" /\ Irqs[1].type = "MSG" /\ Head(Irqs) = Irqs[1]
        /\ \/ spc \in {"msg", "dead"} /\ Len(Irqs) = 1
           \/ spc # "msg" /\ Len(Irqs) = 2 /\ Irqs[2].k = "D"
    BY <1>2, <1>4, <2>2 DEF OneAtATime, Unserved, Signalled, Ended, HeaderSent, BothSent, VectorSent
  <2>4. r = [pkt |-> Header(Irqs[1]), rest |-> Tail(Irqs), torn |-> FALSE]
    BY <1>2, <2>1, <2>2, <2>3 DEF HeaderReads, Irqs, OneAtATime
  <2>5. r.pkt.len = 1 /\ r.pkt.type = "MSG" /\ r.rest = Tail(Irqs) /\ r.torn = FALSE
    BY <2>3, <2>4 DEF Header
  <2>6. lpc' = "data" /\ lpkt'.type = "MSG" /\ ~torn'[Async] /\ Irqs' = Tail(Irqs)
    BY <1>2, <2>1, <2>5 DEF Take, TypeOK, Irqs
  <2>7. Signalled'
    <3>1. CASE spc \in {"msg", "dead"} /\ Len(Irqs) = 1
      <4>1. Irqs' = <<>>
        BY <1>4, <2>6, <3>1
      <4> QED BY <1>1, <1>2, <1>3, <2>2, <2>3, <2>6, <3>1, <4>1 DEF Signalled
    <3>2. CASE spc # "msg" /\ Len(Irqs) = 2 /\ Irqs[2].k = "D"
      <4>1. Len(Irqs') = 1 /\ Irqs'[1] = Irqs[2]
        <5>1. Len(Irqs) = 2 /\ Irqs # <<>> /\ Irqs' = Tail(Irqs)
          BY <2>2, <2>6, <3>2
        <5>2. Len(Tail(Irqs)) = 1 /\ \A i \in 1 .. Len(Tail(Irqs)) : Tail(Irqs)[i] = Irqs[i + 1]
          BY <1>4, <5>1, HeadTailProperties
        <5>3. Tail(Irqs)[1] = Irqs[1 + 1]
          BY <5>2
        <5>4. 1 + 1 = 2
          OBVIOUS
        <5> QED BY <5>1, <5>2, <5>3, <5>4, Zenon
      <4> QED BY <1>1, <1>2, <1>3, <2>2, <2>3, <2>6, <3>2, <4>1 DEF Signalled, VectorSent
    <3> QED BY <2>3, <3>1, <3>2
  <2> QED BY <1>3, <1>5, <2>2, <2>6, <2>7
<1>9. CASE AsyncPayload
  <2>1. PICK r \in PayloadReads(Async) : Take(Async, r) /\ lpkt' = [lpkt EXCEPT !.val = r.val]
    BY <1>9 DEF AsyncPayload
  <2>2. lpc = "data" /\ lpc' = "deliver" /\ Irqs # <<>> /\ UNCHANGED <<channel, irqs, lto>>
    BY <1>9, <2>1 DEF AsyncPayload, PayloadReads, Irqs
  <2>3. Signalled /\ spc # "msg" /\ Len(Irqs) = 1 /\ Irqs[1].k = "D" /\ Head(Irqs) = Irqs[1]
        /\ lpkt.type = "MSG"
    BY <1>2, <1>4, <2>2 DEF OneAtATime, Unserved, Signalled, Ended, VectorSent
  <2>4. r = [val |-> Irqs[1].val, rest |-> Tail(Irqs), torn |-> FALSE]
    BY <1>2, <2>1, <2>2, <2>3 DEF PayloadReads, Irqs, OneAtATime
  <2>5. ~torn'[Async] /\ Irqs' = <<>> /\ lpkt'.type = "MSG"
    <3>1. Irqs' = Tail(Irqs) /\ ~torn'[Async]
      BY <1>2, <2>1, <2>4 DEF Take, TypeOK, Irqs
    <3>2. lpkt'.type = lpkt.type
      BY <1>2, <2>1 DEF TypeOK, Packet
    <3> QED BY <1>4, <2>3, <3>1, <3>2
  <2>6. Signalled'
    BY <1>1, <1>2, <1>3, <2>2, <2>3, <2>5 DEF Signalled
  <2> QED BY <1>3, <1>5, <2>2, <2>5, <2>6
<1>10. CASE AsyncFails
  <2>1. /\ lpc \in {"hdr", "data"} /\ Irqs = <<>>
        /\ Gone(Async) \/ lto
        /\ lpkt' = [lpkt EXCEPT !.type = "INVALID"] /\ lpc' = "deliver"
        /\ UNCHANGED <<channel, torn, toBridge, lto, irqs>>
    BY <1>10 DEF AsyncFails, Irqs
  <2>2. Gone(Async) /\ ~torn[Async] /\ channel = Async
    BY <1>2, <1>4, <2>1, ChansAre DEF OneAtATime, TypeOK, Unserved, Signalled, Ended,
                                        HeaderSent, BothSent, VectorSent
  <2>3. lpkt'.type = "INVALID" /\ Irqs' = <<>>
    BY <1>2, <2>1 DEF TypeOK, Packet, Irqs
  <2>4. Ended'
    BY <1>3, <2>1, <2>2, <2>3 DEF Ended
  <2> QED BY <1>3, <1>5, <2>1, <2>2, <2>4
<1>11. CASE AsyncDeliver
  <2>1. /\ lpc = "deliver" /\ channel' = ChannelAfter(lpkt)
        /\ irqs' = IF Triggers(lpkt) THEN irqs + 1 ELSE irqs
        /\ lpc' = IF Continues(lpkt) THEN "poll" ELSE "gone"
        /\ UNCHANGED <<torn, toBridge, lpkt, lto>>
    BY <1>11 DEF AsyncDeliver
  <2>2. Irqs' = Irqs /\ Irqs = <<>> /\ ~torn'[Async]
    BY <1>2, <1>4, <2>1 DEF OneAtATime, Unserved, Signalled, Ended, Irqs
  <2>3. CASE Signalled
    <3>1. lpkt.type = "MSG" /\ spc # "msg" /\ raised = irqs + 1 /\ ~Doorbell
      BY <2>1, <2>3 DEF Signalled
    <3>2. channel' = Main /\ irqs' = irqs + 1 /\ lpc' = "poll"
      BY <2>1, <3>1 DEF ChannelAfter, Triggers, Continues
    <3>3. mpc = "idle"
      BY <1>2, <3>1 DEF OneAtATime
    <3>4. Unserved'
      BY <1>1, <1>3, <2>2, <3>1, <3>2, <3>3 DEF Unserved, OneBell, Doorbell, OnMain
    <3> QED BY <1>1, <1>2, <1>3, <2>1, <2>2, <3>1, <3>2, <3>4 DEF OneAtATime
  <2>4. CASE Ended
    <3>1. lpkt.type = "INVALID" /\ channel = Async
      BY <2>1, <2>4 DEF Ended
    <3>2. channel' = Async /\ irqs' = irqs /\ lpc' = "gone"
      BY <2>1, <3>1 DEF ChannelAfter, Triggers, Continues
    <3>3. Ended'
      BY <1>3, <2>2, <2>4, <3>2 DEF Ended
    <3> QED BY <1>3, <1>5, <2>1, <2>2, <3>2, <3>3
  <2> QED BY <1>2, <2>1, <2>3, <2>4 DEF OneAtATime, Unserved
<1> QED BY <1>3, <1>6, <1>7, <1>8, <1>9, <1>10, <1>11 DEF Listener

\* A request is served from MAIN while both sockets are open; only a NACK may
\* come from ASYNC, and then nothing is left on MAIN.
LEMMA ServedFrom ==
  ASSUME LinkInv, NEW ch \in Chans, NEW type, Received(ch, type)
  PROVE  /\ spc = "poll" /\ Alive /\ open[ch] /\ open[Async]
         /\ type # "NACK" => ch = Main
         /\ ch = Async => srv' = NoRequest /\ toSim[Main] = <<>>
         /\ \A i \in 1 .. Len(toSim'[Async]) : toSim'[Async][i] = NoRequest
<1>1. spc = "poll" /\ Alive /\ open[ch] /\ TypeOK /\ EndsInv /\ Async \in Chans
  BY ChansAre DEF Received, Polled, Readable, LinkInv
<1>2. open[Async]
  BY <1>1 DEF EndsInv, Gone
<1>3. ch = Async => srv' = NoRequest /\ srv'.type = type /\ type = "NACK"
  BY <1>1, TakenOff DEF EndsInv, NoRequest
<1>4. ch \in {Main, Async}
  BY ChansAre
<1>5. ch = Async => toSim[Main] = <<>>
  BY <1>1 DEF Received, Polled, Readable, EndsInv, Gone
<1>6. \A i \in 1 .. Len(toSim'[Async]) : toSim'[Async][i] = NoRequest
  BY <1>1, TakenOff DEF EndsInv
<1> QED BY <1>1, <1>2, <1>3, <1>4, <1>5, <1>6

\* A request that is no doorbell leaves ASYNC alone.
LEMMA LinkServe ==
  ASSUME LinkInv, NEW type, type # "NACK", Received(Main, type), ~Rings(srv'),
         toBridge'[Async] = toBridge[Async], activeSocket' = Main, spc' \in {"poll", "ack"},
         UNCHANGED <<channel, rcvtimeo, torn, mpc, mfd, lpc, lpkt, lto, irqs, raised, open,
                     tpc, shut>>
  PROVE  OneAtATime' /\ EndsInv'
<1>1. Main \in Chans /\ TypeOK /\ OneAtATime /\ EndsInv /\ Irqs' = Irqs
  BY ChansAre DEF LinkInv, Irqs
<1>2. /\ spc = "poll" /\ open[Main] /\ open[Async]
      /\ \A i \in 1 .. Len(toSim'[Async]) : toSim'[Async][i] = NoRequest
  BY <1>1, ServedFrom
<1>3. (OneBell => OneBell') /\ (Doorbell' => Doorbell)
  BY <1>1, BellTaken
<1>4. EndsInv'
  BY <1>1, <1>2 DEF EndsInv, Gone
<1>5. Unserved' \/ Signalled'
  BY <1>1, <1>2, <1>3 DEF OneAtATime, Unserved, Signalled, Ended, Gone, OnMain,
                          HeaderSent, VectorSent, BothSent
<1> QED BY <1>1, <1>4, <1>5 DEF OneAtATime, Gone

\* The simulation turns the doorbell into a header, and adds the vector.
LEMMA LinkIrq ==
  ASSUME LinkInv, NEW ch \in Chans, SimIrq(ch)
  PROVE  OneAtATime' /\ EndsInv'
<1> USE DEF mainVars, listenerVars, termVars
<1> DEFINE u == [k |-> "H", type |-> "MSG", id |-> srv'.id, tag |-> 0, val |-> 0]
<1>0. TypeOK /\ OneAtATime /\ EndsInv
  BY DEF LinkInv
<1>1. Received(ch, "MEM_WR") /\ Rings(srv') /\ SimSend(Async, u)
  BY <1>0, TakenOff DEF SimIrq, Rings
<1>2. /\ ch = Main /\ spc = "poll" /\ srv' \in Request /\ open[Main] /\ open[Async]
      /\ \A i \in 1 .. Len(toSim'[Async]) : toSim'[Async][i] = NoRequest
  BY <1>0, <1>1, ServedFrom, ReceivedType
<1>3. u \in Unit
  BY <1>2, LinkAssumption DEF Unit, Request, Tags, Ids
<1>4. u.k = "H" /\ u.type = "MSG"
  OBVIOUS
<1> HIDE DEF u
<1>5. /\ spc' = "msg" /\ activeSocket' = ch
      /\ UNCHANGED <<channel, rcvtimeo, torn, mpc, mfd, lpc, lpkt, lto, irqs, raised, open,
                     tpc, shut>>
  BY DEF SimIrq
<1>6. Doorbell /\ (OneBell => ~Doorbell')
  BY <1>0, <1>1, <1>2, BellTaken
<1>7. Unserved /\ raised = irqs + 1 /\ Len(Irqs) = 0 /\ ~Doorbell'
  BY <1>0, <1>2, <1>6 DEF OneAtATime, Signalled, Unserved, Ended, Gone
<1>8. Len(Irqs') = 1 /\ Irqs'[1] = u
  <2>1. Len(Irqs') = Len(Irqs) + 1 /\ Irqs'[Len(Irqs) + 1] = u
    BY <1>0, <1>1, <1>2, <1>3, SimSent, ChansAre DEF Irqs
  <2> QED BY <1>7, <2>1
<1>9. Signalled'
  BY <1>4, <1>5, <1>7, <1>8 DEF Signalled, HeaderSent, Unserved, OnMain
<1>10. EndsInv'
  BY <1>0, <1>2, <1>5 DEF EndsInv, Gone
<1> QED BY <1>0, <1>5, <1>9, <1>10 DEF OneAtATime, Gone

LEMMA LinkVector ==
  ASSUME LinkInv, SimIrqVector
  PROVE  OneAtATime' /\ EndsInv'
<1> USE DEF mainVars, listenerVars, termVars
<1> DEFINE u == [k |-> "D", type |-> "MSG", id |-> srv.id, tag |-> 0, val |-> 0]
<1>0. TypeOK /\ OneAtATime /\ EndsInv
  BY DEF LinkInv
<1>1. spc = "msg" /\ SimSend(Async, u)
  BY DEF SimIrqVector
<1>2. u \in Unit /\ u.k = "D"
  BY <1>0, LinkAssumption DEF Unit, Request, Tags, TypeOK, Ids
<1> HIDE DEF u
<1>3. /\ spc' = "poll"
      /\ UNCHANGED <<toSim, activeSocket, channel, rcvtimeo, torn, mpc, mfd, lpc, lpkt, lto,
                     irqs, raised, open, tpc, shut>>
  BY DEF SimIrqVector
<1>4. EndsInv' /\ (Doorbell' <=> Doorbell) /\ open[Async]
  BY <1>0, <1>1, <1>3 DEF EndsInv, Gone, Doorbell, Rings, IsIrq
<1>5. Signalled
  BY <1>0, <1>1, <1>4 DEF OneAtATime, Unserved, Ended, Gone
<1>6. /\ Len(Irqs') = Len(Irqs) + 1 /\ Irqs'[Len(Irqs) + 1] = u
      /\ \A i \in 1 .. Len(Irqs) : Irqs'[i] = Irqs[i]
  BY <1>0, <1>1, <1>2, <1>4, SimSent, ChansAre DEF Irqs
<1>7. CASE HeaderSent /\ lpc \in {"poll", "hdr"}
  <2>1. Len(Irqs') = 2 /\ Irqs'[1] = Irqs[1] /\ Irqs'[2] = u
    BY <1>6, <1>7 DEF HeaderSent
  <2>2. Signalled'
    BY <1>2, <1>3, <1>4, <1>5, <1>7, <2>1 DEF Signalled, HeaderSent, BothSent
  <2> QED BY <1>0, <1>3, <1>4, <2>2 DEF OneAtATime, Gone
<1>8. CASE Irqs = <<>> /\ lpc = "data" /\ lpkt.type = "MSG"
  <2>1. Len(Irqs') = 1 /\ Irqs'[1] = u
    BY <1>6, <1>8
  <2>2. Signalled'
    BY <1>2, <1>3, <1>4, <1>5, <1>8, <2>1 DEF Signalled, VectorSent
  <2> QED BY <1>0, <1>3, <1>4, <2>2 DEF OneAtATime, Gone
<1> QED BY <1>1, <1>5, <1>7, <1>8 DEF Signalled

\* On an intact ASYNC socket the simulation hears nothing, so it does not end
\* on it before MAIN has ended.
LEMMA EndsEof ==
  ASSUME LinkInv, NEW ch \in Chans, SimEof(ch)
  PROVE  /\ shut /\ toSim[Main] = <<>> /\ toSim' = toSim /\ spc = "poll" /\ Alive
         /\ (spc' = "poll" /\ open'[Async] /\ ~open'[Main])
            \/ (spc' = "done" /\ \A c \in Chans : ~open'[c])
<1> USE DEF Gone
<1>1. /\ ch \in {Main, Async} /\ spc = "poll" /\ Alive /\ open[ch] /\ toSim[ch] = <<>> /\ shut
      /\ TypeOK /\ EndsInv /\ toSim' = toSim
  BY ChansAre DEF SimEof, Polled, Readable, Drained, LinkInv
<1>2. toSim[Main] = <<>>
  <2>1. CASE ch = Main
    BY <1>1, <2>1
  <2>2. CASE ch = Async
    BY <1>1, <2>2, ChansAre DEF SimEof, Polled, Readable, EndsInv
  <2> QED BY <1>1, <2>1, <2>2
<1>3. \/ spc' = "done" /\ open' = [c \in Chans |-> FALSE]
      \/ spc' = "poll" /\ activeSocket = ch /\ open[Other(ch)] /\ open' = [open EXCEPT ![ch] = FALSE]
  BY <1>1 DEF SimEof, Stop
<1>4. CASE spc' = "poll"
  <2>1. ch = Main
    BY <1>1, <1>3, <1>4, ChansAre DEF SimEof, Polled, Readable, Other
  <2> QED BY <1>1, <1>2, <1>3, <1>4, <2>1, ChansAre DEF TypeOK, Other
<1> QED BY <1>1, <1>2, <1>3, <1>4

LEMMA LinkSim ==
  ASSUME LinkInv, Sim \/ SimDies
  PROVE  OneAtATime' /\ EndsInv'
<1> USE DEF mainVars, listenerVars, termVars
<1>0. TypeOK /\ OneAtATime /\ EndsInv /\ Main \in Chans /\ Async \in Chans /\ Main # Async
  BY ChansAre DEF LinkInv
<1>1. ASSUME NEW ch \in Chans, SimWrite(ch) PROVE OneAtATime' /\ EndsInv'
  <2>1. Received(ch, "MEM_WR") /\ ch = Main /\ spc = "poll"
    BY <1>1, ServedFrom DEF SimWrite
  <2>2. ~Rings(srv')
    BY <1>1 DEF SimWrite, Rings
  <2> QED BY <1>1, <2>1, <2>2, LinkServe DEF SimWrite
<1>2. ASSUME NEW ch \in Chans, SimRead(ch) PROVE OneAtATime' /\ EndsInv'
  <2>1. Received(ch, "MEM_RD") /\ ch = Main
    BY <1>2, ServedFrom DEF SimRead
  <2>2. toBridge'[Async] = toBridge[Async]
    BY <1>0, <1>2, <2>1 DEF SimRead, SimSend, TypeOK
  <2>3. ~Rings(srv')
    BY <1>0, <2>1, TakenOff DEF Rings
  <2> QED BY <1>2, <2>1, <2>2, <2>3, LinkServe DEF SimRead
<1>3. ASSUME UNCHANGED <<toSim, channel, rcvtimeo, torn, mpc, mfd, lpc, lpkt, lto, irqs, raised,
                         tpc, shut>>,
             toBridge'[Async] = toBridge[Async], spc # "msg" \/ (spc' = "dead" /\ Gone(Async)'),
             spc' # "msg", Gone(Async) => Gone(Async)' /\ spc' = spc,
             spc = "dead" => spc' = "dead"
      PROVE  OneAtATime'
  <2>1. (Doorbell' <=> Doorbell) /\ (OneBell' <=> OneBell) /\ Irqs' = Irqs /\ (OnMain' <=> OnMain)
    BY <1>3 DEF Doorbell, OneBell, Rings, IsIrq, Irqs, OnMain
  <2>2. Unserved' \/ Signalled' \/ Ended'
    BY <1>0, <1>3, <2>1 DEF OneAtATime, Unserved, Signalled, Ended, HeaderSent, VectorSent, BothSent
  <2> QED BY <1>0, <1>3, <2>2 DEF OneAtATime, Gone
<1>4. CASE SimReadData
  <2>1. /\ spc = "ack" /\ spc' = "poll" /\ activeSocket = Main /\ open' = open /\ open[Main]
        /\ ~Gone(Async)
        /\ UNCHANGED <<toSim, activeSocket, channel, rcvtimeo, torn, mpc, mfd, lpc, lpkt, lto,
                       irqs, raised, tpc, shut>>
    BY <1>0, <1>4 DEF SimReadData, EndsInv
  <2>2. toBridge'[Async] = toBridge[Async]
    BY <1>0, <1>4, <2>1 DEF SimReadData, SimSend, TypeOK
  <2>3. EndsInv'
    BY <1>0, <2>1 DEF EndsInv, Gone
  <2> QED BY <1>3, <2>1, <2>2, <2>3
<1>5. ASSUME NEW ch \in Chans, SimNack(ch) PROVE OneAtATime' /\ EndsInv'
  <2>1. /\ Received(ch, "NACK") /\ spc' = "done" /\ \A c \in Chans : ~open'[c]
        /\ UNCHANGED <<channel, rcvtimeo, torn, toBridge, mpc, mfd, lpc, lpkt, lto, irqs,
                       raised, tpc, shut>>
    BY <1>5 DEF SimNack, Stop
  <2>2. spc = "poll" /\ \A i \in 1 .. Len(toSim'[Async]) : toSim'[Async][i] = NoRequest
    BY <2>1, ServedFrom
  <2>3. EndsInv'
    BY <1>0, <2>1, <2>2 DEF EndsInv, Gone
  <2>4. (OneBell => OneBell') /\ (Doorbell' => Doorbell) /\ Irqs' = Irqs /\ (OnMain' <=> OnMain)
    BY <1>0, <2>1, BellTaken DEF Irqs, OnMain
  <2>5. ~Gone(Async)
    BY <1>0, <2>2 DEF EndsInv
  <2>6. Unserved' \/ Signalled'
    BY <1>0, <2>1, <2>2, <2>4, <2>5 DEF OneAtATime, Unserved, Signalled, Ended, HeaderSent, VectorSent,
                                        BothSent
  <2> QED BY <1>0, <2>1, <2>3, <2>6 DEF OneAtATime, Gone
<1>6. ASSUME NEW ch \in Chans, SimEof(ch) PROVE OneAtATime' /\ EndsInv'
  <2>1. /\ spc = "poll" /\ toSim[Main] = <<>> /\ shut /\ toSim' = toSim
        /\ (spc' = "poll" /\ open'[Async] /\ ~open'[Main])
           \/ (spc' = "done" /\ \A c \in Chans : ~open'[c])
    BY <1>6, EndsEof
  <2>2. EndsInv'
    BY <1>0, <1>6, <2>1 DEF EndsInv, Gone, SimEof
  <2>3. ~Gone(Async)
    BY <1>0, <2>1 DEF EndsInv
  <2>4. UNCHANGED <<channel, rcvtimeo, torn, toBridge, mpc, mfd, lpc, lpkt, lto, irqs, raised, tpc, shut>>
    BY <1>6 DEF SimEof
  <2> QED BY <1>3, <2>1, <2>2, <2>3, <2>4
<1>7. CASE SimDies
  <2>1. /\ spc' = "dead" /\ spc \notin {"done", "dead"} /\ \A c \in Chans : ~open'[c]
        /\ UNCHANGED <<toSim, toBridge, channel, rcvtimeo, torn, mpc, mfd, lpc, lpkt, lto,
                       irqs, raised, tpc, shut>>
    BY <1>7 DEF SimDies
  <2>2. EndsInv' /\ ~Gone(Async) /\ Gone(Async)'
    BY <1>0, <2>1 DEF EndsInv, Gone
  <2> QED BY <1>3, <2>1, <2>2
<1> QED BY <1>1, <1>2, <1>4, <1>5, <1>6, <1>7, LinkIrq, LinkVector DEF Sim

LEMMA LinkTerminate ==
  ASSUME LinkInv, Sigint \/ Disconnect \/ Exit \/ MainReturns
  PROVE  OneAtATime' /\ EndsInv'
<1> USE DEF mainVars, listenerVars, simVars
<1>0. TypeOK /\ OneAtATime /\ EndsInv
  BY DEF LinkInv
<1>1. CASE Sigint
  <2>1. /\ Send(channel, NoRequest) /\ NoRequest \in Request /\ ~Rings(NoRequest)
        /\ tpc = "wait" /\ tpc' = "nack"
        /\ UNCHANGED <<channel, rcvtimeo, torn, toBridge, shut, mpc, mfd, lpc, lpkt, lto, irqs,
                       raised, spc, activeSocket, open>>
    BY <1>1, NoRequestType DEF Sigint, Rings, NoRequest
  <2>2. EndsInv'
    BY <1>0, <2>1, SentByBridge DEF EndsInv
  <2>3. (Doorbell' => Doorbell) /\ (OneBell => OneBell') /\ Irqs' = Irqs /\ (OnMain' <=> OnMain)
    BY <1>0, <2>1, BellSent DEF Irqs, OnMain
  <2>4. Unserved' \/ Signalled' \/ Ended'
    BY <1>0, <2>1, <2>3 DEF OneAtATime, Unserved, Signalled, Ended, Gone, HeaderSent, VectorSent,
                            BothSent
  <2> QED BY <1>0, <2>1, <2>2, <2>4 DEF OneAtATime, Gone
<1>2. CASE Disconnect \/ Exit \/ MainReturns
  <2>1. /\ UNCHANGED <<toSim, channel, rcvtimeo, torn, toBridge, mpc, mfd, lpc, lpkt, lto, irqs,
                       raised, activeSocket, open>>
        /\ spc' = spc \/ spc' = (IF spc = "done" THEN "done" ELSE "dead")
        /\ shut' => shut \/ tpc' = "shut"
        /\ shut => shut'
        /\ tpc' = "exit" \/ (tpc = "nack" /\ tpc' = "shut")
    BY <1>2 DEF Disconnect, Exit, MainReturns, EndProcess
  <2>2. EndsInv'
    BY <1>0, <2>1 DEF EndsInv, Gone
  <2>3. (Doorbell' <=> Doorbell) /\ (OneBell' <=> OneBell) /\ Irqs' = Irqs /\ (OnMain' <=> OnMain)
    BY <2>1 DEF Doorbell, OneBell, Rings, IsIrq, Irqs, OnMain
  <2>4. Unserved' \/ Signalled' \/ Ended'
    BY <1>0, <2>1, <2>3 DEF OneAtATime, Unserved, Signalled, Ended, Gone, HeaderSent, VectorSent,
                            BothSent
  <2> QED BY <1>0, <2>1, <2>2, <2>4 DEF OneAtATime, Gone
<1> QED BY <1>1, <1>2

LEMMA LinkStep ==
  ASSUME GuestWaits \/ NoDoorbell, LinkInv, [Next]_vars
  PROVE  LinkInv'
<1>1. CASE UNCHANGED vars
  <2>1. OneAtATime'
    BY <1>1 DEF vars, mainVars, listenerVars, simVars, termVars, LinkInv, OneAtATime, Unserved,
                Signalled, Ended, OnMain, Doorbell, OneBell, Rings, IsIrq, Irqs, HeaderSent,
                VectorSent, BothSent, Gone
  <2>2. EndsInv'
    BY <1>1 DEF vars, simVars, termVars, LinkInv, EndsInv, Gone
  <2> QED BY <1>1, <2>1, <2>2, TypeStep DEF LinkInv
<1> QED
  BY <1>1, TypeStep, LinkGuest, LinkMain, LinkListener, LinkSim, LinkTerminate DEF Next, LinkInv

LEMMA LinkInvariant ==
  ASSUME GuestWaits \/ NoDoorbell
  PROVE  Spec => []LinkInv
BY LinkInit, LinkStep, PTL DEF Spec

(* The main thread's requests travel on MAIN, as the bridge's              *)
(* documentation draws it, although the listener points the shared channel *)
(* at ASYNC for each interrupt: so long as the guest waits for the         *)
(* interrupt it has asked for before it accesses the device again, as the  *)
(* agent's test does, or rings no doorbell at all.                         *)
THEOREM RequestsStayOnMain ==
  ASSUME GuestWaits \/ NoDoorbell
  PROVE  Spec => []RequestsOnMain
<1>1. LinkInv => RequestsOnMain
  BY DEF LinkInv, EndsInv, RequestsOnMain, NoRequest
<1> QED BY <1>1, LinkInvariant, PTL

-----------------------------------------------------------------------------
(* Interrupts, as long as the guest makes no reads: a read on ASYNC would   *)
(* take the listener's packets and lose the boundaries between them.       *)

NoReads ==
  /\ mpc = "idle" /\ ~lto /\ spc # "ack"
  /\ \A ch \in Chans : ~rcvtimeo[ch]
  /\ \A ch \in Chans : \A i \in 1 .. Len(toSim[ch]) : toSim[ch][i].type # "MEM_RD"

\* Header and vector alternate on ASYNC; the listener starts with a header,
\* the simulation never ends with one.
MsiFrame ==
  /\ ~torn[Async] /\ lpkt.type \in {"MSG", "INVALID"}
  /\ lpc = "poll" => channel = Main
  /\ \A i \in 1 .. Len(Irqs) : Irqs[i].type = "MSG"
  /\ \A i \in 1 .. Len(Irqs) - 1 : Irqs[i].k # Irqs[i + 1].k
  /\ Len(Irqs) > 0 /\ lpc # "gone" => Irqs[1].k = IF lpc = "data" THEN "D" ELSE "H"
  /\ Len(Irqs) > 0 /\ open[Async] /\ spc \in {"msg", "poll"} =>
       Irqs[Len(Irqs)].k = IF spc = "msg" THEN "H" ELSE "D"
  /\ Len(Irqs) = 0 /\ open[Async] /\ spc \in {"msg", "poll"} /\ lpc # "gone" =>
       (lpc = "data" <=> spc = "msg")

LEMMA AsyncHeaderTaken ==
  ASSUME TypeOK, MsiFrame, AsyncHeader
  PROVE  /\ lpc = "hdr" /\ lpc' = "data" /\ lpkt' = Header(Irqs[1]) /\ ~torn'[Async]
         /\ 1 \in 1 .. Len(Irqs) /\ Irqs[1].k = "H" /\ Len(Irqs') = Len(Irqs) - 1
         /\ \A i \in 1 .. Len(Irqs') : i + 1 \in 1 .. Len(Irqs) /\ Irqs'[i] = Irqs[i + 1]
<1>1. PICK r \in HeaderReads(Async) :
        /\ Take(Async, r)
        /\ lpkt' = r.pkt
        /\ lpc' = IF r.pkt.len > 0 THEN "data" ELSE "deliver"
  BY DEF AsyncHeader
<1>2. Irqs # <<>> /\ lpc = "hdr" /\ Irqs \in Seq(Unit)
  BY <1>1, ChansAre DEF HeaderReads, AsyncHeader, Irqs, TypeOK
<1>3. Head(Irqs) = Irqs[1] /\ Len(Irqs) > 0
  BY <1>2
<1>4. Irqs[1].k = "H" /\ ~torn[Async]
  BY <1>2, <1>3 DEF MsiFrame
<1>5. r = [pkt |-> Header(Irqs[1]), rest |-> Tail(Irqs), torn |-> FALSE]
  BY <1>1, <1>2, <1>3, <1>4 DEF HeaderReads, Irqs
<1>6. r.pkt.len = 1 /\ r.pkt = Header(Irqs[1]) /\ r.rest = Tail(Irqs) /\ r.torn = FALSE
  BY <1>5 DEF Header
<1> QED BY <1>1, <1>2, <1>4, <1>6, ChansAre, Taking DEF Irqs

LEMMA AsyncPayloadTaken ==
  ASSUME TypeOK, MsiFrame, AsyncPayload
  PROVE  /\ lpc = "data" /\ lpc' = "deliver" /\ ~torn'[Async]
         /\ lpkt'.type = lpkt.type /\ lpkt'.id = lpkt.id
         /\ 1 \in 1 .. Len(Irqs) /\ Irqs[1].k = "D" /\ Len(Irqs') = Len(Irqs) - 1
         /\ \A i \in 1 .. Len(Irqs') : i + 1 \in 1 .. Len(Irqs) /\ Irqs'[i] = Irqs[i + 1]
<1>1. PICK r \in PayloadReads(Async) : Take(Async, r) /\ lpkt' = [lpkt EXCEPT !.val = r.val]
  BY DEF AsyncPayload
<1>2. Irqs # <<>> /\ lpc = "data" /\ lpc' = "deliver" /\ Irqs \in Seq(Unit)
  BY <1>1, ChansAre DEF PayloadReads, AsyncPayload, Irqs, TypeOK
<1>3. Head(Irqs) = Irqs[1] /\ Len(Irqs) > 0
  BY <1>2
<1>4. Irqs[1].k = "D" /\ ~torn[Async]
  BY <1>2, <1>3 DEF MsiFrame
<1>5. r = [val |-> Irqs[1].val, rest |-> Tail(Irqs), torn |-> FALSE]
  BY <1>1, <1>2, <1>3, <1>4 DEF PayloadReads, Irqs
<1>6. r.rest = Tail(Irqs) /\ r.torn = FALSE
  BY <1>5
<1>7. lpkt'.type = lpkt.type /\ lpkt'.id = lpkt.id
  BY <1>1 DEF TypeOK, Packet
<1> QED BY <1>1, <1>2, <1>4, <1>6, <1>7, ChansAre, Taking DEF Irqs

LEMMA NoReadsStep ==
  ASSUME "rd" \notin Ops, TypeOK, NoReads, [Next]_vars
  PROVE  NoReads'
<1> USE DEF mainVars, listenerVars, simVars, termVars
<1>1. ASSUME NEW a \in Addrs, NEW op \in {"wr", "irq"}, PcieBridgeWrite(a, op)
      PROVE  NoReads'
  <2> DEFINE p == [type |-> "MEM_WR", id |-> tx + 1, tag |-> Tag(tx + 1),
                   addr |-> a, msi |-> op = "irq"]
  <2>1. p \in Request /\ p.type # "MEM_RD"
    <3>1. tx \in Nat /\ tx + 1 \in Ids
      BY <1>1, LinkAssumption DEF PcieBridgeWrite, TypeOK, Ids
    <3> QED BY <3>1, TagType DEF Request
  <2>2. Send(channel, p) /\ channel \in Chans
    BY <1>1 DEF PcieBridgeWrite, TypeOK
  <2> HIDE DEF p
  <2>3. ASSUME NEW c \in Chans, NEW i \in 1 .. Len(toSim'[c])
        PROVE  toSim'[c][i].type # "MEM_RD"
    BY <2>1, <2>2, SentOn DEF NoReads
  <2> QED BY <1>1, <2>3 DEF PcieBridgeWrite, NoReads
<1>2. ~(\E a \in Addrs : PcieBridgeRead(a))
  BY DEF PcieBridgeRead
<1>3. ~MainThread
  BY DEF NoReads, MainThread, SetTimeout, SelectSocket, ReceiveHeader, ReceivePayload,
         ReceiveFails, Finish
<1>4. CASE Listener
  BY <1>4, ChansAre DEF Listener, AsyncPoll, AsyncHup, AsyncHeader, AsyncPayload, AsyncFails,
                        AsyncDeliver, NoReads
<1>5. ASSUME NEW ch \in Chans, NEW type, Received(ch, type), spc' # "ack",
             UNCHANGED <<mpc, lto, rcvtimeo>>
      PROVE  NoReads'
  BY <1>5, TakenOff DEF NoReads
<1>6. ~SimReadData /\ \A ch \in Chans : ~SimRead(ch)
  BY TakenOff DEF SimReadData, SimRead, NoReads
<1>7. ASSUME NEW ch \in Chans, SimWrite(ch) \/ SimIrq(ch) \/ SimNack(ch)
      PROVE  NoReads'
  BY <1>5, <1>7 DEF SimWrite, SimIrq, SimNack, Stop, NoReads
<1>8. ASSUME NEW ch \in Chans, SimEof(ch)
      PROVE  NoReads'
  BY <1>8 DEF SimEof, Stop, NoReads
<1>9. CASE SimIrqVector \/ SimDies \/ Disconnect \/ Exit \/ MainReturns \/ UNCHANGED vars
  BY <1>9 DEF SimIrqVector, SimDies, Disconnect, Exit, MainReturns, EndProcess, vars, NoReads
<1>10. CASE Sigint
  <2>1. Send(channel, NoRequest) /\ channel \in Chans
    BY <1>10 DEF Sigint, TypeOK
  <2>2. ASSUME NEW c \in Chans, NEW i \in 1 .. Len(toSim'[c])
        PROVE  toSim'[c][i].type # "MEM_RD"
    <3>1. NoRequest.type # "MEM_RD"
      BY DEF NoRequest
    <3> QED BY <2>1, <3>1, NoRequestType, SentOn DEF NoReads
  <2> QED BY <1>10, <2>2 DEF Sigint, NoReads
<1> QED BY <1>1, <1>2, <1>3, <1>4, <1>6, <1>7, <1>8, <1>9, <1>10 DEF Next, Guest, Sim

LEMMA IrqsType ==
  ASSUME TypeOK
  PROVE  /\ Len(Irqs) \in Nat
         /\ \A i \in 1 .. Len(Irqs) : /\ Irqs[i] \in Unit /\ Irqs[i].k \in {"H", "D"}
                                      /\ Irqs[i].id \in Nat
<1>1. Irqs \in Seq(Unit)
  BY ChansAre DEF TypeOK, Irqs
<1>2. \A i \in 1 .. Len(Irqs) : Irqs[i] \in Unit
  BY <1>1
<1>3. \A u \in Unit : u.k \in {"H", "D"} /\ u.id \in Nat
  BY LinkAssumption DEF Unit, Ids
<1> QED BY <1>1, <1>2, <1>3

\* Steps that leave the stream of ASYNC alone.
LEMMA MsiStill ==
  ASSUME MsiFrame, UNCHANGED <<toBridge, torn>>,
         lpkt'.type \in {"MSG", "INVALID"}, lpc' = "poll" => channel' = Main,
         lpc' = "data" <=> lpc = "data", lpc = "gone" => lpc' = "gone",
         open'[Async] => open[Async], spc' \in {spc, "done", "dead"}
  PROVE  MsiFrame'
<1>1. Irqs' = Irqs
  BY DEF Irqs
<1>2. lpc' # "gone" => lpc # "gone"
  OBVIOUS
<1> QED BY <1>1, <1>2 DEF MsiFrame

LEMMA MsiSend ==
  ASSUME TypeOK, MsiFrame, UNCHANGED <<torn, lpkt, lpc, channel, open>>,
         NEW u \in Unit, SimSend(Async, u), u.type = "MSG",
         \/ u.k = "H" /\ spc = "poll" /\ spc' = "msg"
         \/ u.k = "D" /\ spc = "msg" /\ spc' = "poll"
  PROVE  MsiFrame'
<1> DEFINE n == Len(Irqs)
<1>1. n \in Nat /\ \A i \in 1 .. n : Irqs[i].k \in {"H", "D"}
  BY IrqsType
<1>2. CASE ~open[Async]
  <2>1. Irqs' = Irqs
    BY <1>2, SimSent, ChansAre DEF Irqs
  <2> QED BY <1>2, <2>1 DEF MsiFrame
<1>3. CASE open[Async]
  <2>1. /\ Len(Irqs') = n + 1 /\ Irqs'[n + 1] = u
        /\ \A i \in 1 .. n : Irqs'[i] = Irqs[i]
    BY <1>3, SimSent, ChansAre DEF Irqs
  <2>2. n > 0 => Irqs[n].k # u.k
    BY <1>3 DEF MsiFrame
  <2>3. n = 0 /\ lpc # "gone" => (lpc = "data" <=> u.k = "D")
    BY <1>3 DEF MsiFrame
  <2>4. \A i \in 1 .. n - 1 : i + 1 \in 1 .. n /\ Irqs[i].k # Irqs[i + 1].k
    BY <1>1 DEF MsiFrame
  <2>5. \A i \in 1 .. n : Irqs[i].type = "MSG"
    BY DEF MsiFrame
  <2>6. n > 0 /\ lpc # "gone" => Irqs[1].k = IF lpc = "data" THEN "D" ELSE "H"
    BY DEF MsiFrame
  <2>7. ~torn[Async] /\ lpkt.type \in {"MSG", "INVALID"} /\ (lpc = "poll" => channel = Main)
    BY DEF MsiFrame
  <2> HIDE DEF n
  <2>8. ASSUME NEW i \in 1 .. n + 1 PROVE Irqs'[i].type = "MSG"
    <3>1. i \in 1 .. n \/ i = n + 1
      BY <1>1
    <3> QED BY <2>1, <2>5, <3>1
  <2>9. ASSUME NEW i \in 1 .. (n + 1) - 1 PROVE Irqs'[i].k # Irqs'[i + 1].k
    <3>1. CASE i = n
      <4>1. n > 0 /\ i \in 1 .. n
        BY <1>1, <3>1
      <4> QED BY <2>1, <2>2, <3>1, <4>1
    <3>2. CASE i # n
      <4>1. i \in 1 .. n - 1 /\ i \in 1 .. n
        BY <1>1, <3>2
      <4> QED BY <2>1, <2>4, <4>1
    <3> QED BY <3>1, <3>2
  <2>10. lpc # "gone" => Irqs'[1].k = IF lpc = "data" THEN "D" ELSE "H"
    <3>1. CASE n = 0
      BY <2>1, <2>3, <3>1 DEF Unit
    <3>2. CASE n # 0
      <4>1. n > 0 /\ 1 \in 1 .. n
        BY <1>1, <3>2
      <4> QED BY <2>1, <2>6, <4>1
    <3> QED BY <3>1, <3>2
  <2>11. Len(Irqs') > 0 /\ Len(Irqs') # 0
    BY <1>1, <2>1
  <2> QED BY <2>1, <2>7, <2>8, <2>9, <2>10, <2>11 DEF MsiFrame
<1> QED BY <1>2, <1>3

LEMMA MsiTake ==
  ASSUME TypeOK, MsiFrame, ~torn'[Async], lpkt'.type \in {"MSG", "INVALID"},
         1 \in 1 .. Len(Irqs), Len(Irqs') = Len(Irqs) - 1,
         \A i \in 1 .. Len(Irqs') : i + 1 \in 1 .. Len(Irqs) /\ Irqs'[i] = Irqs[i + 1],
         \/ Irqs[1].k = "H" /\ lpc = "hdr" /\ lpc' = "data"
         \/ Irqs[1].k = "D" /\ lpc = "data" /\ lpc' = "deliver",
         UNCHANGED <<open, spc>>
  PROVE  MsiFrame'
<1> DEFINE n == Len(Irqs)
<1>1. n \in Nat /\ n > 0 /\ \A i \in 1 .. n : Irqs[i].k \in {"H", "D"}
  BY IrqsType
<1>2. \A i \in 1 .. n - 1 : /\ Irqs'[i] = Irqs[i + 1] /\ i + 1 \in 1 .. n
                            /\ Irqs[i].k # Irqs[i + 1].k
  BY <1>1 DEF MsiFrame
<1>3. \A i \in 1 .. n : Irqs[i].type = "MSG"
  BY DEF MsiFrame
<1>4. open[Async] /\ spc \in {"msg", "poll"} => Irqs[n].k = IF spc = "msg" THEN "H" ELSE "D"
  BY <1>1 DEF MsiFrame
<1>5. Len(Irqs') = n - 1
  OBVIOUS
<1> HIDE DEF n
<1>6. \A i \in 1 .. n - 1 : Irqs'[i].type = "MSG"
  BY <1>2, <1>3
<1>7. ASSUME NEW i \in 1 .. (n - 1) - 1 PROVE Irqs'[i].k # Irqs'[i + 1].k
  <2>1. i \in 1 .. n - 1 /\ i + 1 \in 1 .. n - 1
    BY <1>1
  <2> QED BY <1>2, <2>1
<1>8. n - 1 > 0 => Irqs'[1].k = IF lpc' = "data" THEN "D" ELSE "H"
  <2> SUFFICES ASSUME n - 1 > 0 PROVE Irqs'[1].k = IF lpc' = "data" THEN "D" ELSE "H"
    OBVIOUS
  <2>1. 1 \in 1 .. n - 1 /\ 2 \in 1 .. n
    BY <1>1
  <2>2. Irqs'[1] = Irqs[2] /\ Irqs[1].k # Irqs[2].k /\ Irqs[2].k \in {"H", "D"}
    BY <1>1, <1>2, <2>1
  <2> QED BY <2>2
<1>9. n - 1 > 0 => Irqs'[n - 1] = Irqs[n]
  <2> SUFFICES ASSUME n - 1 > 0 PROVE Irqs'[n - 1] = Irqs[n]
    OBVIOUS
  <2>1. n - 1 \in 1 .. n - 1 /\ (n - 1) + 1 = n
    BY <1>1
  <2> QED BY <1>2, <2>1
<1>10. n - 1 = 0 => n = 1
  BY <1>1
<1>11. lpc' # "poll"
  OBVIOUS
<1>12. n - 1 = 0 /\ open[Async] /\ spc \in {"msg", "poll"} => (lpc' = "data" <=> spc = "msg")
  BY <1>4, <1>10
<1> QED BY <1>4, <1>5, <1>6, <1>7, <1>8, <1>9, <1>11, <1>12 DEF MsiFrame

LEMMA MsiFrameStep ==
  ASSUME "rd" \notin Ops, TypeOK, NoReads, NoReads', MsiFrame, [Next]_vars
  PROVE  MsiFrame'
<1> USE DEF mainVars, listenerVars, simVars, termVars
<1>0. lpkt.type \in {"MSG", "INVALID"} /\ (lpc = "poll" => channel = Main) /\ 0 \in Ids /\ 0 \in Tags
  BY LinkAssumption DEF MsiFrame, Ids, Tags
<1>1. ~MainThread /\ ~SimReadData /\ \A ch \in Chans : ~SimRead(ch)
  BY TakenOff DEF NoReads, MainThread, SetTimeout, SelectSocket, ReceiveHeader, ReceivePayload,
         ReceiveFails, Finish, SimReadData, SimRead
<1>2. CASE Guest
  <2>1. UNCHANGED <<toBridge, torn, channel, listenerVars, open, spc>>
    BY <1>2 DEF Guest, PcieBridgeRead, PcieBridgeWrite
  <2> QED BY <1>0, <2>1, MsiStill
<1>3. CASE AsyncPoll \/ AsyncHup
  BY <1>0, <1>3, MsiStill DEF AsyncPoll, AsyncHup
<1>4. CASE AsyncHeader
  <2>1. UNCHANGED <<open, spc>>
    BY <1>4 DEF AsyncHeader
  <2>2. lpkt'.type = "MSG"
    BY <1>4, AsyncHeaderTaken DEF MsiFrame, Header
  <2> QED BY <1>4, <2>1, <2>2, AsyncHeaderTaken, MsiTake
<1>5. CASE AsyncPayload
  <2>1. UNCHANGED <<open, spc>>
    BY <1>5 DEF AsyncPayload
  <2> QED BY <1>0, <1>5, <2>1, AsyncPayloadTaken, MsiTake
<1>6. CASE AsyncFails
  <2>1. /\ ~open[Async] /\ Len(Irqs) = 0 /\ lpc' = "deliver"
        /\ UNCHANGED <<toBridge, torn, channel, open, spc>>
    BY <1>6 DEF AsyncFails, NoReads, Gone, Irqs
  <2>2. lpkt'.type = "INVALID"
    BY <1>6 DEF AsyncFails, TypeOK, Packet
  <2> QED BY <2>1, <2>2 DEF MsiFrame, Irqs
<1>7. CASE AsyncDeliver
  BY <1>0, <1>7, MsiStill DEF AsyncDeliver, ChannelAfter, Continues
<1>8. ASSUME NEW ch \in Chans, SimWrite(ch) PROVE MsiFrame'
  BY <1>0, <1>8, MsiStill DEF SimWrite
<1>9. ASSUME NEW ch \in Chans, SimIrq(ch) PROVE MsiFrame'
  <2> DEFINE u == [k |-> "H", type |-> "MSG", id |-> srv'.id, tag |-> 0, val |-> 0]
  <2>1. SimSend(Async, u) /\ spc = "poll" /\ spc' = "msg"
    BY <1>9 DEF SimIrq, Received, Polled
  <2>2. srv' \in Request
    BY <1>9, ReceivedType DEF SimIrq
  <2>3. u \in Unit
    BY <1>0, <2>2 DEF Unit, Request
  <2>4. UNCHANGED <<torn, lpkt, lpc, channel, open>>
    BY <1>9 DEF SimIrq
  <2>5. u.k = "H" /\ u.type = "MSG"
    OBVIOUS
  <2> HIDE DEF u
  <2> QED BY <2>1, <2>3, <2>4, <2>5, MsiSend
<1>10. CASE SimIrqVector
  <2> DEFINE u == [k |-> "D", type |-> "MSG", id |-> srv.id, tag |-> 0, val |-> 0]
  <2>1. SimSend(Async, u) /\ spc = "msg" /\ spc' = "poll"
    BY <1>10 DEF SimIrqVector
  <2>2. u \in Unit
    BY <1>0 DEF Unit, Request, TypeOK
  <2>3. UNCHANGED <<torn, lpkt, lpc, channel, open>>
    BY <1>10 DEF SimIrqVector
  <2>4. u.k = "D" /\ u.type = "MSG"
    OBVIOUS
  <2> HIDE DEF u
  <2> QED BY <2>1, <2>2, <2>3, <2>4, MsiSend
<1>11. ASSUME NEW ch \in Chans, SimNack(ch) PROVE MsiFrame'
  BY <1>0, <1>11, ChansAre, MsiStill DEF SimNack, Stop
<1>12. ASSUME NEW ch \in Chans, SimEof(ch) PROVE MsiFrame'
  <2>1. open'[Async] => open[Async]
    BY <1>12, ChansAre DEF SimEof, Stop, TypeOK
  <2> QED BY <1>0, <1>12, <2>1, MsiStill DEF SimEof, Stop
<1>13. CASE SimDies
  <2>1. open'[Async] => open[Async]
    BY <1>13, ChansAre DEF SimDies
  <2> QED BY <1>0, <1>13, <2>1, MsiStill DEF SimDies
<1>14. CASE Sigint \/ Disconnect \/ Exit \/ MainReturns \/ UNCHANGED vars
  <2>1. /\ UNCHANGED <<toBridge, torn, channel, lpc, lpkt, open>> /\ spc' \in {spc, "done", "dead"}
    BY <1>14 DEF Sigint, Disconnect, Exit, MainReturns, EndProcess, vars
  <2> QED BY <1>0, <2>1, MsiStill
<1> QED
  BY <1>1, <1>2, <1>3, <1>4, <1>5, <1>6, <1>7, <1>8, <1>9, <1>10, <1>11, <1>12, <1>13, <1>14
     DEF Next, Listener, Sim

\* An interrupt under way is a request, then a header on ASYNC, then the
\* packet of the listener, and only ever one of them.
Raising(n) == \E i \in 1 .. Len(Irqs) : Irqs[i].k = "H" /\ Irqs[i].id = n
Held(n)    == lpc \in {"data", "deliver"} /\ lpkt.type = "MSG" /\ lpkt.id = n
Asked(n)   == \E ch \in Chans : \E i \in 1 .. Len(toSim[ch]) :
                /\ toSim[ch][i].type # "NACK" /\ IsIrq(toSim[ch][i])
                /\ toSim[ch][i].id = n

OnceInv ==
  /\ \A c, d \in Chans : \A i \in 1 .. Len(toSim[c]), j \in 1 .. Len(toSim[d]) :
       toSim[c][i].type # "NACK" /\ toSim[d][j].type # "NACK" =>
         (toSim[c][i].id = toSim[d][j].id => c = d /\ i = j)
  /\ \A c \in Chans : \A i \in 1 .. Len(toSim[c]) :
       toSim[c][i].type # "NACK" =>
         /\ toSim[c][i].id \in 1 .. tx
         /\ ~Raising(toSim[c][i].id) /\ ~Held(toSim[c][i].id)
  /\ \A i, j \in 1 .. Len(Irqs) :
       Irqs[i].k = "H" /\ Irqs[j].k = "H" /\ Irqs[i].id = Irqs[j].id => i = j
  /\ \A n \in Nat : Raising(n) => n \in 1 .. tx /\ ~Held(n)
  /\ \A n \in Nat : Held(n) => n \in 1 .. tx

InFlight == {n \in 1 .. tx : Asked(n) \/ Raising(n) \/ Held(n)}
CountInv == irqs + Cardinality(InFlight) <= raised

LEMMA InFlightFinite ==
  ASSUME TypeOK
  PROVE  IsFiniteSet(InFlight) /\ Cardinality(InFlight) \in Nat
<1>1. tx \in Int /\ InFlight \in SUBSET (1 .. tx)
  BY LinkAssumption DEF TypeOK, Ids, InFlight
<1>2. IsFiniteSet(1 .. tx)
  BY <1>1, FS_Interval
<1>3. IsFiniteSet(InFlight)
  BY <1>1, <1>2, FS_Subset
<1> QED BY <1>3, FS_CardinalityType

LEMMA RequestIds ==
  ASSUME TypeOK, NEW ch \in Chans, NEW i \in 1 .. Len(toSim[ch])
  PROVE  toSim[ch][i] \in Request /\ toSim[ch][i].id \in Nat
<1>1. toSim[ch] \in Seq(Request)
  BY DEF TypeOK
<1>2. toSim[ch][i] \in Request
  BY <1>1
<1> QED BY <1>2, LinkAssumption DEF Request, Ids

\* Where no interrupt is added, there are no more of them than before.
LEMMA CountFewer ==
  ASSUME TypeOK, TypeOK', CountInv, InFlight' \subseteq InFlight, UNCHANGED <<irqs, raised>>
  PROVE  CountInv'
<1>1. Cardinality(InFlight') <= Cardinality(InFlight)
  BY InFlightFinite, FS_Subset
<1>2. /\ Cardinality(InFlight) \in Nat /\ Cardinality(InFlight') \in Nat
      /\ irqs \in Nat /\ raised \in Nat
  <2>1. IsFiniteSet(InFlight')
    BY InFlightFinite, FS_Subset
  <2>2. irqs \in Nat /\ raised \in Nat
    BY DEF TypeOK
  <2> QED BY <2>1, <2>2, InFlightFinite, FS_CardinalityType
<1> QED BY <1>1, <1>2 DEF CountInv

\* Steps that leave both streams and the listener's packet alone.
LEMMA CountStill ==
  ASSUME TypeOK, TypeOK', OnceInv, CountInv, \A n \in Nat : Held(n)' => Held(n),
         UNCHANGED <<toSim, toBridge, tx, irqs, raised>>
  PROVE  OnceInv' /\ CountInv'
<1>1. Irqs' = Irqs /\ \A n \in Nat : Raising(n)' <=> Raising(n)
  BY DEF Irqs, Raising
<1>2. OnceInv'
  <2>1. \A c \in Chans : \A i \in 1 .. Len(toSim[c]) : toSim[c][i].id \in Nat
    BY RequestIds
  <2> QED BY <1>1, <2>1 DEF OnceInv, Raising
<1>3. InFlight' \subseteq InFlight
  BY <1>1 DEF InFlight, Asked, IsIrq, Raising
<1> QED BY <1>2, <1>3, CountFewer

\* The guest writes: the new number is nobody else's.
LEMMA CountWrite ==
  ASSUME TypeOK, TypeOK', OnceInv, CountInv, NEW a \in Addrs, NEW op \in {"wr", "irq"},
         PcieBridgeWrite(a, op)
  PROVE  OnceInv' /\ CountInv'
<1> DEFINE p == [type |-> "MEM_WR", id |-> tx + 1, tag |-> Tag(tx + 1),
                 addr |-> a, msi |-> op = "irq"]
<1>1. tx \in Nat /\ tx' = tx + 1 /\ tx + 1 \in Ids /\ channel \in Chans
  BY LinkAssumption DEF PcieBridgeWrite, TypeOK, Ids
<1>2. p \in Request /\ p.id = tx + 1
  BY <1>1, TagType DEF Request
<1>3. /\ Send(channel, p) /\ UNCHANGED <<toBridge, lpc, lpkt, irqs>>
      /\ raised' = IF IsIrq(p) THEN raised + 1 ELSE raised
  BY DEF PcieBridgeWrite, listenerVars
<1> HIDE DEF p
<1>4. /\ Irqs' = Irqs /\ \A n \in Nat : Raising(n)' <=> Raising(n)
      /\ \A n \in Nat : Held(n)' <=> Held(n)
  BY <1>3 DEF Irqs, Raising, Held
<1>5. \A n \in 1 .. tx : n \in 1 .. tx' /\ n # tx + 1 /\ n \in Nat
  BY <1>1
<1>6. tx + 1 \in 1 .. tx' /\ tx + 1 \in Nat /\ ~Raising(tx + 1) /\ ~Held(tx + 1)
  BY <1>1, <1>5 DEF OnceInv
<1>7. \A c \in Chans : \A i \in 1 .. Len(toSim'[c]) :
        \/ toSim'[c][i] = p /\ c = channel /\ i = Len(toSim[channel]) + 1
        \/ i \in 1 .. Len(toSim[c]) /\ toSim'[c][i] = toSim[c][i]
  BY <1>1, <1>2, <1>3, SentOn
<1>8. ASSUME NEW c \in Chans, NEW i \in 1 .. Len(toSim'[c]), toSim'[c][i].type # "NACK"
      PROVE  /\ toSim'[c][i].id \in 1 .. tx'
             /\ ~Raising(toSim'[c][i].id) /\ ~Held(toSim'[c][i].id)
  <2>1. CASE toSim'[c][i] = p
    BY <1>2, <1>6, <2>1
  <2>2. CASE i \in 1 .. Len(toSim[c]) /\ toSim'[c][i] = toSim[c][i]
    <3>1. /\ toSim[c][i].id \in 1 .. tx
          /\ ~Raising(toSim[c][i].id) /\ ~Held(toSim[c][i].id)
      BY <1>8, <2>2 DEF OnceInv
    <3> QED BY <1>5, <2>2, <3>1
  <2> QED BY <1>7, <2>1, <2>2
<1>9. ASSUME NEW c \in Chans, NEW d \in Chans,
             NEW i \in 1 .. Len(toSim'[c]), NEW j \in 1 .. Len(toSim'[d]),
             toSim'[c][i].type # "NACK", toSim'[d][j].type # "NACK",
             toSim'[c][i].id = toSim'[d][j].id
      PROVE  c = d /\ i = j
  <2>1. ASSUME NEW e \in Chans, NEW k \in 1 .. Len(toSim[e]), toSim[e][k].type # "NACK"
        PROVE  toSim[e][k].id # tx + 1
    BY <1>5, <2>1 DEF OnceInv
  <2>2. CASE toSim'[c][i] = p /\ c = channel /\ i = Len(toSim[channel]) + 1
    BY <1>2, <1>7, <1>9, <2>1, <2>2
  <2>3. CASE i \in 1 .. Len(toSim[c]) /\ toSim'[c][i] = toSim[c][i]
    BY <1>2, <1>7, <1>9, <2>1, <2>3 DEF OnceInv
  <2> QED BY <1>7, <2>2, <2>3
<1>10. OnceInv'
  <2>1. \A i, j \in 1 .. Len(Irqs') :
          Irqs'[i].k = "H" /\ Irqs'[j].k = "H" /\ Irqs'[i].id = Irqs'[j].id => i = j
    BY <1>4 DEF OnceInv
  <2>2. \A n \in Nat : /\ Raising(n)' => n \in 1 .. tx' /\ ~Held(n)'
                       /\ Held(n)' => n \in 1 .. tx'
    BY <1>4, <1>5 DEF OnceInv
  <2>3. \A c \in Chans : \A i \in 1 .. Len(toSim'[c]) :
          toSim'[c][i].type # "NACK" => (~Raising(toSim[c][i].id) /\ ~Held(toSim[c][i].id))'
    BY <1>3, <1>4, <1>8 DEF Raising, Held
  <2> QED BY <1>8, <1>9, <2>1, <2>2, <2>3 DEF OnceInv
<1>11. CountInv'
  <2>1. ASSUME NEW n \in InFlight' PROVE n \in InFlight \/ (IsIrq(p) /\ n = tx + 1)
    <3>1. n \in 1 .. tx' /\ n \in Nat
      BY DEF InFlight
    <3>2. ASSUME Asked(n)' PROVE Asked(n) \/ (IsIrq(p) /\ n = tx + 1)
      <4>1. PICK c \in Chans : \E i \in 1 .. Len(toSim'[c]) :
              /\ toSim'[c][i].type # "NACK" /\ IsIrq(toSim'[c][i]) /\ toSim'[c][i].id = n
        BY <3>2 DEF Asked, IsIrq
      <4>2. PICK i \in 1 .. Len(toSim'[c]) :
              /\ toSim'[c][i].type # "NACK" /\ IsIrq(toSim'[c][i]) /\ toSim'[c][i].id = n
        BY <4>1
      <4>3. CASE toSim'[c][i] = p
        BY <1>2, <4>2, <4>3
      <4>4. CASE i \in 1 .. Len(toSim[c]) /\ toSim'[c][i] = toSim[c][i]
        BY <4>2, <4>4 DEF Asked
      <4> QED BY <1>7, <4>3, <4>4
    <3>3. n \in 1 .. tx \/ n = tx + 1
      BY <1>1, <3>1
    <3>4. Asked(n) => n \in 1 .. tx
      BY DEF Asked, OnceInv
    <3> QED BY <1>4, <1>6, <3>1, <3>2, <3>3, <3>4 DEF InFlight
  <2>2. CASE ~IsIrq(p)
    BY <1>3, <2>1, <2>2, CountFewer
  <2>3. CASE IsIrq(p)
    <3> DEFINE S == InFlight \cup {tx + 1}
    <3>1. InFlight' \in SUBSET S
      BY <2>1
    <3>2. IsFiniteSet(S) /\ Cardinality(S) <= Cardinality(InFlight) + 1
      BY InFlightFinite, FS_AddElement
    <3>3. /\ Cardinality(InFlight') <= Cardinality(S)
          /\ Cardinality(InFlight') \in Nat /\ Cardinality(S) \in Nat
      BY <3>1, <3>2, FS_Subset, FS_CardinalityType
    <3>4. irqs' = irqs /\ raised' = raised + 1 /\ irqs \in Nat /\ raised \in Nat
      BY <1>3, <2>3 DEF TypeOK
    <3> HIDE DEF S
    <3> QED BY <3>2, <3>3, <3>4, InFlightFinite DEF CountInv
  <2> QED BY <2>2, <2>3
<1> QED BY <1>10, <1>11

\* The simulation takes a packet: the others are what they were, and the one
\* it took is none of them.
LEMMA OnceTaken ==
  ASSUME TypeOK, OnceInv, NEW ch \in Chans, NEW type, Received(ch, type), tx' = tx
  PROVE  /\ \A c \in Chans : \A i \in 1 .. Len(toSim'[c]) :
              toSim'[c][i].type # "NACK" =>
                /\ toSim'[c][i].id \in 1 .. tx
                /\ ~Raising(toSim'[c][i].id) /\ ~Held(toSim'[c][i].id)
                /\ type # "NACK" => toSim'[c][i].id # srv'.id
         /\ \A c, d \in Chans : \A i \in 1 .. Len(toSim'[c]), j \in 1 .. Len(toSim'[d]) :
              toSim'[c][i].type # "NACK" /\ toSim'[d][j].type # "NACK" =>
                (toSim'[c][i].id = toSim'[d][j].id => c = d /\ i = j)
         /\ type # "NACK" => srv'.id \in 1 .. tx /\ ~Raising(srv'.id) /\ ~Held(srv'.id)
         /\ \A n \in Nat : Asked(n)' => Asked(n)
         /\ type # "NACK" /\ IsIrq(srv') => Asked(srv'.id)
<1>1. /\ srv' = toSim[ch][1] /\ 1 \in 1 .. Len(toSim[ch]) /\ srv'.type = type
      /\ \A c \in Chans : \A i \in 1 .. Len(toSim'[c]) :
           /\ Was(ch, c, i) \in 1 .. Len(toSim[c])
           /\ toSim'[c][i] = toSim[c][Was(ch, c, i)]
  BY TakenOff
<1>2. ASSUME NEW c \in Chans, NEW i \in 1 .. Len(toSim'[c]), toSim'[c][i].type # "NACK"
      PROVE  /\ toSim'[c][i].id \in 1 .. tx
             /\ ~Raising(toSim'[c][i].id) /\ ~Held(toSim'[c][i].id)
             /\ type # "NACK" => toSim'[c][i].id # srv'.id
  <2>1. /\ Was(ch, c, i) \in 1 .. Len(toSim[c]) /\ toSim'[c][i] = toSim[c][Was(ch, c, i)]
        /\ c = ch => Was(ch, c, i) # 1
    BY <1>1 DEF Was
  <2> DEFINE w == Was(ch, c, i)
  <2>2. w \in 1 .. Len(toSim[c]) /\ toSim[c][w].type # "NACK" /\ toSim'[c][i].id = toSim[c][w].id
    BY <1>2, <2>1
  <2>3. c = ch => w # 1
    BY <2>1
  <2> HIDE DEF w
  <2>4. /\ toSim[c][w].id \in 1 .. tx
        /\ ~Raising(toSim[c][w].id) /\ ~Held(toSim[c][w].id)
    BY <2>2 DEF OnceInv
  <2>5. type # "NACK" => toSim[c][w].id # srv'.id
    BY <1>1, <2>2, <2>3 DEF OnceInv
  <2> QED BY <2>2, <2>4, <2>5
<1>3. ASSUME NEW c \in Chans, NEW d \in Chans,
             NEW i \in 1 .. Len(toSim'[c]), NEW j \in 1 .. Len(toSim'[d]),
             toSim'[c][i].type # "NACK", toSim'[d][j].type # "NACK",
             toSim'[c][i].id = toSim'[d][j].id
      PROVE  c = d /\ i = j
  <2>1. /\ Was(ch, c, i) \in 1 .. Len(toSim[c]) /\ toSim'[c][i] = toSim[c][Was(ch, c, i)]
        /\ Was(ch, d, j) \in 1 .. Len(toSim[d]) /\ toSim'[d][j] = toSim[d][Was(ch, d, j)]
    BY <1>1
  <2>2. c = d /\ Was(ch, c, i) = Was(ch, d, j)
    BY <1>3, <2>1 DEF OnceInv
  <2> QED BY <2>2 DEF Was
<1>4. type # "NACK" => srv'.id \in 1 .. tx /\ ~Raising(srv'.id) /\ ~Held(srv'.id)
  BY <1>1 DEF OnceInv
<1>5. ASSUME NEW n \in Nat, Asked(n)' PROVE Asked(n)
  <2>1. PICK c \in Chans : \E i \in 1 .. Len(toSim'[c]) :
          /\ toSim'[c][i].type # "NACK" /\ IsIrq(toSim'[c][i]) /\ toSim'[c][i].id = n
    BY <1>5 DEF Asked, IsIrq
  <2> QED BY <1>1, <2>1 DEF Asked
<1>6. type # "NACK" /\ IsIrq(srv') => Asked(srv'.id)
  BY <1>1 DEF Asked
<1> QED BY <1>2, <1>3, <1>4, <1>5, <1>6

LEMMA CountTaken ==
  ASSUME TypeOK, TypeOK', OnceInv, CountInv, NEW ch \in Chans, NEW type, Received(ch, type),
         UNCHANGED <<toBridge, lpc, lpkt, tx, irqs, raised>>
  PROVE  OnceInv' /\ CountInv'
<1>1. /\ Irqs' = Irqs /\ \A n \in Nat : Raising(n)' <=> Raising(n)
      /\ \A n \in Nat : Held(n)' <=> Held(n)
  BY DEF Irqs, Raising, Held
<1>2. OnceInv'
  <2>1. \A i, j \in 1 .. Len(Irqs') :
          Irqs'[i].k = "H" /\ Irqs'[j].k = "H" /\ Irqs'[i].id = Irqs'[j].id => i = j
    BY <1>1 DEF OnceInv
  <2>2. \A n \in Nat : /\ Raising(n)' => n \in 1 .. tx' /\ ~Held(n)'
                       /\ Held(n)' => n \in 1 .. tx'
    BY <1>1 DEF OnceInv
  <2>3. \A c \in Chans : \A i \in 1 .. Len(toSim'[c]) :
          toSim'[c][i].type # "NACK" => (~Raising(toSim[c][i].id) /\ ~Held(toSim[c][i].id))'
    BY <1>1, OnceTaken DEF Raising, Held
  <2> QED BY <2>1, <2>2, <2>3, OnceTaken DEF OnceInv
<1>3. InFlight' \subseteq InFlight
  BY <1>1, OnceTaken DEF InFlight
<1> QED BY <1>2, <1>3, CountFewer

\* A request turns into a header on ASYNC, or is lost.
LEMMA CountIrq ==
  ASSUME TypeOK, TypeOK', OnceInv, CountInv, NEW ch \in Chans, SimIrq(ch)
  PROVE  OnceInv' /\ CountInv'
<1> DEFINE u == [k |-> "H", type |-> "MSG", id |-> srv'.id, tag |-> 0, val |-> 0]
<1>0. tx \in Nat
  BY LinkAssumption DEF TypeOK, Ids
<1>1. /\ Received(ch, "MEM_WR") /\ IsIrq(srv') /\ SimSend(Async, u)
      /\ UNCHANGED <<lpc, lpkt, tx, irqs, raised>>
  BY DEF SimIrq, listenerVars, mainVars
<1>2. u \in Unit /\ u.k = "H" /\ u.id = srv'.id
  <2>1. srv' \in Request
    BY <1>1, ReceivedType
  <2> QED BY <2>1, LinkAssumption DEF Unit, Request, Ids, Tags
<1> HIDE DEF u
<1>3. \A n \in Nat : Held(n)' <=> Held(n)
  BY <1>1 DEF Held
<1>4. CASE ~open[Async]
  <2>1. toBridge' = toBridge
    BY <1>1, <1>2, <1>4, SimSent, ChansAre
  <2> QED BY <1>1, <2>1, CountTaken
<1>5. CASE open[Async]
  <2> DEFINE n == Len(Irqs)
  <2>1. /\ Len(Irqs') = n + 1 /\ Irqs'[n + 1] = u
        /\ \A i \in 1 .. n : Irqs'[i] = Irqs[i]
    BY <1>1, <1>2, <1>5, SimSent, ChansAre DEF Irqs
  <2>2. n \in Nat /\ \A i \in 1 .. n + 1 : i \in 1 .. n \/ i = n + 1
    BY IrqsType
  <2>3. n + 1 \in 1 .. n + 1 /\ \A i \in 1 .. n : i \in 1 .. n + 1
    BY <2>2
  <2> HIDE DEF n
  <2>4. \A m \in Nat : Raising(m)' <=> Raising(m) \/ m = srv'.id
    <3>1. ASSUME NEW m \in Nat, Raising(m)' PROVE Raising(m) \/ m = srv'.id
      <4>1. PICK i \in 1 .. n + 1 : Irqs'[i].k = "H" /\ Irqs'[i].id = m
        BY <2>1, <3>1 DEF Raising
      <4>2. CASE i = n + 1
        BY <1>2, <2>1, <4>1, <4>2
      <4>3. CASE i \in 1 .. n
        BY <2>1, <4>1, <4>3 DEF Raising, n
      <4> QED BY <2>2, <4>2, <4>3
    <3>2. ASSUME NEW m \in Nat, Raising(m) PROVE Raising(m)'
      <4>1. PICK i \in 1 .. n : Irqs[i].k = "H" /\ Irqs[i].id = m
        BY <3>2 DEF Raising, n
      <4> QED BY <2>1, <2>3, <4>1 DEF Raising
    <3>3. ASSUME NEW m \in Nat, m = srv'.id PROVE Raising(m)'
      BY <1>2, <2>1, <2>3, <3>3 DEF Raising
    <3> QED BY <3>1, <3>2, <3>3
  <2>5. /\ srv'.id \in 1 .. tx /\ srv'.id \in Nat /\ ~Raising(srv'.id) /\ ~Held(srv'.id)
        /\ Asked(srv'.id) /\ \A m \in Nat : Asked(m)' => Asked(m)
    <3>1. srv'.id \in 1 .. tx
      BY <1>1, OnceTaken
    <3>2. srv'.id \in Nat
      BY <1>0, <3>1
    <3> QED BY <1>1, <3>1, <3>2, OnceTaken
  <2>6. OnceInv'
    <3>1. ASSUME NEW i \in 1 .. n + 1, NEW j \in 1 .. n + 1,
                 Irqs'[i].k = "H", Irqs'[j].k = "H", Irqs'[i].id = Irqs'[j].id
          PROVE  i = j
      <4>1. \A k \in 1 .. n : Irqs[k].k = "H" => Irqs[k].id # srv'.id
        BY <2>5 DEF Raising, n
      <4>2. CASE i \in 1 .. n /\ j \in 1 .. n
        BY <2>1, <3>1, <4>2 DEF OnceInv, n
      <4>3. CASE ~(i \in 1 .. n /\ j \in 1 .. n)
        BY <1>2, <2>1, <2>2, <3>1, <4>1, <4>3
      <4> QED BY <4>2, <4>3
    <3>2. \A m \in Nat : /\ Raising(m)' => m \in 1 .. tx' /\ ~Held(m)'
                         /\ Held(m)' => m \in 1 .. tx'
      BY <1>1, <1>3, <2>4, <2>5 DEF OnceInv
    <3>3. ASSUME NEW c \in Chans, NEW i \in 1 .. Len(toSim'[c]), NEW m \in Nat,
                 toSim'[c][i].type # "NACK", m = toSim'[c][i].id
          PROVE  ~Raising(m)' /\ ~Held(m)'
      <4>1. ~Raising(m) /\ ~Held(m) /\ m # srv'.id
        BY <1>1, <3>3, OnceTaken
      <4> QED BY <1>3, <2>4, <4>1
    <3>4. ASSUME NEW c \in Chans, NEW i \in 1 .. Len(toSim'[c]), toSim'[c][i].type # "NACK"
          PROVE  toSim'[c][i].id \in Nat
      <4>1. toSim'[c][i].id \in 1 .. tx
        BY <1>1, <3>4, OnceTaken
      <4> QED BY <1>0, <4>1
    <3>5. \A c \in Chans : \A i \in 1 .. Len(toSim'[c]) :
            toSim'[c][i].type # "NACK" => (~Raising(toSim[c][i].id) /\ ~Held(toSim[c][i].id))'
      BY <3>3, <3>4 DEF Raising, Held
    <3> QED BY <1>1, <2>1, <3>1, <3>2, <3>5, OnceTaken DEF OnceInv
  <2>7. InFlight' \subseteq InFlight
    BY <1>1, <1>3, <2>4, <2>5 DEF InFlight
  <2> QED BY <1>1, <2>6, <2>7, CountFewer
<1> QED BY <1>4, <1>5

\* A stream that differs from the old one in its vectors alone, or in lacking
\* the first header, which the listener now holds.
LEMMA CountVector ==
  ASSUME TypeOK, TypeOK', OnceInv, CountInv, SimIrqVector
  PROVE  OnceInv' /\ CountInv'
<1> DEFINE u == [k |-> "D", type |-> "MSG", id |-> srv.id, tag |-> 0, val |-> 0]
           n == Len(Irqs)
<1>1. SimSend(Async, u) /\ UNCHANGED <<toSim, lpc, lpkt, tx, irqs, raised>>
  BY DEF SimIrqVector, listenerVars, mainVars
<1>2. u \in Unit /\ u.k # "H"
  BY LinkAssumption DEF Unit, Request, Ids, Tags, TypeOK
<1> HIDE DEF u
<1>3. CASE ~open[Async]
  <2>1. toBridge' = toBridge
    BY <1>1, <1>2, <1>3, SimSent, ChansAre
  <2> QED BY <1>1, <2>1, CountStill DEF Held
<1>4. CASE open[Async]
  <2>1. /\ Len(Irqs') = n + 1 /\ Irqs'[n + 1] = u
        /\ \A i \in 1 .. n : Irqs'[i] = Irqs[i]
    BY <1>1, <1>2, <1>4, SimSent, ChansAre DEF Irqs
  <2>2. n \in Nat /\ \A i \in 1 .. n + 1 : i \in 1 .. n \/ i = n + 1
    BY IrqsType
  <2>3. \A i \in 1 .. n : i \in 1 .. n + 1
    BY <2>2
  <2> HIDE DEF n
  <2>4. \A i \in 1 .. n + 1 : Irqs'[i].k = "H" => i \in 1 .. n /\ Irqs'[i] = Irqs[i]
    BY <1>2, <2>1, <2>2
  <2>5. \A m \in Nat : Raising(m)' <=> Raising(m)
    BY <2>1, <2>3, <2>4 DEF Raising, n
  <2>6. OnceInv'
    <3>1. \A i, j \in 1 .. Len(Irqs') :
            Irqs'[i].k = "H" /\ Irqs'[j].k = "H" /\ Irqs'[i].id = Irqs'[j].id => i = j
      BY <2>1, <2>4 DEF OnceInv, n
    <3>2. \A m \in Nat : Held(m)' <=> Held(m)
      BY <1>1 DEF Held
    <3>3. \A c \in Chans : \A i \in 1 .. Len(toSim[c]) :
            toSim[c][i].id \in Nat /\ (Raising(toSim[c][i].id)' => Raising(toSim[c][i].id))
      <4> SUFFICES ASSUME NEW c \in Chans, NEW i \in 1 .. Len(toSim[c])
                   PROVE  toSim[c][i].id \in Nat /\ (Raising(toSim[c][i].id)' => Raising(toSim[c][i].id))
        OBVIOUS
      <4>1. toSim[c][i].id \in Nat /\ toSim'[c][i].id = toSim[c][i].id
        BY <1>1, RequestIds
      <4> QED BY <2>5, <4>1 DEF Raising
    <3> QED BY <1>1, <2>5, <3>1, <3>2, <3>3 DEF OnceInv, Held
  <2>7. InFlight' \subseteq InFlight
    BY <1>1, <2>5 DEF InFlight, Asked, Held, IsIrq
  <2> QED BY <1>1, <2>6, <2>7, CountFewer
<1> QED BY <1>3, <1>4

LEMMA CountHeader ==
  ASSUME TypeOK, TypeOK', MsiFrame, OnceInv, CountInv, AsyncHeader
  PROVE  OnceInv' /\ CountInv'
<1> DEFINE h == Irqs[1].id
<1>1. /\ UNCHANGED <<toSim, tx, irqs, raised>> /\ lpc = "hdr" /\ lpc' = "data"
      /\ lpkt'.type = "MSG" /\ lpkt'.id = h /\ 1 \in 1 .. Len(Irqs) /\ Irqs[1].k = "H"
      /\ \A i \in 1 .. Len(Irqs') : i + 1 \in 1 .. Len(Irqs) /\ i + 1 # 1 /\ Irqs'[i] = Irqs[i + 1]
  <2>1. UNCHANGED <<toSim, tx, irqs, raised>>
    BY DEF AsyncHeader, mainVars
  <2>2. /\ lpc = "hdr" /\ lpc' = "data" /\ lpkt' = Header(Irqs[1])
        /\ 1 \in 1 .. Len(Irqs) /\ Irqs[1].k = "H" /\ Len(Irqs') = Len(Irqs) - 1
        /\ \A i \in 1 .. Len(Irqs') : i + 1 \in 1 .. Len(Irqs) /\ Irqs'[i] = Irqs[i + 1]
    BY AsyncHeaderTaken
  <2>3. lpkt'.type = "MSG" /\ lpkt'.id = h
    BY <2>2 DEF Header, MsiFrame
  <2>4. \A i \in 1 .. Len(Irqs') : i + 1 # 1
    BY <2>2, IrqsType
  <2> QED BY <2>1, <2>2, <2>3, <2>4
<1>2. h \in Nat /\ Raising(h) /\ h \in 1 .. tx
  <2>1. h \in Nat
    BY <1>1, IrqsType
  <2>2. Raising(h)
    BY <1>1 DEF Raising
  <2> QED BY <2>1, <2>2 DEF OnceInv
<1>3. \A i \in 1 .. Len(Irqs') : Irqs'[i].k = "H" => Irqs'[i].id # h
  BY <1>1 DEF OnceInv
<1>4. \A m \in Nat : Raising(m)' => Raising(m) /\ m # h
  <2> SUFFICES ASSUME NEW m \in Nat, NEW i \in 1 .. Len(Irqs'), Irqs'[i].k = "H", Irqs'[i].id = m
               PROVE  Raising(m) /\ m # h
    BY DEF Raising
  <2> QED BY <1>1, <1>3 DEF Raising
<1>5. \A m \in Nat : ~Held(m) /\ (Held(m)' <=> m = h)
  BY <1>1 DEF Held
<1> HIDE DEF h
<1>6. OnceInv'
  <2>1. \A i, j \in 1 .. Len(Irqs') :
          Irqs'[i].k = "H" /\ Irqs'[j].k = "H" /\ Irqs'[i].id = Irqs'[j].id => i = j
    <3> SUFFICES ASSUME NEW i \in 1 .. Len(Irqs'), NEW j \in 1 .. Len(Irqs'),
                        Irqs'[i].k = "H", Irqs'[j].k = "H", Irqs'[i].id = Irqs'[j].id
                 PROVE  i = j
      OBVIOUS
    <3>1. i + 1 = j + 1
      BY <1>1 DEF OnceInv
    <3> QED BY <3>1
  <2>2. ASSUME NEW c \in Chans, NEW i \in 1 .. Len(toSim[c]), NEW m \in Nat,
               toSim[c][i].type # "NACK", m = toSim[c][i].id
        PROVE  m \in 1 .. tx' /\ ~Raising(m)' /\ ~Held(m)'
    <3>1. m \in 1 .. tx /\ ~Raising(m)
      BY <2>2 DEF OnceInv
    <3> QED BY <1>1, <1>2, <1>4, <1>5, <3>1
  <2>3. \A c \in Chans : \A i \in 1 .. Len(toSim[c]) : toSim[c][i].id \in Nat
    BY RequestIds
  <2>4. \A c \in Chans : \A i \in 1 .. Len(toSim'[c]) : toSim'[c][i].type # "NACK" =>
          (toSim[c][i].id \in 1 .. tx /\ ~Raising(toSim[c][i].id) /\ ~Held(toSim[c][i].id))'
    BY <1>1, <2>2, <2>3 DEF Raising, Held
  <2>5. \A m \in Nat : /\ Raising(m)' => m \in 1 .. tx' /\ ~Held(m)'
                       /\ Held(m)' => m \in 1 .. tx'
    BY <1>1, <1>2, <1>4, <1>5 DEF OnceInv
  <2> QED BY <1>1, <2>1, <2>4, <2>5 DEF OnceInv
<1>7. InFlight' \subseteq InFlight
  BY <1>1, <1>2, <1>4, <1>5 DEF InFlight, Asked, IsIrq
<1> QED BY <1>1, <1>6, <1>7, CountFewer

LEMMA CountPayload ==
  ASSUME TypeOK, TypeOK', MsiFrame, OnceInv, CountInv, AsyncPayload
  PROVE  OnceInv' /\ CountInv'
<1>1. /\ UNCHANGED <<toSim, tx, irqs, raised>> /\ lpc = "data" /\ lpc' = "deliver"
      /\ lpkt'.type = lpkt.type /\ lpkt'.id = lpkt.id
      /\ \A i \in 1 .. Len(Irqs') : i + 1 \in 1 .. Len(Irqs) /\ Irqs'[i] = Irqs[i + 1]
  BY AsyncPayloadTaken DEF AsyncPayload, mainVars
<1>2. \A m \in Nat : Raising(m)' => Raising(m)
  BY <1>1 DEF Raising
<1>3. \A m \in Nat : Held(m)' <=> Held(m)
  BY <1>1 DEF Held
<1>4. OnceInv'
  <2>1. \A i, j \in 1 .. Len(Irqs') :
          Irqs'[i].k = "H" /\ Irqs'[j].k = "H" /\ Irqs'[i].id = Irqs'[j].id => i = j
    <3> SUFFICES ASSUME NEW i \in 1 .. Len(Irqs'), NEW j \in 1 .. Len(Irqs'),
                        Irqs'[i].k = "H", Irqs'[j].k = "H", Irqs'[i].id = Irqs'[j].id
                 PROVE  i = j
      OBVIOUS
    <3>1. i + 1 = j + 1
      BY <1>1 DEF OnceInv
    <3> QED BY <3>1
  <2>2. ASSUME NEW c \in Chans, NEW i \in 1 .. Len(toSim[c]), NEW m \in Nat,
               toSim[c][i].type # "NACK", m = toSim[c][i].id
        PROVE  m \in 1 .. tx' /\ ~Raising(m)' /\ ~Held(m)'
    <3>1. m \in 1 .. tx /\ ~Raising(m) /\ ~Held(m)
      BY <2>2 DEF OnceInv
    <3> QED BY <1>1, <1>2, <1>3, <3>1
  <2>3. \A c \in Chans : \A i \in 1 .. Len(toSim[c]) : toSim[c][i].id \in Nat
    BY RequestIds
  <2>4. \A c \in Chans : \A i \in 1 .. Len(toSim'[c]) : toSim'[c][i].type # "NACK" =>
          (toSim[c][i].id \in 1 .. tx /\ ~Raising(toSim[c][i].id) /\ ~Held(toSim[c][i].id))'
    BY <1>1, <2>2, <2>3 DEF Raising, Held
  <2>5. \A m \in Nat : /\ Raising(m)' => m \in 1 .. tx' /\ ~Held(m)'
                       /\ Held(m)' => m \in 1 .. tx'
    BY <1>1, <1>2, <1>3 DEF OnceInv
  <2> QED BY <1>1, <2>1, <2>4, <2>5 DEF OnceInv
<1>5. InFlight' \subseteq InFlight
  BY <1>1, <1>2, <1>3 DEF InFlight, Asked, IsIrq
<1> QED BY <1>1, <1>4, <1>5, CountFewer

\* The listener delivers: one more interrupt, one fewer under way.
LEMMA CountDeliver ==
  ASSUME TypeOK, TypeOK', OnceInv, CountInv, AsyncDeliver
  PROVE  OnceInv' /\ CountInv'
<1>1. /\ UNCHANGED <<toSim, toBridge, tx, raised, lpkt>> /\ lpc = "deliver"
      /\ lpc' \in {"poll", "gone"}
      /\ irqs' = IF lpkt.type = "MSG" THEN irqs + 1 ELSE irqs
  BY DEF AsyncDeliver, mainVars, Triggers
<1>2. \A n \in Nat : ~Held(n)'
  BY <1>1 DEF Held
<1>3. CASE lpkt.type # "MSG"
  BY <1>1, <1>2, <1>3, CountStill
<1>4. CASE lpkt.type = "MSG"
  <2>1. Irqs' = Irqs /\ \A n \in Nat : Raising(n)' <=> Raising(n)
    BY <1>1 DEF Irqs, Raising
  <2>2. OnceInv'
    <3>1. \A c \in Chans : \A i \in 1 .. Len(toSim[c]) : toSim[c][i].id \in Nat
      BY RequestIds
    <3> QED BY <1>1, <1>2, <2>1, <3>1 DEF OnceInv, Raising
  <2> DEFINE n == lpkt.id
             S == InFlight \ {n}
  <2>3. n \in Nat /\ Held(n)
    BY <1>1, <1>4, LinkAssumption DEF Held, TypeOK, Packet, Ids
  <2>4. n \in InFlight
    BY <2>3 DEF InFlight, OnceInv
  <2>5. ~Raising(n) /\ ~Asked(n)
    BY <2>3 DEF OnceInv, Asked
  <2>6. InFlight' \in SUBSET S
    BY <1>1, <1>2, <2>1, <2>5 DEF InFlight, Asked, IsIrq
  <2>7. IsFiniteSet(S) /\ Cardinality(S) = Cardinality(InFlight) - 1
    BY <2>4, InFlightFinite, FS_RemoveElement
  <2>8. /\ Cardinality(InFlight') <= Cardinality(S)
        /\ Cardinality(InFlight') \in Nat /\ Cardinality(S) \in Nat
    BY <2>6, <2>7, FS_Subset, FS_CardinalityType
  <2>9. irqs' = irqs + 1 /\ raised' = raised /\ irqs \in Nat /\ raised \in Nat
    BY <1>1, <1>4 DEF TypeOK
  <2> HIDE DEF S, n
  <2>10. CountInv'
    BY <2>7, <2>8, <2>9, InFlightFinite DEF CountInv
  <2> QED BY <2>2, <2>10
<1> QED BY <1>3, <1>4

\* The NACK of a SIGINT is no interrupt.
LEMMA CountSigint ==
  ASSUME TypeOK, TypeOK', OnceInv, CountInv, Sigint
  PROVE  OnceInv' /\ CountInv'
<1>1. /\ Send(channel, NoRequest) /\ channel \in Chans /\ NoRequest.type = "NACK"
      /\ UNCHANGED <<toBridge, lpc, lpkt, tx, irqs, raised>>
  BY DEF Sigint, TypeOK, NoRequest, mainVars, listenerVars
<1>2. /\ Irqs' = Irqs /\ \A n \in Nat : Raising(n)' <=> Raising(n)
      /\ \A n \in Nat : Held(n)' <=> Held(n)
  BY <1>1 DEF Irqs, Raising, Held
<1>3. \A c \in Chans : \A i \in 1 .. Len(toSim'[c]) :
        toSim'[c][i].type # "NACK" => /\ i \in 1 .. Len(toSim[c])
                                      /\ toSim'[c][i] = toSim[c][i]
  BY <1>1, NoRequestType, SentOn
<1>4. OnceInv'
  <2>1. \A i, j \in 1 .. Len(Irqs') :
          Irqs'[i].k = "H" /\ Irqs'[j].k = "H" /\ Irqs'[i].id = Irqs'[j].id => i = j
    BY <1>2 DEF OnceInv
  <2>2. \A n \in Nat : /\ Raising(n)' => n \in 1 .. tx' /\ ~Held(n)'
                       /\ Held(n)' => n \in 1 .. tx'
    BY <1>1, <1>2 DEF OnceInv
  <2>3. \A c \in Chans : \A i \in 1 .. Len(toSim'[c]) : toSim'[c][i].type # "NACK" =>
          (toSim[c][i].id \in 1 .. tx /\ ~Raising(toSim[c][i].id) /\ ~Held(toSim[c][i].id))'
    BY <1>1, <1>2, <1>3 DEF OnceInv, Raising, Held
  <2>4. \A c, d \in Chans : \A i \in 1 .. Len(toSim'[c]), j \in 1 .. Len(toSim'[d]) :
          toSim'[c][i].type # "NACK" /\ toSim'[d][j].type # "NACK" =>
            (toSim'[c][i].id = toSim'[d][j].id => c = d /\ i = j)
    <3> SUFFICES ASSUME NEW c \in Chans, NEW d \in Chans,
                        NEW i \in 1 .. Len(toSim'[c]), NEW j \in 1 .. Len(toSim'[d]),
                        toSim'[c][i].type # "NACK", toSim'[d][j].type # "NACK",
                        toSim'[c][i].id = toSim'[d][j].id
                 PROVE  c = d /\ i = j
      OBVIOUS
    <3>1. /\ i \in 1 .. Len(toSim[c]) /\ toSim'[c][i] = toSim[c][i]
          /\ j \in 1 .. Len(toSim[d]) /\ toSim'[d][j] = toSim[d][j]
      BY <1>3
    <3> QED BY <3>1 DEF OnceInv
  <2> QED BY <1>1, <2>1, <2>2, <2>3, <2>4 DEF OnceInv
<1>5. \A n \in Nat : Asked(n)' => Asked(n)
  <2> SUFFICES ASSUME NEW n \in Nat, NEW c \in Chans, NEW i \in 1 .. Len(toSim'[c]),
                      toSim'[c][i].type # "NACK", IsIrq(toSim'[c][i]), toSim'[c][i].id = n
               PROVE  Asked(n)
    BY DEF Asked, IsIrq
  <2> QED BY <1>3 DEF Asked
<1>6. InFlight' \subseteq InFlight
  BY <1>1, <1>2, <1>5 DEF InFlight
<1> QED BY <1>1, <1>4, <1>6, CountFewer

LEMMA CountStep ==
  ASSUME "rd" \notin Ops, TypeOK, TypeOK', NoReads, MsiFrame, OnceInv, CountInv, [Next]_vars
  PROVE  OnceInv' /\ CountInv'
<1> USE DEF mainVars, listenerVars, simVars, termVars
<1>1. ~MainThread /\ ~SimReadData /\ \A ch \in Chans : ~SimRead(ch)
  BY TakenOff DEF NoReads, MainThread, SetTimeout, SelectSocket, ReceiveHeader, ReceivePayload,
         ReceiveFails, Finish, SimReadData, SimRead
<1>2. CASE Guest
  BY <1>2, CountWrite DEF Guest, PcieBridgeRead
<1>3. CASE AsyncPoll \/ AsyncHup
  BY <1>3, CountStill DEF AsyncPoll, AsyncHup, Held
<1>4. CASE AsyncHeader
  BY <1>4, CountHeader
<1>5. CASE AsyncPayload
  BY <1>5, CountPayload
<1>6. CASE AsyncFails
  <2>1. lpkt'.type = "INVALID"
    BY <1>6 DEF AsyncFails, TypeOK, Packet
  <2>2. \A n \in Nat : ~Held(n)'
    BY <2>1 DEF Held
  <2> QED BY <1>6, <2>2, CountStill DEF AsyncFails
<1>7. CASE AsyncDeliver
  BY <1>7, CountDeliver
<1>8. ASSUME NEW ch \in Chans, SimWrite(ch) \/ SimNack(ch)
      PROVE  OnceInv' /\ CountInv'
  BY <1>8, CountTaken DEF SimWrite, SimNack
<1>9. ASSUME NEW ch \in Chans, SimIrq(ch)
      PROVE  OnceInv' /\ CountInv'
  BY <1>9, CountIrq
<1>10. CASE SimIrqVector
  BY <1>10, CountVector
<1>11. ASSUME NEW ch \in Chans, SimEof(ch)
       PROVE  OnceInv' /\ CountInv'
  BY <1>11, CountStill DEF SimEof, Held
<1>12. CASE SimDies \/ Disconnect \/ Exit \/ MainReturns \/ UNCHANGED vars
  <2>1. UNCHANGED <<toSim, toBridge, tx, irqs, raised, lpc, lpkt>>
    BY <1>12 DEF SimDies, Disconnect, Exit, MainReturns, EndProcess, vars
  <2> QED BY <2>1, CountStill DEF Held
<1>13. CASE Sigint
  BY <1>13, CountSigint
<1> QED
  BY <1>1, <1>2, <1>3, <1>4, <1>5, <1>6, <1>7, <1>8, <1>9, <1>10, <1>11, <1>12, <1>13
     DEF Next, Listener, Sim

LEMMA MsiInit == Init => NoReads /\ MsiFrame /\ OnceInv /\ CountInv
<1> SUFFICES ASSUME Init PROVE NoReads /\ MsiFrame /\ OnceInv /\ CountInv
  OBVIOUS
<1>1. /\ \A ch \in Chans : toSim[ch] = <<>> /\ toBridge[ch] = <<>>
      /\ lpc = "poll" /\ tx = 0 /\ irqs = 0 /\ raised = 0 /\ Irqs = <<>>
  BY ChansAre DEF Init, Irqs
<1>2. /\ \A ch \in Chans : Len(toSim[ch]) = 0
      /\ Len(Irqs) = 0 /\ \A i \in 1 .. 0 : FALSE
  BY <1>1
<1>3. \A n : ~Raising(n) /\ ~Held(n) /\ ~Asked(n)
  BY <1>1, <1>2 DEF Raising, Held, Asked
<1>4. NoReads
  BY <1>2 DEF NoReads, Init
<1>5. MsiFrame
  <2>1. \A i \in 1 .. Len(Irqs) - 1 : FALSE
    BY <1>2
  <2> QED BY <1>1, <1>2, <2>1, ChansAre DEF MsiFrame, Init, Invalid
<1>6. OnceInv
  BY <1>2, <1>3 DEF OnceInv
<1>7. CountInv
  <2>1. InFlight = {}
    BY <1>3 DEF InFlight
  <2> QED BY <1>1, <2>1, FS_EmptySet DEF CountInv
<1> QED BY <1>4, <1>5, <1>6, <1>7

MsiInv == NoReads /\ MsiFrame /\ OnceInv /\ CountInv

LEMMA MsiCorrect ==
  ASSUME "rd" \notin Ops
  PROVE  Spec => [](TypeOK /\ MsiInv)
<1>1. Init => MsiInv
  BY MsiInit DEF MsiInv
<1>2. TypeOK /\ TypeOK' /\ MsiInv /\ [Next]_vars => MsiInv'
  BY NoReadsStep, MsiFrameStep, CountStep DEF MsiInv
<1> QED BY <1>1, <1>2, TypeCorrect, PTL DEF Spec

\* vfu_irq_trigger() is never called more often than the guest has written the
\* MSI pattern, however the two processes are scheduled and whichever of them
\* dies: as long as the guest waits for each interrupt, or rings no doorbell,
\* or makes no reads.
THEOREM NoSpuriousInterrupts ==
  ASSUME GuestWaits \/ NoDoorbell \/ "rd" \notin Ops
  PROVE  Spec => []NoSpuriousInterrupt
<1>1. TypeOK => irqs \in Nat /\ raised \in Nat
  BY CountsType
<1>2. TypeOK /\ MsiInv => NoSpuriousInterrupt
  BY <1>1, InFlightFinite DEF MsiInv, CountInv, NoSpuriousInterrupt
<1>3. LinkInv => NoSpuriousInterrupt
  BY <1>1 DEF LinkInv, OneAtATime, NoSpuriousInterrupt
<1>4. CASE GuestWaits \/ NoDoorbell
  BY <1>3, <1>4, LinkInvariant, PTL
<1>5. CASE "rd" \notin Ops
  BY <1>2, <1>5, MsiCorrect, PTL
<1> QED BY <1>4, <1>5

\* Under the same conditions the listener has put the channel back to MAIN
\* whenever it waits for the next interrupt.
THEOREM ChannelIsRestored ==
  ASSUME GuestWaits \/ NoDoorbell \/ "rd" \notin Ops
  PROVE  Spec => []ChannelRestored
<1>1. MsiInv => ChannelRestored
  BY DEF MsiInv, MsiFrame, ChannelRestored
<1>2. LinkInv => ChannelRestored
  BY DEF LinkInv, OneAtATime, Unserved, Signalled, Ended, OnMain, ChannelRestored
<1>3. CASE GuestWaits \/ NoDoorbell
  BY <1>2, <1>3, LinkInvariant, PTL
<1>4. CASE "rd" \notin Ops
  BY <1>1, <1>4, MsiCorrect, PTL
<1> QED BY <1>3, <1>4
=============================================================================
