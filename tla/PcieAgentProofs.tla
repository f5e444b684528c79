--------------------------- MODULE PcieAgentProofs ---------------------------
(***************************************************************************)
(* Theorems about PcieAgent, for any number of runs, backups and faults.   *)
(***************************************************************************)
EXTENDS PcieAgent, FiniteSetTheorems, TLAPS

\* Nil is neither a run nor a file, and 0 is a name.
LEMMA Constants ==
  /\ Nil \notin Files /\ Runs \subseteq Files /\ 0 \in Names /\ 1 \in Names /\ 0 \in Files
BY AgentAssumption DEF Nil, Files, Runs, Names

-----------------------------------------------------------------------------
(* Type correctness.                                                       *)

LEMMA PrintsType ==
  ASSUME TypeOK, NEW r \in Runs, NEW b \in BOOLEAN, Prints(r, b)
  PROVE  /\ names' \in [Names -> Files \cup {Nil}] /\ log' \in [Runs -> Files \cup {Nil}]
         /\ text' \in [Files -> SUBSET Files] /\ line' \in [Files -> SUBSET Files]
         /\ \A f \in Files : line'[f] \subseteq text'[f]
<1>1. r \in Files
  BY Constants
<1>2. PICK old \in SUBSET line[log[r]] :
        line' = [line EXCEPT ![log[r]] = old \cup (IF b THEN {r} ELSE {})]
  BY DEF Prints
<1>3. text' = [text EXCEPT ![log[r]] = @ \cup {r}] /\ UNCHANGED <<names, log>>
  BY DEF Prints
<1>4. CASE log[r] \in Files
  <2>1. line[log[r]] \subseteq text[log[r]] /\ text[log[r]] \subseteq Files
    BY <1>4 DEF TypeOK
  <2> QED BY <1>1, <1>2, <1>3, <1>4, <2>1 DEF TypeOK
<1>5. CASE log[r] \notin Files
  <2>1. line' = line /\ text' = text
    BY <1>2, <1>3, <1>5 DEF TypeOK
  <2> QED BY <1>3, <2>1 DEF TypeOK
<1> QED BY <1>4, <1>5

LEMMA TypeInit == Init => TypeOK
BY AgentAssumption DEF Init, TypeOK, Names, Files, Runs, Nil, Over, Ready, Building

LEMMA TypeStep == TypeOK /\ [Next]_vars => TypeOK'
<1> SUFFICES ASSUME TypeOK, [Next]_vars PROVE TypeOK'
  OBVIOUS
<1> USE DEF At, Same, files, ghosts
<1>1. ASSUME NEW r \in Runs, Start(r) PROVE TypeOK'
  <2>1. met' \in [Runs -> SUBSET Runs]
    BY <1>1 DEF Start, TypeOK, UnderWay
  <2> QED BY <1>1, <2>1 DEF Start, TypeOK
<1>2. ASSUME NEW r \in Runs, Shift(r) PROVE TypeOK'
  <2>1. MovedUp \in [Names -> Files \cup {Nil}]
    BY AgentAssumption DEF MovedUp, TypeOK, Names
  <2> QED BY <1>2, <2>1 DEF Shift, TypeOK
<1>3. ASSUME NEW r \in Runs, Rotate(r) PROVE TypeOK'
  BY <1>3, Constants DEF Rotate, TypeOK
<1>4. ASSUME NEW r \in Runs, Open(r) PROVE TypeOK'
  <2>1. NewFile(r) \in Files
    BY Constants DEF NewFile, TypeOK
  <2>2. /\ text' \in [Files -> SUBSET Files] /\ line' \in [Files -> SUBSET Files]
        /\ \A f \in Files : line'[f] \subseteq text'[f]
    BY <1>4, <2>1 DEF Open, Wiped, TypeOK
  <2> QED BY <1>4, <2>1, <2>2, Constants DEF Open, TypeOK, Building
<1>5. ASSUME NEW r \in Runs, Bind(r) PROVE TypeOK'
  <2>1. CASE NameFree
    BY <1>5, <2>1 DEF Bind, TypeOK
  <2>2. CASE ~NameFree
    <3>1. Prints(r, FALSE)
      BY <1>5, <2>2 DEF Bind
    <3> QED BY <1>5, <2>2, <3>1, PrintsType DEF Bind, TypeOK
  <2> QED BY <2>1, <2>2
<1>6. ASSUME NEW r \in Runs, Serve(r) PROVE TypeOK'
  <2>1. Prints(r, TRUE)
    BY <1>6 DEF Serve
  <2> QED BY <1>6, <2>1, PrintsType DEF Serve, TypeOK
<1>7. ASSUME NEW r \in Runs, Interrupted(r) PROVE TypeOK'
  <2>1. Prints(r, FALSE)
    BY <1>7 DEF Interrupted
  <2> QED BY <1>7, <2>1, PrintsType DEF Interrupted, TypeOK
<1>8. ASSUME NEW r \in Runs, BridgeFails(r) PROVE TypeOK'
  <2>1. faults' \in 0 .. MaxFaults
    BY <1>8, AgentAssumption DEF BridgeFails, Fault, TypeOK
  <2>2. CASE Prints(r, FALSE)
    BY <1>8, <2>1, <2>2, PrintsType DEF BridgeFails, TypeOK
  <2>3. CASE UNCHANGED files
    BY <1>8, <2>1, <2>3 DEF BridgeFails, TypeOK
  <2> QED BY <1>8, <2>2, <2>3 DEF BridgeFails
<1>9. ASSUME NEW r \in Runs, BridgeFreezes(r) PROVE TypeOK'
  BY <1>9, AgentAssumption DEF BridgeFreezes, Fault, TypeOK
<1>10. ASSUME NEW r \in Runs, AgentDies(r) PROVE TypeOK'
  BY <1>10, AgentAssumption DEF AgentDies, WithoutQemu, Fault, TypeOK, Over
<1>11. ASSUME NEW r \in Runs, GiveUp(r) \/ Sync(r) \/ SyncTimeout(r) PROVE TypeOK'
  BY <1>11 DEF GiveUp, Sync, SyncTimeout, TypeOK, Over, Ready
<1>18. ASSUME NEW r \in Runs, FindBinary(r) \/ Clean(r) \/ Compile(r) PROVE TypeOK'
  BY <1>18 DEF FindBinary, Clean, Compile, TypeOK, Building
<1>17. ASSUME NEW r \in Runs, SpawnBridge(r) PROVE TypeOK'
  <2>1. CASE built
    BY <1>17, <2>1 DEF SpawnBridge, TypeOK
  <2>2. CASE ~built
    <3>1. Prints(r, FALSE)
      BY <1>17, <2>2 DEF SpawnBridge
    <3> QED BY <1>17, <2>2, <3>1, PrintsType DEF SpawnBridge, TypeOK
  <2> QED BY <2>1, <2>2
<1>12. ASSUME NEW r \in Runs, Standalone(r) \/ Sniff(r) PROVE TypeOK'
  BY <1>12 DEF Standalone, Sniff, TypeOK, Ready
<1>13. ASSUME NEW r \in Runs, SpawnQemu(r) \/ SessionEnds(r) \/ Teardown(r) PROVE TypeOK'
  BY <1>13 DEF SpawnQemu, SessionEnds, Teardown, WithoutQemu, Unsniffed, TypeOK, Ready
<1>14. ASSUME NEW r \in Runs,
              Reap(r) \/ Reaped(r) \/ WaitExpires(r) \/ ForceKill(r) \/ Unlink(r) \/ Block(r)
              \/ Leaves(r)
       PROVE TypeOK'
  BY <1>14 DEF Reap, Reaped, WaitExpires, ForceKill, Unlink, Block, Leaves, TypeOK, Over, Ready
<1>15. ASSUME RemoveStale PROVE TypeOK'
  BY <1>15 DEF RemoveStale, TypeOK
<1>16. CASE UNCHANGED vars
  BY <1>16 DEF vars, TypeOK
<1> QED BY <1>1, <1>2, <1>3, <1>4, <1>5, <1>6, <1>7, <1>8, <1>9, <1>10, <1>11, <1>12,
           <1>13, <1>14, <1>15, <1>16, <1>17, <1>18 DEF Next, Agent, Bridge

(* Every variable keeps its type, and a file's lines are among its text.   *)
THEOREM AgentTypeCorrect == Spec => []TypeOK
BY TypeInit, TypeStep, PTL DEF Spec

-----------------------------------------------------------------------------
(* Who has the socket, and what a run leaves behind.                       *)

\* Two runs under way have met.
Overlap == \A r, q \in UnderWay : r # q => q \in met[r]

\* Every step but a start leaves the runs under way, or fewer.
LEMMA OnlyStarts ==
  ASSUME TypeOK, [Next]_vars
  PROVE  \/ \E r \in Runs : Start(r)
         \/ met' = met /\ \A q \in Runs : pc'[q] \notin Over => pc[q] \notin Over
<1> USE DEF At, Same, ghosts, Over, TypeOK
<1>1. ASSUME NEW r \in Runs,
             Shift(r) \/ Rotate(r) \/ Open(r) \/ GiveUp(r) \/ FindBinary(r) \/ Clean(r)
             \/ Compile(r) \/ SpawnBridge(r) \/ Sync(r) \/ SyncTimeout(r)
      PROVE  met' = met /\ \A q \in Runs : pc'[q] \notin Over => pc[q] \notin Over
  BY <1>1 DEF Shift, Rotate, Open, GiveUp, FindBinary, Clean, Compile, SpawnBridge, Sync, SyncTimeout
<1>2. ASSUME NEW r \in Runs,
             Standalone(r) \/ Sniff(r) \/ SpawnQemu(r) \/ SessionEnds(r) \/ Teardown(r)
             \/ Reap(r) \/ Reaped(r) \/ WaitExpires(r) \/ ForceKill(r) \/ Unlink(r)
             \/ Block(r) \/ AgentDies(r)
      PROVE  met' = met /\ \A q \in Runs : pc'[q] \notin Over => pc[q] \notin Over
  BY <1>2 DEF Standalone, Sniff, SpawnQemu, SessionEnds, Teardown, Reap, Reaped, WaitExpires,
              ForceKill, Unlink, Block, AgentDies
<1>3. ASSUME NEW r \in Runs, Bridge(r) \/ BridgeFails(r) \/ BridgeFreezes(r)
      PROVE  met' = met /\ pc' = pc
  BY <1>3 DEF Bridge, Bind, Serve, Interrupted, Leaves, BridgeFails, BridgeFreezes
<1>4. ASSUME RemoveStale \/ UNCHANGED vars PROVE met' = met /\ pc' = pc
  BY <1>4 DEF RemoveStale, vars
<1> QED BY <1>1, <1>2, <1>3, <1>4 DEF Next, Agent

LEMMA OverlapStep == TypeOK /\ Overlap /\ [Next]_vars => Overlap'
<1> SUFFICES ASSUME TypeOK, Overlap, [Next]_vars PROVE Overlap'
  OBVIOUS
<1>1. ASSUME NEW r \in Runs, Start(r) PROVE Overlap'
  BY <1>1 DEF Start, At, Overlap, UnderWay, TypeOK, Over
<1>2. ASSUME met' = met, \A q \in Runs : pc'[q] \notin Over => pc[q] \notin Over
      PROVE  Overlap'
  BY <1>2 DEF Overlap, UnderWay
<1> QED BY <1>1, <1>2, OnlyStarts

\* The bridge, QEMU and the sniffer of a run, against the place of its agent.
Early == {"off", "shift", "rotate", "open"} \cup Building

Placed(r) ==
  /\ pc[r] \in Early \cup Over => ~Alive(r)
  /\ pc[r] \in {"qemu", "session", "teardown", "reap", "wait", "kill", "blocked"}
       => bridge[r] # "started"
  /\ pc[r] = "unlink" => bridge[r] = "dead"
  /\ pc[r] \in Early \cup {"sync", "ready", "qemu"} => qemu[r] = Nil
  /\ qemu[r] # Nil /\ "qemu" \notin Spared => pc[r] \in {"session", "teardown"}
  /\ r \in sniffer /\ "sniffer" \notin Spared => pc[r] \in {"qemu", "session", "teardown", "gone"}

SocketInv == TypeOK /\ Overlap /\ OneBridge /\ \A r \in Runs : Placed(r)

LEMMA SocketInit == Init => SocketInv
<1> SUFFICES ASSUME Init PROVE SocketInv
  OBVIOUS
<1>1. Overlap /\ OneBridge /\ \A r \in Runs : Placed(r)
  BY DEF Init, Overlap, UnderWay, OneBridge, Placed, Early, Over, Bound, Alive
<1> QED BY <1>1, TypeInit DEF SocketInv

\* The bridge of a run that is not under way is not alive.
LEMMA AliveUnderWay ==
  ASSUME SocketInv, NEW r \in Runs, Alive(r) PROVE r \in UnderWay
BY DEF SocketInv, Placed, UnderWay

\* A run that unlinks the socket unasked is one that every other bridge's run
\* has met.
LEMMA TakerMet ==
  ASSUME SocketInv, NEW r \in Runs, pc[r] \notin Over,
         NEW q \in Runs, Bound(q), q # r
  PROVE  r \in met[q]
BY AliveUnderWay DEF SocketInv, Overlap, UnderWay, Alive

\* A step of run r that touches neither the socket nor any bridge, QEMU or
\* sniffer keeps the invariant if the run's own conjunct is kept.
LEMMA LocalStep ==
  ASSUME SocketInv, NEW r \in Runs, NEW to, At(r, pc[r], to), Placed(r)', took' = took,
         \A q \in Runs : met[q] \subseteq met'[q] \/ q = r,
         Bound(r) => met' = met,
         UNCHANGED <<bridge, sock, qemu, sniffer>>
  PROVE  OneBridge' /\ \A q \in Runs : Placed(q)'
<1>1. OneBridge'
  BY DEF SocketInv, OneBridge, Bound
<1>2. \A q \in Runs : Placed(q)'
  BY DEF SocketInv, TypeOK, Placed, Bound, Alive, At
<1> QED BY <1>1, <1>2

\* A step that moves no agent and ends or changes only the bridge of run r,
\* which keeps the socket's name if it is still bound.
LEMMA BridgeStep ==
  ASSUME SocketInv, NEW r \in Runs, NEW to \in {"bound", "serving", "frozen", "leaving", "dead"},
         bridge' = [bridge EXCEPT ![r] = to], Alive(r),
         to \in {"bound", "serving", "frozen"} => Bound(r) \/ sock' = r,
         \A q \in Runs : Bound(q) /\ sock = q => sock' = q \/ (q = r /\ to \in {"leaving", "dead"}),
         UNCHANGED <<pc, met, took, qemu, sniffer>>
  PROVE  OneBridge' /\ \A q \in Runs : Placed(q)'
<1>1. OneBridge'
  BY DEF SocketInv, TypeOK, OneBridge, Bound
<1>2. \A q \in Runs : Placed(q)'
  BY DEF SocketInv, TypeOK, Placed, Bound, Alive
<1> QED BY <1>1, <1>2

LEMMA SocketStep == SocketInv /\ [Next]_vars => SocketInv'
<1> SUFFICES ASSUME SocketInv, [Next]_vars PROVE OneBridge' /\ \A q \in Runs : Placed(q)'
  BY TypeStep, OverlapStep DEF SocketInv
<1>0. TypeOK
  BY DEF SocketInv
<1> USE DEF At, Same, ghosts, Early, Over, Building
<1>1. ASSUME NEW r \in Runs, Start(r) PROVE OneBridge' /\ \A q \in Runs : Placed(q)'
  <2>1. /\ pc[r] = "off" /\ pc' = [pc EXCEPT ![r] = "shift"]
        /\ UNCHANGED <<bridge, sock, qemu, sniffer, took>>
        /\ \A q \in Runs : q # r => met[q] \subseteq met'[q]
    BY <1>0, <1>1 DEF Start, TypeOK
  <2>2. ~Bound(r) /\ Placed(r)'
    BY <1>0, <2>1 DEF SocketInv, TypeOK, Placed, Alive, Bound
  <2> QED BY <2>1, <2>2, LocalStep
<1>2. ASSUME NEW r \in Runs,
             Shift(r) \/ Rotate(r) \/ Open(r) \/ GiveUp(r) \/ FindBinary(r) \/ Compile(r)
             \/ Sync(r) \/ Standalone(r) \/ SessionEnds(r) \/ Reap(r) \/ Reaped(r)
             \/ WaitExpires(r) \/ Block(r)
      PROVE OneBridge' /\ \A q \in Runs : Placed(q)'
  <2>1. /\ pc' = [pc EXCEPT ![r] = pc'[r]]
        /\ UNCHANGED <<bridge, sock, qemu, sniffer, met, took>>
    BY <1>0, <1>2 DEF TypeOK, Shift, Rotate, Open, GiveUp, FindBinary, Compile, Sync, Standalone,
                SessionEnds, Reap, Reaped, WaitExpires, Block
  <2>2. Placed(r)'
    BY <1>0, <1>2, <2>1 DEF SocketInv, TypeOK, Placed, Alive, Bound, Shift, Rotate, Open, GiveUp,
                FindBinary, Compile, Sync, Standalone, SessionEnds, Reap, Reaped, WaitExpires,
                Block, Tried
  <2> QED BY <2>1, <2>2, LocalStep
<1>3. ASSUME NEW r \in Runs, Clean(r) \/ Unlink(r)
      PROVE OneBridge' /\ \A q \in Runs : Placed(q)'
  <2>1. /\ pc[r] \in {"clean", "unlink"} /\ pc' = [pc EXCEPT ![r] = pc'[r]]
        /\ pc[r] = "clean" => pc'[r] = "compile"
        /\ pc[r] = "unlink" => pc'[r] = "done"
        /\ took' = took \cup {r} /\ UNCHANGED <<bridge, qemu, sniffer, met>>
    BY <1>0, <1>3 DEF Clean, Unlink, TypeOK
  <2>2. ~Alive(r)
    BY <2>1 DEF SocketInv, Placed, Alive, Bound
  <2>3. OneBridge'
    BY <2>1, <2>2, TakerMet DEF OneBridge, Bound, Alive
  <2>4. \A q \in Runs : Placed(q)'
    BY <1>0, <2>1, <2>2 DEF SocketInv, TypeOK, Placed, Alive, Bound
  <2> QED BY <2>3, <2>4
<1>4. ASSUME NEW r \in Runs, SpawnBridge(r)
      PROVE OneBridge' /\ \A q \in Runs : Placed(q)'
  <2>1. /\ pc[r] = "launch" /\ pc' = [pc EXCEPT ![r] = "sync"]
        /\ UNCHANGED <<sock, qemu, sniffer, met, took>>
        /\ \E to \in {"started", "dead"} : bridge' = [bridge EXCEPT ![r] = to]
    BY <1>4 DEF SpawnBridge
  <2> QED BY <1>0, <2>1 DEF SocketInv, TypeOK, OneBridge, Placed, Bound, Alive
<1>5. ASSUME NEW r \in Runs, Bind(r)
      PROVE OneBridge' /\ \A q \in Runs : Placed(q)'
  <2>1. Alive(r) /\ UNCHANGED <<pc, met, took, qemu, sniffer>>
    BY <1>5 DEF Bind, Alive
  <2>2. CASE NameFree
    <3>1. bridge' = [bridge EXCEPT ![r] = "bound"] /\ sock' = r /\ sock = Nil /\ sock \notin Runs
      BY <1>5, <2>2, Constants DEF Bind, NameFree
    <3> QED BY <2>1, <3>1, BridgeStep
  <2>3. CASE ~NameFree
    <3>1. bridge' = [bridge EXCEPT ![r] = "dead"] /\ sock' = sock
      BY <1>5, <2>3 DEF Bind
    <3> QED BY <2>1, <3>1, BridgeStep
  <2> QED BY <2>2, <2>3
<1>6. ASSUME NEW r \in Runs, Serve(r) \/ BridgeFreezes(r) \/ BridgeFails(r) \/ Leaves(r)
      PROVE OneBridge' /\ \A q \in Runs : Placed(q)'
  <2>1. /\ \E to \in {"serving", "frozen", "dead"} :
             bridge' = [bridge EXCEPT ![r] = to] /\ (to = "dead" \/ Bound(r))
        /\ Alive(r) /\ UNCHANGED <<pc, met, took, sock, qemu, sniffer>>
    BY <1>6 DEF Serve, BridgeFreezes, BridgeFails, Leaves, Alive, Bound
  <2> QED BY <2>1, BridgeStep
<1>7. ASSUME NEW r \in Runs, Interrupted(r)
      PROVE OneBridge' /\ \A q \in Runs : Placed(q)'
  <2>1. /\ Bound(r) /\ bridge' = [bridge EXCEPT ![r] = "leaving"]
        /\ UNCHANGED <<pc, met, qemu, sniffer>> /\ pc[r] \in {"wait", "kill"}
        /\ took' = IF sock = r THEN took ELSE took \cup {r}
    BY <1>7 DEF Interrupted, Bound
  <2>2. OneBridge'
    <3> SUFFICES ASSUME NEW q \in Runs, Bound(q)' PROVE met[q] \cap took' # {}
      BY <2>1 DEF OneBridge
    <3>1. q # r /\ Bound(q)
      BY <1>0, <2>1 DEF TypeOK, Bound
    <3>2. CASE sock = r
      BY <2>1, <3>1, <3>2 DEF SocketInv, OneBridge
    <3>3. CASE sock # r
      BY <2>1, <3>1, <3>3, TakerMet
    <3> QED BY <3>2, <3>3
  <2>3. \A q \in Runs : Placed(q)'
    BY <1>0, <2>1 DEF SocketInv, TypeOK, Placed, Alive, Bound
  <2> QED BY <2>2, <2>3
<1>8. ASSUME NEW r \in Runs, SyncTimeout(r) \/ ForceKill(r)
      PROVE OneBridge' /\ \A q \in Runs : Placed(q)'
  <2>1. /\ bridge' = [bridge EXCEPT ![r] = "dead"]
        /\ UNCHANGED <<sock, qemu, sniffer, met, took>>
        /\ \/ pc[r] = "sync" /\ pc' = [pc EXCEPT ![r] = "done"]
           \/ pc[r] = "kill" /\ pc' = [pc EXCEPT ![r] = "unlink"]
    BY <1>8 DEF SyncTimeout, ForceKill
  <2> QED BY <1>0, <2>1 DEF SocketInv, TypeOK, OneBridge, Placed, Bound, Alive
<1>9. ASSUME NEW r \in Runs, Sniff(r) \/ SpawnQemu(r) \/ Teardown(r)
      PROVE OneBridge' /\ \A q \in Runs : Placed(q)'
  <2>1. UNCHANGED <<bridge, sock, met, took>>
    BY <1>9 DEF Sniff, SpawnQemu, Teardown
  <2>2. OneBridge'
    BY <2>1 DEF SocketInv, OneBridge, Bound
  <2>3. \A q \in Runs : Placed(q)'
    BY <1>0, <1>9 DEF Sniff, SpawnQemu, Teardown, WithoutQemu, Unsniffed, Tried, SocketInv, TypeOK,
                      Placed, Alive, Bound
  <2> QED BY <2>2, <2>3
<1>10. ASSUME NEW r \in Runs, AgentDies(r)
       PROVE OneBridge' /\ \A q \in Runs : Placed(q)'
  BY <1>0, <1>10 DEF AgentDies, WithoutQemu, SocketInv, TypeOK, OneBridge, Placed, Bound, Alive
<1>11. ASSUME RemoveStale PROVE OneBridge' /\ \A q \in Runs : Placed(q)'
  BY <1>11 DEF RemoveStale, SocketInv, TypeOK, OneBridge, Placed, Bound, Alive
<1>12. CASE UNCHANGED vars
  BY <1>12 DEF vars, SocketInv, OneBridge, Placed, Bound, Alive
<1> QED BY <1>1, <1>2, <1>3, <1>4, <1>5, <1>6, <1>7, <1>8, <1>9, <1>10, <1>11, <1>12
        DEF Next, Agent, Bridge

LEMMA SocketAlways == Spec => []SocketInv
BY SocketInit, SocketStep, PTL DEF Spec

(* The socket's name leads to the bridge that is alive, and to no other,   *)
(* unless a run under way at the same time has unlinked it unasked: no     *)
(* bridge takes the name from another in order to have it.                 *)
THEOREM OneBridgeAtATime == Spec => []OneBridge
<1>1. SocketInv => OneBridge
  BY DEF SocketInv
<1> QED BY <1>1, SocketAlways, PTL

(* An agent that has ended in order leaves nothing behind that it can end. *)
THEOREM NothingLeftBehind == Spec => []NothingLeft
<1>1. SocketInv => NothingLeft
  BY DEF SocketInv, NothingLeft, Placed, Over
<1> QED BY <1>1, SocketAlways, PTL

-----------------------------------------------------------------------------
(* Whose line an agent has seen, and whose bridge its QEMU is connected to. *)

\* From the opening of its log on, an agent that waits for its bridge finds
\* under the log's name the lines only of runs that it has met, or its own.
Waiting == Building \cup {"sync"}
OwnLine ==
  \A r \in Runs : pc[r] \in Waiting /\ names[0] # Nil
    => line[names[0]] \subseteq served \cap ({r} \cup met[r])

LogInv == SocketInv /\ OwnLine /\ OwnBridge

LEMMA LogInit == Init => LogInv
<1> SUFFICES ASSUME Init PROVE LogInv
  OBVIOUS
<1>1. OwnLine /\ OwnBridge
  BY Constants DEF Init, OwnLine, Waiting, Building, OwnBridge, Ready
<1> QED BY <1>1, SocketInit DEF LogInv

\* A print adds nothing to a log but, perhaps, the line of the run that prints.
LEMMA PrintsLines ==
  ASSUME TypeOK, NEW r \in Runs, NEW isLine \in BOOLEAN, Prints(r, isLine)
  PROVE  \A f \in Files : line'[f] \subseteq line[f] \cup (IF isLine THEN {r} ELSE {})
BY DEF TypeOK, Prints

\* A step that starts no run keeps OwnBridge if no agent becomes ready by it
\* and no QEMU is connected by it.
LEMMA QuietStep ==
  ASSUME LogInv, met' = met, served \subseteq served',
         \A r \in Runs : pc'[r] \in Ready => pc[r] \in Ready,
         \A r \in Runs : qemu'[r] \in {qemu[r], Nil}
  PROVE  OwnBridge'
BY DEF LogInv, OwnBridge

\* A step that neither opens nor renames a log keeps OwnLine if it only adds
\* to logs the lines of runs that are under way, and drained.
LEMMA WrittenStep ==
  ASSUME LogInv, TypeOK', met' = met, served \subseteq served', names' = names,
         NEW r \in Runs, r \in UnderWay,
         \A f \in Files : line'[f] \subseteq line[f] \cup ({r} \cap served'),
         \A q \in Runs : pc'[q] \in Waiting => pc[q] \in Waiting
  PROVE  OwnLine'
<1> SUFFICES ASSUME NEW q \in Runs, pc'[q] \in Waiting, names[0] # Nil
             PROVE  line'[names[0]] \subseteq served' \cap ({q} \cup met[q])
  BY DEF OwnLine
<1>1. names[0] \in Files /\ pc[q] \in Waiting
  BY Constants DEF LogInv, SocketInv, TypeOK, Names
<1>2. line[names[0]] \subseteq served' \cap ({q} \cup met[q])
  BY <1>1 DEF LogInv, OwnLine
<1>3. r \in {q} \cup met[q]
  BY <1>1 DEF LogInv, SocketInv, Overlap, UnderWay, Over, Waiting, Building
<1> QED BY <1>1, <1>2, <1>3

LEMMA LogStep == LogInv /\ [Next]_vars => LogInv'
<1> SUFFICES ASSUME LogInv, [Next]_vars PROVE OwnBridge' /\ OwnLine'
  BY SocketStep DEF LogInv
<1>0. TypeOK /\ TypeOK' /\ SocketInv
  BY TypeStep DEF LogInv, SocketInv
<1> USE DEF At, Same, ghosts
<1>1. ASSUME NEW r \in Runs, Start(r) PROVE OwnBridge' /\ OwnLine'
  <2>1. /\ pc' = [pc EXCEPT ![r] = "shift"] /\ pc[r] = "off" /\ UNCHANGED <<files, served, qemu>>
        /\ \A q \in Runs : met'[q] = IF q = r THEN UnderWay
                                     ELSE IF q \in UnderWay THEN met[q] \cup {r} ELSE met[q]
    BY <1>1 DEF Start
  <2>2. met[r] \subseteq met'[r] \/ qemu[r] = Nil
    BY <1>0, <2>1 DEF SocketInv, Placed, Early
  <2>3. OwnBridge'
    BY <1>0, <2>1, <2>2 DEF LogInv, OwnBridge, Ready, TypeOK
  <2>4. OwnLine'
    BY <1>0, <2>1 DEF LogInv, OwnLine, Waiting, Building, files, TypeOK
  <2> QED BY <2>3, <2>4
<1>2. ASSUME NEW r \in Runs, Shift(r) PROVE OwnBridge' /\ OwnLine'
  <2>1. /\ pc' = [pc EXCEPT ![r] = "rotate"] /\ pc[r] = "shift"
        /\ UNCHANGED <<line, met, served, qemu>> /\ names'[0] = names[0]
    BY <1>2, Constants DEF Shift, MovedUp
  <2>2. OwnLine'
    BY <1>0, <2>1 DEF LogInv, OwnLine, Waiting, Building, TypeOK
  <2> QED BY <1>0, <2>1, <2>2, QuietStep DEF TypeOK, Over, Ready
<1>3. ASSUME NEW r \in Runs, Rotate(r) PROVE OwnBridge' /\ OwnLine'
  <2>1. /\ pc' = [pc EXCEPT ![r] = "open"] /\ pc[r] = "rotate"
        /\ UNCHANGED <<line, met, served, qemu>> /\ names'[0] \in {names[0], Nil}
    BY <1>0, <1>3, Constants DEF Rotate, TypeOK
  <2>2. OwnLine'
    BY <1>0, <2>1 DEF LogInv, OwnLine, Waiting, Building, TypeOK
  <2> QED BY <1>0, <2>1, <2>2, QuietStep DEF TypeOK, Over, Ready
<1>4. ASSUME NEW r \in Runs, Open(r) PROVE OwnBridge' /\ OwnLine'
  <2>1. /\ pc' = [pc EXCEPT ![r] = "spawn"] /\ pc[r] = "open"
        /\ UNCHANGED <<met, served, qemu>> /\ names'[0] = NewFile(r)
    BY <1>0, <1>4, Constants DEF Open, TypeOK
  <2>2. line'[NewFile(r)] = {}
    BY <1>0, <1>4, Constants DEF Open, Wiped, NewFile, TypeOK
  <2>3. OwnLine'
    BY <2>1, <2>2 DEF OwnLine
  <2> QED BY <1>0, <2>1, <2>3, QuietStep DEF TypeOK, Over, Ready
<1>5. ASSUME NEW r \in Runs, GiveUp(r) \/ FindBinary(r) \/ Clean(r) \/ Compile(r)
             \/ SyncTimeout(r) \/ Standalone(r) \/ Sniff(r) \/ SessionEnds(r) \/ Teardown(r)
             \/ Reap(r) \/ Reaped(r) \/ WaitExpires(r) \/ ForceKill(r) \/ Unlink(r) \/ Block(r)
             \/ AgentDies(r)
      PROVE OwnBridge' /\ OwnLine'
  <2> USE <1>5 DEF GiveUp, FindBinary, Clean, Compile, SyncTimeout, Standalone, Sniff, SessionEnds,
                  Teardown, Reap, Reaped, WaitExpires, ForceKill, Unlink, Block, AgentDies
  <2>1. UNCHANGED <<names, line, met, served>> /\ r \in UnderWay
    BY DEF files, UnderWay, Over
  <2>2. \A q \in Runs : /\ pc'[q] \notin Over => pc[q] \notin Over
                        /\ pc'[q] \in Ready => pc[q] \in Ready
                        /\ pc'[q] \in Waiting => pc[q] \in Waiting
    BY <1>0 DEF TypeOK, Over, Ready, Waiting, Building
  <2>3. \A q \in Runs : qemu'[q] \in {qemu[q], Nil}
    BY <1>0 DEF WithoutQemu, TypeOK
  <2>4. OwnBridge'
    BY <2>1, <2>2, <2>3, QuietStep
  <2>5. OwnLine'
    BY <1>0, <2>1, <2>2, WrittenStep
  <2> QED BY <2>4, <2>5
<1>6. ASSUME NEW r \in Runs, SpawnBridge(r) \/ Bind(r) \/ BridgeFails(r) \/ BridgeFreezes(r)
             \/ Interrupted(r) \/ Leaves(r)
      PROVE OwnBridge' /\ OwnLine'
  <2> USE <1>6 DEF SpawnBridge, Bind, BridgeFails, BridgeFreezes, Interrupted, Leaves
  <2>1. UNCHANGED <<names, met, served, qemu>>
    BY DEF files, Prints
  <2>2. r \in UnderWay
    BY <1>0, AliveUnderWay DEF Alive, Bound, UnderWay, Over
  <2>3. Prints(r, FALSE) \/ UNCHANGED files
    OBVIOUS
  <2>4. \A f \in Files : line'[f] \subseteq line[f]
    BY <1>0, <2>3, PrintsLines DEF files
  <2>5. \A q \in Runs : /\ pc'[q] \in Ready => pc[q] \in Ready
                        /\ pc'[q] \in Waiting => pc[q] \in Waiting
    BY <1>0 DEF TypeOK, Ready, Waiting, Building
  <2>6. OwnBridge'
    BY <1>0, <2>1, <2>5, QuietStep
  <2>7. OwnLine'
    BY <1>0, <2>1, <2>2, <2>4, <2>5, WrittenStep
  <2> QED BY <2>6, <2>7
<1>7. ASSUME NEW r \in Runs, Serve(r) PROVE OwnBridge' /\ OwnLine'
  <2>1. UNCHANGED <<pc, names, met, qemu>> /\ served' = served \cup {r}
    BY <1>7 DEF Serve, Prints
  <2>2. r \in UnderWay
    BY <1>0, <1>7, AliveUnderWay DEF Serve, Alive, Bound
  <2>3. \A f \in Files : line'[f] \subseteq line[f] \cup {r}
    BY <1>0, <1>7, PrintsLines DEF Serve
  <2>4. OwnBridge'
    BY <1>0, <2>1, QuietStep
  <2>5. OwnLine'
    BY <1>0, <2>1, <2>2, <2>3, WrittenStep
  <2> QED BY <2>4, <2>5
<1>8. ASSUME NEW r \in Runs, Sync(r) PROVE OwnBridge' /\ OwnLine'
  <2>1. /\ pc' = [pc EXCEPT ![r] = "ready"] /\ pc[r] = "sync"
        /\ UNCHANGED <<names, line, met, served, qemu>> /\ LineSeen
    BY <1>8 DEF Sync, files
  <2>2. r \in served \/ met[r] \cap served # {}
    BY <2>1 DEF LogInv, OwnLine, Waiting, LineSeen
  <2>3. OwnBridge'
    BY <1>0, <2>1, <2>2 DEF LogInv, OwnBridge, TypeOK
  <2>4. OwnLine'
    BY <1>0, <2>1 DEF LogInv, OwnLine, Waiting, Building, TypeOK
  <2> QED BY <2>3, <2>4
<1>9. ASSUME NEW r \in Runs, SpawnQemu(r) PROVE OwnBridge' /\ OwnLine'
  <2>1. /\ pc' = [pc EXCEPT ![r] = "session"] /\ pc[r] = "qemu"
        /\ UNCHANGED <<names, line, met, served>>
        /\ qemu' = [qemu EXCEPT ![r] = IF sock # Nil /\ Bound(sock) THEN sock ELSE Nil]
    BY <1>9 DEF SpawnQemu, files
  <2>2. sock # Nil /\ Bound(sock) => sock \in {r} \cup met[r]
    BY <1>0, <2>1, AliveUnderWay DEF SocketInv, Overlap, UnderWay, Over, Alive, TypeOK
  <2>3. OwnBridge'
    BY <1>0, <2>1, <2>2 DEF LogInv, OwnBridge, Ready, TypeOK
  <2>4. OwnLine'
    BY <1>0, <2>1 DEF LogInv, OwnLine, Waiting, Building, TypeOK
  <2> QED BY <2>3, <2>4
<1>10. ASSUME RemoveStale \/ UNCHANGED vars PROVE OwnBridge' /\ OwnLine'
  <2>1. UNCHANGED <<pc, names, line, met, served, qemu>>
    BY <1>10 DEF RemoveStale, vars, files
  <2> QED BY <2>1 DEF LogInv, OwnBridge, OwnLine
<1> QED BY <1>1, <1>2, <1>3, <1>4, <1>5, <1>6, <1>7, <1>8, <1>9, <1>10 DEF Next, Agent, Bridge

(* An agent whose backend is ready has a bridge behind it that has printed *)
(* its line, its own or that of a run it overlaps with, and so has its     *)
(* QEMU, whatever the logs of earlier runs hold.                           *)
THEOREM AgentHasItsBridge == Spec => []OwnBridge
<1>1. LogInv => OwnBridge
  BY DEF LogInv
<1> QED BY <1>1, LogInit, LogStep, PTL DEF Spec

-----------------------------------------------------------------------------
(* The logs of runs that do not overlap.                                   *)

\* The runs that have been started are the first m.
Latest(m) == \A q \in Runs : pc[q] # "off" <=> q <= m

RunsInv ==
  /\ TypeOK
  /\ \E m \in Files : Latest(m)
  /\ \A q \in Runs : pc[q] = "off" => met[q] = {}
  /\ \A q \in Runs : pc[q] \in {"off", "shift", "rotate", "open"} => log[q] = Nil
  /\ \A p, q \in Runs :
       p < q /\ pc[q] # "off" /\ pc[p] \notin Over => p \in met[q] /\ q \in met[p]

\* From run r on, no two runs overlap.
Apart(r) == \A q \in Runs : q >= r => met[q] = {}
LogOf(r) == IF r = 0 THEN 0 ELSE log[r]

\* When m is the latest run, the log of r is at most m - r names down.  The
\* latest run has moved nothing before its shift, and after it the name ".1",
\* which its rotation overwrites, is not that log's.
KeptAt(r, m, n) ==
  /\ names[n] = LogOf(r) /\ n <= m - r
  /\ r < m => /\ pc[m] = "shift" => n < m - r
              /\ pc[m] = "rotate" => n # 1

KeptInv ==
  \A r, m \in Files :
    Latest(m) /\ Apart(r) /\ LogOf(r) # Nil /\ m - r <= MaxBackups
    => \E n \in Names : KeptAt(r, m, n)

\* Every other step renames and opens no log, and starts no run.
Quiet ==
  /\ UNCHANGED <<names, log, met>>
  /\ \A q \in Runs : \/ pc'[q] = pc[q]
                     \/ pc[q] \notin Over /\ pc'[q] \notin {"off", "shift", "rotate", "open"}

LEMMA StepKinds ==
  ASSUME TypeOK, [Next]_vars
  PROVE  Quiet \/ \E r \in Runs : Start(r) \/ Shift(r) \/ Rotate(r) \/ Open(r)
<1> USE DEF At, Same, files, ghosts, Over
<1>1. ASSUME NEW r \in Runs, GiveUp(r) \/ FindBinary(r) \/ Clean(r) \/ Compile(r)
             \/ Sync(r) \/ SyncTimeout(r) \/ Standalone(r) \/ Sniff(r) \/ SpawnQemu(r)
             \/ SessionEnds(r) \/ Teardown(r)
      PROVE  Quiet
  BY <1>1 DEF GiveUp, FindBinary, Clean, Compile, Sync, SyncTimeout, Standalone, Sniff,
              SpawnQemu, SessionEnds, Teardown, TypeOK, Quiet
<1>2. ASSUME NEW r \in Runs, Reap(r) \/ Reaped(r) \/ WaitExpires(r) \/ ForceKill(r)
             \/ Unlink(r) \/ Block(r) \/ AgentDies(r)
      PROVE  Quiet
  BY <1>2 DEF Reap, Reaped, WaitExpires, ForceKill, Unlink, Block, AgentDies, TypeOK, Quiet
<1>5. ASSUME NEW r \in Runs, SpawnBridge(r)
      PROVE  Quiet
  BY <1>5 DEF SpawnBridge, Prints, TypeOK, Quiet
<1>3. ASSUME NEW r \in Runs, Bridge(r) \/ BridgeFails(r) \/ BridgeFreezes(r)
      PROVE  Quiet
  BY <1>3 DEF Bridge, Bind, Serve, Interrupted, Leaves, BridgeFails, BridgeFreezes, Prints, Quiet
<1>4. ASSUME RemoveStale \/ UNCHANGED vars
      PROVE  Quiet
  BY <1>4 DEF RemoveStale, vars, Quiet
<1> QED BY <1>1, <1>2, <1>3, <1>4, <1>5 DEF Next, Agent

LEMMA LatestIs ==
  ASSUME NEW m \in Files, NEW k \in Files, Latest(m), Latest(k)
  PROVE  m = k
BY AgentAssumption DEF Latest, Files, Runs

\* A run is started when all before it have been.
LEMMA StartIsNext ==
  ASSUME RunsInv, NEW r \in Runs, Start(r)
  PROVE  r - 1 \in Files /\ Latest(r - 1) /\ Latest(r)'
<1>1. PICK m \in Files : Latest(m)
  BY DEF RunsInv
<1>2. r \in Int /\ r >= 1 /\ m \in Int /\ m >= 0 /\ (r > 1 => r - 1 \in Runs)
  BY AgentAssumption DEF Runs, Files
<1>3. pc[r] = "off" /\ (r > 1 => pc[r - 1] # "off") /\ pc' = [pc EXCEPT ![r] = "shift"]
  BY DEF Start, At
<1>4. m = r - 1
  BY <1>1, <1>2, <1>3 DEF Latest
<1>5. Latest(r)'
  <2> SUFFICES ASSUME NEW q \in Runs PROVE pc'[q] # "off" <=> q <= r
    BY DEF Latest
  <2>1. q \in Int /\ (q = r \/ q # r)
    BY DEF Runs
  <2>2. q # r => pc'[q] = pc[q]
    BY <1>3 DEF RunsInv, TypeOK
  <2>3. q = r => pc'[q] = "shift"
    BY <1>3 DEF RunsInv, TypeOK
  <2>4. pc[q] # "off" <=> q <= r - 1
    BY <1>1, <1>4 DEF Latest
  <2> QED BY <1>2, <2>1, <2>2, <2>3, <2>4
<1> QED BY <1>1, <1>4, <1>5

LEMMA RunsStep ==
  ASSUME RunsInv, [Next]_vars
  PROVE  RunsInv'
<1>0. TypeOK /\ TypeOK'
  BY TypeStep DEF RunsInv
<1>1. ASSUME NEW r \in Runs, Start(r) PROVE RunsInv'
  <2>1. /\ pc[r] = "off" /\ pc' = [pc EXCEPT ![r] = "shift"] /\ log' = log
        /\ met' = [q \in Runs |-> IF q = r THEN UnderWay
                                  ELSE IF q \in UnderWay THEN met[q] \cup {r} ELSE met[q]]
    BY <1>1 DEF Start, At, files
  <2>2. \E m \in Files : Latest(m)'
    BY <1>1, StartIsNext, Constants
  <2>3. ASSUME NEW q \in Runs, pc'[q] = "off" PROVE met'[q] = {}
    BY <1>0, <2>1, <2>3 DEF RunsInv, UnderWay, Over, TypeOK
  <2>4. ASSUME NEW q \in Runs, pc'[q] \in {"off", "shift", "rotate", "open"} PROVE log'[q] = Nil
    BY <1>0, <2>1, <2>4 DEF RunsInv, TypeOK
  <2>5. ASSUME NEW p \in Runs, NEW q \in Runs, p < q, pc'[q] # "off", pc'[p] \notin Over
        PROVE  p \in met'[q] /\ q \in met'[p]
    <3>1. r - 1 \in Files /\ Latest(r - 1) /\ p \in Int /\ q \in Int /\ r \in Int
      BY <1>1, StartIsNext DEF Runs
    <3>2. CASE q = r
      <4>1. p \in UnderWay /\ p # r
        BY <1>0, <2>1, <2>5, <3>1, <3>2 DEF UnderWay, TypeOK
      <4> QED BY <2>1, <3>2, <4>1
    <3>3. CASE q # r
      <4>1. pc[q] # "off"
        BY <1>0, <2>1, <2>5, <3>3 DEF TypeOK
      <4>2. p # r
        BY <2>5, <3>1, <4>1 DEF Latest
      <4>3. pc[p] \notin Over
        BY <1>0, <2>1, <2>5, <4>2 DEF TypeOK
      <4> QED BY <2>1, <2>5, <3>3, <4>1, <4>2, <4>3 DEF RunsInv
    <3> QED BY <3>2, <3>3
  <2> QED BY <1>0, <2>2, <2>3, <2>4, <2>5 DEF RunsInv
<1>2. ASSUME met' = met,
             \A q \in Runs : /\ pc'[q] = "off" <=> pc[q] = "off"
                             /\ pc'[q] \notin Over => pc[q] \notin Over
                             /\ pc'[q] \in {"off", "shift", "rotate", "open"} => log'[q] = Nil
      PROVE  RunsInv'
  BY <1>0, <1>2 DEF RunsInv, Latest
<1>3. CASE Quiet
  BY <1>2, <1>3 DEF Quiet, RunsInv, Over
<1>4. ASSUME NEW r \in Runs, Shift(r) \/ Rotate(r) \/ Open(r) PROVE RunsInv'
  <2>1. /\ pc[r] \in {"shift", "rotate", "open"} /\ met' = met
        /\ \/ pc' = [pc EXCEPT ![r] = "rotate"] /\ log' = log
           \/ pc' = [pc EXCEPT ![r] = "open"] /\ log' = log
           \/ pc' = [pc EXCEPT ![r] = "spawn"] /\ log' = [log EXCEPT ![r] = NewFile(r)]
    BY <1>4 DEF Shift, Rotate, Open, At, Same, ghosts
  <2> QED BY <1>0, <1>2, <2>1 DEF RunsInv, TypeOK, Over
<1> QED BY <1>0, <1>1, <1>3, <1>4, StepKinds

\* If from run r on no two runs overlap, only the latest can be under way.
LEMMA OnlyLatest ==
  ASSUME RunsInv, NEW r \in Files, NEW m \in Files, Latest(m), Apart(r), r <= m,
         NEW q \in Runs, pc[q] \notin Over
  PROVE  q = m
<1>1. q \in Int /\ m \in Int /\ q <= m
  BY AgentAssumption DEF Latest, Over, Files, Runs
<1>2. ASSUME q < m PROVE FALSE
  <2>1. m \in Runs /\ pc[m] # "off" /\ m >= r
    BY <1>1, <1>2, AgentAssumption DEF Latest, Files, Runs
  <2>2. q \in met[m] /\ met[m] = {}
    BY <1>2, <2>1 DEF RunsInv, Apart
  <2> QED BY <2>2
<1> QED BY <1>1, <1>2

\* A run that has a log has been started.
LEMMA LoggedIsStarted ==
  ASSUME RunsInv, NEW r \in Files, NEW m \in Files, Latest(m), LogOf(r) # Nil
  PROVE  r <= m
<1>1. CASE r = 0
  BY <1>1, AgentAssumption DEF Files, Runs
<1>2. CASE r # 0
  <2>1. r \in Runs
    BY <1>2 DEF Files
  <2> QED BY <1>2, <2>1 DEF LogOf, RunsInv, Latest
<1> QED BY <1>1, <1>2

LEMMA KeptInit == Init => RunsInv /\ KeptInv
<1> SUFFICES ASSUME Init PROVE RunsInv /\ KeptInv
  OBVIOUS
<1>1. \A q \in Runs : q \in Int /\ q > 0 /\ pc[q] = "off" /\ log[q] = Nil /\ met[q] = {}
  BY DEF Init, Runs
<1>2. Latest(0) /\ 0 \in Files
  BY <1>1, Constants DEF Latest
<1>3. RunsInv
  BY <1>1, <1>2, TypeInit DEF RunsInv
<1>4. KeptInv
  <2> SUFFICES ASSUME NEW r \in Files, NEW m \in Files, Latest(m), LogOf(r) # Nil
               PROVE  \E n \in Names : KeptAt(r, m, n)
    BY DEF KeptInv
  <2>1. m = 0
    BY <1>2, LatestIs
  <2>2. r = 0
    BY <1>1 DEF LogOf, Files
  <2>3. names[0] = 0
    BY Constants DEF Init
  <2> QED BY <2>1, <2>2, <2>3, Constants DEF KeptAt, LogOf
<1> QED BY <1>3, <1>4

\* A start puts one more run between a log and the latest one.
LEMMA KeptStart ==
  ASSUME RunsInv, RunsInv', KeptInv, NEW q \in Runs, Start(q)
  PROVE  KeptInv'
<1> SUFFICES ASSUME NEW r \in Files, NEW m \in Files, Latest(m)', Apart(r)',
                    LogOf(r)' # Nil, m - r <= MaxBackups
             PROVE  \E n \in Names : KeptAt(r, m, n)'
  BY DEF KeptInv
<1>1. /\ q - 1 \in Files /\ Latest(q - 1) /\ Latest(q)'
      /\ r \in Int /\ q \in Int /\ m \in Int /\ q \in Files
  BY StartIsNext, AgentAssumption, Constants DEF Files, Runs
<1>2. m = q
  BY <1>1, AgentAssumption DEF Latest, Files, Runs
<1>3. /\ pc[q] = "off" /\ pc'[q] = "shift" /\ UNCHANGED <<names, log>>
      /\ \A p \in Runs : met[p] \subseteq met'[p] \/ p = q
  BY DEF Start, At, files, RunsInv, TypeOK
<1>4. Apart(r) /\ LogOf(r)' = LogOf(r)
  BY <1>3 DEF Apart, LogOf, RunsInv
<1>5. r <= q - 1 /\ (q - 1) - r <= MaxBackups
  BY <1>1, <1>2, <1>4, LoggedIsStarted, AgentAssumption
<1>6. PICK n \in Names : KeptAt(r, q - 1, n)
  BY <1>1, <1>4, <1>5 DEF KeptInv
<1>7. n \in Int /\ names[n] = LogOf(r) /\ n <= (q - 1) - r
  BY <1>6, AgentAssumption DEF KeptAt, Names
<1> QED BY <1>1, <1>2, <1>3, <1>4, <1>7 DEF KeptAt

\* The latest run moves the logs, or opens its own.
LEMMA KeptMoved ==
  ASSUME RunsInv, RunsInv', KeptInv, NEW q \in Runs, Shift(q) \/ Rotate(q) \/ Open(q)
  PROVE  KeptInv'
<1> SUFFICES ASSUME NEW r \in Files, NEW m \in Files, Latest(m)', Apart(r)',
                    LogOf(r)' # Nil, m - r <= MaxBackups
             PROVE  \E n \in Names : KeptAt(r, m, n)'
  BY DEF KeptInv
<1>0. TypeOK /\ TypeOK' /\ r \in Int /\ m \in Int /\ q \in Int
  BY AgentAssumption DEF RunsInv, Files, Runs
<1>1. /\ pc[q] \in {"shift", "rotate", "open"} /\ met' = met
      /\ pc'[q] \in {"rotate", "open", "spawn"}
      /\ \A p \in Runs : p # q => pc'[p] = pc[p]
  BY <1>0 DEF Shift, Rotate, Open, At, Same, ghosts, TypeOK
<1>2. Latest(m) /\ Apart(r)
  BY <1>1 DEF Latest, Apart
<1>3. log[q] = Nil
  BY <1>1 DEF RunsInv
<1>4. \A p \in Runs : p # q => log'[p] = log[p]
  BY <1>0 DEF Shift, Rotate, Open, TypeOK, files
<1>5. r <= m
  <2>1. CASE r = q
    BY <1>1, <1>2, <2>1 DEF Latest
  <2>2. CASE r # q
    BY <1>2, <1>4, <2>2, LoggedIsStarted DEF LogOf, Files
  <2> QED BY <2>1, <2>2
<1>6. q = m
  BY <1>1, <1>2, <1>5, OnlyLatest DEF Over
<1>7. CASE r = q
  <2>1. q # 0 /\ LogOf(r)' = log'[q]
    BY <1>7, Constants DEF LogOf, Runs
  <2>2. Open(q)
    BY <1>3, <1>7, <2>1 DEF Shift, Rotate, files
  <2>3. names'[0] = NewFile(q) /\ log'[q] = NewFile(q)
    BY <1>0, <2>2, Constants DEF Open, TypeOK
  <2> QED BY <1>0, <1>6, <1>7, <2>1, <2>3, Constants DEF KeptAt
<1>8. CASE r # q
  <2>1. r < m /\ LogOf(r)' = LogOf(r) /\ LogOf(r) # Nil
    BY <1>0, <1>4, <1>5, <1>6, <1>8 DEF LogOf, Files
  <2>2. PICK n \in Names : KeptAt(r, m, n)
    BY <1>2, <2>1 DEF KeptInv
  <2>3. /\ n \in Int /\ n >= 0 /\ n <= MaxBackups /\ MaxBackups \in Int /\ MaxBackups >= 1
        /\ names[n] = LogOf(r) /\ n <= m - r
    BY <2>2, AgentAssumption DEF KeptAt, Names
  <2>4. CASE Shift(q)
    <3>1. names' = MovedUp /\ pc[q] = "shift" /\ pc'[q] = "rotate"
      BY <1>0, <2>4 DEF Shift, At, TypeOK
    <3>2. n < m - r
      BY <1>6, <2>1, <2>2, <3>1 DEF KeptAt
    <3>3. CASE n = 0
      <4>1. names'[0] = names[0]
        BY <2>3, <3>1, Constants DEF MovedUp
      <4> QED BY <1>0, <1>6, <2>1, <2>3, <3>1, <3>3, <4>1 DEF KeptAt
    <3>4. CASE n # 0
      <4>1. n + 1 \in Names /\ n + 1 > 1 /\ (n + 1) - 1 = n
        BY <1>0, <2>3, <3>2, <3>4 DEF Names
      <4>2. names'[n + 1] = names[n]
        BY <2>1, <2>3, <3>1, <4>1 DEF MovedUp
      <4>3. n + 1 <= m - r /\ n + 1 # 1
        BY <1>0, <2>3, <3>2, <3>4
      <4> QED BY <1>6, <2>1, <2>3, <3>1, <4>1, <4>2, <4>3 DEF KeptAt
    <3> QED BY <3>3, <3>4
  <2>5. CASE Rotate(q)
    <3>1. /\ pc[q] = "rotate" /\ pc'[q] = "open"
          /\ names' = names \/ names' = [names EXCEPT ![1] = names[0], ![0] = Nil]
      BY <1>0, <2>5 DEF Rotate, At, TypeOK
    <3>2. n # 1
      BY <1>6, <2>1, <2>2, <3>1 DEF KeptAt
    <3>3. CASE names'[n] = names[n]
      BY <1>6, <2>1, <2>3, <3>1, <3>3 DEF KeptAt
    <3>4. CASE names'[n] # names[n]
      <4>1. n = 0 /\ names'[1] = names[0]
        BY <1>0, <3>1, <3>2, <3>4, Constants DEF TypeOK
      <4>2. 1 <= m - r
        BY <1>0, <2>1
      <4> QED BY <1>6, <2>1, <2>3, <3>1, <4>1, <4>2, Constants DEF KeptAt
    <3> QED BY <3>3, <3>4
  <2>6. CASE Open(q)
    <3>1. pc'[q] = "spawn" /\ names' = [names EXCEPT ![0] = NewFile(q)]
      BY <1>0, <2>6 DEF Open, At, TypeOK
    <3>2. names'[n] = names[n]
      BY <1>0, <2>1, <2>3, <3>1 DEF NewFile, TypeOK
    <3> QED BY <1>6, <2>1, <2>3, <3>1, <3>2 DEF KeptAt
  <2> QED BY <2>4, <2>5, <2>6
<1> QED BY <1>7, <1>8

LEMMA KeptStep ==
  ASSUME RunsInv, KeptInv, [Next]_vars
  PROVE  RunsInv' /\ KeptInv'
<1>1. RunsInv'
  BY RunsStep
<1>2. CASE Quiet
  <2> SUFFICES ASSUME NEW r \in Files, NEW m \in Files, Latest(m)', Apart(r)',
                      LogOf(r)' # Nil, m - r <= MaxBackups
               PROVE  \E n \in Names : KeptAt(r, m, n)'
    BY <1>1 DEF KeptInv
  <2>1. Latest(m) /\ Apart(r) /\ LogOf(r)' = LogOf(r) /\ names' = names
    BY <1>2 DEF Quiet, Latest, Apart, LogOf, Over
  <2>2. PICK n \in Names : KeptAt(r, m, n)
    BY <2>1 DEF KeptInv
  <2>3. r < m => m \in Runs
    BY AgentAssumption DEF Files, Runs
  <2>4. r < m /\ pc'[m] \in {"shift", "rotate"} => pc'[m] = pc[m]
    BY <1>2, <2>3 DEF Quiet
  <2> QED BY <2>1, <2>2, <2>4 DEF KeptAt
<1>3. ASSUME NEW q \in Runs, Start(q) \/ Shift(q) \/ Rotate(q) \/ Open(q) PROVE KeptInv'
  BY <1>1, <1>3, KeptStart, KeptMoved
<1> QED BY <1>1, <1>2, <1>3, StepKinds DEF RunsInv

(* Of runs that do not overlap, the log of each is there under some name   *)
(* until more than MaxBackups later ones have been started, wherever they  *)
(* gave up, failed or were killed: setup_log_directory() loses the oldest. *)
THEOREM LogsOfRecentRunsKept == Spec => []RecentLogsKept
<1>1. RunsInv /\ KeptInv => RecentLogsKept
  <2> SUFFICES ASSUME RunsInv, KeptInv, NEW r \in Files, LogOf(r) # Nil, Apart(r),
                      Cardinality({q \in Runs : q > r /\ pc[q] # "off"}) <= MaxBackups
               PROVE  \E n \in Names : names[n] = LogOf(r)
    BY DEF RecentLogsKept, LogOf, Apart
  <2>1. PICK m \in Files : Latest(m)
    BY DEF RunsInv
  <2>2. r <= m /\ r \in Int /\ m \in Int /\ r >= 0 /\ m <= NRuns
    BY <2>1, LoggedIsStarted, AgentAssumption DEF Files, Runs
  <2>3. {q \in Runs : q > r /\ pc[q] # "off"} = (r + 1) .. m
    BY <2>1, <2>2, AgentAssumption DEF Latest, Runs
  <2>4. Cardinality((r + 1) .. m) = m - r
    <3>1. r + 1 \in Int
      BY <2>2
    <3>2. Cardinality((r + 1) .. m) = IF r + 1 > m THEN 0 ELSE m - (r + 1) + 1
      BY <2>2, <3>1, FS_Interval
    <3> QED BY <2>2, <3>2
  <2>5. m - r <= MaxBackups
    BY <2>3, <2>4
  <2> QED BY <2>1, <2>5 DEF KeptInv, KeptAt
<1> QED BY <1>1, KeptInit, KeptStep, PTL DEF Spec
=============================================================================
