------------------------------ MODULE PcieAgent ------------------------------
(***************************************************************************)
(* Runs of run_pcie_agent.py: each rotates the logs, starts a bridge and   *)
(* waits for its line in the log, then hands the terminal to the user      *)
(* (--bridge) or starts the sniffer and QEMU, and tears everything down.   *)
(* Runs may overlap; the names of the logs and of the bridge's socket are  *)
(* theirs in common.  What happens inside a bridge is CosimStartup and     *)
(* CosimLink; here it binds, serves, fails, freezes or ends.               *)
(***************************************************************************)
EXTENDS Integers, FiniteSets

CONSTANTS
  NRuns,      \* bound: the agent is started at most NRuns times
  MaxBackups, \* max_backups of setup_log_directory()
  MaxFaults,  \* bound: bridges that fail or freeze, agents that die
  Spared      \* what no signal of an agent ends: a sniffer that sudo runs, a stuck QEMU

Runs  == 1..NRuns
Files == {0} \cup Runs    \* a log is called after the run that created it, 0 a run long over
Names == 0..MaxBackups    \* name 0 is the log, name i its backup ".i"
Nil   == -1              \* no file, no bridge

ASSUME AgentAssumption ==
  /\ NRuns \in Nat \ {0} /\ MaxBackups \in Nat \ {0} /\ MaxFaults \in Nat
  /\ Spared \subseteq {"sniffer", "qemu"}

VARIABLES
  names,   \* the file behind each name
  text,    \* of each file: the runs that have written to it
  line,    \* of each file: the runs whose bridge's "Waiting for PCIe packets" is in it
  pc,      \* of each run: where the agent is
  log,     \* of each run: backend_log
  bridge,  \* of each run: "none", "started", "bound", "serving", "frozen",
           \* "leaving" (its SIGINT monitor has unlinked the socket), "dead"
  built,   \* build/pcie_sim is there
  sock,    \* the run whose bridge has made /tmp/vfio-pcie.sock
  qemu,    \* of each run: the run whose bridge its QEMU is connected to
  sniffer, \* runs whose sniffer is under way
  faults,  \* what is left of the bound
  met,     \* ghost: of each run, the runs under way at the same time
  served,  \* ghost: runs whose bridge's line has been drained
  took     \* ghost: runs that have unlinked the socket whosever it was

files  == <<names, text, line, log>>
ghosts == <<met, served, took>>
vars == <<files, pc, bridge, built, sock, qemu, sniffer, faults, ghosts>>

Over     == {"off", "done", "gone"}
Building == {"spawn", "clean", "compile", "launch"}
UnderWay == {r \in Runs : pc[r] \notin Over}
Bound(r) == bridge[r] \in {"bound", "serving", "frozen"}
Alive(r) == Bound(r) \/ bridge[r] \in {"started", "leaving"}
Ready    == {"ready", "qemu", "session", "teardown", "reap", "wait", "kill", "unlink"}

Init ==
  /\ names = [n \in Names |-> IF n = 0 THEN 0 ELSE Nil]
  /\ text = [f \in Files |-> IF f = 0 THEN {0} ELSE {}] /\ line = text
  /\ pc = [r \in Runs |-> "off"]
  /\ log = [r \in Runs |-> Nil] /\ bridge = [r \in Runs |-> "none"]
  /\ built \in BOOLEAN /\ sock = Nil
  /\ qemu = [r \in Runs |-> Nil] /\ sniffer = {}
  /\ faults = MaxFaults /\ met = [r \in Runs |-> {}] /\ served = {} /\ took = {}

At(r, from, to) == pc[r] = from /\ pc' = [pc EXCEPT ![r] = to]
Fault == faults > 0 /\ faults' = faults - 1
Same  == UNCHANGED ghosts

-----------------------------------------------------------------------------
(* Start and rotation of the logs.                                         *)

\* A socket that is there already is worth a warning only.
Start(r) ==
  /\ At(r, "off", "shift") /\ (r > 1 => pc[r - 1] # "off")
  /\ met' = [q \in Runs |-> IF q = r THEN UnderWay
                            ELSE IF q \in UnderWay THEN met[q] \cup {r} ELSE met[q]]
  /\ UNCHANGED <<files, bridge, built, sock, qemu, sniffer, faults, served, took>>

\* The backups move up by one name, the highest first; the last one is lost.
KeepLast  == [n \in Names |-> IF n = MaxBackups THEN names[n]
                              ELSE IF n = 1 THEN Nil ELSE names[n]]   \* slip: ".1" is not moved
MovedUp   == [n \in Names |-> IF n > 1 /\ names[n - 1] # Nil THEN names[n - 1]
                              ELSE IF n \in {0, MaxBackups} THEN names[n] ELSE Nil]

Shift(r) ==
  /\ At(r, "shift", "rotate") /\ names' = MovedUp
  /\ UNCHANGED <<text, line, log, bridge, built, sock, qemu, sniffer, faults>> /\ Same

\* An empty log is not kept: the next run writes into the same file.
Rotate(r) ==
  /\ At(r, "rotate", "open")
  /\ names' = IF names[0] # Nil /\ text[names[0]] # {}
              THEN [names EXCEPT ![1] = names[0], ![0] = Nil] ELSE names
  /\ UNCHANGED <<text, line, log, bridge, built, sock, qemu, sniffer, faults>> /\ Same

NewFile(r) == IF names[0] = Nil THEN r ELSE names[0]
NoWipe(f)  == line                           \* slip: the old lines stay
Wiped(f)   == [line EXCEPT ![f] = {}]

\* open(log_file_path, "wb")
Open(r) ==
  /\ At(r, "open", "spawn")
  /\ names' = [names EXCEPT ![0] = NewFile(r)] /\ log' = [log EXCEPT ![r] = NewFile(r)]
  /\ text' = [text EXCEPT ![NewFile(r)] = {}] /\ line' = Wiped(NewFile(r))
  /\ UNCHANGED <<bridge, built, sock, qemu, sniffer, faults>> /\ Same

\* The guest's disk is missing, or make fails.
GiveUp(r) ==
  /\ At(r, "spawn", "done") \/ At(r, "compile", "done")
  /\ UNCHANGED <<files, bridge, built, sock, qemu, sniffer, faults>> /\ Same

FindBinary(r) ==
  /\ At(r, "spawn", IF built THEN "launch" ELSE "clean")
  /\ UNCHANGED <<files, bridge, built, sock, qemu, sniffer, faults>> /\ Same

\* make: its target depends on clean, which is rm -rf build, rm -f /tmp/*.sock.
Clean(r) ==
  /\ At(r, "clean", "compile")
  /\ built' = FALSE /\ sock' = Nil /\ took' = took \cup {r}
  /\ UNCHANGED <<files, bridge, qemu, sniffer, faults, met, served>>

\* The recipe ends in "| tr", so that make succeeds whatever verilator says.
Compile(r) ==
  /\ At(r, "compile", "launch")
  /\ built' \in BOOLEAN
  /\ UNCHANGED <<files, bridge, sock, qemu, sniffer, faults>> /\ Same

\* What a run prints into its log: two runs that share a file have an offset
\* each and write over each other.
Prints(r, isLine) ==
  /\ text' = [text EXCEPT ![log[r]] = @ \cup {r}]
  /\ \E old \in SUBSET line[log[r]] :
       /\ text[log[r]] \subseteq {r} => old = line[log[r]]
       /\ line' = [line EXCEPT ![log[r]] = old \cup (IF isLine THEN {r} ELSE {})]
  /\ UNCHANGED <<names, log>>

\* stdbuf says so if another run's make has removed the binary since.
SpawnBridge(r) ==
  /\ At(r, "launch", "sync")
  /\ IF built THEN bridge' = [bridge EXCEPT ![r] = "started"] /\ UNCHANGED files
              ELSE bridge' = [bridge EXCEPT ![r] = "dead"] /\ Prints(r, FALSE)
  /\ UNCHANGED <<built, sock, qemu, sniffer, faults>> /\ Same

-----------------------------------------------------------------------------
(* The bridge, and the thread that drains its terminal into the log.       *)

Takeover  == TRUE   \* slip: the bridge unlinks the socket before it binds
NameFree  == sock = Nil

\* vfu_create_ctx() binds /tmp/vfio-pcie.sock first of all: a bridge that
\* finds the name taken, by a live bridge or a dead one, ends.
Bind(r) ==
  /\ bridge[r] = "started"
  /\ IF NameFree
     THEN bridge' = [bridge EXCEPT ![r] = "bound"] /\ sock' = r /\ UNCHANGED files
     ELSE bridge' = [bridge EXCEPT ![r] = "dead"] /\ Prints(r, FALSE) /\ UNCHANGED sock
  /\ UNCHANGED <<pc, built, qemu, sniffer, faults>> /\ Same

Serve(r) ==
  /\ bridge[r] = "bound" /\ bridge' = [bridge EXCEPT ![r] = "serving"]
  /\ Prints(r, TRUE) /\ served' = served \cup {r}
  /\ UNCHANGED <<pc, built, sock, qemu, sniffer, faults, met, took>>

\* It exits by an error, which it prints, or crashes: the socket stays.
BridgeFails(r) ==
  /\ Bound(r) /\ Fault /\ bridge' = [bridge EXCEPT ![r] = "dead"]
  /\ Prints(r, FALSE) \/ UNCHANGED files
  /\ UNCHANGED <<pc, built, sock, qemu, sniffer>> /\ Same

BridgeFreezes(r) ==
  /\ bridge[r] = "serving" /\ Fault /\ bridge' = [bridge EXCEPT ![r] = "frozen"]
  /\ UNCHANGED <<files, pc, built, sock, qemu, sniffer>> /\ Same

-----------------------------------------------------------------------------
(* Synchronisation on the log, which is read by its name.                  *)

AnyOutput == names[0] # Nil /\ text[names[0]] # {}   \* slip: an error will do
LineSeen  == names[0] # Nil /\ line[names[0]] # {}

Sync(r) ==
  /\ At(r, "sync", "ready") /\ LineSeen
  /\ UNCHANGED <<files, bridge, built, sock, qemu, sniffer, faults>> /\ Same

\* After 15 s the bridge, if it is still there, is killed.
SyncTimeout(r) ==
  /\ At(r, "sync", "done") /\ ~LineSeen
  /\ bridge' = [bridge EXCEPT ![r] = "dead"]
  /\ UNCHANGED <<files, built, sock, qemu, sniffer, faults>> /\ Same

-----------------------------------------------------------------------------
(* The session, with or without a guest.                                   *)

\* Assumption on time, which no code checks: half a second after it saw the
\* line, the agent's own bridge, spawned before, has tried to bind.
Tried(r) == bridge[r] # "started"

\* --bridge
Standalone(r) ==
  /\ At(r, "ready", "reap") /\ Tried(r)
  /\ UNCHANGED <<files, bridge, built, sock, qemu, sniffer, faults>> /\ Same

\* With --sniffer; a sniffer that does not start is worth a warning only.
Sniff(r) ==
  /\ At(r, "ready", "qemu") /\ Tried(r)
  /\ sniffer' \in {sniffer, sniffer \cup {r}}
  /\ UNCHANGED <<files, bridge, built, sock, qemu, faults>> /\ Same

\* QEMU connects to whatever bridge listens on the socket, or exits.
SpawnQemu(r) ==
  /\ At(r, "qemu", "session")
  /\ qemu' = [qemu EXCEPT ![r] = IF sock # Nil /\ Bound(sock) THEN sock ELSE Nil]
  /\ UNCHANGED <<files, bridge, built, sock, sniffer, faults>> /\ Same

KeepQemu(r)    == qemu   \* slip: QEMU is not ended
\* A QEMU that does not end leaves the agent none the wiser.
WithoutQemu(r) == IF "qemu" \in Spared THEN qemu ELSE [qemu EXCEPT ![r] = Nil]

\* An exception of the set-up of QEMU or gdb passes by the finally below;
\* so does a signal that ends the agent.  The terminals of the bridge and of
\* QEMU are closed, and SIGHUP ends both; the sniffer has a session of its own.
AgentDies(r) ==
  /\ pc[r] \notin Over /\ Fault /\ pc' = [pc EXCEPT ![r] = "gone"]
  /\ bridge' = [bridge EXCEPT ![r] = IF Alive(r) THEN "dead" ELSE @]
  /\ qemu' = WithoutQemu(r)
  /\ UNCHANGED <<files, built, sock, sniffer>> /\ Same

\* The log-in, the tests and the interaction, ended by any verdict or
\* exception: all of them lead to the finally.
SessionEnds(r) ==
  /\ At(r, "session", "teardown")
  /\ UNCHANGED <<files, bridge, built, sock, qemu, sniffer, faults>> /\ Same

\* stop_vfio_user_pkt_sniffer() cannot signal what sudo runs as root.
Unsniffed(r)   == IF "sniffer" \in Spared THEN sniffer ELSE sniffer \ {r}

Teardown(r) ==
  /\ At(r, "teardown", "reap")
  /\ sniffer' = Unsniffed(r) /\ qemu' = WithoutQemu(r)
  /\ UNCHANGED <<files, bridge, built, sock, faults>> /\ Same

\* bridge.isalive(), SIGINT
Reap(r) ==
  /\ pc[r] = "reap"
  /\ pc' = [pc EXCEPT ![r] = IF Alive(r) THEN "wait" ELSE "done"]
  /\ UNCHANGED <<files, bridge, built, sock, qemu, sniffer, faults>> /\ Same

\* The bridge's SIGINT monitor unlinks the socket, its own or not ...
Interrupted(r) ==
  /\ pc[r] \in {"wait", "kill"} /\ bridge[r] \in {"bound", "serving"}
  /\ bridge' = [bridge EXCEPT ![r] = "leaving"] /\ sock' = Nil /\ Prints(r, FALSE)
  /\ took' = IF sock = r THEN took ELSE took \cup {r}
  /\ UNCHANGED <<pc, built, qemu, sniffer, faults, met, served>>

\* ... and then ends the process.
Leaves(r) ==
  /\ bridge[r] = "leaving" /\ bridge' = [bridge EXCEPT ![r] = "dead"]
  /\ UNCHANGED <<files, pc, built, sock, qemu, sniffer, faults>> /\ Same

Reaped(r) ==
  /\ At(r, "wait", "done") /\ ~Alive(r)
  /\ UNCHANGED <<files, bridge, built, sock, qemu, sniffer, faults>> /\ Same

WaitForever(r) == FALSE   \* slip: expect() has no time-out
WaitOver(r)    == Alive(r)

\* After 2 s expect() gives up ...
WaitExpires(r) ==
  /\ At(r, "wait", "kill") /\ WaitOver(r)
  /\ UNCHANGED <<files, bridge, built, sock, qemu, sniffer, faults>> /\ Same

\* ... the bridge is killed, if it has not ended since ...
ForceKill(r) ==
  /\ At(r, "kill", "unlink")
  /\ bridge' = [bridge EXCEPT ![r] = "dead"]
  /\ UNCHANGED <<files, built, sock, qemu, sniffer, faults>> /\ Same

\* ... and the socket of that name is unlinked, whosever it is by now.
Unlink(r) ==
  /\ At(r, "unlink", "done") /\ sock' = Nil /\ took' = took \cup {r}
  /\ UNCHANGED <<files, bridge, built, qemu, sniffer, faults, met, served>>

\* The drainer has taken the output that expect() saw: its read() blocks.
\* Ctrl-C is the way out, which AgentDies stands for.
Block(r) ==
  /\ bridge[r] = "frozen" /\ At(r, "wait", "blocked")
  /\ UNCHANGED <<files, bridge, built, sock, qemu, sniffer, faults>> /\ Same

-----------------------------------------------------------------------------
\* The user removes a socket that no bridge is bound to.
RemoveStale ==
  /\ sock # Nil /\ ~Bound(sock) /\ sock' = Nil
  /\ UNCHANGED <<files, pc, bridge, built, qemu, sniffer, faults>> /\ Same

\* What goes on by itself once the agent has been started; in the session it
\* is the user who goes on.
Agent(r) ==
  \/ Shift(r) \/ Rotate(r) \/ Open(r) \/ GiveUp(r)
  \/ FindBinary(r) \/ Clean(r) \/ Compile(r) \/ SpawnBridge(r)
  \/ Sync(r) \/ SyncTimeout(r)
  \/ Standalone(r) \/ Sniff(r) \/ SpawnQemu(r)
  \/ Teardown(r) \/ Reap(r) \/ Reaped(r) \/ WaitExpires(r) \/ ForceKill(r) \/ Unlink(r)
Bridge(r) == Bind(r) \/ Serve(r) \/ Interrupted(r) \/ Leaves(r)

Next ==
  \/ \E r \in Runs : \/ Start(r) \/ Agent(r) \/ SessionEnds(r) \/ Block(r)
                     \/ Bridge(r) \/ BridgeFails(r) \/ BridgeFreezes(r) \/ AgentDies(r)
  \/ RemoveStale

Spec == Init /\ [][Next]_vars
FairSpec == Spec /\ \A r \in Runs : WF_vars(Agent(r)) /\ WF_vars(Bridge(r))

-----------------------------------------------------------------------------
TypeOK ==
  /\ names \in [Names -> Files \cup {Nil}]
  /\ text \in [Files -> SUBSET Files] /\ line \in [Files -> SUBSET Files]
  /\ \A f \in Files : line[f] \subseteq text[f]
  /\ pc \in [Runs -> Over \cup Ready \cup Building \cup {"shift", "rotate", "open", "sync", "blocked"}]
  /\ log \in [Runs -> Files \cup {Nil}]
  /\ bridge \in [Runs -> {"none", "started", "bound", "serving", "frozen", "leaving", "dead"}]
  /\ built \in BOOLEAN /\ took \subseteq Runs
  /\ sock \in Runs \cup {Nil} /\ qemu \in [Runs -> Runs \cup {Nil}]
  /\ sniffer \subseteq Runs /\ faults \in 0..MaxFaults
  /\ met \in [Runs -> SUBSET Runs] /\ served \subseteq Runs

(* An agent that takes its backend for ready has a bridge that has printed *)
(* its line, and its QEMU is connected to that bridge: an older run's line *)
(* is never taken for it.  Only a run that overlaps can mislead an agent,  *)
(* since both read and write the log by the same name.                     *)
OwnBridge ==
  \A r \in Runs :
    /\ pc[r] \in Ready => r \in served \/ met[r] \cap served # {}
    /\ qemu[r] \in {Nil, r} \cup met[r]

(* A bridge that is alive is the one the socket's name leads to, so that   *)
(* there is one at a time.  It loses the name only to a run under way at   *)
(* the same time that unlinks it unasked: by make clean, by a forced       *)
(* clean-up, or in the end of a bridge that has lost the name itself.      *)
OneBridge == \A r \in Runs : Bound(r) /\ sock # r => met[r] \cap took # {}

(* The log of a run that has written anything is there under some name     *)
(* until more than MaxBackups later runs have started.  (Of runs that      *)
(* overlap, the one that rotates between another's two steps overwrites    *)
(* ".1": they are left out.)                                               *)
RecentLogsKept ==
  \A r \in Files : LET f == IF r = 0 THEN 0 ELSE log[r] IN
    /\ f # Nil /\ text[f] # {}
    /\ \A q \in Runs : q >= r => met[q] = {}
    /\ Cardinality({q \in Runs : q > r /\ pc[q] # "off"}) <= MaxBackups
    => \E n \in Names : names[n] = f

(* An agent that has torn its session down leaves no bridge behind, and    *)
(* neither QEMU nor a sniffer, except one that its signals do not end.     *)
NothingLeft ==
  \A r \in Runs :
    pc[r] = "done" => /\ ~Alive(r)
                      /\ qemu[r] # Nil => "qemu" \in Spared
                      /\ r \in sniffer => "sniffer" \in Spared

(* The tear-down comes to its end, unless the bridge is frozen and the     *)
(* agent's two readers of its terminal get in each other's way.            *)
TeardownEnds ==
  \A r \in Runs : pc[r] = "teardown" ~> pc[r] \in {"done", "gone", "blocked"}
=============================================================================
