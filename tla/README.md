# Verification of PcieCosim in TLA+

PcieCosim connects a QEMU guest to a Verilated PCIe endpoint.  A *bridge*
process serves the guest's accesses to two BARs (libvfio-user) and forwards
them as packets, over two stream sockets, to a *simulation* process it has
forked, which executes them on the RTL.  Around the two, Python scripts set up
the workspace, download the guest's images and run a session.  This directory
models that system, model-checks it with TLC and proves part of it with TLAPS.

All paths below are relative to the repository (`src/...` is its top directory's
`src/`, `common/...` its `common/`).

## 1. The system: inventory

| Component | State it keeps | Operations | Interacts with |
|---|---|---|---|
| Wire protocol, buffers (`common/include/protocol.h`) | none; `Buf` is a byte buffer with a length | 16-byte header: type, address with the BAR in the top byte, count, 8-bit tag | everything on the sockets |
| `SocketChannel` (`common/src/socket_channel.cpp`) | two sockets, and **one `channel` index used by every thread** | connect, handshake, send, receive, setTimeout, asyncListen, disconnect | streams MAIN and ASYNC |
| Bridge transactions (`src/bridge/pcie_cosim_bridge.cpp`) | tag counter, pid of the child, ready flag | posted write; read with a 10 s time-out; interrupt listener; start and disconnect | vfio-user callbacks, `SocketChannel`, SIGUSR1 |
| Bridge process (`src/bridge/pcie_cosim_vfio_if.cpp`) | vfio-user context, termination pipe | set-up, run loop, SIGINT monitor | libvfio-user (external), QEMU |
| Simulation server (`src/bridge/pcie_cosim_if.cpp`) | listening and accepted sockets, `transOrder`, `activeChannel`, `activeSocket`, static `dbuf` | listen, accept, handshake, `receive`, `exchange`, `sendAsync` | bridge, endpoint |
| Endpoint transactor (`src/sim/pcie_cosim.cpp`) | `mock_reg` (BAR1), the Verilated model, `dbuf` contents | read, write, MSI doorbell, RTL start and stop | server (calls), RTL (pins, clock) |
| RTL (`src/hdl/sim_top.sv`, `src/hdl/axi_ram.v`) | completion latch, write envelope, AXI RAM | TLP in, completion out | external PIO engines |
| Mock endpoint (`pcie_cosim_if.cpp:97-151`), test driver (`src/sim/pcie_cosim_test_driver.cpp`) | byte array, pins | replaces the RTL; replaces QEMU | |
| Agent (`run_pcie_agent.py`) | rotated logs, child processes, the socket's name | rotates the logs; starts bridge, sniffer and QEMU; waits for the bridge's line in the log; types commands into the guest; tears down | all of the above, other agents |
| Repositories (`workspace_setup.py`: `align_repo_state`, `run_checkout`, `apply_patch`, `build_repo`) | a clone, its stash and branch, the tool on the host | fetch, stash, checkout, patch, pop, build, install | git, the user's own changes |
| Workspace set-up (`workspace_setup.py`: the rest) | `.configs.json`, packages, clones, links, the sniffer's rights, `.bashrc` | menu, merge, install, clone, link, configure; `--remove` | apt, git, sudo |
| Image download (`download_os_images.py`) | image files, generic links | download what is missing, re-create the links | the agent, other runs of itself |
| Debug tools, guest images, build files | | host I/O | |

What makes it hard: three threads of the bridge share `SocketChannel` without
a lock; two processes start, shake hands and end in an order that neither
controls; a reply can come after the read it belongs to has timed out; the two
sockets of the simulation are polled, so order between them is not the order
of sending; a SIGINT may arrive at any point; either process may die.  The
scripts keep no record of what they have done but its traces on the disk: any
command may fail and Ctrl-C may stop a run anywhere, and the next run takes
what it finds for complete; runs of the agent and of the download may overlap
on files that have one name for all.

What makes each part correct:

* *link*: to the guest a BAR is a memory - a read returns the last write or an
  error, never another value; a read always returns; requests are served in
  order; writes posted before a disconnect are not lost; each doorbell is one
  interrupt;
* *start*: it ends in service or in an exit with a cause, both sides agree on
  the channels, no simulation outlives its bridge;
* *endpoint*: a read's data are the bytes written, independent of what went
  through the buffer before; doorbells and nothing else raise interrupts;
* *agent*: it goes on with the bridge it has started and no other, a live bridge
  keeps the socket's name unless an overlapping run takes it, a torn-down session leaves nothing behind;
* *repositories*: nothing the user has changed is lost, a clean run ends on
  the configured tag with that version of the tool, or on the configured branch, patched if the run made it;
* *set-up*: a clean run repairs what earlier runs left undone, the file never
  forgets an option, and every option in it can be removed again;
* *images*: a partial file has a cause, an image reported ready stays linked outside one gap.

`PROJECT.json` lists the hazards of this kind, line by line.

## 2. The modules

| Module | What it is |
|---|---|
| `BarMemory` | abstract specification: a memory whose reads may fail but never lie |
| `CosimLink` | the running link: bridge main thread, listener, SIGINT monitor, simulation, streams |
| `CosimStartup` | fork to service, with interrupts and failures |
| `CosimEndpoint` | how one packet is executed on the BARs |
| `PcieAgent` | runs of the agent that may overlap, from the log's rotation to the tear-down |
| `RepoAlign` | one repository through many runs of the set-up, and its user |
| `WorkspaceSetup` | the whole workspace through many set-ups and removals |
| `ImageAssets` | overlapping runs of the image download |
| `MCCosimLink`, `MCCosimEndpoint`, `MCRepoAlign`, `MCWorkspaceSetup`, `MCImageAssets` | TLC instances; `MCCosimLink` also has the link's liveness properties and what the documents say of it |
| `CosimLinkProofs`, `CosimStartupProofs`, `CosimEndpointProofs`, `PcieAgentProofs`, `RepoAlignProofs`, `WorkspaceSetupProofs`, `ImageAssetsProofs` | theorems about the module they are named after |
| `CosimLinkOrderProofs` | the theorems of `CosimLink` about order, replies and the refinement of `BarMemory`, on the invariants of `CosimLinkProofs` |

How the modules meet: `CosimStartup` ends where `CosimLink` begins; a served
read or write of `CosimLink` is a packet of `CosimEndpoint`; the life of a
bridge in `PcieAgent` (bound, serving, frozen, dead) is what the outside sees
of `CosimStartup` and `CosimLink`; a cloned repository in `WorkspaceSetup` is one
`RepoAlign`; the images of `ImageAssets` are what the agent boots.

Definitions marked *slip* in the modules are faulty variants of the definition
after them (a forgotten reset, a dropped guard).  No specification uses them;
`PROJECT.json` ("mutants") names for each property the slip that must break it.

### CosimLink

One step is one system call, or one access to a variable that another thread
may access.  `channel` is read at each place where the code reads it: in
`send()`, in each `setTimeout()`, and **twice** in `receive()`, once for the header
and once for the payload (`SelectSocket`).  A blocked `recv()` keeps the socket it
chose (`mfd`), and its time-out is that of this socket (`rcvtimeo`).

* A packet towards the simulation is one element of `toSim[ch]`: the bridge
  sends header and payload in one `sendmsg()`.  Towards the bridge, header
  and payload are two units, because they are two sends and two receives.
* When a payload is taken for a header, or a receive times out between the
  two, the packet boundaries are lost: `torn[ch]`.  From then on a header read from that
  stream is any header (`Garbled`) and consumes any number of units.
* A transaction is one dword.  The value a write stores is the number of its transaction,
  so that a value says who wrote it.  `tx` is the code's `tran` without the
  wrap; the tag on the wire is `Tag(tx)`, modulo `TagMod` (256 in the code).
* `POLLHUP` depends on the transport: over Unix sockets it is reported as soon
  as the peer has closed, over TCP only when both directions are down.
* The test driver's own disconnect (`pcie_cosim_test_driver.cpp:84`) takes the same steps as the
  SIGINT monitor's, from a state in which the main thread is idle.
* `MainReturns` is the detach of QEMU under `-R`: no NACK is sent.
* `MsiTest` is `ENABLE_MSI_TEST`, which `src/Makefile:61` sets in every build with the RTL; only the
  mock build (`src/src/bridge/Makefile`) is without it.  With it a write of the MSI pattern makes the
  simulation send an interrupt, and the listener switches `channel` to ASYNC.
* `GuestWaits` is an assumption about the guest, not about the code: it makes no access
  while one of its interrupts is under way.  The repository's own guest program, the agent's test 4
  (`run_pcie_agent.py:573-613`), writes the pattern once and sleeps until the interrupt has been counted.  Nothing in the
  bridge or the simulation enforces it, and without it the link breaks: run `bug_wedge` and section 3.
  Such a guest stops for good when its interrupt is lost with a simulation that dies; the runs include that end.

`Bar!Spec`, the refinement: memory is `issued` (what the program order of the guest
defines), pending is the address the main thread waits for, answer is what its last read returned.

### CosimStartup

The bridge waits in ticks of a millisecond for SIGUSR1 and reaps the child;
`connect()` succeeds as soon as the simulation listens, before it accepts;
`doAccept()` serves MAIN before ASYNC within a poll round, but a failed
`accept()` skips MAIN for that round.  The handshake's `exchange()` takes any packet from either
socket (`SimExchange`), so the first requests of the guest can arrive inside it.
`SIGUSR1` may arrive between the test of the wait loop and that of the time-out (`WaitTest`, `WaitFatal`):
the start is then FATAL all the same.  A SIGINT is a NACK on `channel`, then the `shutdown()` of what is
connected by then (`Disconnect`), which the simulation sees as an end of stream (`SimEof`), then the exit.
`PR_SET_PDEATHSIG` is in force from `SimListen` on; a child that got there after its
parent died (`orphan`) ends by the accept time-out.

### CosimEndpoint

One packet at a time: the payload of a write goes into `dbuf`, then one step per
dword (one TLP for BAR0, one array element for BAR1), then for a read the answer
out of `dbuf`.  Offsets and counts are in half-dwords, so that a count that is not a multiple of a dword exists.
A TLP may time out at any dword (`WriteStalls`, `ReadStalls`): the packet goes on, as in the code.
What the PIO engines then hold is not known (they are not in the repository), so no
further packet is modelled after one with a stall.
`Served` states which accesses the endpoint serves as memory.

### PcieAgent

State that runs have in common is modelled by its name: `names` says which file
is behind `pcie_agent.log` and each of its backups, `sock` whose bridge has made
`/tmp/vfio-pcie.sock`.  A file is called after the run that created it; file 0
is the log of a run long over, so that the first run finds an old line to be misled by.
Of a file's contents two sets are kept: who has written to it, and whose
"Waiting for PCIe packets" is in it.  Two runs that write one file have an
offset each, so that one may overwrite what the other has written (`Prints`).

* The rotation is three steps (backups, log, truncating `open()`), because
  another run may come between them.
* `Sync` reads the log by its name every half a second for 15 s; `SyncTimeout`
  may come at any time before the line is there.
* An agent that finds no `build/pcie_sim` runs `make`, whose target depends on `clean`: `rm -rf build`,
  `rm -f /tmp/*.sock` (`Clean`), then the compilation, whose failure the recipe's pipe hides (`Compile`).
  Another agent's binary may be gone by the time it is started (`SpawnBridge`).
* A bridge that finds the socket's name taken, by a live bridge or a dead one,
  ends with an error: `Bind`.  Four things take the name away: `make clean`, the SIGINT monitor, the agent's forced
  clean-up, and the user.  The first three do so whosever the socket is; `took` remembers who did.
* The end of a bridge is as many steps as the code has: the SIGINT, the monitor's `unlink()` (`Interrupted`) and its
  `_exit()` (`Leaves`); on the agent's side the time-out of `expect` (`WaitExpires`), the kill
  (`ForceKill`) and the three `unlink()`s (`Unlink`), with another bridge's `Bind` possible between any two.
* `Tried` is an assumption on time: half a second after the agent has seen a line in the log,
  its own bridge has tried to bind.  Without it QEMU could connect before a
  late bridge; nothing in the code orders the two.
* `Spared` says what an agent's signals do not end: the sniffer, which `sudo` runs as root, or a stuck
  QEMU; the code swallows both failures.
* `Block`: the thread that drains the bridge's terminal and `expect(EOF)` both
  select on and read one terminal.  When the drainer takes the output of a
  bridge that prints no more, the other's `read()` blocks and its time-out never comes.
* `AgentDies` is a signal, an exception past the `finally`, or Ctrl-C in the
  blocked `read()`.
* The dialogue with the guest is one step, `SessionEnds` (see "Not modelled").

### RepoAlign

A revision is a tag number, the configured branch, or whatever the clone's default
branch holds; a change of the user is one of three kinds that git treats
differently: tracked, untracked, or shelved in an entry of his own.  `stash` is git's stack.  Every git command
is a step that may fail (`Fault`) and before which the run may be stopped
(`Stop`); which failures the code looks at is in the guards (`Fetch` ignores its
own, `Stash` gives up, `CheckoutFails` pops only when it was making a branch).
`kind` says whether the blueprint gives a tag, a branch, or both, in which case the
branch is made from the tag and patched.  Between runs the user edits,
stashes, stashes, leaves the branch, resolves conflicts, raises the tag or removes the tool.
Verilator's check of the version asks whether the tag occurs in the text of `--version` (line 717), QEMU's
for equality: `Alike` lists the versions the former takes for another.  Verilator's uninstaller knows the files from
`install_manifest.txt` only; without one the old version stays (`Uninstalled`), in a build and in `--uninstall`.

### WorkspaceSetup

`cfg` is what `.configs.json` says (or said, before a stop tore it), `plan` what the run
at hand works on, `tree`, `link`, `pkgs`, `net`, `bashrc` the host.  Each function of the
set-up is one step that looks at what is there, as the code does, and leaves it
alone if it seems complete.  Two ghosts say what a later run cannot see: `scars` (a sparse-checkout, a
dissector, sudoers rules cut short; a workspace moved to another root) and
`loose` (options whose packages the file no longer lists in full).  The failure of `git clone` with
an unbound name in its handler, the `list.remove()` that raises, the
unbound `content` without a `.bashrc` and the missing `xrdb` that `configure_x11_resources` does not catch
are control and are modelled as such.

### ImageAssets

A file is absent, complete, or named after the run that truncated it last and has not
finished.  `Seek` is `os.path.exists()` of the final name, `Look`,
`Remove` and `Relink` the three calls for a link.  Runs with different filters
and distributions overlap, may be stopped anywhere, and the user may delete a file that nobody writes.

## 3. What TLC checks

| Run | Question | Bounds |
|---|---|---|
| `link` | default build over Unix sockets, MSI test included, and a guest that waits for its interrupts: refinement of `BarMemory`, order, MAIN only, writes kept through a shutdown; with doorbells, SIGINT, crash, read time-outs | 4 transactions on 2 addresses, tag wider than the run |
| `live` | mock build over TCP (`ENABLE_TCP=1`), a tag that wraps: reads return, a wrong reply is exactly a wrapped tag | 3 transactions, `TagMod` 2 |
| `msi` | default build, doorbells and writes, a guest that does not wait: one interrupt each, channel restored, the simulation ends after a disconnect, also one whose NACK left on ASYNC | 3 transactions |
| `startup` | every interleaving of fork to service, failures, SIGINT | 3 ticks, 2 requests |
| `endpoint` | aligned one- and two-dword accesses to both BARs, doorbells, stalls | BARs of 3 dwords, two values |
| `agent` | overlapping agents: own bridge, one bridge, recent logs kept, nothing left behind, tear-down ends | 2 runs, 2 backups, 1 fault, an old log at the start, a sniffer that no signal ends |
| `repo` | nothing lost, stash given back, clean runs align, convergence | all three kinds, 2 tags, 3 faults, 4 actions of the user, the first tag in the text of the branch's version |
| `setup` | complete when done, options kept and removable, set-ups complete again and again | 2 repositories, 3 options, 2 roots, 1 fault, 2 removals |
| `images` | causes of partial files, links of ready images | 2 runs, Ubuntu's manifest, with and without a filter, stops and deletions |

Bounds: the hazards need at most one late reply and one later read with its tag
(2 reads and a write between them), one interrupt around one read, or writes
around a SIGINT; each run allows at least one transaction more than that.  Two addresses
tell "same" from "other".  `TagMod` 2 makes the tag wrap within the run; 8
makes sure that it does not.  In the endpoint three dwords give a burst that does not start at 0 and a word it
must not touch.  For the agent two runs are one that misleads and one that is
misled, and with the old log and two backups the last backup is lost; a third
run repeats what two do.  The hazards of a repository take at most a fault,
what the user does about it and a second fault in the next run; two tags make "the
configured version has changed".  A set-up is hurt by one fault in one run and shows it in the next, clean
one; two removals are one that takes away a shared package and one that trips over it.  For the proofs of
the scripts the bounds do not matter: they hold for every value.

`images`, `repo` and `setup` check that there is no deadlock: the user can always start again.
The other passing runs do not: the guest may stop, processes end, and the agent is
started a bounded number of times.

Fairness: weak fairness of each thread or process that runs on its own
(main thread in a transaction, listener, simulation, the monitor between signal and `shutdown()`);
a read that can time out does so if nothing comes, since the kernel's timer runs.  The guest,
the user's SIGINT, crashes, a failing `accept()` and the end of the monitor's 1 ms
sleep are never forced.  Of the agent, its own steps and those of the bridges are weakly
fair; the end of the session, a bridge's failure or freeze, the blocked `read()` and a
death are not forced.  A run of a script goes on until it is stopped or fails
(`Script`, `Step`), and for `Converges` and `SetupCompletes` the user runs it
again; `images` assumes no fairness, since `urlretrieve` has no time-out and may never end.  Faults and stops are bounded: these properties say what happens
once they cease.

Runs in which the code departs from what its documents or comments say:

| Run | What happens |
|---|---|
| `bug_wedge` | the listener takes an interrupt while a read is on its way: the main thread arms the time-out on ASYNC, then blocks on MAIN without one, while the listener consumes the reply - the vCPU never continues |
| `bug_bars` | a byte or word access transfers nothing and is acknowledged; a read returns bytes of an earlier packet |
| `bug_align` | "aligned on branch X at tag T" and "safely and atomically applies": a run is stopped between the making of the branch and the commit of its patch, and the next one, which compares the branch's name only, reports it aligned, for good; with `MaxFaults` 0, a branch made from an older tag than the one in the message |

Other departures have a property that states what is expected, and TLC violates it
with these constants:

| Property | Constants | What happens |
|---|---|---|
| `CosimLink!RequestsOnMain` and the other properties of run `link` | as run `link`, `GuestWaits` FALSE; section 4 has smaller ones | a guest that writes again while its interrupt is under way: the listener has switched `channel`, and the write leaves on ASYNC, where nothing orders it with those on MAIN; `pcie_cosim_bridge.cpp:17-29` draws one socket per thread |
| `MCCosimLink!ReadsSeeLatestWrite` | `Spec`, `TagMod` 2, `MaxTx` 3, `MsiTest` FALSE, `GuestWaits` FALSE, `Transport` "UDS", `TimeoutAt` {"hdr"}, `Ops <- Access`, `SimMayDie` FALSE | a read times out, its reply arrives late, every later read gets the reply before its own; when the 8-bit tag comes round (after 256 transactions) the check accepts it: the guest reads an old value |
| `CosimStartup!StartupSettles` | `FairSpec`, `WaitTicks` 2, `MaxReq` 0, `AcceptMayFail` TRUE, the other two FALSE | one failed `accept()` on MAIN: the two sides shake hands in opposite orders, for ever, though the comment of `pcie_cosim_if.cpp:521` says "in the order they connected" |
| `CosimStartup!InterruptsLeave` | `FairSpec`, `WaitTicks` 2, `MaxReq` 1, the other three FALSE | the first write of the guest is a doorbell, served inside the ASYNC handshake: the interrupt is sent on descriptor -1 |
| `CosimStartup!ChannelValid` | as before, `MayInterrupt` TRUE | SIGINT between `new SocketChannel()` and the first handshake: `socket[-1]` |
| `RepoAlign!PatchAtomic` | as run `bug_align` | "Safely and atomically applies" (`workspace_setup.py:577`): a stop or a failed commit after `git apply` leaves the patch loose in the working tree |
| `ImageAssets!LinksAtomic` | as run `images`, `MayStop` and `MayDelete` FALSE | "Handle atomic symlink mappings updates" (`download_os_images.py:210`): between `os.remove()` and `os.symlink()` a ready image has no link, for good if the run is stopped there; `ReadyStaysLinked` is what is left of the claim |
| `ImageAssets!ReadyImagesComplete` | as run `images`, `MayDelete` FALSE | "Ready for agent deployment" (212): a download is stopped, the next run finds the partial file, takes it for cached (208) and reports it ready |
| `WorkspaceSetup!RemovalRecorded` | as run `setup`, `Spec` | "removed from host system" (`workspace_setup.py:1028`): `list.remove()` raises after the packages are purged, and the option stays in `.configs.json` |
| `WorkspaceSetup!AlreadyConfigured` | as run `setup`, `Spec` | "already configured" (456): the cache was written, the rules never copied |

Two more departures of the endpoint have the same property against them, in longer traces
of `bug_bars`: BAR1 ignores the offset (`pcie_cosim.cpp:197,300`), and the upper half of BAR0 aliases the lower
(`sim_top.sv:232`).

## 4. What is proved

`CosimLinkProofs` and `CosimLinkOrderProofs`, for every set of addresses, tag width, number of transactions,
transport and access mix, with crashes and a SIGINT at any moment:

* `TypeCorrect`: `Spec => []TypeOK`.  `TypeOK` is inductive; the proof has one lemma
  per group of actions.
* One invariant, `LinkInv`, for every theorem below but the interrupts' second case: `TypeOK`, `OneAtATime` and
  `EndsInv`.  It is inductive under `GuestWaits \/ NoDoorbell`: the guest waits for its interrupts, or asks for
  none (the build has no MSI test, or the guest never writes the pattern).  With doorbells the listener does switch
  the channel, and what must be shown is that nobody sends a request meanwhile.  `OneAtATime`: a transaction that has
  begun has no interrupt under way, and the interrupt under way is in one phase only.  `Unserved`: it is a
  request in MAIN, or there is none, and `channel` is MAIN.  `Signalled`: it is a header and a vector, in the places the
  simulation and the listener are at, and `channel` is MAIN exactly while the listener polls.  `Ended`: ASYNC has closed,
  and a listener that was led there by the close leaves `channel` on ASYNC for good.  `EndsInv` says which ends are closed
  in which phase of both processes, and that ASYNC carries no request but the NACK of a SIGINT.
* `RequestsStayOnMain`: `Spec => []RequestsOnMain`, from `LinkInv`.
* `ServedInOrder` (an action property) and `WritesSurviveShutdown`, under the same assumption,
  from `RequestInv`: MAIN carries requests of increasing numbers
  newer than the one served last (`OrderInv`); the memory is behind every write under
  way (`MemoryInv`); a write posted before the SIGINT has been stored or is in front of
  the NACK, and the simulation ends on its own only behind it (`ShutdownInv`).
* `AcceptedReply` and `BarIsMemory`, the refinement `Spec => ImplementsBarMemory`, under the same assumption and
  `"data" \notin TimeoutAt`, from `ReplyInv`: header and data alternate on
  MAIN, the main thread and the simulation being each at one end of that alternation
  (`StreamInv`); replies under way are those of earlier reads, in order, each with its own tag
  (`Labelled`); the memory plus the writes under way is what the guest has written, until MAIN closes or the channel is
  lost to a closed ASYNC (`Lost`), after which no request arrives (`KeptInv`); and the reply to the read
  that waits carries that value (`ReadInv`).
  `BarIsMemory` also needs that no stale reply's tag comes round: `TagMod > MaxTx`, or no time-outs at all, when at
  most one reply is ever under way (`LoneInv`).  Writes, requests and completions of reads map to the
  steps of `BarMemory` of these names, everything else to a stutter.
* `NoSpuriousInterrupts` and `ChannelIsRestored`: under `GuestWaits \/ NoDoorbell` from `LinkInv`; for a guest that
  does not wait, as long as it does not read, from `MsiInv`: header and vector
  alternate on ASYNC and the listener knows where it is (`MsiFrame`); an interrupt under way is in one
  place only - a request, a header or the packet of the listener (`OnceInv`); delivered
  interrupts and those under way are together no more than the doorbells (`CountInv`, by the
  cardinality of `InFlight`).

None of these assumptions can be dropped: TLC violates each property without it, with
`Spec`, `Transport` "UDS", `SimMayDie` FALSE, `GuestWaits` FALSE, `MaxTx` 3 and

| Constants | Violated | What happens |
|---|---|---|
| `MsiTest` TRUE, `TimeoutAt` {}, `TagMod` 8, `Ops <- Writes` | `RequestsOnMain`, `ServedInIssueOrder`, `PostedWritesSurviveShutdown` | the listener has switched the channel: a write goes out on ASYNC, a later one on MAIN is served before it, or the NACK is |
| the same with `Ops <- AllOps` | `AcceptedReplyIsOwnOrWrapped`, `ImplementsBarMemory` | the channel changes between header and data of a reply: the rest of one packet is taken for another |
| `MsiTest` TRUE, `TimeoutAt` {}, `TagMod` 8, `Ops <- IrqRead` | `NoSpuriousInterrupt`, `ChannelRestored` | a read waits on ASYNC and takes a header of the listener, which takes what follows for one |
| `MsiTest` FALSE, `TimeoutAt` {"hdr", "data"}, `TagMod` 8, `Ops <- Access` | `AcceptedReplyIsOwnOrWrapped`, `ImplementsBarMemory` | data that come after their time-out are taken for the next header |
| `MsiTest` FALSE, `TimeoutAt` {"hdr"}, `TagMod` 2, `Ops <- Access` | `ImplementsBarMemory` | a late reply's tag comes round |

`CosimStartupProofs`, for every waiting time, number of requests and choice of what may fail:

* `StartupTypeCorrect`: `Spec => []TypeOK`, in parts: `OrderInv` (the order of acceptance, the
  backlog and the handshake's index go together), `PacketsOK`, `PlacesOK`,
  `FlagsOK`, `BoundsOK`.
* `ExitsHaveCause`: `Spec => []ExitHasCause`.  `CauseInv` carries the cause along:
  a simulation that is gone, or is about to leave its loop, while the bridge lives has
  failed or has got a NACK, and each NACK in a stream comes from the SIGINT monitor.
* `UpIsSynced`: `Spec => []UpMeansSynced`.  `SyncInv`: while fewer than two channels are
  accepted, or ASYNC was first (`Quiet`), the bridge is not past its handshake on MAIN, and
  all that is on its way to the simulation is a NACK.

`CosimEndpointProofs`, for every size of BARs, window and buffer, every pattern and every set of accesses:

* `EndpointTypeCorrect`: `Spec => []TypeOK`.  What it says beyond types is that no loop
  leaves `dbuf`, the RAM or `mock_reg`, and that `msi` is at most 1; the latter needs
  "no interrupt yet while a write is being executed" (`TypeInv`).
* `InterruptsAreDoorbells`: `Spec => []IrqIffDoorbell`, from `DoorbellInv`: a write
  past its first dword is not a doorbell.
* `ServedAccessesReadBack`: if every access of the guest is `Served`, then
  `Spec => []ReadsBack`.  The assumption is needed: run `bug_bars` violates
  `ReadsBack` without it.  The inductive invariant is `ReadsInv`: until a TLP times out,
  each dword of a BAR is what the guest has written, except the ones the
  packet at hand has still to transfer (`Consistent`); those are in the buffer, unless they are a
  doorbell (`Pending`); and the part of a read's answer that is in the buffer already is
  right (`Loaded`).  `ServedInDwords` and `DwordPlace` turn the halves and the window of the
  RTL into dword numbers.

`PcieAgentProofs`, for every number of runs, backups and faults:

* `AgentTypeCorrect`; `OneBridgeAtATime` and `NothingLeftBehind`, from `SocketInv`:
  where each run can be with which bridge (`Placed`), and that runs under way together know of each other
  (`Overlap`).  A live bridge has the socket's name, unless a run it overlaps with has unlinked
  the name unasked (`took`): by `make clean`, by the clean-up after a kill, whenever these come between
  the steps of the two ends, or in the end of a bridge that had lost the name itself.  Without overlap there is no such run;
* `AgentHasItsBridge`: `Spec => []OwnBridge`.  `LogInv` adds `Overlap` (runs under
  way together know of each other) and `OwnLine` (a line in the file behind the
  log's name is that of a run that overlaps with every run that waits for one,
  because the truncating `open()` comes before the wait);
* `LogsOfRecentRunsKept`: `Spec => []RecentLogsKept`.  `RunsInv`: runs start in order, and two that were under
  way together know of each other, so where none overlap only the latest is under
  way.  `KeptInv`: with m the latest run, the log of r is at most m - r names down, less before m has shifted the backups, and not
  under ".1" when m's rotation overwrites that name.

`RepoAlignProofs`, for every number of tags, faults and actions of the user:

* `RepoTypeCorrect`; `ChangesAreKept` (inductive with the types: each step moves
  changes between tree, stash and commit);
* `CleanRunsAlign`: `Placed` says what a run without a failure has established at each
  place: the tag fetched, the branch made from it and patched, or left at the tag it was made from;
  `StashIsGivenBack`: `StashPlaced` says the same of the stash.

`WorkspaceSetupProofs`, for every blueprint, any directories, faults and removals:

* `SetupTypeCorrect`, in five parts;
* `OptionsRemovable` and `OptionsStay` from `FileInv`: what the run is about to write lists
  the packages of all its options that are not loose, and includes what the file says;
* `SetupRepairs`: `Spec => []CompleteWhenDone`, from one invariant per part of the host
  (`PlanInv`, `PkgsInv`, `TreeInv`, `LinkInv`, `SnifferInv`), each of which says
  what is there after which step of a clean run, and which scar stands for what is not.

`ImageAssetsProofs`, for every number of overlapping runs, manifest and filter:

* `ImagesTypeCorrect`, `PartialFilesHaveCause` (a run that has truncated a file last is writing it, or was stopped)
  and `ReadyLinksStay` (a link that is ready and missing is between a removal and a re-creation, or was left
  there by a stop: the theorem bounds the gap of section 3, it does not deny it).

The proofs rest on the named assumptions of the modules (`LinkAssumption`, `StartupAssumption`,
`EndpointAssumption`, `AgentAssumption`, `RepoAssumption`, `SetupAssumption`, `ImageAssumption`,
`KnownAssumption`), which TLC evaluates in each run, and on nothing else.  All but the last say
what the constants are; `KnownAssumption` says what `SelectSeq` returns for the filters of
the instance, which is recursion over data and out of the prover's reach.

Only model-checked:

* liveness (`ReadAlwaysReturns`, `SimStopsAfterDisconnect`, `EveryInterruptDelivered`,
  `SettlesInOrder`, `NoOrphan`, `TeardownEnds`, `Converges`, `SetupCompletes`): fairness and
  `ENABLED` are beyond the proof system;
* what a recursive definition computes (`KnownAssumption`).

Every invariant and every action property of a passing run is a theorem, and so is the refinement of
`BarMemory`.  The constants of the runs satisfy the assumptions of the theorems.

## 5. What is not modelled, and why

* The PIO engines (`PIO_RX_ENGINE`, `PIO_TX_ENGINE`) are not in the repository.  A TLP is one step of `CosimEndpoint`;
  the address latch, the write envelope of `sim_top.sv` and the channels of `axi_ram.v` are
  planned.
* libvfio-user, QEMU, the kernel: external, modelled by what the code relies on
  (accesses inside the BAR, `recv`, `poll`, `shutdown`, `SO_RCVTIMEO`, `PR_SET_PDEATHSIG`).
* Wire layout, logging, wave traces, time stamps: no state the protocol depends on.
* Full buffers: a link's traffic is one read and a few posted writes of a dword.
* The mock endpoint: planned.
* The agent's dialogue with the guest's console (log-in and the four tests,
  `run_pcie_agent.py:331-622`): patterns matched on a stream of text that an external
  program prints.  Its verdict does not change the agent's state: every way out of it
  leads to the tear-down, which is what `SessionEnds` keeps.  What a reader of it should know: on CirrOS test 3 does not compare
  the value of BAR1, and a prompt is recognised only at the end of the buffer.
* The skip of libvfio-user's build by a file in its tree, the fallbacks for kernel headers
  of distributions, the wording of the menu: no property here tells them apart.
* `tools/net/sockdump.py` (a third-party sniffer) and the Wireshark dissector observe
  only; build files and the scripts for the guest's images are compilation and host I/O.

## 6. The plan

Done, in this order: `BarMemory`, `CosimLink` with its instance and runs, its first theorems,
`CosimStartup`, `CosimEndpoint` with its theorems, `ImageAssets`, `RepoAlign`, `WorkspaceSetup`, `PcieAgent`,
the theorems about these and about `CosimStartup`, the theorems about the streams of `CosimLink` with the refinement
of `BarMemory`, for a guest that waits for its interrupts too, and the agent's logs.  To come, the most important first:

1. **`AxiRam`**: write FSM (IDLE, BURST, RESP) and read FSM (IDLE, BURST) of `axi_ram.v` against a
   master that drives the handshakes in any order; no beat lost, none stored at an
   address that was not accepted, `bvalid` exactly once per burst; refinement of a one-dword memory.
2. **`SimTop`**: completion latch, read address multiplexer and write envelope of `sim_top.sv` composed
   with `AxiRam` and the transactor's clock loops (100-clock time-outs, ten
   settling clocks), with the delay of the PIO engines' `wr_en` as a parameter: when may two TLPs overlap,
   what the completion a write's second beat may lock does to the next read, what a late completion does.
   It refines the TLP steps of `CosimEndpoint`.
3. **Mock endpoint**: the pins and the byte array of `ENABLE_MOCK` as a variant of `CosimEndpoint`.
4. **Proofs**: the refinement of a byte-free `BarMemory` by `CosimEndpoint` for the accesses it serves, as the
   other half of what the guest sees; type correctness and the refinement of `AxiRam`.
