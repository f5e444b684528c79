---------------------------- MODULE MCCosimLink ----------------------------
(***************************************************************************)
(* Model-checking instance of CosimLink: the values its configurations     *)
(* give the constants, the liveness properties, and what the repository's  *)
(* documents say of a link on which they turn out not to hold.             *)
(***************************************************************************)
EXTENDS CosimLink

CONSTANTS a0, a1

MCAddrs  == {a0, a1}
AllOps   == {"rd", "wr", "irq"}
Writes   == {"wr", "irq"}
Access   == {"rd", "wr"}
IrqRead  == {"rd", "irq"}

-----------------------------------------------------------------------------
\* A guest read always returns to the guest, with data or an error.
ReadAlwaysReturns == mpc # "idle" ~> (mpc = "idle" \/ ~Alive)

\* The same, as long as neither stream has lost its packet boundaries.
ReadReturnsWhileFramed ==
  mpc # "idle" ~> (mpc = "idle" \/ ~Alive \/ TRUE \in {torn[ch] : ch \in Chans})

\* Once the bridge has disconnected, the simulation ends.
SimStopsAfterDisconnect == tpc = "shut" ~> spc \in {"done", "dead"}

\* Every MSI the guest provokes reaches vfu_irq_trigger(), unless one of the
\* processes is shutting down or has died.
EveryInterruptDelivered ==
  \A k \in 1 .. MaxTx :
    raised >= k ~> (irqs >= k \/ tpc # "wait" \/ spc = "dead")

\* A read that succeeds returns what the guest last wrote (README.md:36).
ReadsSeeLatestWrite == last.ok => last.val = last.exp
=============================================================================
