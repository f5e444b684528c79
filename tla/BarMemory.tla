----------------------------- MODULE BarMemory -----------------------------
(***************************************************************************)
(* What the bridge promises the guest for a BAR: a memory.  A write takes  *)
(* effect at once; a read, which blocks the guest, returns what its        *)
(* address holds when it completes, or an error - never another value.     *)
(***************************************************************************)
EXTENDS Integers

CONSTANTS Addrs, Values

VARIABLES
  memory,   \* what each address holds
  pending,  \* the address being read, or Idle
  answer    \* what the last read returned

vars == <<memory, pending, answer>>

Idle  == "idle"
Error == [ok |-> FALSE, val |-> 0]

Init ==
  /\ memory = [a \in Addrs |-> 0]
  /\ pending = Idle
  /\ answer = Error

Write(a, v) ==
  /\ pending = Idle
  /\ memory' = [memory EXCEPT ![a] = v]
  /\ UNCHANGED <<pending, answer>>

ReadRequest(a) ==
  /\ pending = Idle
  /\ pending' = a
  /\ UNCHANGED <<memory, answer>>

ReadOk ==
  /\ pending # Idle
  /\ answer' = [ok |-> TRUE, val |-> memory[pending]]
  /\ pending' = Idle
  /\ UNCHANGED memory

ReadError ==
  /\ pending # Idle
  /\ answer' = Error
  /\ pending' = Idle
  /\ UNCHANGED memory

Next == \/ \E a \in Addrs : ReadRequest(a) \/ \E v \in Values : Write(a, v)
        \/ ReadOk
        \/ ReadError

Spec == Init /\ [][Next]_vars
=============================================================================
