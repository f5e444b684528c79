--------------------------- MODULE CosimEndpoint ---------------------------
(***************************************************************************)
(* The endpoint behind exchange(): how the simulation executes one memory  *)
(* packet.  BAR0 is the RAM of the RTL, one TLP per dword, through a       *)
(* window that the RTL addresses with nine bits; BAR1 is the array         *)
(* mock_reg; a write of the MSI pattern to BAR0 raises an interrupt        *)
(* instead of being stored.  Payloads travel in dbuf, one buffer for all   *)
(* packets.                                                                *)
(*                                                                         *)
(* Offsets and counts are in halves of a dword: what the code does not     *)
(* look at is that a count may not be a multiple of four bytes.            *)
(***************************************************************************)
EXTENDS Integers, Sequences

CONSTANTS
  BarSize,     \* 1024: dwords of a BAR
  Window,      \* 512: dwords the RTL tells apart
  BufSize,     \* 256: dwords of dbuf
  Vals,        \* what a half may hold
  Pattern,     \* 0xACDCBABE, as a pair of halves
  MsiTest,     \* ENABLE_MSI_TEST
  Accesses     \* the accesses the guest makes

Bars == {0, 1}
Word == Vals \X Vals
Zero == <<0, 0>>

\* What libvfio-user lets through: inside the BAR, and inside dbuf.
Access == {a \in [bar : Bars, off : 0 .. 2 * BarSize - 1, count : 1 .. 2 * BufSize] :
             a.off + a.count <= 2 * BarSize}

ASSUME EndpointAssumption ==
  /\ BarSize \in Nat \ {0} /\ Window \in 1 .. BarSize /\ BufSize \in 1 .. BarSize
  /\ 0 \in Vals /\ Pattern \in Word
  /\ MsiTest \in BOOLEAN
  /\ Accesses \subseteq Access

VARIABLES
  pc,        \* where exchange() is
  type, pkt, \* the packet being executed
  i,         \* the dword it is at
  dbuf,      \* the static data buffer
  ram,       \* BAR0: the RAM of the RTL
  mock_reg,  \* BAR1
  msi,       \* interrupts sent for the last packet
  stalled,   \* ghost: the RTL has let a TLP time out
  view       \* ghost: each BAR as the guest has written it

vars == <<pc, type, pkt, i, dbuf, ram, mock_reg, msi, stalled, view>>

Init ==
  /\ pc = "idle" /\ type = "MEM_RD"
  /\ pkt = [bar |-> 0, off |-> 0, count |-> 1]
  /\ i = 0
  /\ dbuf = [k \in 0 .. 2 * BufSize - 1 |-> 0]
  /\ ram = [d \in 0 .. Window - 1 |-> Zero]
  /\ mock_reg = [d \in 0 .. BarSize - 1 |-> Zero]
  /\ msi = 0 /\ stalled = FALSE
  /\ view = [b \in Bars |-> [k \in 0 .. 2 * BarSize - 1 |-> 0]]

-----------------------------------------------------------------------------
\* pkt.count / sizeof(uint32_t): what is left over is not transferred.
Dwords == pkt.count \div 2
OneTooMany == i <= Dwords   \* slip: off by one
More == i < Dwords

\* The dword of the buffer at the loop's index.
Dword == <<dbuf[2 * i], dbuf[2 * i + 1]>>

\* The address of a TLP: the low two bits of the offset are masked, the RTL
\* takes nine bits of the dword number and leaves the rest.
SameAddr == (pkt.off \div 2) % Window    \* slip: the address does not advance
RamAddr  == (pkt.off \div 2 + i) % Window

\* addr == 0: only the first dword of a packet to offset 0 can match.
AnyOffset == MsiTest /\ Dword = Pattern   \* slip: the address is not compared
IsIrq     == MsiTest /\ pkt.off = 0 /\ i = 0 /\ Dword = Pattern

\* The guest's halves k of access a that payload p defines; the MSI pattern
\* is a doorbell, it is not stored.
Doorbell(a, p) == MsiTest /\ a.bar = 0 /\ a.off = 0 /\ a.count >= 2
                          /\ <<p[0], p[1]>> = Pattern
Defined(a, p)  == {k \in 0 .. a.count - 1 : k > 1 \/ ~Doorbell(a, p)}

-----------------------------------------------------------------------------
\* receive(): a write's payload is read into dbuf, over what was there.
ReceiveWrite(a, p) ==
  /\ pc = "idle"
  /\ pc' = "write" /\ type' = "MEM_WR" /\ pkt' = a /\ i' = 0 /\ msi' = 0
  /\ dbuf' = [k \in DOMAIN dbuf |-> IF k < a.count THEN p[k] ELSE dbuf[k]]
  /\ view' = [view EXCEPT ![a.bar] =
                [k \in DOMAIN @ |-> IF k - a.off \in Defined(a, p)
                                      THEN p[k - a.off] ELSE @[k]]]
  /\ UNCHANGED <<ram, mock_reg, stalled>>

ReceiveRead(a) ==
  /\ pc = "idle"
  /\ pc' = "read" /\ type' = "MEM_RD" /\ pkt' = a /\ i' = 0 /\ msi' = 0
  /\ UNCHANGED <<dbuf, ram, mock_reg, stalled, view>>

\* doWriteMem(): a TLP of one dword, unless it is the doorbell.
WriteRam ==
  /\ pc = "write" /\ pkt.bar = 0 /\ More /\ ~IsIrq
  /\ ram' = [ram EXCEPT ![RamAddr] = Dword]
  /\ i' = i + 1
  /\ UNCHANGED <<pc, type, pkt, dbuf, mock_reg, msi, stalled, view>>

\* A hundred clocks without tready: an error line in the log, nothing more.
WriteStalls ==
  /\ pc = "write" /\ pkt.bar = 0 /\ More /\ ~IsIrq
  /\ i' = i + 1 /\ stalled' = TRUE
  /\ UNCHANGED <<pc, type, pkt, dbuf, ram, mock_reg, msi, view>>

\* sendAsync(), then out of the loop: the rest of the packet is dropped.
WriteMsi ==
  /\ pc = "write" /\ pkt.bar = 0 /\ More /\ IsIrq
  /\ msi' = msi + 1
  /\ pc' = "idle"
  /\ UNCHANGED <<type, pkt, i, dbuf, ram, mock_reg, stalled, view>>

\* BAR1 is indexed by the position in the packet, not by the offset.
WriteReg ==
  /\ pc = "write" /\ pkt.bar = 1 /\ More
  /\ mock_reg' = [mock_reg EXCEPT ![i] = Dword]
  /\ i' = i + 1
  /\ UNCHANGED <<pc, type, pkt, dbuf, ram, msi, stalled, view>>

WriteDone ==
  /\ pc = "write" /\ ~More
  /\ pc' = "idle"
  /\ UNCHANGED <<type, pkt, i, dbuf, ram, mock_reg, msi, stalled, view>>

\* One dword read into the buffer.
Load(w) ==
  /\ dbuf' = [dbuf EXCEPT ![2 * i] = w[1], ![2 * i + 1] = w[2]]
  /\ i' = i + 1
  /\ UNCHANGED <<pc, type, pkt, ram, mock_reg, msi, stalled, view>>

ReadRam == pc = "read" /\ pkt.bar = 0 /\ More /\ Load(ram[RamAddr])
ReadReg == pc = "read" /\ pkt.bar = 1 /\ More /\ Load(mock_reg[i])

\* A TLP without a completion leaves the buffer as it was.
ReadStalls ==
  /\ pc = "read" /\ pkt.bar = 0 /\ More
  /\ i' = i + 1 /\ stalled' = TRUE
  /\ UNCHANGED <<pc, type, pkt, dbuf, ram, mock_reg, msi, view>>

\* The data of the ACK: pkt.count bytes of the buffer, transferred or not.
Answering == pc = "read" /\ ~More
Answer    == [k \in 0 .. pkt.count - 1 |-> dbuf[k]]

Reply ==
  /\ Answering
  /\ pc' = "idle"
  /\ UNCHANGED <<type, pkt, i, dbuf, ram, mock_reg, msi, stalled, view>>

-----------------------------------------------------------------------------
\* What the PIO engines, which are external, keep of a TLP that timed out is
\* unknown: the packet it belongs to is executed to its end, and no other.
Receive == ~stalled /\ \E a \in Accesses : \/ ReceiveRead(a)
                                           \/ \E p \in [0 .. a.count - 1 -> Vals] : ReceiveWrite(a, p)
Execute == \/ WriteRam \/ WriteStalls \/ WriteMsi \/ WriteReg \/ WriteDone
           \/ ReadRam \/ ReadStalls \/ ReadReg \/ Reply

Next == Receive \/ Execute
Spec == Init /\ [][Next]_vars

-----------------------------------------------------------------------------
(* Properties.                                                             *)

TypeOK ==
  /\ pc \in {"idle", "write", "read"} /\ type \in {"MEM_RD", "MEM_WR"}
  /\ pkt \in Access /\ i \in 0 .. BufSize /\ i <= Dwords
  /\ dbuf \in [0 .. 2 * BufSize - 1 -> Vals]
  /\ ram \in [0 .. Window - 1 -> Word]
  /\ mock_reg \in [0 .. BarSize - 1 -> Word]
  /\ msi \in 0 .. 1 /\ stalled \in BOOLEAN
  /\ view \in [Bars -> [0 .. 2 * BarSize - 1 -> Vals]]

\* The accesses the endpoint serves as memory: whole, aligned dwords, in BAR0
\* inside the window and not behind a doorbell, in BAR1 at offset 0.
Served(a) ==
  /\ a.off % 2 = 0 /\ a.count % 2 = 0
  /\ a.bar = 0 => /\ a.off + a.count <= 2 * Window
                  /\ MsiTest /\ a.off = 0 => a.count = 2
  /\ a.bar = 1 => a.off = 0

\* A read is answered with what the guest last wrote to the bytes it names,
\* whatever packets went through the buffer before it, as long as the RTL
\* has answered every TLP in time.
ReadsBack ==
  Answering /\ ~stalled =>
    Answer = [k \in 0 .. pkt.count - 1 |-> view[pkt.bar][pkt.off + k]]

\* doWriteMem() raises one interrupt for a doorbell and none for anything else.
IrqIffDoorbell ==
  pc = "idle" /\ type = "MEM_WR" => msi = IF Doorbell(pkt, dbuf) THEN 1 ELSE 0
=============================================================================
