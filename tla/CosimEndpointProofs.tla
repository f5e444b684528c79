------------------------ MODULE CosimEndpointProofs ------------------------
(***************************************************************************)
(* Theorems about CosimEndpoint, for every size of the BARs, the window    *)
(* and the buffer, every pattern and every set of accesses.                *)
(***************************************************************************)
EXTENDS CosimEndpoint, TLAPS

\* Halves and dwords.
LEMMA Halves ==
  ASSUME NEW n \in Nat
  PROVE  /\ n \div 2 \in Nat /\ 2 * (n \div 2) <= n /\ n < 2 * (n \div 2) + 2
         /\ n % 2 = 0 => 2 * (n \div 2) = n
OBVIOUS

\* The numbers of an access.
LEMMA AccessType ==
  ASSUME NEW a \in Access
  PROVE  /\ a.bar \in Bars /\ a.off \in 0 .. 2 * BarSize - 1
         /\ a.count \in 1 .. 2 * BufSize /\ a.off + a.count <= 2 * BarSize
         /\ BarSize \in Nat /\ BufSize \in Nat /\ BufSize <= BarSize
         /\ Window \in Nat \ {0} /\ Window <= BarSize
BY EndpointAssumption DEF Access

\* The index of a dword that is still to come is inside the buffer.
LEMMA DwordIndex ==
  ASSUME TypeOK
  PROVE  /\ i \in Nat /\ Dwords \in Nat /\ Dwords <= BufSize
         /\ 2 * Dwords <= pkt.count
         /\ More => /\ i < BufSize
                    /\ 2 * i \in 0 .. 2 * BufSize - 1 /\ 2 * i + 1 \in 0 .. 2 * BufSize - 1
                    /\ 2 * i + 1 < pkt.count
<1>1. pkt.count \in 1 .. 2 * BufSize /\ BufSize \in Nat
  BY AccessType DEF TypeOK
<1>2. Dwords \in Nat /\ 2 * Dwords <= pkt.count
  BY <1>1, Halves DEF Dwords
<1>3. i \in Nat
  BY <1>1 DEF TypeOK
<1> QED BY <1>1, <1>2, <1>3 DEF More

-----------------------------------------------------------------------------
(* Type correctness.                                                       *)

TypeInv == TypeOK /\ (pc = "write" => msi = 0)

LEMMA TypeInit == Init => TypeInv
<1> SUFFICES ASSUME Init PROVE TypeInv
  OBVIOUS
<1>1. pkt \in Access
  BY EndpointAssumption DEF Init, Access, Bars
<1>2. i \in 0 .. BufSize /\ i <= Dwords
  BY <1>1, EndpointAssumption, AccessType, Halves DEF Init, Dwords
<1>3. Zero \in Word
  BY EndpointAssumption DEF Zero, Word
<1>4. view \in [Bars -> [0 .. 2 * BarSize - 1 -> Vals]]
  BY EndpointAssumption DEF Init
<1>5. dbuf \in [0 .. 2 * BufSize - 1 -> Vals]
  BY EndpointAssumption DEF Init
<1>6. ram \in [0 .. Window - 1 -> Word] /\ mock_reg \in [0 .. BarSize - 1 -> Word]
  BY <1>3 DEF Init
<1>7. pc = "idle" /\ type = "MEM_RD" /\ msi = 0 /\ msi \in 0 .. 1
  BY DEF Init
<1>8. stalled \in BOOLEAN
  BY DEF Init
<1> QED BY <1>1, <1>2, <1>4, <1>5, <1>6, <1>7, <1>8 DEF TypeInv, TypeOK

LEMMA ReceiveWriteType ==
  ASSUME TypeInv, NEW a \in Accesses, NEW p \in [0 .. a.count - 1 -> Vals], ReceiveWrite(a, p)
  PROVE  TypeInv'
<1>1. a \in Access
  BY EndpointAssumption
<1>2. i' \in 0 .. BufSize /\ i' <= Dwords'
  <2>1. pkt'.count \in Nat /\ BufSize \in Nat
    BY <1>1, AccessType DEF ReceiveWrite
  <2> QED BY <2>1, Halves DEF ReceiveWrite, Dwords
<1>3. dbuf' \in [0 .. 2 * BufSize - 1 -> Vals]
  <2>1. \A k \in 0 .. 2 * BufSize - 1 : (IF k < a.count THEN p[k] ELSE dbuf[k]) \in Vals
    <3>1. a.count \in Nat /\ BufSize \in Nat
      BY <1>1, AccessType
    <3>2. \A k \in 0 .. 2 * BufSize - 1 : dbuf[k] \in Vals
      BY DEF TypeInv, TypeOK
    <3> QED BY <3>1, <3>2
  <2>2. dbuf' = [k \in 0 .. 2 * BufSize - 1 |-> IF k < a.count THEN p[k] ELSE dbuf[k]]
    BY DEF ReceiveWrite, TypeInv, TypeOK
  <2> QED BY <2>1, <2>2
<1>4. view' \in [Bars -> [0 .. 2 * BarSize - 1 -> Vals]]
  <2>1. \A k \in 0 .. 2 * BarSize - 1 :
          (IF k - a.off \in Defined(a, p) THEN p[k - a.off] ELSE view[a.bar][k]) \in Vals
    <3> SUFFICES ASSUME NEW k \in 0 .. 2 * BarSize - 1
                 PROVE  (IF k - a.off \in Defined(a, p) THEN p[k - a.off]
                                                        ELSE view[a.bar][k]) \in Vals
      OBVIOUS
    <3>1. view[a.bar][k] \in Vals
      BY <1>1, AccessType DEF TypeInv, TypeOK
    <3>2. k - a.off \in Defined(a, p) => k - a.off \in 0 .. a.count - 1
      BY DEF Defined
    <3> QED BY <3>1, <3>2
  <2> QED BY <2>1, <1>1, AccessType DEF ReceiveWrite, TypeInv, TypeOK
<1> QED BY <1>1, <1>2, <1>3, <1>4 DEF ReceiveWrite, TypeInv, TypeOK

LEMMA ReceiveReadType ==
  ASSUME TypeInv, NEW a \in Accesses, ReceiveRead(a)
  PROVE  TypeInv'
<1>1. a \in Access
  BY EndpointAssumption
<1>2. i' \in 0 .. BufSize /\ i' <= Dwords'
  <2>1. pkt'.count \in Nat /\ BufSize \in Nat
    BY <1>1, AccessType DEF ReceiveRead
  <2> QED BY <2>1, Halves DEF ReceiveRead, Dwords
<1>3. pkt' \in Access /\ pc' = "read" /\ type' = "MEM_RD" /\ msi' = 0
  BY <1>1 DEF ReceiveRead
<1>4. UNCHANGED <<dbuf, ram, mock_reg, stalled, view>>
  BY DEF ReceiveRead
<1> QED BY <1>2, <1>3, <1>4 DEF TypeInv, TypeOK

\* The address of a TLP is inside the window.
LEMMA RamAddrType ==
  ASSUME TypeOK
  PROVE  RamAddr \in 0 .. Window - 1
<1>1. pkt.off \in Nat /\ Window \in Nat \ {0}
  BY AccessType DEF TypeOK
<1>2. pkt.off \div 2 + i \in Nat
  BY <1>1, Halves, DwordIndex
<1> QED BY <1>1, <1>2 DEF RamAddr

\* A step to the next dword of the packet keeps the index in range.
LEMMA NextIndex ==
  ASSUME TypeOK, More, i' = i + 1, UNCHANGED pkt
  PROVE  i' \in 0 .. BufSize /\ i' <= Dwords'
<1>1. BufSize \in Nat
  BY EndpointAssumption, AccessType DEF TypeOK
<1> QED BY <1>1, DwordIndex DEF More, Dwords

LEMMA ExecuteType == TypeInv /\ Execute => TypeInv'
<1> SUFFICES ASSUME TypeInv, Execute PROVE TypeInv'
  OBVIOUS
<1> USE DEF TypeInv
<1>1. More => Dword \in Word
  BY DwordIndex DEF TypeOK, Dword, Word
<1>2. CASE WriteRam
  BY <1>1, <1>2, NextIndex, RamAddrType DEF WriteRam, TypeOK
<1>3. CASE WriteStalls
  BY <1>3, NextIndex DEF WriteStalls, TypeOK
<1>4. CASE WriteMsi
  BY <1>4 DEF WriteMsi, TypeOK, Dwords
<1>5. CASE WriteReg
  BY <1>1, <1>5, NextIndex, DwordIndex, AccessType DEF WriteReg, TypeOK
<1>6. CASE WriteDone
  BY <1>6 DEF WriteDone, TypeOK, Dwords
<1>7. ASSUME NEW w \in Word, pc = "read", More, Load(w) PROVE TypeInv'
  <2>1. w[1] \in Vals /\ w[2] \in Vals
    BY DEF Word
  <2>2. dbuf' \in [0 .. 2 * BufSize - 1 -> Vals]
    BY <1>7, <2>1, DwordIndex DEF Load, TypeOK
  <2> QED BY <1>7, <2>2, NextIndex DEF Load, TypeOK
<1>8. CASE ReadRam
  BY <1>7, <1>8, RamAddrType DEF ReadRam, TypeOK
<1>9. CASE ReadReg
  <2>1. i \in 0 .. BarSize - 1
    BY <1>9, DwordIndex, AccessType DEF ReadReg, TypeOK
  <2> QED BY <1>7, <1>9, <2>1 DEF ReadReg, TypeOK
<1>10. CASE ReadStalls
  BY <1>10, NextIndex DEF ReadStalls, TypeOK
<1>11. CASE Reply
  BY <1>11 DEF Reply, TypeOK, Dwords
<1> QED BY <1>2, <1>3, <1>4, <1>5, <1>6, <1>8, <1>9, <1>10, <1>11 DEF Execute

LEMMA TypeStep == TypeInv /\ [Next]_vars => TypeInv'
<1>1. ASSUME TypeInv, Receive PROVE TypeInv'
  BY <1>1, ReceiveReadType, ReceiveWriteType DEF Receive
<1>2. ASSUME TypeInv, UNCHANGED vars PROVE TypeInv'
  BY <1>2 DEF vars, TypeInv, TypeOK, Dwords
<1> QED BY <1>1, <1>2, ExecuteType DEF Next

\* The loops stay inside dbuf, the RAM and mock_reg, and a packet raises at
\* most one interrupt: whatever accesses the guest makes, and whichever TLPs
\* time out.
THEOREM EndpointTypeCorrect == Spec => []TypeOK
<1>1. TypeInv => TypeOK
  BY DEF TypeInv
<1> QED BY <1>1, TypeInit, TypeStep, PTL DEF Spec
-----------------------------------------------------------------------------
(* Reads return what was written.  For a guest whose accesses are all      *)
(* Served, as long as no TLP has timed out: each dword the RAM or mock_reg *)
(* holds is the one the guest has written, except those the packet at hand *)
(* has still to transfer, which are in the buffer; and of a read, what is  *)
(* in the buffer already is right.                                         *)

Size(b)    == IF b = 0 THEN Window ELSE BarSize
Held(b, d) == IF b = 0 THEN ram[d] ELSE mock_reg[d]
Seen(b, d) == <<view[b][2 * d], view[b][2 * d + 1]>>
Base       == pkt.off \div 2

\* Dword d of BAR b is one the packet at hand has still to write.
ToCome(b, d) == pc = "write" /\ b = pkt.bar /\ d - Base \in i .. Dwords - 1

Consistent ==
  \A b \in Bars : \A d \in 0 .. Size(b) - 1 : ToCome(b, d) \/ Held(b, d) = Seen(b, d)

Pending ==
  pc = "write" => \A k \in i .. Dwords - 1 :
    /\ k = 0 /\ Doorbell(pkt, dbuf) => Held(pkt.bar, Base + k) = Seen(pkt.bar, Base + k)
    /\ ~(k = 0 /\ Doorbell(pkt, dbuf)) =>
         <<dbuf[2 * k], dbuf[2 * k + 1]>> = Seen(pkt.bar, Base + k)

Loaded == pc = "read" => \A k \in 0 .. 2 * i - 1 : dbuf[k] = view[pkt.bar][pkt.off + k]

ServedInv == pc # "idle" => pkt \in Accesses
ReadInv   == ~stalled => Consistent /\ Pending /\ Loaded

\* What a Served access means in dwords.
LEMMA ServedInDwords ==
  ASSUME NEW a \in Access, Served(a)
  PROVE  /\ a.off = 2 * (a.off \div 2) /\ a.count = 2 * (a.count \div 2)
         /\ a.off \div 2 \in Nat /\ a.count \div 2 \in Nat \ {0}
         /\ a.off \div 2 + a.count \div 2 <= Size(a.bar)
         /\ Size(a.bar) \in Nat /\ Size(a.bar) <= BarSize
         /\ a.bar = 1 => a.off \div 2 = 0
<1>1. /\ a.off \in Nat /\ a.count \in Nat \ {0} /\ Window \in Nat /\ BarSize \in Nat
      /\ a.off + a.count <= 2 * BarSize /\ Window <= BarSize /\ a.bar \in {0, 1}
  BY AccessType DEF Bars
<1>2. /\ a.off = 2 * (a.off \div 2) /\ a.count = 2 * (a.count \div 2)
      /\ a.off \div 2 \in Nat /\ a.count \div 2 \in Nat
  BY <1>1, Halves DEF Served
<1>3. /\ a.bar = 0 => a.off + a.count <= 2 * Window
      /\ a.bar = 1 => a.off = 0
  BY DEF Served
<1> QED BY <1>1, <1>2, <1>3 DEF Size

\* The dword a step of a Served packet is at: where it is, and that it is
\* inside the BAR.
LEMMA DwordPlace ==
  ASSUME TypeInv, Served(pkt), More
  PROVE  /\ Base \in Nat /\ i \in Nat /\ Dwords \in Nat /\ i < Dwords
         /\ Base + i \in 0 .. Size(pkt.bar) - 1
         /\ pkt.off = 2 * Base /\ pkt.count = 2 * Dwords
         /\ pkt.bar = 0 => RamAddr = Base + i
         /\ pkt.bar = 1 => Base = 0
<1>1. pkt \in Access
  BY DEF TypeInv, TypeOK
<1>2. /\ Base \in Nat /\ Dwords \in Nat /\ Base + Dwords <= Size(pkt.bar)
      /\ pkt.off = 2 * Base /\ pkt.count = 2 * Dwords /\ Size(pkt.bar) \in Nat
      /\ pkt.bar = 1 => Base = 0
  BY <1>1, ServedInDwords DEF Base, Dwords
<1>3. i \in Nat /\ i < Dwords
  BY DwordIndex DEF TypeInv, More
<1>4. pkt.bar = 0 => RamAddr = Base + i
  <2>1. SUFFICES ASSUME pkt.bar = 0 PROVE (Base + i) % Window = Base + i
    BY DEF RamAddr, Base
  <2>2. Window \in Nat \ {0} /\ Base + i \in 0 .. Window - 1
    BY <1>1, <1>2, <1>3, <2>1, AccessType DEF Size
  <2> QED BY <2>2
<1> QED BY <1>2, <1>3, <1>4

\* Without a write in progress the BARs hold what the guest has written.
LEMMA AtRest ==
  ASSUME Consistent, pc # "write"
  PROVE  \A b \in Bars : \A d \in 0 .. Size(b) - 1 : Held(b, d) = Seen(b, d)
BY DEF Consistent, ToCome

LEMMA ReadInit == Init => ServedInv /\ ReadInv
<1> SUFFICES ASSUME Init PROVE ServedInv /\ ReadInv
  OBVIOUS
<1>1. Consistent
  <2> SUFFICES ASSUME NEW b \in Bars, NEW d \in 0 .. Size(b) - 1
               PROVE  Held(b, d) = Seen(b, d)
    BY DEF Consistent
  <2>1. BarSize \in Nat /\ Window \in Nat /\ Window <= BarSize /\ b \in {0, 1}
    BY EndpointAssumption DEF Bars
  <2>2. d \in 0 .. BarSize - 1 /\ (b = 0 => d \in 0 .. Window - 1)
    BY <2>1 DEF Size
  <2>3. Held(b, d) = <<0, 0>>
    BY <2>1, <2>2 DEF Held, Init, Zero
  <2>4. view[b][2 * d] = 0 /\ view[b][2 * d + 1] = 0
    BY <2>1, <2>2 DEF Init
  <2> QED BY <2>3, <2>4 DEF Seen
<1> QED BY <1>1 DEF Init, ServedInv, ReadInv, Pending, Loaded

\* The payload goes into the buffer: exactly the dwords of the packet differ
\* from what the guest has now written, and the buffer holds them.
LEMMA ReceiveWriteReads ==
  ASSUME TypeInv, ReadInv, ~stalled,
         NEW a \in Accesses, Served(a), NEW p \in [0 .. a.count - 1 -> Vals], ReceiveWrite(a, p)
  PROVE  Consistent' /\ Pending' /\ Loaded'
<1> DEFINE o == a.off \div 2
           n == a.count \div 2
<1>1. a \in Access
  BY EndpointAssumption
<1>2. /\ o \in Nat /\ n \in Nat \ {0} /\ a.off = 2 * o /\ a.count = 2 * n
      /\ o + n <= Size(a.bar) /\ Size(a.bar) \in Nat /\ Size(a.bar) <= BarSize
      /\ BarSize \in Nat /\ BufSize \in Nat /\ n <= BufSize /\ a.bar \in Bars
  BY <1>1, ServedInDwords, AccessType
<1>3. pc' = "write" /\ pkt' = a /\ i' = 0 /\ Base' = o /\ Dwords' = n
  BY DEF ReceiveWrite, Base, Dwords
<1> HIDE DEF o, n
<1>4. \A b \in Bars : \A d \in 0 .. Size(b) - 1 : Held(b, d)' = Seen(b, d)
  <2>1. pc = "idle"
    BY DEF ReceiveWrite
  <2> QED BY <2>1, AtRest DEF ReadInv, Held, ReceiveWrite
<1>5. /\ \A b \in Bars : b # a.bar => view'[b] = view[b]
      /\ \A x \in 0 .. 2 * BarSize - 1 : \A j \in Int : j = x - a.off =>
           view'[a.bar][x] = IF j \in Defined(a, p) THEN p[j] ELSE view[a.bar][x]
  BY <1>2 DEF ReceiveWrite, TypeInv, TypeOK
<1>6. \A k \in 0 .. 2 * n - 1 : dbuf'[k] = p[k]
  BY <1>2 DEF ReceiveWrite, TypeInv, TypeOK
<1>7. Doorbell(a, dbuf') <=> Doorbell(a, p)
  <2>1. dbuf'[0] = p[0] /\ dbuf'[1] = p[1]
    BY <1>2, <1>6
  <2> QED BY <2>1 DEF Doorbell
<1>8. Consistent'
  <2> SUFFICES ASSUME NEW b \in Bars, NEW d \in 0 .. Size(b) - 1, ~ToCome(b, d)'
               PROVE  Held(b, d)' = Seen(b, d)'
    BY DEF Consistent, Size
  <2>1. Size(b) \in Nat /\ Size(b) <= BarSize
    BY EndpointAssumption DEF Size, Bars
  <2>2. CASE b = a.bar
    <3>1. ~(d - o \in 0 .. n - 1)
      BY <1>3, <2>2 DEF ToCome
    <3>2. view'[b][2 * d] = view[b][2 * d] /\ view'[b][2 * d + 1] = view[b][2 * d + 1]
      <4>1. 2 * d \in 0 .. 2 * BarSize - 1 /\ 2 * d + 1 \in 0 .. 2 * BarSize - 1
        BY <1>2, <2>1
      <4>2. PICK x \in 0 .. 2 * BarSize - 1 : x = 2 * d
        BY <4>1
      <4>3. PICK y \in 0 .. 2 * BarSize - 1 : y = 2 * d + 1
        BY <4>1
      <4>4. x - a.off \in Int /\ y - a.off \in Int
        BY <1>2
      <4>5. ~(x - a.off \in Defined(a, p)) /\ ~(y - a.off \in Defined(a, p))
        BY <1>2, <2>1, <3>1, <4>2, <4>3 DEF Defined
      <4>6. view'[b][x] = view[b][x] /\ view'[b][y] = view[b][y]
        BY <1>5, <2>2, <4>4, <4>5
      <4> QED BY <4>2, <4>3, <4>6
    <3> QED BY <1>4, <3>2 DEF Seen
  <2>3. CASE b # a.bar
    BY <1>4, <1>5, <2>3 DEF Seen
  <2> QED BY <2>2, <2>3
<1>9. Pending'
  <2> SUFFICES ASSUME NEW k \in 0 .. n - 1
               PROVE  /\ k = 0 /\ Doorbell(a, p) => Held(a.bar, o + k)' = Seen(a.bar, o + k)'
                      /\ ~(k = 0 /\ Doorbell(a, p)) =>
                           <<dbuf'[2 * k], dbuf'[2 * k + 1]>> = Seen(a.bar, o + k)'
    BY <1>3, <1>7 DEF Pending
  <2>1. /\ 2 * (o + k) \in 0 .. 2 * BarSize - 1 /\ 2 * (o + k) + 1 \in 0 .. 2 * BarSize - 1
        /\ 2 * (o + k) - a.off = 2 * k /\ 2 * (o + k) + 1 - a.off = 2 * k + 1
        /\ o + k \in 0 .. Size(a.bar) - 1 /\ 2 * k \in Int /\ 2 * k + 1 \in Int
    BY <1>2
  <2>2. PICK x \in 0 .. 2 * BarSize - 1, j \in Int :
          x = 2 * (o + k) /\ j = 2 * k /\ j = x - a.off
    BY <2>1
  <2>3. PICK y \in 0 .. 2 * BarSize - 1, h \in Int :
          y = 2 * (o + k) + 1 /\ h = 2 * k + 1 /\ h = y - a.off
    BY <1>2, <2>1
  <2>4. /\ view'[a.bar][x] = IF j \in Defined(a, p) THEN p[j] ELSE view[a.bar][x]
        /\ view'[a.bar][y] = IF h \in Defined(a, p) THEN p[h] ELSE view[a.bar][y]
    BY <1>5, <2>2, <2>3
  <2>5. CASE k = 0 /\ Doorbell(a, p)
    <3>1. ~(2 * k \in Defined(a, p)) /\ ~(2 * k + 1 \in Defined(a, p))
      BY <2>5 DEF Defined
    <3>2. /\ view'[a.bar][2 * (o + k)] = view[a.bar][2 * (o + k)]
          /\ view'[a.bar][2 * (o + k) + 1] = view[a.bar][2 * (o + k) + 1]
      BY <2>2, <2>3, <2>4, <3>1
    <3>3. Seen(a.bar, o + k)' = Seen(a.bar, o + k)
      BY <3>2 DEF Seen
    <3> QED BY <1>2, <1>4, <2>1, <2>5, <3>3
  <2>6. CASE ~(k = 0 /\ Doorbell(a, p))
    <3>1. 2 * k \in Defined(a, p) /\ 2 * k + 1 \in Defined(a, p)
      BY <1>2, <2>6 DEF Defined
    <3>2. /\ view'[a.bar][2 * (o + k)] = p[2 * k]
          /\ view'[a.bar][2 * (o + k) + 1] = p[2 * k + 1]
      BY <2>2, <2>3, <2>4, <3>1
    <3>3. Seen(a.bar, o + k)' = <<p[2 * k], p[2 * k + 1]>>
      BY <3>2 DEF Seen
    <3> QED BY <1>2, <1>6, <2>6, <3>3
  <2> QED BY <2>5, <2>6
<1> QED BY <1>3, <1>8, <1>9 DEF Loaded

LEMMA ReceiveReadReads ==
  ASSUME ReadInv, ~stalled, NEW a, ReceiveRead(a)
  PROVE  Consistent' /\ Pending' /\ Loaded'
<1>1. \A b \in Bars : \A d \in 0 .. Size(b) - 1 : Held(b, d)' = Seen(b, d)'
  <2>1. pc = "idle"
    BY DEF ReceiveRead
  <2> QED BY <2>1, AtRest DEF ReadInv, Held, Seen, ReceiveRead
<1>2. pc' = "read" /\ i' = 0
  BY DEF ReceiveRead
<1> QED BY <1>1, <1>2 DEF Consistent, Pending, Loaded, Size

\* One dword goes from the buffer to its place.
LEMMA WriteReads ==
  ASSUME TypeInv, ReadInv, ~stalled, pkt \in Access, Served(pkt), WriteRam \/ WriteReg
  PROVE  Consistent' /\ Pending' /\ Loaded'
<1> DEFINE d0 == Base + i
<1>1. /\ pc = "write" /\ pc' = "write" /\ More /\ i' = i + 1
      /\ UNCHANGED <<pkt, dbuf, view>> /\ Base' = Base /\ Dwords' = Dwords
  BY DEF WriteRam, WriteReg, Base, Dwords
<1>2. /\ Base \in Nat /\ i \in Nat /\ Dwords \in Nat /\ i < Dwords
      /\ d0 \in 0 .. Size(pkt.bar) - 1
      /\ pkt.bar = 0 => RamAddr = d0
      /\ pkt.bar = 1 => Base = 0
  BY <1>1, DwordPlace
<1>3. pkt.bar \in {0, 1}
  BY AccessType DEF Bars
<1>4. Dword = Seen(pkt.bar, d0)
  <2>1. ~(i = 0 /\ Doorbell(pkt, dbuf))
    BY <1>2 DEF WriteRam, WriteReg, IsIrq, Doorbell, Dword
  <2> QED BY <1>1, <1>2, <2>1 DEF ReadInv, Pending, Dword
<1>5. \A b \in Bars : \A d \in 0 .. Size(b) - 1 :
        Held(b, d)' = IF b = pkt.bar /\ d = d0 THEN Dword ELSE Held(b, d)
  <2> SUFFICES ASSUME NEW b \in Bars, NEW d \in 0 .. Size(b) - 1
               PROVE  Held(b, d)' = IF b = pkt.bar /\ d = d0 THEN Dword ELSE Held(b, d)
    OBVIOUS
  <2>1. CASE WriteRam
    <3>1. pkt.bar = 0 /\ ram' = [ram EXCEPT ![d0] = Dword] /\ mock_reg' = mock_reg
      BY <1>2, <2>1 DEF WriteRam
    <3>2. b = 0 => d \in DOMAIN ram
      BY DEF Size, TypeInv, TypeOK
    <3> HIDE DEF d0
    <3> QED BY <3>1, <3>2 DEF Held
  <2>2. CASE WriteReg
    <3>1. pkt.bar = 1 /\ d0 = i /\ mock_reg' = [mock_reg EXCEPT ![i] = Dword] /\ ram' = ram
      BY <1>2, <2>2 DEF WriteReg
    <3>2. b = 1 => d \in DOMAIN mock_reg
      BY DEF Size, TypeInv, TypeOK
    <3> HIDE DEF d0
    <3> QED BY <3>1, <3>2 DEF Held, Bars
  <2> QED BY <2>1, <2>2
<1>6. Consistent'
  <2> SUFFICES ASSUME NEW b \in Bars, NEW d \in 0 .. Size(b) - 1, ~ToCome(b, d)'
               PROVE  Held(b, d)' = Seen(b, d)
    BY <1>1 DEF Consistent, Seen, Size
  <2>1. (b = pkt.bar /\ d = d0) \/ ~ToCome(b, d)
    <3>1. d \in Int
      OBVIOUS
    <3> QED BY <1>1, <1>2, <3>1 DEF ToCome
  <2>2. CASE b = pkt.bar /\ d = d0
    BY <1>4, <1>5, <2>2
  <2>3. CASE ~ToCome(b, d) /\ ~(b = pkt.bar /\ d = d0)
    BY <1>5, <2>3 DEF ReadInv, Consistent
  <2> QED BY <2>1, <2>2, <2>3
<1>7. Pending'
  <2> SUFFICES ASSUME NEW k \in i + 1 .. Dwords - 1
               PROVE  k # 0 /\ <<dbuf[2 * k], dbuf[2 * k + 1]>> = Seen(pkt.bar, Base + k)
    BY <1>1 DEF Pending, Seen
  <2>1. k # 0 /\ k \in i .. Dwords - 1
    BY <1>2
  <2> QED BY <1>1, <2>1 DEF ReadInv, Pending
<1> QED BY <1>1, <1>6, <1>7 DEF Loaded

\* A doorbell, served alone, leaves the BARs as they are.
LEMMA MsiReads ==
  ASSUME TypeInv, ReadInv, ~stalled, pkt \in Access, Served(pkt), WriteMsi
  PROVE  Consistent' /\ Pending' /\ Loaded'
<1>1. /\ pc = "write" /\ pc' = "idle" /\ More /\ IsIrq /\ pkt.bar = 0
      /\ UNCHANGED <<ram, mock_reg, view>>
  BY DEF WriteMsi
<1>2. i = 0 /\ pkt.off = 0 /\ MsiTest /\ pkt.count = 2
  BY <1>1 DEF IsIrq, Served
<1>3. Dwords = 1 /\ Base = 0
  BY <1>2, Halves DEF Dwords, Base
<1>4. Doorbell(pkt, dbuf)
  BY <1>1, <1>2 DEF Doorbell, IsIrq, Dword
<1>5. Held(0, 0) = Seen(0, 0)
  BY <1>1, <1>2, <1>3, <1>4 DEF ReadInv, Pending
<1>6. \A b \in Bars : \A d \in 0 .. Size(b) - 1 : Held(b, d) = Seen(b, d)
  <2> SUFFICES ASSUME NEW b \in Bars, NEW d \in 0 .. Size(b) - 1
               PROVE  Held(b, d) = Seen(b, d)
    OBVIOUS
  <2>1. ToCome(b, d) => b = 0 /\ d = 0
    BY <1>1, <1>2, <1>3 DEF ToCome
  <2> QED BY <1>5, <2>1 DEF ReadInv, Consistent
<1> QED BY <1>1, <1>6 DEF Consistent, Pending, Loaded, Held, Seen, Size

\* One dword goes from its place into the buffer.
LEMMA LoadReads ==
  ASSUME TypeInv, ReadInv, ~stalled, pkt \in Access, Served(pkt), ReadRam \/ ReadReg
  PROVE  Consistent' /\ Pending' /\ Loaded'
<1>1. /\ pc = "read" /\ pc' = "read" /\ More /\ i' = i + 1
      /\ UNCHANGED <<pkt, ram, mock_reg, view>>
  BY DEF ReadRam, ReadReg, Load
<1>2. /\ Base \in Nat /\ i \in Nat /\ Base + i \in 0 .. Size(pkt.bar) - 1
      /\ pkt.off = 2 * Base
      /\ pkt.bar = 0 => RamAddr = Base + i
      /\ pkt.bar = 1 => Base = 0
      /\ 2 * i \in 0 .. 2 * BufSize - 1 /\ 2 * i + 1 \in 0 .. 2 * BufSize - 1
  BY <1>1, DwordPlace, DwordIndex DEF TypeInv
<1>3. pkt.bar \in Bars /\ pkt.bar \in {0, 1}
  BY AccessType DEF Bars
<1>4. \A b \in Bars : \A d \in 0 .. Size(b) - 1 : Held(b, d) = Seen(b, d)
  BY <1>1, AtRest DEF ReadInv
<1>5. Load(Held(pkt.bar, Base + i))
  BY <1>2, <1>3 DEF ReadRam, ReadReg, Held
<1>6. Load(<<view[pkt.bar][2 * (Base + i)], view[pkt.bar][2 * (Base + i) + 1]>>)
  BY <1>2, <1>3, <1>4, <1>5 DEF Seen
<1>7. dbuf' = [dbuf EXCEPT ![2 * i] = view[pkt.bar][2 * (Base + i)],
                           ![2 * i + 1] = view[pkt.bar][2 * (Base + i) + 1]]
  BY <1>6 DEF Load
<1>8. Loaded'
  <2> SUFFICES ASSUME NEW k \in 0 .. 2 * (i + 1) - 1
               PROVE  dbuf'[k] = view[pkt.bar][pkt.off + k]
    BY <1>1 DEF Loaded
  <2>1. CASE k = 2 * i
    <3>1. pkt.off + k = 2 * (Base + i)
      BY <1>2, <2>1
    <3> QED BY <1>2, <1>7, <2>1, <3>1 DEF TypeInv, TypeOK
  <2>2. CASE k = 2 * i + 1
    <3>1. pkt.off + k = 2 * (Base + i) + 1
      BY <1>2, <2>2
    <3> QED BY <1>2, <1>7, <2>2, <3>1 DEF TypeInv, TypeOK
  <2>3. CASE k \in 0 .. 2 * i - 1
    <3>1. dbuf'[k] = dbuf[k]
      <4>1. k # 2 * i /\ k # 2 * i + 1 /\ k \in 0 .. 2 * BufSize - 1
        <5>1. BufSize \in Nat /\ i \in Nat /\ i < BufSize /\ k \in Nat /\ k < 2 * i
          BY <1>1, <1>2, <2>3, AccessType, DwordIndex DEF TypeInv
        <5> QED BY <5>1
      <4> QED BY <1>7, <4>1 DEF TypeInv, TypeOK
    <3> QED BY <1>1, <2>3, <3>1 DEF ReadInv, Loaded
  <2> QED BY <1>2, <2>1, <2>2, <2>3
<1> QED BY <1>1, <1>4, <1>8 DEF Consistent, Pending, Held, Seen, Size

ReadsInv == TypeInv /\ ServedInv /\ ReadInv

LEMMA ReadsStep ==
  ASSUME \A a \in Accesses : Served(a), ReadsInv, [Next]_vars
  PROVE  ReadsInv'
<1> USE DEF ReadsInv
<1>1. TypeInv'
  BY TypeStep
<1>2. ServedInv'
  <2>1. CASE Receive
    BY <2>1 DEF Receive, ReceiveRead, ReceiveWrite, ServedInv
  <2>2. CASE Execute
    BY <2>2 DEF Execute, WriteRam, WriteStalls, WriteMsi, WriteReg, WriteDone, ReadRam,
                ReadStalls, ReadReg, Reply, Load, ServedInv
  <2>3. CASE UNCHANGED vars
    BY <2>3 DEF vars, ServedInv
  <2> QED BY <2>1, <2>2, <2>3 DEF Next
<1>3. ReadInv'
  <2> SUFFICES ASSUME ~stalled' PROVE Consistent' /\ Pending' /\ Loaded'
    BY DEF ReadInv
  <2>1. CASE Receive
    <3>1. ~stalled
      BY <2>1 DEF Receive
    <3> QED BY <2>1, <3>1, ReceiveWriteReads, ReceiveReadReads DEF Receive
  <2>2. pkt \in Access /\ (pc # "idle" => Served(pkt))
    BY EndpointAssumption DEF TypeInv, TypeOK, ServedInv
  <2>3. CASE WriteRam \/ WriteReg
    <3>1. pc # "idle" /\ ~stalled
      BY <2>3 DEF WriteRam, WriteReg
    <3> QED BY <2>2, <2>3, <3>1, WriteReads
  <2>4. CASE WriteMsi
    <3>1. pc # "idle" /\ ~stalled
      BY <2>4 DEF WriteMsi
    <3> QED BY <2>2, <2>4, <3>1, MsiReads
  <2>5. CASE ReadRam \/ ReadReg
    <3>1. pc # "idle" /\ ~stalled
      BY <2>5 DEF ReadRam, ReadReg, Load
    <3> QED BY <2>2, <2>5, <3>1, LoadReads
  <2>6. CASE WriteStalls \/ ReadStalls
    BY <2>6 DEF WriteStalls, ReadStalls
  <2>7. CASE WriteDone
    <3>1. /\ pc = "write" /\ pc' = "idle" /\ ~More /\ ~stalled
          /\ UNCHANGED <<pkt, i, ram, mock_reg, view>>
      BY <2>7 DEF WriteDone
    <3>2. \A b \in Bars : \A d \in 0 .. Size(b) - 1 : ~ToCome(b, d)
      <4>1. i \in Nat /\ Dwords \in Nat /\ ~(i < Dwords)
        BY <3>1, DwordIndex DEF TypeInv, More
      <4> QED BY <4>1 DEF ToCome
    <3> QED BY <3>1, <3>2 DEF ReadInv, Consistent, Pending, Loaded, Held, Seen, Size
  <2>8. CASE Reply
    <3>1. /\ pc = "read" /\ pc' = "idle" /\ ~stalled
          /\ UNCHANGED <<pkt, i, ram, mock_reg, view>>
      BY <2>8 DEF Reply, Answering
    <3> QED BY <3>1, AtRest DEF ReadInv, Consistent, Pending, Loaded, Held, Seen, Size
  <2>9. CASE UNCHANGED vars
    <3>1. UNCHANGED <<pc, pkt, i, dbuf, ram, mock_reg, stalled, view>>
      BY <2>9 DEF vars
    <3> QED BY <3>1 DEF ReadInv, Consistent, ToCome, Pending, Loaded, Held, Seen, Size,
                        Base, Dwords
  <2> QED BY <2>1, <2>3, <2>4, <2>5, <2>6, <2>7, <2>8, <2>9 DEF Next, Execute
<1> QED BY <1>1, <1>2, <1>3

\* A guest that only makes Served accesses reads back what it wrote, whatever
\* packets have gone through the shared buffer, unless a TLP has timed out.
THEOREM ServedAccessesReadBack ==
  ASSUME \A a \in Accesses : Served(a)
  PROVE  Spec => []ReadsBack
<1>1. Init => ReadsInv
  BY TypeInit, ReadInit DEF ReadsInv
<1>2. ReadsInv /\ [Next]_vars => ReadsInv'
  BY ReadsStep
<1>3. ReadsInv => ReadsBack
  <2> SUFFICES ASSUME ReadsInv, Answering, ~stalled
               PROVE  Answer = [k \in 0 .. pkt.count - 1 |-> view[pkt.bar][pkt.off + k]]
    BY DEF ReadsBack
  <2>1. pc = "read" /\ Loaded /\ pkt \in Access /\ Served(pkt)
    BY EndpointAssumption DEF Answering, ReadsInv, ReadInv, ServedInv, TypeInv, TypeOK
  <2>2. pkt.count = 2 * Dwords
    BY <2>1, ServedInDwords DEF Dwords
  <2>3. i = Dwords
    BY DwordIndex DEF Answering, More, ReadsInv, TypeInv, TypeOK
  <2>4. \A k \in 0 .. pkt.count - 1 : dbuf[k] = view[pkt.bar][pkt.off + k]
    BY <2>1, <2>2, <2>3 DEF Loaded
  <2> QED BY <2>4 DEF Answer
<1> QED BY <1>1, <1>2, <1>3, PTL DEF Spec
-----------------------------------------------------------------------------
(* One interrupt for a doorbell, none for anything else.                   *)

\* A write that has got past its first dword is not a doorbell.
DoorbellInv ==
  /\ pc = "read" => type = "MEM_RD"
  /\ pc = "write" => type = "MEM_WR" /\ (i > 0 => ~Doorbell(pkt, dbuf))
  /\ IrqIffDoorbell

LEMMA DoorbellInit == Init => DoorbellInv
BY DEF Init, DoorbellInv, IrqIffDoorbell

LEMMA DoorbellStep == TypeInv /\ DoorbellInv /\ [Next]_vars => DoorbellInv'
<1> SUFFICES ASSUME TypeInv, DoorbellInv, [Next]_vars PROVE DoorbellInv'
  OBVIOUS
<1>1. /\ i \in Nat /\ Dwords \in Nat /\ 2 * Dwords <= pkt.count
      /\ pkt.count \in Nat /\ pkt.count < 2 * Dwords + 2
  <2>1. pkt \in Access
    BY DEF TypeInv, TypeOK
  <2>2. pkt.count \in Nat
    BY <2>1, AccessType
  <2> QED BY <2>2, DwordIndex, Halves DEF TypeInv, Dwords
<1>2. ASSUME Receive PROVE DoorbellInv'
  <2>1. \/ pc' = "read" /\ type' = "MEM_RD"
        \/ pc' = "write" /\ type' = "MEM_WR" /\ i' = 0
    BY <1>2 DEF Receive, ReceiveRead, ReceiveWrite
  <2>2. ~(0 > 0)
    OBVIOUS
  <2> QED BY <2>1, <2>2 DEF DoorbellInv, IrqIffDoorbell
<1>3. ASSUME WriteRam \/ WriteStalls PROVE DoorbellInv'
  <2>1. /\ pc = "write" /\ ~IsIrq /\ i' = i + 1
        /\ UNCHANGED <<pc, type, pkt, dbuf>>
    BY <1>3 DEF WriteRam, WriteStalls
  <2>2. ~Doorbell(pkt, dbuf)
    <3>1. CASE i = 0
      BY <2>1, <3>1 DEF IsIrq, Doorbell, Dword
    <3>2. CASE i # 0
      BY <1>1, <2>1, <3>2 DEF DoorbellInv
    <3> QED BY <3>1, <3>2
  <2> QED BY <2>1, <2>2 DEF DoorbellInv, IrqIffDoorbell, Doorbell
<1>4. ASSUME WriteMsi PROVE DoorbellInv'
  <2>1. /\ pc' = "idle" /\ msi' = msi + 1 /\ msi = 0 /\ More /\ IsIrq /\ pkt.bar = 0
        /\ UNCHANGED <<type, pkt, dbuf>>
    BY <1>4 DEF WriteMsi, TypeInv
  <2>2. pkt.count >= 2
    BY <1>1, <2>1 DEF More
  <2>3. Doorbell(pkt, dbuf)
    BY <2>1, <2>2 DEF IsIrq, Doorbell, Dword
  <2>4. Doorbell(pkt, dbuf)'
    BY <2>1, <2>3 DEF Doorbell
  <2> QED BY <2>1, <2>4 DEF DoorbellInv, IrqIffDoorbell
<1>5. ASSUME WriteReg PROVE DoorbellInv'
  <2>1. pc = "write" /\ pc' = "write" /\ pkt' = pkt /\ type' = type /\ pkt.bar = 1
    BY <1>5 DEF WriteReg
  <2>2. ~Doorbell(pkt, dbuf)'
    BY <2>1 DEF Doorbell
  <2> QED BY <2>1, <2>2 DEF DoorbellInv, IrqIffDoorbell
<1>6. ASSUME WriteDone PROVE DoorbellInv'
  <2>1. /\ pc = "write" /\ pc' = "idle" /\ ~More /\ msi = 0
        /\ UNCHANGED <<type, pkt, dbuf, msi>>
    BY <1>6 DEF WriteDone, TypeInv
  <2>2. ~Doorbell(pkt, dbuf)
    <3>1. CASE i = 0
      <4>1. ~(pkt.count >= 2)
        BY <1>1, <2>1, <3>1 DEF More
      <4> QED BY <4>1 DEF Doorbell
    <3>2. CASE i # 0
      BY <1>1, <2>1, <3>2 DEF DoorbellInv
    <3> QED BY <3>1, <3>2
  <2>3. ~Doorbell(pkt, dbuf)'
    BY <2>1, <2>2 DEF Doorbell
  <2> QED BY <2>1, <2>3 DEF DoorbellInv, IrqIffDoorbell
<1>7. ASSUME ReadRam \/ ReadReg \/ ReadStalls PROVE DoorbellInv'
  BY <1>7 DEF ReadRam, ReadReg, ReadStalls, Load, DoorbellInv, IrqIffDoorbell
<1>8. ASSUME Reply PROVE DoorbellInv'
  <2>1. type' = "MEM_RD" /\ pc' = "idle"
    BY <1>8 DEF Reply, Answering, DoorbellInv
  <2> QED BY <2>1 DEF DoorbellInv, IrqIffDoorbell
<1>9. CASE UNCHANGED vars
  BY <1>9 DEF vars, DoorbellInv, IrqIffDoorbell, Doorbell
<1> QED BY <1>2, <1>3, <1>4, <1>5, <1>6, <1>7, <1>8, <1>9 DEF Next, Execute

\* A write raises exactly one interrupt if it is a doorbell and none if it is
\* not, whatever its length, its offset and the TLPs that time out.
THEOREM InterruptsAreDoorbells == Spec => []IrqIffDoorbell
<1>1. DoorbellInv => IrqIffDoorbell
  BY DEF DoorbellInv
<1> QED BY <1>1, TypeInit, TypeStep, DoorbellInit, DoorbellStep, PTL DEF Spec
=============================================================================
