---------------------------- MODULE DataMapProofs ----------------------------
(***************************************************************************)
(* Theorems about the server's helpers: for memories, masks, addresses and *)
(* numbers of any size the coils and registers that a request names are    *)
(* the ones that are read, written and checked.                            *)
(***************************************************************************)
EXTENDS DataMap, TLAPS

-----------------------------------------------------------------------------
(* Coils as octets and bits *)

LEMMA OctetAndBit ==
  /\ \A k \in Nat : k = 8 * (k \div 8) + (k % 8) /\ k \div 8 \in Nat /\ k % 8 \in Bits
  /\ \A i \in Int, b \in Bits : (8 * i + b) \div 8 = i /\ (8 * i + b) % 8 = b
  BY DEF Bits

LEMMA SixteenBits ==
  /\ \A v \in Nat : v % 65536 \in uint16_t
  /\ \A v \in uint16_t : v \in Nat /\ v % 65536 = v
  <1>1. ASSUME NEW v \in Nat PROVE v % 65536 \in uint16_t
    <2>1. v % 65536 \in Int /\ 0 <= v % 65536 /\ v % 65536 <= 65535
      OBVIOUS
    <2> QED
      BY <2>1 DEF uint16_t
  <1>2. ASSUME NEW v \in uint16_t PROVE v \in Nat /\ v % 65536 = v
    <2>1. v \in Int /\ 0 <= v /\ v <= 65535
      BY DEF uint16_t
    <2> QED
      BY <2>1
  <1> QED
    BY <1>1, <1>2

LEMMA ShiftedUp ==
  ASSUME NEW x \in SUBSET Bits, NEW k \in Int
  PROVE  \A b \in Bits : b \in Shl(x, k) <=> b - k \in x
  <1> SUFFICES ASSUME NEW b \in Bits PROVE b \in Shl(x, k) <=> b - k \in x
    OBVIOUS
  <1>1. ASSUME NEW c \in x, b = c + k PROVE b - k \in x
    <2>1. c \in Int /\ b - k = c
      BY <1>1 DEF Bits
    <2> QED
      BY <2>1
  <1>2. ASSUME b - k \in x PROVE \E c \in x : b = c + k
    <2>1. b = (b - k) + k
      BY DEF Bits
    <2> QED
      BY <1>2, <2>1
  <1> QED
    BY <1>1, <1>2 DEF Shl

LEMMA ShiftedDown ==
  ASSUME NEW x \in SUBSET Bits, NEW k \in Int
  PROVE  \A b \in Bits : b \in Shr(x, k) <=> b + k \in x
  <1> SUFFICES ASSUME NEW b \in Bits PROVE b \in Shr(x, k) <=> b + k \in x
    OBVIOUS
  <1>1. ASSUME NEW c \in x, b = c - k PROVE b + k \in x
    <2>1. c \in Int /\ b + k = c
      BY <1>1 DEF Bits
    <2> QED
      BY <2>1
  <1>2. ASSUME b + k \in x PROVE \E c \in x : b = c - k
    <2>1. b = (b + k) - k
      BY DEF Bits
    <2> QED
      BY <1>2, <2>1
  <1> QED
    BY <1>1, <1>2 DEF Shr

LEMMA ShiftsStay == \A x, k : Shl(x, k) \subseteq Bits /\ Shr(x, k) \subseteq Bits
  BY DEF Shl, Shr

-----------------------------------------------------------------------------
(* The bit map of a request *)

(* Regular, of any range. *)
RegularRange(start, num) == numBytes(start, num) = 1 \/ (num % 8) + (start % 8) < 8

(* A range by octets: q the octet and s the bit where it starts, n the     *)
(* octets it goes on for, r the bits it takes of the last.                 *)
ByOctets(start, num, q, s, n, r) ==
  /\ q = start \div 8 /\ s = start % 8 /\ start = 8 * q + s
  /\ n = (num + s) \div 8 /\ num + s = 8 * n + r
  /\ numBytes(start, num) = n + 1
  /\ (num % 8) + s < 8 => r = (num % 8) + s
  /\ (num % 8) + s = 8 => r = 0

LEMMA RangeByOctets ==
  ASSUME NEW start \in Nat, NEW num \in Nat
  PROVE  \E q \in Nat, s \in Bits, n \in Nat, r \in Bits : ByOctets(start, num, q, s, n, r)
  <1>1. PICK q \in Nat, s \in Bits : q = start \div 8 /\ s = start % 8 /\ start = 8 * q + s
    BY OctetAndBit
  <1>2. num + s \in Nat
    BY DEF Bits
  <1>3. PICK n \in Nat, r \in Bits : n = (num + s) \div 8 /\ r = (num + s) % 8 /\ num + s = 8 * n + r
    BY <1>2, OctetAndBit
  <1>4. numBytes(start, num) = n + 1
    BY <1>1, <1>3 DEF numBytes
  <1>5. /\ (num % 8) + s < 8 => r = (num % 8) + s
        /\ (num % 8) + s = 8 => r = 0
    BY <1>3 DEF Bits
  <1>6. ByOctets(start, num, q, s, n, r)
    BY <1>1, <1>3, <1>4, <1>5, Zenon DEF ByOctets
  <1> QED
    BY <1>6

(* What create_request_bit_map fills in when bitMasks is read within its   *)
(* bounds: h bits of the last octet, shifted if it is also the first.      *)
Marks(bitmap, n, s, h) ==
  /\ DOMAIN bitmap = 0 .. n
  /\ \A i \in 0 .. n :
        /\ bitmap[i] \subseteq Bits
        /\ \A b \in Bits : b \in bitmap[i] <=>
              /\ i = 0 => b >= s
              /\ i = n => (IF i = 0 THEN b - s < h ELSE b < h)

LEMMA BitMapOctets ==
  ASSUME NEW start \in Nat, NEW num \in Nat \ {0}, NEW n \in Nat, NEW s \in Bits, NEW h \in Nat,
         s = start % 8, numBytes(start, num) = n + 1,
         h = numHighBits(start, num), h <= 8,
         NEW bitmap \in create_request_bit_map(start, num)
  PROVE  Marks(bitmap, n, s, h)
  <1>1. bitMasks(h) = {0 .. h - 1}
    BY DEF bitMasks
  <1>2. bitmap = bit_map(start, num, 0 .. h - 1)
    BY <1>1 DEF create_request_bit_map
  <1>3. numBytes(start, num) - 1 = n
    OBVIOUS
  <1>4. PICK f : f = [i \in 0 .. n |-> IF i = n THEN 0 .. h - 1 ELSE Bits]
    OBVIOUS
  <1>5. bitmap = [f EXCEPT ![0] = Shl(f[0], s)]
    BY <1>2, <1>3, <1>4 DEF bit_map
  <1>6. 0 .. h - 1 \subseteq Bits
    BY DEF Bits
  <1>7. \A i \in 0 .. n : f[i] \subseteq Bits
    BY <1>4, <1>6
  <1>8. DOMAIN bitmap = 0 .. n /\ bitmap[0] = Shl(f[0], s) /\ \A i \in 1 .. n : bitmap[i] = f[i]
    BY <1>4, <1>5
  <1>9. \A i \in 0 .. n : bitmap[i] \subseteq Bits
    <2> TAKE i \in 0 .. n
    <2>1. CASE i = 0
      BY <1>8, <2>1, ShiftsStay
    <2>2. CASE i # 0
      BY <1>7, <1>8, <2>2
    <2> QED
      BY <2>1, <2>2
  <1>10. ASSUME NEW i \in 0 .. n, NEW b \in Bits
         PROVE  b \in bitmap[i] <=>
                   /\ i = 0 => b >= s
                   /\ i = n => (IF i = 0 THEN b - s < h ELSE b < h)
    <2>1. CASE i = 0
      <3>1. f[0] \in SUBSET Bits /\ s \in Int
        BY <1>7 DEF Bits
      <3>2. b \in bitmap[0] <=> b - s \in f[0]
        BY <1>8, <3>1, ShiftedUp
      <3>3. CASE n = 0
        <4>1. f[0] = 0 .. h - 1
          BY <1>4, <3>3
        <4> QED
          BY <2>1, <3>2, <3>3, <4>1 DEF Bits
      <3>4. CASE n # 0
        <4>1. f[0] = Bits
          BY <1>4, <3>4
        <4> QED
          BY <2>1, <3>2, <3>4, <4>1 DEF Bits
      <3> QED
        BY <3>3, <3>4
    <2>2. CASE i # 0 /\ i = n
      <3>1. i \in 1 .. n /\ f[i] = 0 .. h - 1
        BY <1>4, <2>2
      <3>2. bitmap[i] = 0 .. h - 1
        BY <1>8, <3>1
      <3> QED
        BY <2>2, <3>2 DEF Bits
    <2>3. CASE i # 0 /\ i # n
      <3>1. i \in 1 .. n /\ f[i] = Bits
        BY <1>4, <2>3
      <3>2. bitmap[i] = Bits
        BY <1>8, <3>1
      <3> QED
        BY <2>3, <3>2
    <2> QED
      BY <2>1, <2>2, <2>3
  <1> QED
    BY <1>8, <1>9, <1>10, Zenon DEF Marks

(* The coils of a range, as octets from octet q on. *)
Exact(bitmap, start, num, q, n) ==
  /\ DOMAIN bitmap = 0 .. n
  /\ \A i \in 0 .. n :
        /\ bitmap[i] \subseteq Bits
        /\ \A b \in Bits : b \in bitmap[i] <=> 8 * (q + i) + b \in start .. start + num - 1

(* The bit map of a regular range marks the coils of the range. *)
LEMMA BitMapExact ==
  ASSUME NEW start \in Nat, NEW num \in Nat \ {0}, RegularRange(start, num),
         NEW q \in Nat, NEW s \in Bits, NEW n \in Nat, NEW r \in Bits,
         ByOctets(start, num, q, s, n, r),
         NEW bitmap \in create_request_bit_map(start, num)
  PROVE  Exact(bitmap, start, num, q, n)
  <1>1. /\ q = start \div 8 /\ s = start % 8 /\ start = 8 * q + s
        /\ num + s = 8 * n + r /\ numBytes(start, num) = n + 1
        /\ (num % 8) + s < 8 => r = (num % 8) + s
    BY Zenon DEF ByOctets
  <1>2. PICK h \in Nat : /\ h = numHighBits(start, num) /\ h <= 8
                         /\ n = 0 => h = num
                         /\ n # 0 => h = r
    <2>1. CASE n = 0
      <3>1. num + s = r /\ num \in Nat /\ num <= 8
        BY <1>1, <2>1 DEF Bits
      <3>2. numHighBits(start, num) = num
        BY <1>1, <2>1 DEF numHighBits
      <3> QED
        BY <2>1, <3>1, <3>2
    <2>2. CASE n # 0
      <3>1. n + 1 # 1
        BY <2>2
      <3>2. (num % 8) + s < 8
        BY <1>1, <3>1 DEF RegularRange
      <3>3. numHighBits(start, num) = r
        BY <1>1, <3>1, <3>2 DEF numHighBits
      <3>4. r \in Nat /\ r <= 8
        BY DEF Bits
      <3> QED
        BY <2>2, <3>3, <3>4
    <2> QED
      BY <2>1, <2>2
  <1>3. /\ DOMAIN bitmap = 0 .. n
        /\ \A i \in 0 .. n :
              /\ bitmap[i] \subseteq Bits
              /\ \A b \in Bits : b \in bitmap[i] <=>
                    /\ i = 0 => b >= s
                    /\ i = n => (IF i = 0 THEN b - s < h ELSE b < h)
    <2>1. Marks(bitmap, n, s, h)
      BY <1>1, <1>2, BitMapOctets
    <2> QED
      BY <2>1, Zenon DEF Marks
  <1>4. ASSUME NEW i \in 0 .. n, NEW b \in Bits
        PROVE  b \in bitmap[i] <=> 8 * (q + i) + b \in start .. start + num - 1
    <2>1. b \in bitmap[i] <=> /\ i = 0 => b >= s
                              /\ i = n => (IF i = 0 THEN b - s < h ELSE b < h)
      BY <1>3
    <2>2. 8 * (q + i) + b \in start .. start + num - 1 <=> 8 * i + b >= s /\ 8 * i + b < num + s
      BY <1>1 DEF Bits
    <2>3. 8 * i + b >= s <=> (i = 0 => b >= s)
      BY DEF Bits
    <2>4. 8 * i + b < num + s <=> (i = n => (IF i = 0 THEN b - s < h ELSE b < h))
      BY <1>1, <1>2 DEF Bits
    <2> QED
      BY <2>1, <2>2, <2>3, <2>4
  <1> QED
    BY <1>3, <1>4, Zenon DEF Exact

(* And as long as bitMasks is read within its bounds, no coil of a range   *)
(* is missing from its bit map.                                            *)
LEMMA BitMapCovers ==
  ASSUME NEW start \in Nat, NEW num \in Nat \ {0}, (num % 8) + (start % 8) <= 8,
         NEW bitmap \in create_request_bit_map(start, num),
         NEW k \in start .. start + num - 1
  PROVE  k \div 8 - start \div 8 \in DOMAIN bitmap /\ k % 8 \in bitmap[k \div 8 - start \div 8]
  <1>1. PICK q \in Nat, s \in Bits, n \in Nat, r \in Bits :
           /\ q = start \div 8 /\ s = start % 8 /\ start = 8 * q + s
           /\ num + s = 8 * n + r /\ numBytes(start, num) = n + 1
           /\ (num % 8) + s < 8 => r = (num % 8) + s
           /\ (num % 8) + s = 8 => r = 0
    <2>1. PICK q \in Nat, s \in Bits, n \in Nat, r \in Bits : ByOctets(start, num, q, s, n, r)
      BY RangeByOctets
    <2> QED
      BY <2>1, Zenon DEF ByOctets
  <1>2. PICK h \in Nat : /\ h = numHighBits(start, num) /\ h <= 8
                         /\ n = 0 => h = num
                         /\ n # 0 => h >= r
    <2>1. CASE n = 0
      <3>1. num + s = r /\ num \in Nat /\ num <= 8
        BY <1>1, <2>1 DEF Bits
      <3>2. numHighBits(start, num) = num
        BY <1>1, <2>1 DEF numHighBits
      <3> QED
        BY <2>1, <3>1, <3>2
    <2>2. CASE n # 0
      <3>1. PICK h \in Nat : h = (num % 8) + s
        BY DEF Bits
      <3>2. numHighBits(start, num) = h
        BY <1>1, <2>2, <3>1 DEF numHighBits
      <3>3. h <= 8 /\ h >= r
        BY <1>1, <3>1 DEF Bits
      <3> QED
        BY <2>2, <3>2, <3>3
    <2> QED
      BY <2>1, <2>2
  <1>3. /\ DOMAIN bitmap = 0 .. n
        /\ \A i \in 0 .. n : \A b \in Bits : b \in bitmap[i] <=>
              /\ i = 0 => b >= s
              /\ i = n => (IF i = 0 THEN b - s < h ELSE b < h)
    <2>1. Marks(bitmap, n, s, h)
      BY <1>1, <1>2, BitMapOctets
    <2> QED
      BY <2>1, Zenon DEF Marks
  <1>4. k \in Nat
    OBVIOUS
  <1>5. PICK j \in Nat, b \in Bits : j = k \div 8 /\ b = k % 8 /\ k = 8 * j + b
    BY <1>4, OctetAndBit
  <1>6. PICK i \in 0 .. n : i = j - q
    <2>1. j - q \in 0 .. n
      BY <1>1, <1>5 DEF Bits
    <2> QED
      BY <2>1
  <1>7. 8 * i + b >= s /\ 8 * i + b < num + s
    BY <1>1, <1>5, <1>6 DEF Bits
  <1>8. i = 0 => b >= s
    BY <1>7 DEF Bits
  <1>9. i = n => (IF i = 0 THEN b - s < h ELSE b < h)
    BY <1>1, <1>2, <1>7 DEF Bits
  <1> QED
    BY <1>1, <1>3, <1>5, <1>6, <1>8, <1>9

-----------------------------------------------------------------------------
(* The handler *)

Cells == [0 .. NumBytes - 1 -> SUBSET Bits]

(* What was done, in terms of the memories when the request came and of    *)
(* the bit map of the request.                                             *)
Done(bitmap) ==
  /\ phase \notin {"coil", "written", "undefined"} => data = before.data
  /\ phase # "registersWritten" => registers = before.registers
  /\ phase = "read" => out = copy_data_bits(before.data, bitmap, Start, Num)
  /\ phase = "written" =>
        /\ statuses \in [DOMAIN statuses -> SUBSET Bits]
        /\ DOMAIN bitmap \subseteq DOMAIN statuses
        /\ data = write_coils(before.data, bitmap, statuses, Start)
  /\ phase = "coil" =>
        \E status \in BOOLEAN :
           /\ Num = 1
           /\ data = write_coil(before.data, status, Start)
           /\ statuses = [i \in {0} |-> IF status THEN {0} ELSE {}]
  /\ phase = "registersRead" => out = copy_data_registers(before.registers, Start, Num)
  /\ phase = "registersWritten" =>
        /\ statuses \in [0 .. Num - 1 -> uint16_t]
        /\ registers = write_registers(statuses, before.registers, Start, Num)

(* The inductive invariant: a request is refused or served according to    *)
(* the check of its bit map.                                               *)
HandlerInv ==
  /\ access \in Cells /\ before.data \in Cells
  /\ before.registers \in [0 .. 16 * NumBytes - 1 -> 0 .. 255]
  /\ phase \in {"ready", "refused", "read", "written", "undefined", "coil", "registersRead",
                "registersWritten"}
  /\ phase = "ready" => data = before.data /\ registers = before.registers
  /\ phase # "ready" =>
        /\ Start \in Nat /\ Num \in Nat
        /\ \E bitmap \in create_request_bit_map(Start, Num) :
              /\ legal_address(access, bitmap, Start) <=> phase # "refused"
              /\ Done(bitmap)

LEMMA Constants ==
  /\ NumBytes \in Nat
  /\ \A m \in Memories : m \in Cells
  /\ \A m \in Accesses : m \in Cells
  /\ \A x \in Patterns : x \subseteq Bits
  /\ \A x \in Garbage : x \subseteq Bits
  /\ \A k \in Starts : k \in Nat
  /\ \A k \in Counts : k \in Nat
  /\ \A w \in Registers : w \in uint16_t
  BY DataMapAssumption, Zenon DEF Cells

LEMMA HandlerInvInit == Init => HandlerInv
  <1> SUFFICES ASSUME Init PROVE HandlerInv
    OBVIOUS
  <1>1. access \in Cells /\ before.data \in Cells
    <2>1. access \in Accesses /\ data \in Memories /\ before.data = data
      BY DEF Init
    <2> QED
      BY <2>1, Constants
  <1>2. InitialRegisters \in [0 .. 16 * NumBytes - 1 -> 0 .. 255]
    <2>1. \A i \in 0 .. 16 * NumBytes - 1 : (100 + 5 * i) % 256 \in 0 .. 255
      BY Constants
    <2> QED
      BY <2>1 DEF InitialRegisters
  <1> QED
    BY <1>1, <1>2 DEF Init, HandlerInv

(* A request that is taken, whatever is done with it. *)
LEMMA Taken ==
  ASSUME HandlerInv, NEW start \in Nat, NEW num \in Nat, NEW kind, Take(start, num, kind),
         kind \in {"refused", "read", "written", "undefined", "coil", "registersRead",
                   "registersWritten"},
         NEW bitmap \in create_request_bit_map(start, num),
         legal_address(access, bitmap, start) <=> kind # "refused",
         Done(bitmap)'
  PROVE  HandlerInv'
  <1>1. /\ phase' = kind /\ Start' = start /\ Num' = num
        /\ access' = access /\ before' = before
    BY DEF Take, Start, Num
  <1>2. /\ access' \in Cells /\ before'.data \in Cells
        /\ before'.registers \in [0 .. 16 * NumBytes - 1 -> 0 .. 255]
    BY <1>1 DEF HandlerInv
  <1>3. \E bm \in create_request_bit_map(Start', Num') :
           /\ legal_address(access', bm, Start') <=> phase' # "refused"
           /\ Done(bm)'
    BY <1>1
  <1>4. phase' # "ready" /\ phase' \in {"ready", "refused", "read", "written", "undefined",
                                        "coil", "registersRead", "registersWritten"}
    BY <1>1
  <1>5. (\E bm \in create_request_bit_map(Start, Num) :
           /\ legal_address(access, bm, Start) <=> phase # "refused"
           /\ Done(bm))'
    BY <1>3
  <1> QED
    BY <1>1, <1>2, <1>4, <1>5 DEF HandlerInv

(* Requests write octets, whatever they are. *)
LEMMA WriteCoilsStep ==
  ASSUME HandlerInv, NEW start \in Nat, NEW num \in Nat, NEW values,
         values \in [DOMAIN values -> SUBSET Bits], WriteCoils(start, num, values)
  PROVE  HandlerInv'
  <1>1. /\ phase = "ready" /\ Start' = start /\ Num' = num /\ registers' = registers
        /\ before' = before /\ statuses' = values
    BY DEF WriteCoils, Take, Start, Num
  <1>2. data = before.data /\ registers = before.registers
    BY <1>1 DEF HandlerInv
  <1>3. ASSUME Take(start, num, "written"),
               NEW bitmap \in create_request_bit_map(start, num),
               legal_address(access, bitmap, start),
               DOMAIN bitmap \subseteq DOMAIN values,
               data' = write_coils(data, bitmap, values, start)
        PROVE  HandlerInv'
    <2>1. phase' = "written"
      BY <1>3 DEF Take
    <2>2. Done(bitmap)'
      BY <1>1, <1>2, <1>3, <2>1 DEF Done
    <2> QED
      BY <1>3, <2>2, Taken
  <1>4. ASSUME Take(start, num, "undefined"),
               NEW bitmap \in create_request_bit_map(start, num),
               legal_address(access, bitmap, start)
        PROVE  HandlerInv'
    <2>1. phase' = "undefined"
      BY <1>4 DEF Take
    <2>2. Done(bitmap)'
      BY <1>1, <1>2, <2>1 DEF Done
    <2> QED
      BY <1>4, <2>2, Taken
  <1> QED
    BY <1>3, <1>4 DEF WriteCoils

LEMMA HandlerInvStep == HandlerInv /\ [Next]_vars => HandlerInv'
  <1> SUFFICES ASSUME HandlerInv, [Next]_vars PROVE HandlerInv'
    OBVIOUS
  <1>0. \A n \in Starts \cup Counts : n \in Nat
    BY Constants
  <1>1. ASSUME NEW start \in Starts, NEW num \in Counts, Refuse(start, num) PROVE HandlerInv'
    <2>1. PICK bitmap \in create_request_bit_map(start, num) :
             ~legal_address(access, bitmap, start)
      BY <1>1 DEF Refuse
    <2>2. /\ phase = "ready" /\ phase' = "refused" /\ Start' = start /\ Num' = num
          /\ before' = before /\ registers' = registers /\ data' = data
          /\ Take(start, num, "refused")
      BY <1>1 DEF Refuse, Take, Start, Num
    <2>3. data = before.data /\ registers = before.registers
      BY <2>2 DEF HandlerInv
    <2>4. Done(bitmap)'
      BY <2>2, <2>3 DEF Done
    <2> QED
      BY <1>0, <2>1, <2>2, <2>4, Taken
  <1>2. ASSUME NEW start \in Starts, NEW num \in Counts, ReadCoils(start, num)
        PROVE  HandlerInv'
    <2>1. PICK bitmap \in create_request_bit_map(start, num) :
             /\ legal_address(access, bitmap, start)
             /\ out' = copy_data_bits(data, bitmap, start, num)
      BY <1>2 DEF ReadCoils
    <2>2. /\ phase = "ready" /\ phase' = "read" /\ Start' = start /\ Num' = num
          /\ before' = before /\ registers' = registers /\ data' = data
          /\ Take(start, num, "read")
      BY <1>2 DEF ReadCoils, Take, Start, Num
    <2>3. data = before.data /\ registers = before.registers
      BY <2>2 DEF HandlerInv
    <2>4. Done(bitmap)'
      BY <2>1, <2>2, <2>3 DEF Done
    <2> QED
      BY <1>0, <2>1, <2>2, <2>4, Taken
  <1>3. ASSUME NEW start \in Starts, NEW num \in Counts, NEW pattern \in Patterns,
               WriteCoils(start, num, Carried(num, pattern))
        PROVE  HandlerInv'
    <2>1. PICK values : values = Carried(num, pattern)
      OBVIOUS
    <2>2. values \in [DOMAIN values -> SUBSET Bits]
      BY <2>1, Constants DEF Carried
    <2> QED
      BY <1>0, <1>3, <2>1, <2>2, WriteCoilsStep
  <1>4. ASSUME NEW start \in Starts, NEW num \in Counts, ReadRegisters(start, num)
        PROVE  HandlerInv'
    <2>1. PICK bitmap \in create_request_bit_map(start, num) :
             legal_address(access, bitmap, start)
      BY <1>4 DEF ReadRegisters
    <2>2. /\ phase = "ready" /\ phase' = "registersRead" /\ Start' = start /\ Num' = num
          /\ before' = before /\ registers' = registers /\ data' = data
          /\ out' = copy_data_registers(registers, start, num)
          /\ Take(start, num, "registersRead")
      BY <1>4 DEF ReadRegisters, Take, Start, Num
    <2>3. data = before.data /\ registers = before.registers
      BY <2>2 DEF HandlerInv
    <2>4. Done(bitmap)'
      BY <2>2, <2>3 DEF Done
    <2> QED
      BY <1>0, <2>1, <2>2, <2>4, Taken
  <1>5. ASSUME NEW start \in Starts, NEW num \in Counts, NEW value \in Registers,
               WriteRegisters(start, num, value)
        PROVE  HandlerInv'
    <2>1. PICK bitmap \in create_request_bit_map(start, num) :
             legal_address(access, bitmap, start)
      BY <1>5 DEF WriteRegisters
    <2>2. /\ phase = "ready" /\ phase' = "registersWritten" /\ Start' = start /\ Num' = num
          /\ before' = before /\ data' = data
          /\ statuses' = [i \in 0 .. num - 1 |-> (value + i) % 65536]
          /\ registers' = IF num = 1 THEN write_register(value, registers, start)
                          ELSE write_registers(statuses', registers, start, num)
          /\ Take(start, num, "registersWritten")
      BY <1>5 DEF WriteRegisters, Take, Start, Num
    <2>3. data = before.data /\ registers = before.registers
      BY <2>2 DEF HandlerInv
    <2>4. value \in uint16_t /\ num \in Nat
      BY <1>0, Constants
    <2>5. \A i \in 0 .. num - 1 : (value + i) % 65536 \in uint16_t
      <3>1. \A i \in 0 .. num - 1 : value + i \in Nat
        BY <2>4, SixteenBits
      <3> QED
        BY <3>1, SixteenBits
    <2>6. statuses' \in [0 .. num - 1 -> uint16_t]
      BY <2>2, <2>5
    <2>7. registers' = write_registers(statuses', before.registers, start, num)
      <3>1. CASE num = 1
        <4>1. 0 .. num - 1 = {0}
          BY <3>1
        <4>2. value \in Nat /\ value % 65536 = value
          BY <2>4, SixteenBits
        <4>3. value + 0 = value
          BY <4>2
        <4>4. [i \in 0 .. num - 1 |-> (value + i) % 65536] = [i \in {0} |-> value]
          BY <4>1, <4>2, <4>3
        <4> QED
          BY <2>2, <2>3, <3>1, <4>4 DEF write_register
      <3>2. CASE num # 1
        BY <2>2, <2>3, <3>2
      <3> QED
        BY <3>1, <3>2
    <2>8. Done(bitmap)'
      BY <2>2, <2>3, <2>6, <2>7 DEF Done
    <2> QED
      BY <1>0, <2>1, <2>2, <2>8, Taken
  <1>6. ASSUME NEW start \in Starts, NEW status \in BOOLEAN, WriteCoil(start, status)
        PROVE  HandlerInv'
    <2>1. PICK bitmap \in create_request_bit_map(start, 1) : legal_address(access, bitmap, start)
      BY <1>6 DEF WriteCoil
    <2>2. /\ phase = "ready" /\ phase' = "coil" /\ Start' = start /\ Num' = 1
          /\ before' = before /\ registers' = registers
          /\ data' = write_coil(data, status, start)
          /\ statuses' = [i \in {0} |-> IF status THEN {0} ELSE {}]
          /\ Take(start, 1, "coil")
      BY <1>6 DEF WriteCoil, Take, Start, Num
    <2>3. data = before.data /\ registers = before.registers
      BY <2>2 DEF HandlerInv
    <2>4. Done(bitmap)'
      BY <2>2, <2>3 DEF Done
    <2> QED
      BY <1>0, <2>1, <2>2, <2>4, Taken
  <1>7. CASE UNCHANGED vars
    BY <1>7 DEF vars, HandlerInv, Done, Start, Num
  <1> QED
    BY <1>1, <1>2, <1>3, <1>4, <1>5, <1>6, <1>7 DEF Next

LEMMA HandlerInvariant == Spec => []HandlerInv
  BY HandlerInvInit, HandlerInvStep, PTL DEF Spec

(* Nothing is legal of a request for nothing. *)
LEMMA EmptyIsIllegal ==
  ASSUME NEW start, NEW bitmap \in create_request_bit_map(start, 0), NEW mask
  PROVE  ~legal_address(mask, bitmap, start)
  <1>1. bitmap = <<>> /\ DOMAIN bitmap = {}
    BY DEF create_request_bit_map
  <1> QED
    BY <1>1 DEF legal_address

LEMMA CoilsOf ==
  ASSUME NEW n \in Nat, NEW mem, DOMAIN mem = 0 .. n - 1
  PROVE  \A k \in Int : k \in Coils(mem) <=> k >= 0 /\ k \div 8 \in 0 .. n - 1
  <1> SUFFICES ASSUME NEW k \in Int
               PROVE  k \in Coils(mem) <=> k >= 0 /\ k \div 8 \in 0 .. n - 1
    OBVIOUS
  <1>1. ASSUME NEW i \in 0 .. n - 1, NEW b \in Bits, k = 8 * i + b
        PROVE  k >= 0 /\ k \div 8 \in 0 .. n - 1
    <2>1. k \div 8 = i
      BY <1>1, OctetAndBit
    <2>2. k >= 0
      BY <1>1 DEF Bits
    <2> QED
      BY <2>1, <2>2
  <1>2. ASSUME k >= 0, k \div 8 \in 0 .. n - 1 PROVE k \in Coils(mem)
    <2>1. k \in Nat
      BY <1>2
    <2>2. k = 8 * (k \div 8) + (k % 8) /\ k % 8 \in Bits
      BY <2>1, OctetAndBit
    <2>3. PICK i \in 0 .. n - 1, b \in Bits : i = k \div 8 /\ b = k % 8 /\ k = 8 * i + b
      BY <1>2, <2>2
    <2>4. i \in DOMAIN mem
      OBVIOUS
    <2>5. \E j \in DOMAIN mem, c \in Bits : k = 8 * j + c
      BY <2>3, <2>4
    <2> QED
      BY <2>5 DEF Coils
  <1> QED
    BY <1>1, <1>2 DEF Coils

(* A legal request asks for coils of the mask only. *)
LEMMA LegalIsAllowed ==
  ASSUME NEW start \in Nat, NEW num \in Nat \ {0}, (num % 8) + (start % 8) <= 8,
         NEW bitmap \in create_request_bit_map(start, num),
         access \in Cells, legal_address(access, bitmap, start)
  PROVE  start .. start + num - 1 \subseteq Allowed
  <1> SUFFICES ASSUME NEW k \in start .. start + num - 1 PROVE k \in Allowed
    OBVIOUS
  <1>1. PICK i \in DOMAIN bitmap : i = k \div 8 - start \div 8 /\ k % 8 \in bitmap[i]
    BY BitMapCovers
  <1>2. i + start \div 8 \in DOMAIN access /\ k % 8 \in access[i + start \div 8]
    BY <1>1 DEF legal_address
  <1>3. k \in Nat /\ i + start \div 8 = k \div 8
    BY <1>1
  <1>4. k \in Coils(access)
    <2>1. DOMAIN access = 0 .. NumBytes - 1 /\ NumBytes \in Nat
      BY Constants DEF Cells
    <2>2. k \in Int /\ k >= 0 /\ k \div 8 \in 0 .. NumBytes - 1
      BY <1>2, <1>3, <2>1
    <2> QED
      BY <2>1, <2>2, CoilsOf
  <1> QED
    BY <1>2, <1>3, <1>4 DEF Allowed, Coil

(* A regular request for coils of the mask, with another one after them,   *)
(* is legal.                                                               *)
LEMMA AllowedIsLegal ==
  ASSUME NEW start \in Nat, NEW num \in Nat \ {0}, RegularRange(start, num),
         NEW bitmap \in create_request_bit_map(start, num),
         access \in Cells, start .. start + num - 1 \subseteq Allowed,
         start + num \in Coils(access)
  PROVE  legal_address(access, bitmap, start)
  <1>0. PICK q \in Nat, s \in Bits, n \in Nat, r \in Bits : ByOctets(start, num, q, s, n, r)
    BY RangeByOctets
  <1>1. q = start \div 8 /\ start = 8 * q + s /\ num + s = 8 * n + r
    BY <1>0, Zenon DEF ByOctets
  <1>2. /\ DOMAIN bitmap = 0 .. n
        /\ \A i \in 0 .. n :
              /\ bitmap[i] \subseteq Bits
              /\ \A b \in Bits : b \in bitmap[i] <=>
                    8 * (q + i) + b \in start .. start + num - 1
    <2>1. Exact(bitmap, start, num, q, n)
      BY <1>0, BitMapExact
    <2> QED
      BY <2>1, Zenon DEF Exact
  <1>3. DOMAIN access = 0 .. NumBytes - 1 /\ NumBytes \in Nat
    BY Constants DEF Cells
  <1>4. q + n <= NumBytes - 1
    <2>1. (start + num) \div 8 \in 0 .. NumBytes - 1
      BY <1>3, CoilsOf
    <2>2. PICK j \in Nat : j = q + n
      OBVIOUS
    <2>3. start + num = 8 * j + r
      BY <1>1, <2>2 DEF Bits
    <2>4. (8 * j + r) \div 8 = j
      BY OctetAndBit
    <2> QED
      BY <1>3, <2>1, <2>2, <2>3, <2>4
  <1>5. ASSUME NEW i \in 0 .. n, NEW b \in bitmap[i]
        PROVE  b \in access[i + q]
    <2>1. b \in Bits /\ 8 * (q + i) + b \in start .. start + num - 1
      BY <1>2
    <2>2. Coil(access, 8 * (q + i) + b)
      BY <2>1 DEF Allowed
    <2>3. (8 * (q + i) + b) \div 8 = q + i /\ (8 * (q + i) + b) % 8 = b /\ q + i = i + q
      BY <2>1, OctetAndBit
    <2> QED
      BY <2>2, <2>3 DEF Coil
  <1>6. \A i \in 0 .. n : i + q \in 0 .. NumBytes - 1
    BY <1>3, <1>4
  <1>7. 0 \in 0 .. n
    OBVIOUS
  <1> QED
    BY <1>1, <1>2, <1>3, <1>5, <1>6, <1>7 DEF legal_address

(* Served requests stay inside the access mask, and a refused one had a    *)
(* reason, for masks and ranges of any size.                               *)
THEOREM MaskRespected == Spec => []AccessRespected
  <1>1. HandlerInv => AccessRespected
    <2> SUFFICES ASSUME HandlerInv, phase # "ready" PROVE AccessRespected
      BY DEF AccessRespected
    <2>1. PICK bitmap \in create_request_bit_map(Start, Num) :
             legal_address(access, bitmap, Start) <=> phase # "refused"
      BY DEF HandlerInv
    <2>2. Start \in Nat /\ Num \in Nat /\ access \in Cells
      BY DEF HandlerInv
    <2>3. ASSUME phase # "refused", (Num % 8) + (Start % 8) <= 8 PROVE Asked \subseteq Allowed
      <3>1. legal_address(access, bitmap, Start)
        BY <2>1, <2>3
      <3>2. Num # 0
        BY <2>1, <3>1, EmptyIsIllegal
      <3>3. Num \in Nat \ {0}
        BY <2>2, <3>2
      <3> QED
        BY <2>2, <2>3, <3>1, <3>3, LegalIsAllowed DEF Asked
    <2>4. ASSUME phase = "refused", Regular, Num > 0, Asked \subseteq Allowed,
                 Start + Num \in Coils(access)
          PROVE  FALSE
      <3>1. ~legal_address(access, bitmap, Start)
        BY <2>1, <2>4
      <3>2. Num \in Nat \ {0} /\ RegularRange(Start, Num)
        BY <2>2, <2>4 DEF Regular, RegularRange
      <3> QED
        BY <2>2, <2>4, <3>1, <3>2, AllowedIsLegal DEF Asked
    <2> QED
      BY <2>3, <2>4 DEF AccessRespected
  <1> QED
    BY <1>1, HandlerInvariant, PTL

-----------------------------------------------------------------------------
(* Registers *)

LEMMA TwoOctets ==
  /\ \A d \in Int : /\ (2 * d) % 2 = 0 /\ (2 * d) \div 2 = d
                    /\ (2 * d + 1) % 2 = 1 /\ (2 * d + 1) \div 2 = d
  /\ \A d \in Int, n \in Nat : /\ 2 * d \in 0 .. 2 * n - 1 <=> d \in 0 .. n - 1
                               /\ 2 * d + 1 \in 0 .. 2 * n - 1 <=> d \in 0 .. n - 1
  /\ \A w \in Nat : 256 * (w \div 256) + (w % 256) = w
  OBVIOUS

(* Register k is the one of the request, or the one that was there. *)
RegisterIs(new, from, to, start, num, k) ==
  256 * new[2 * k] + new[2 * k + 1] =
     IF k \in start .. start + num - 1 THEN from[k - start] ELSE 256 * to[2 * k] + to[2 * k + 1]

(* A register that write_registers wrote, or left alone. *)
LEMMA RegisterWritten ==
  ASSUME NEW start \in Nat, NEW num \in Nat, NEW from \in [0 .. num - 1 -> uint16_t],
         NEW to, NEW k \in Nat, 2 * k \in DOMAIN to, 2 * k + 1 \in DOMAIN to,
         NEW new, new = write_registers(from, to, start, num)
  PROVE  RegisterIs(new, from, to, start, num, k)
  <1>1. PICK d \in Int : d = k - start
    OBVIOUS
  <1>2. 2 * k - 2 * start = 2 * d /\ 2 * k + 1 - 2 * start = 2 * d + 1
    BY <1>1
  <1>3. k \in start .. start + num - 1 <=> d \in 0 .. num - 1
    BY <1>1
  <1>4. new[2 * k] = IF 2 * d \in 0 .. 2 * num - 1
                     THEN IF (2 * d) % 2 = 0 THEN from[(2 * d) \div 2] \div 256
                          ELSE from[(2 * d) \div 2] % 256
                     ELSE to[2 * k]
    BY <1>2 DEF write_registers
  <1>5. new[2 * k + 1] = IF 2 * d + 1 \in 0 .. 2 * num - 1
                         THEN IF (2 * d + 1) % 2 = 0 THEN from[(2 * d + 1) \div 2] \div 256
                              ELSE from[(2 * d + 1) \div 2] % 256
                         ELSE to[2 * k + 1]
    <2>1. PICK j \in DOMAIN to, e \in Int : j = 2 * k + 1 /\ e = 2 * d + 1 /\ j - 2 * start = e
      BY <1>2
    <2>2. new[j] = IF e \in 0 .. 2 * num - 1
                   THEN IF e % 2 = 0 THEN from[e \div 2] \div 256 ELSE from[e \div 2] % 256
                   ELSE to[j]
      BY <2>1 DEF write_registers
    <2> QED
      BY <2>1, <2>2
  <1>6. CASE d \in 0 .. num - 1
    <2>1. PICK w \in Nat : w = from[d]
      <3>1. from[d] \in uint16_t
        BY <1>6
      <3> QED
        BY <3>1, SixteenBits
    <2>2. new[2 * k] = w \div 256
      BY <1>4, <1>6, <2>1, TwoOctets
    <2>3. new[2 * k + 1] = w % 256
      BY <1>5, <1>6, <2>1, TwoOctets
    <2>4. 256 * (w \div 256) + (w % 256) = w
      BY TwoOctets
    <2> QED
      BY <1>1, <1>3, <1>6, <2>1, <2>2, <2>3, <2>4 DEF RegisterIs
  <1>7. CASE d \notin 0 .. num - 1
    <2>1. new[2 * k] = to[2 * k]
      BY <1>4, <1>7, TwoOctets
    <2>2. new[2 * k + 1] = to[2 * k + 1]
      BY <1>5, <1>7, TwoOctets
    <2> QED
      BY <1>3, <1>7, <2>1, <2>2 DEF RegisterIs
  <1> QED
    BY <1>6, <1>7

(* copy_data_registers and write_registers keep the octets of every        *)
(* register in order and leave the neighbours alone, for memories and      *)
(* requests of any size.                                                   *)
THEOREM RegistersInOrder == Spec => []RegistersExact
  <1>1. HandlerInv => RegistersExact
    <2> SUFFICES ASSUME HandlerInv, phase # "ready" PROVE RegistersExact
      BY DEF RegistersExact
    <2>1. PICK bitmap \in create_request_bit_map(Start, Num) : Done(bitmap)
      BY DEF HandlerInv
    <2>2. Start \in Nat /\ Num \in Nat /\ access \in Cells /\ NumBytes \in Nat
      BY Constants DEF HandlerInv
    <2>3. ASSUME phase = "registersRead"
          PROVE  /\ registers = before.registers
                 /\ out = [i \in 0 .. 2 * Num - 1 |-> before.registers[2 * Start + i]]
      <3>1. registers = before.registers /\ out = copy_data_registers(before.registers, Start, Num)
        BY <2>1, <2>3 DEF Done
      <3>2. \A i \in 0 .. 2 * Num - 1 : i + 2 * Start = 2 * Start + i
        BY <2>2
      <3> QED
        BY <3>1, <3>2 DEF copy_data_registers
    <2>4. ASSUME phase = "registersWritten", NEW k \in Coils(access)
          PROVE  256 * registers[2 * k] + registers[2 * k + 1] =
                    IF k \in Asked THEN statuses[k - Start]
                    ELSE 256 * before.registers[2 * k] + before.registers[2 * k + 1]
      <3>1. /\ statuses \in [0 .. Num - 1 -> uint16_t]
            /\ registers = write_registers(statuses, before.registers, Start, Num)
        BY <2>1, <2>4 DEF Done
      <3>2. DOMAIN access = 0 .. NumBytes - 1
        BY <2>2 DEF Cells
      <3>3. k \in Nat /\ k < 8 * NumBytes
        <4>1. PICK i \in 0 .. NumBytes - 1, b \in Bits : k = 8 * i + b
          BY <3>2 DEF Coils
        <4> QED
          BY <2>2, <4>1 DEF Bits
      <3>4. 2 * k \in DOMAIN before.registers /\ 2 * k + 1 \in DOMAIN before.registers
        <4>1. DOMAIN before.registers = 0 .. 16 * NumBytes - 1
          BY DEF HandlerInv
        <4>2. 2 * k \in 0 .. 16 * NumBytes - 1 /\ 2 * k + 1 \in 0 .. 16 * NumBytes - 1
          BY <2>2, <3>3
        <4> QED
          BY <4>1, <4>2
      <3>5. RegisterIs(registers, statuses, before.registers, Start, Num, k)
        BY <2>2, <3>1, <3>3, <3>4, RegisterWritten
      <3> QED
        BY <3>5, Zenon DEF RegisterIs, Asked
    <2> QED
      BY <2>3, <2>4 DEF RegistersExact
  <1> QED
    BY <1>1, HandlerInvariant, PTL

-----------------------------------------------------------------------------
(* Reading coils *)

(* The coils of a request, packed from bit 0 on. *)
Packed(from, start, num) ==
  [i \in 0 .. (num - 1) \div 8 |->
      {b \in Bits : 8 * i + b < num /\ Coil(from, start + 8 * i + b)}]

(* The octets a range takes in memory, and packed. *)
LEMMA PackedOctets ==
  \A num \in Nat \ {0}, s \in Bits, n \in Nat, r \in Bits :
     num + s = 8 * n + r =>
        /\ (num - 1) \div 8 \in Nat
        /\ n = (num - 1) \div 8 \/ n = (num - 1) \div 8 + 1
  BY DEF Bits

(* copy_data_bits before the last octet is dropped. *)
Moved(from, bitmap, q, s, n) ==
  [i \in 0 .. n |->
     Shr(from[i + q] \cap bitmap[i], s)
        \cup (IF i + 1 \in 0 .. n THEN Shl(from[(i + 1) + q] \cap bitmap[i + 1], 8 - s) ELSE {})]

LEMMA CopyMoves ==
  ASSUME NEW start \in Nat, NEW num \in Nat \ {0},
         NEW q \in Nat, NEW s \in Bits, NEW n \in Nat, NEW r \in Bits,
         ByOctets(start, num, q, s, n, r),
         NEW bitmap, DOMAIN bitmap = 0 .. n, NEW from
  PROVE  copy_data_bits(from, bitmap, start, num) =
            [i \in 0 .. (num - 1) \div 8 |-> Moved(from, bitmap, q, s, n)[i]]
  <1>1. q = start \div 8 /\ s = start % 8 /\ num + s = 8 * n + r
    BY Zenon DEF ByOctets
  <1>2. PICK m \in Nat : m = (num - 1) \div 8 /\ (n = m \/ n = m + 1)
    BY <1>1, PackedOctets
  <1> DEFINE taken == [i \in DOMAIN bitmap |-> from[i + start \div 8] \cap bitmap[i]]
             carry(i) == IF i + 1 \in DOMAIN bitmap THEN Shl(taken[i + 1], 8 - (start % 8)) ELSE {}
             all == [i \in DOMAIN bitmap |-> Shr(taken[i], start % 8) \cup carry(i)]
  <1>3. PICK to : to = all
    OBVIOUS
  <1>4. copy_data_bits(from, bitmap, start, num) =
           IF DOMAIN to = 0 .. ((num - 1) \div 8 + 1) - 1 THEN to
           ELSE [i \in {j \in DOMAIN to : j + 1 \in DOMAIN to} |-> to[i]]
    <2>1. copy_data_bits(from, bitmap, start, num) =
             IF DOMAIN all = 0 .. ((num - 1) \div 8 + 1) - 1 THEN all
             ELSE [i \in {j \in DOMAIN all : j + 1 \in DOMAIN all} |-> all[i]]
      BY Zenon DEF copy_data_bits
    <2> QED
      BY <1>3, <2>1
  <1>5. to = [i \in 0 .. n |-> Shr(taken[i], s)
                \cup (IF i + 1 \in 0 .. n THEN Shl(taken[i + 1], 8 - s) ELSE {})]
    BY <1>1, <1>3
  <1>6. DOMAIN to = 0 .. n /\ ((num - 1) \div 8 + 1) - 1 = m
    BY <1>2, <1>5
  <1>7. to = Moved(from, bitmap, q, s, n)
    <2>1. ASSUME NEW i \in 0 .. n PROVE to[i] = Moved(from, bitmap, q, s, n)[i]
      <3>1. CASE i + 1 \in 0 .. n
        BY <1>1, <1>5, <3>1 DEF Moved
      <3>2. CASE i + 1 \notin 0 .. n
        BY <1>1, <1>5, <3>2 DEF Moved
      <3> QED
        BY <3>1, <3>2
    <2> QED
      BY <1>5, <2>1 DEF Moved
  <1>8. CASE n = m
    <2>1. to = [i \in 0 .. m |-> to[i]]
      BY <1>5, <1>8
    <2> QED
      BY <1>2, <1>4, <1>6, <1>7, <1>8, <2>1
  <1>9. CASE n = m + 1
    <2>1. 0 .. n # 0 .. m
      <3>1. n \in 0 .. n /\ n \notin 0 .. m
        BY <1>9
      <3> QED
        BY <3>1
    <2>2. {j \in 0 .. n : j + 1 \in 0 .. n} = 0 .. m
      BY <1>9
    <2> QED
      BY <1>2, <1>4, <1>6, <1>7, <2>1, <2>2
  <1> QED
    BY <1>2, <1>8, <1>9

(* A coil of memory that the bit map lets through. *)
LEMMA TakenCoil ==
  ASSUME NEW start \in Nat, NEW num \in Nat, NEW q \in Nat, NEW n \in Nat,
         NEW bitmap, Exact(bitmap, start, num, q, n), NEW from,
         NEW i \in 0 .. n, NEW c \in Bits
  PROVE  c \in from[i + q] \cap bitmap[i] <=>
            Coil(from, 8 * (q + i) + c) /\ 8 * (q + i) + c \in start .. start + num - 1
  <1>1. c \in bitmap[i] <=> 8 * (q + i) + c \in start .. start + num - 1
    BY Zenon DEF Exact
  <1>2. PICK j \in Nat : j = q + i /\ j = i + q
    OBVIOUS
  <1>3. (8 * j + c) \div 8 = j /\ (8 * j + c) % 8 = c
    BY <1>2, OctetAndBit
  <1> QED
    BY <1>1, <1>2, <1>3 DEF Coil

(* Bit b of packed octet i comes from octet i or from the next. *)
LEMMA MovedCoil ==
  ASSUME NEW start \in Nat, NEW num \in Nat \ {0},
         NEW q \in Nat, NEW s \in Bits, NEW n \in Nat, NEW r \in Bits,
         start = 8 * q + s, num + s = 8 * n + r,
         NEW bitmap, Exact(bitmap, start, num, q, n), NEW from,
         NEW i \in 0 .. n, NEW b \in Bits
  PROVE  b \in Moved(from, bitmap, q, s, n)[i] <=>
            8 * i + b < num /\ Coil(from, start + 8 * i + b)
  <1>0. \A j \in 0 .. n : from[j + q] \cap bitmap[j] \in SUBSET Bits
    BY DEF Exact
  <1>1. s \in Int /\ 8 - s \in Int
    BY DEF Bits
  <1>2. b \in Shr(from[i + q] \cap bitmap[i], s) <=> b + s \in from[i + q] \cap bitmap[i]
    BY <1>0, <1>1, ShiftedDown
  <1>3. i + 1 \in 0 .. n =>
           (b \in Shl(from[(i + 1) + q] \cap bitmap[i + 1], 8 - s)
               <=> b - (8 - s) \in from[(i + 1) + q] \cap bitmap[i + 1])
    BY <1>0, <1>1, ShiftedUp
  <1>4. b \in Moved(from, bitmap, q, s, n)[i] <=>
           \/ b + s \in from[i + q] \cap bitmap[i]
           \/ i + 1 \in 0 .. n /\ b - (8 - s) \in from[(i + 1) + q] \cap bitmap[i + 1]
    BY <1>2, <1>3 DEF Moved
  <1>5. PICK k \in Nat : k = start + 8 * i + b
    BY DEF Bits
  <1>6. k \in start .. start + num - 1 <=> 8 * i + b < num
    BY <1>5 DEF Bits
  <1>7. \A j \in 0 .. n, c \in Bits :
            c \in from[j + q] \cap bitmap[j] <=>
               Coil(from, 8 * (q + j) + c) /\ 8 * (q + j) + c \in start .. start + num - 1
    BY TakenCoil
  <1>8. CASE b + s < 8
    <2>1. PICK c \in Bits : c = b + s
      BY <1>8 DEF Bits
    <2>2. 8 * (q + i) + c = k
      BY <1>5, <2>1 DEF Bits
    <2>3. c \in from[i + q] \cap bitmap[i] <=> Coil(from, k) /\ k \in start .. start + num - 1
      BY <2>2, <1>7
    <2>4. b - (8 - s) \notin Bits
      BY <1>8 DEF Bits
    <2>5. i + 1 \in 0 .. n => b - (8 - s) \notin from[(i + 1) + q] \cap bitmap[i + 1]
      BY <1>0, <2>4
    <2> QED
      BY <1>4, <1>5, <1>6, <2>1, <2>3, <2>5
  <1>9. CASE b + s >= 8
    <2>1. PICK c \in Bits : c = b - (8 - s)
      BY <1>9 DEF Bits
    <2>2. b + s \notin from[i + q] \cap bitmap[i]
      <3>1. b + s \notin Bits
        BY <1>9 DEF Bits
      <3> QED
        BY <1>0, <3>1
    <2>3. CASE i + 1 \in 0 .. n
      <3>1. PICK j \in 0 .. n : j = i + 1
        BY <2>3
      <3>2. 8 * (q + j) + c = k
        BY <1>5, <2>1, <3>1 DEF Bits
      <3>3. c \in from[j + q] \cap bitmap[j] <=> Coil(from, k) /\ k \in start .. start + num - 1
        BY <3>2, <1>7
      <3> QED
        BY <1>4, <1>5, <1>6, <2>1, <2>2, <3>1, <3>3
    <2>4. CASE i + 1 \notin 0 .. n
      <3>1. ~(8 * i + b < num)
        BY <1>9, <2>4 DEF Bits
      <3> QED
        BY <1>4, <2>2, <2>4, <3>1
    <2> QED
      BY <2>3, <2>4
  <1>10. b + s < 8 \/ b + s >= 8
    BY DEF Bits
  <1> QED
    BY <1>8, <1>9, <1>10

LEMMA CopyExact ==
  ASSUME NEW start \in Nat, NEW num \in Nat \ {0}, RegularRange(start, num),
         NEW bitmap \in create_request_bit_map(start, num), NEW from
  PROVE  copy_data_bits(from, bitmap, start, num) = Packed(from, start, num)
  <1>0. PICK q \in Nat, s \in Bits, n \in Nat, r \in Bits : ByOctets(start, num, q, s, n, r)
    BY RangeByOctets
  <1>1. start = 8 * q + s /\ num + s = 8 * n + r
    BY <1>0, Zenon DEF ByOctets
  <1>2. Exact(bitmap, start, num, q, n)
    BY <1>0, BitMapExact
  <1>3. DOMAIN bitmap = 0 .. n
    BY <1>2, Zenon DEF Exact
  <1>4. PICK m \in Nat : m = (num - 1) \div 8 /\ (n = m \/ n = m + 1)
    BY <1>1, PackedOctets
  <1>5. copy_data_bits(from, bitmap, start, num) =
           [i \in 0 .. m |-> Moved(from, bitmap, q, s, n)[i]]
    BY <1>0, <1>3, <1>4, CopyMoves
  <1>6. ASSUME NEW i \in 0 .. m
        PROVE  Moved(from, bitmap, q, s, n)[i] =
                  {b \in Bits : 8 * i + b < num /\ Coil(from, start + 8 * i + b)}
    <2>1. i \in 0 .. n
      BY <1>4
    <2>2. Moved(from, bitmap, q, s, n)[i] \subseteq Bits
      BY <2>1, ShiftsStay DEF Moved
    <2>3. \A b \in Bits : b \in Moved(from, bitmap, q, s, n)[i] <=>
                             8 * i + b < num /\ Coil(from, start + 8 * i + b)
      BY <1>1, <1>2, <2>1, MovedCoil
    <2> QED
      BY <2>2, <2>3
  <1> QED
    BY <1>4, <1>5, <1>6 DEF Packed

LEMMA ReadsExactly == HandlerInv => ReadExact
  <1> SUFFICES ASSUME HandlerInv, phase = "read", Regular
               PROVE  out = Packed(before.data, Start, Num)
    BY DEF ReadExact, AsAsked, Packed
  <1>1. PICK bitmap \in create_request_bit_map(Start, Num) :
           legal_address(access, bitmap, Start) /\ Done(bitmap)
    BY DEF HandlerInv
  <1>2. Start \in Nat /\ Num \in Nat
    BY DEF HandlerInv
  <1>3. Num \in Nat \ {0} /\ RegularRange(Start, Num)
    BY <1>1, <1>2, EmptyIsIllegal DEF Regular, RegularRange
  <1>4. out = copy_data_bits(before.data, bitmap, Start, Num)
    BY <1>1 DEF Done
  <1> QED
    BY <1>1, <1>2, <1>3, <1>4, CopyExact

(* Coils are read in order and nothing else is, for memories and regular   *)
(* ranges of any size and alignment.                                       *)
THEOREM CoilsReadInOrder == Spec => []ReadExact
  BY ReadsExactly, HandlerInvariant, PTL

-----------------------------------------------------------------------------
(* Writing coils *)

(* The octets that the loop of write_coils leaves, but for octet 0. *)
Loop(f, values, bit) ==
  f = [i \in DOMAIN values |->
          IF i = 0 THEN values[0] ELSE Shl(values[i], bit) \cup Shr(f[i - 1], 8 - bit)]

LEMMA ShiftedLoop ==
  ASSUME NEW values, NEW bit, \E f : Loop(f, values, bit)
  PROVE  \E f : Loop(f, values, bit) /\ shifted(values, bit) = [f EXCEPT ![0] = Shl(f[0], bit)]
  <1>1. PICK c : c = CHOOSE f : Loop(f, values, bit)
    OBVIOUS
  <1>2. Loop(c, values, bit)
    BY <1>1, Zenon
  <1>3. c = CHOOSE f : f = [i \in DOMAIN values |->
               IF i = 0 THEN values[0] ELSE Shl(values[i], bit) \cup Shr(f[i - 1], 8 - bit)]
    BY <1>1, Zenon DEF Loop
  <1>4. shifted(values, bit) = [c EXCEPT ![0] = Shl(c[0], bit)]
    BY <1>3, Zenon DEF shifted
  <1> QED
    BY <1>2, <1>4

(* Where no octet takes a carry of a carry the loop is what it computes. *)
LEMMA LoopExists ==
  ASSUME NEW n \in Nat, NEW s \in Bits, NEW values \in [0 .. n -> SUBSET Bits], s = 0 \/ n <= 1
  PROVE  \E f : Loop(f, values, s)
  <1>1. CASE s = 0
    <2>1. ASSUME NEW i \in 0 .. n, i # 0
          PROVE  values[i] = Shl(values[i], s) \cup Shr(values[i - 1], 8 - s)
      <3>1. i - 1 \in 0 .. n
        BY <2>1
      <3>2. values[i] \in SUBSET Bits /\ values[i - 1] \in SUBSET Bits
        BY <3>1
      <3>3. s \in Int /\ 8 - s \in Int
        BY DEF Bits
      <3>4. \A b \in Bits : b \in Shl(values[i], s) <=> b - s \in values[i]
        BY <3>2, <3>3, ShiftedUp
      <3>5. \A b \in Bits : b \in Shr(values[i - 1], 8 - s) <=> b + (8 - s) \in values[i - 1]
        BY <3>2, <3>3, ShiftedDown
      <3>6. \A b \in Bits : b - s = b /\ b + (8 - s) \notin Bits
        BY <1>1 DEF Bits
      <3>7. \A b \in Bits : b \in Shl(values[i], s) \cup Shr(values[i - 1], 8 - s) <=> b \in values[i]
        BY <3>2, <3>4, <3>5, <3>6
      <3> QED
        BY <3>2, <3>7, ShiftsStay
    <2>2. DOMAIN values = 0 .. n
      OBVIOUS
    <2>3. values = [i \in 0 .. n |->
                IF i = 0 THEN values[0] ELSE Shl(values[i], s) \cup Shr(values[i - 1], 8 - s)]
      BY <2>1
    <2>4. Loop(values, values, s)
      BY <2>2, <2>3 DEF Loop
    <2> QED
      BY <2>4
  <1>2. CASE n <= 1
    <2>1. PICK f : f = [i \in 0 .. n |->
             IF i = 0 THEN values[0] ELSE Shl(values[i], s) \cup Shr(values[0], 8 - s)]
      OBVIOUS
    <2>2. \A i \in 0 .. n : i # 0 => i - 1 = 0 /\ f[i - 1] = values[0]
      BY <1>2, <2>1
    <2>3. DOMAIN values = 0 .. n
      OBVIOUS
    <2>4. f = [i \in 0 .. n |->
             IF i = 0 THEN values[0] ELSE Shl(values[i], s) \cup Shr(f[i - 1], 8 - s)]
      BY <2>1, <2>2
    <2>5. Loop(f, values, s)
      BY <2>3, <2>4 DEF Loop
    <2> QED
      BY <2>5
  <1> QED
    BY <1>1, <1>2

(* Then the values are shifted up as one number. *)
LEMMA ShiftedCoil ==
  ASSUME NEW n \in Nat, NEW s \in Bits, NEW values \in [0 .. n -> SUBSET Bits], s = 0 \/ n <= 1,
         NEW i \in 0 .. n, NEW b \in Bits, 8 * i + b >= s
  PROVE  b \in shifted(values, s)[i] <=> Coil(values, 8 * i + b - s)
  <1>0. \A j \in 0 .. n, c \in Bits : (8 * j + c) \div 8 = j /\ (8 * j + c) % 8 = c
    <2>1. \A j \in 0 .. n : j \in Int
      OBVIOUS
    <2> QED
      BY <2>1, OctetAndBit
  <1>1. PICK f : Loop(f, values, s) /\ shifted(values, s) = [f EXCEPT ![0] = Shl(f[0], s)]
    BY LoopExists, ShiftedLoop
  <1>2. f = [j \in 0 .. n |->
            IF j = 0 THEN values[0] ELSE Shl(values[j], s) \cup Shr(f[j - 1], 8 - s)]
    <2>1. DOMAIN values = 0 .. n
      OBVIOUS
    <2> QED
      BY <1>1, <2>1 DEF Loop
  <1>3. s \in Int /\ 8 - s \in Int /\ values[i] \in SUBSET Bits /\ 0 \in 0 .. n
    BY DEF Bits
  <1>4. b \in Shl(values[i], s) <=> b - s \in values[i]
    BY <1>3, ShiftedUp
  <1>5. CASE i = 0
    <2>1. shifted(values, s)[i] = Shl(values[i], s)
      BY <1>1, <1>2, <1>3, <1>5
    <2>2. PICK c \in Bits : c = b - s
      BY <1>5 DEF Bits
    <2>3. 8 * i + b - s = 8 * i + c
      BY <2>2 DEF Bits
    <2>4. (8 * i + c) \div 8 = i /\ (8 * i + c) % 8 = c
      BY <1>0
    <2> QED
      BY <1>4, <2>1, <2>2, <2>3, <2>4 DEF Coil
  <1>6. CASE i # 0
    <2>1. PICK h \in 0 .. n : h = i - 1
      BY <1>6
    <2>2. shifted(values, s)[i] = Shl(values[i], s) \cup Shr(f[h], 8 - s)
      BY <1>1, <1>2, <1>6, <2>1
    <2>3. f[h] \in SUBSET Bits
      <3>1. values[h] \in SUBSET Bits
        OBVIOUS
      <3>2. f[h] = values[h] \/ f[h] = Shl(values[h], s) \cup Shr(f[h - 1], 8 - s)
        BY <1>2
      <3> QED
        BY <3>1, <3>2, ShiftsStay
    <2>4. b \in Shr(f[h], 8 - s) <=> b + (8 - s) \in f[h]
      BY <1>3, <2>3, ShiftedDown
    <2>5. CASE b >= s
      <3>1. PICK c \in Bits : c = b - s
        BY <2>5 DEF Bits
      <3>2. 8 * i + b - s = 8 * i + c
        BY <3>1 DEF Bits
      <3>3. (8 * i + c) \div 8 = i /\ (8 * i + c) % 8 = c
        BY <1>0
      <3>4. b + (8 - s) \notin Bits
        BY <2>5 DEF Bits
      <3>5. b \notin Shr(f[h], 8 - s)
        BY <2>3, <2>4, <3>4
      <3> QED
        BY <1>4, <2>2, <3>1, <3>2, <3>3, <3>5 DEF Coil
    <2>6. CASE b < s
      <3>1. n <= 1 /\ h = 0
        BY <2>1, <2>6 DEF Bits
      <3>2. f[h] = values[h]
        BY <1>2, <3>1
      <3>3. PICK c \in Bits : c = b + (8 - s)
        BY <2>6 DEF Bits
      <3>4. 8 * i + b - s = 8 * h + c
        BY <2>1, <3>3 DEF Bits
      <3>5. (8 * h + c) \div 8 = h /\ (8 * h + c) % 8 = c
        BY <1>0
      <3>6. b - s \notin values[i]
        <4>1. b - s \notin Bits
          BY <2>6 DEF Bits
        <4> QED
          BY <1>3, <4>1
      <3> QED
        BY <1>4, <2>2, <2>4, <3>2, <3>3, <3>4, <3>5, <3>6 DEF Coil
    <2>7. b >= s \/ b < s
      BY DEF Bits
    <2> QED
      BY <2>5, <2>6, <2>7
  <1> QED
    BY <1>5, <1>6

(* What write_coils leaves of coil k. *)
Rewritten(new, mem, values, start, num, k) ==
  Coil(new, k) <=> IF k \in start .. start + num - 1 THEN Coil(values, k - start) ELSE Coil(mem, k)

LEMMA WriteCoilsExact ==
  ASSUME NEW start \in Nat, NEW num \in Nat \ {0}, RegularRange(start, num),
         start % 8 = 0 \/ numBytes(start, num) <= 2,
         NEW bitmap \in create_request_bit_map(start, num),
         NEW values \in [DOMAIN bitmap -> SUBSET Bits],
         NEW mem \in Cells, NEW k \in Nat, k \div 8 \in DOMAIN mem
  PROVE  Rewritten(write_coils(mem, bitmap, values, start), mem, values, start, num, k)
  <1>0. PICK q \in Nat, s \in Bits, n \in Nat, r \in Bits : ByOctets(start, num, q, s, n, r)
    BY RangeByOctets
  <1>1. /\ q = start \div 8 /\ s = start % 8 /\ start = 8 * q + s /\ num + s = 8 * n + r
        /\ numBytes(start, num) = n + 1
    BY <1>0, Zenon DEF ByOctets
  <1>2. /\ DOMAIN bitmap = 0 .. n
        /\ \A i \in 0 .. n, b \in Bits : b \in bitmap[i] <=>
              8 * (q + i) + b \in start .. start + num - 1
    <2>1. Exact(bitmap, start, num, q, n)
      BY <1>0, BitMapExact
    <2> QED
      BY <2>1, Zenon DEF Exact
  <1>3. PICK new : new = write_coils(mem, bitmap, values, start)
    OBVIOUS
  <1>4. PICK j \in DOMAIN mem, b \in Bits : j = k \div 8 /\ b = k % 8 /\ k = 8 * j + b
    BY OctetAndBit
  <1>5. j \in Nat /\ mem[j] \subseteq Bits
    BY Constants DEF Cells
  <1>6. PICK i \in Int : i = j - q
    BY <1>5
  <1>7. k - start = 8 * i + b - s /\ k = 8 * (q + i) + b
    <2>1. s \in Int /\ b \in Int
      BY DEF Bits
    <2>2. start = 8 * q + s /\ k = 8 * j + b
      BY <1>1, <1>4, Zenon
    <2> QED
      BY <1>5, <1>6, <2>1, <2>2
  <1>8. CASE i \in 0 .. n
    <2>1. PICK octets : octets = shifted(values, s)
      OBVIOUS
    <2>2. new[j] = (mem[j] \cap (octets[i] \cup (Bits \ bitmap[i]))) \cup (octets[i] \cap bitmap[i])
      BY <1>1, <1>2, <1>3, <1>6, <1>8, <2>1 DEF write_coils
    <2>3. b \in new[j] <=> IF b \in bitmap[i] THEN b \in octets[i] ELSE b \in mem[j]
      BY <2>2
    <2>4. b \in bitmap[i] <=> k \in start .. start + num - 1
      BY <1>2, <1>7, <1>8
    <2>5. ASSUME k \in start .. start + num - 1
          PROVE  b \in octets[i] <=> Coil(values, k - start)
      <3>1. 8 * i + b >= s
        BY <1>1, <1>7, <2>5 DEF Bits
      <3>2. s = 0 \/ n <= 1
        BY <1>1
      <3>3. values \in [0 .. n -> SUBSET Bits]
        BY <1>2
      <3>4. b \in octets[i] <=> Coil(values, 8 * i + b - s)
        BY <1>8, <2>1, <3>1, <3>2, <3>3, ShiftedCoil
      <3> QED
        BY <1>7, <3>4
    <2> QED
      BY <1>3, <1>4, <2>3, <2>4, <2>5 DEF Rewritten, Coil
  <1>9. CASE i \notin 0 .. n
    <2>1. new[j] = mem[j]
      BY <1>1, <1>2, <1>3, <1>6, <1>9 DEF write_coils
    <2>2. k \notin start .. start + num - 1
      BY <1>1, <1>7, <1>9 DEF Bits
    <2> QED
      BY <1>3, <1>4, <2>1, <2>2 DEF Rewritten, Coil
  <1> QED
    BY <1>8, <1>9

LEMMA WriteCoilExact ==
  ASSUME NEW start \in Nat, NEW status \in BOOLEAN, NEW mem \in Cells,
         NEW values, values = [i \in {0} |-> IF status THEN {0} ELSE {}],
         NEW k \in Nat, k \div 8 \in DOMAIN mem
  PROVE  Rewritten(write_coil(mem, status, start), mem, values, start, 1, k)
  <1>1. PICK q \in Nat, s \in Bits : q = start \div 8 /\ s = start % 8 /\ start = 8 * q + s
    BY OctetAndBit
  <1>2. PICK j \in DOMAIN mem, b \in Bits : j = k \div 8 /\ b = k % 8 /\ k = 8 * j + b
    BY OctetAndBit
  <1>3. j \in Nat
    BY Constants DEF Cells
  <1>4. PICK new : new = write_coil(mem, status, start)
    OBVIOUS
  <1>5. new = [mem EXCEPT ![q] = IF status THEN mem[q] \cup {s} ELSE mem[q] \ {s}]
    BY <1>1, <1>4 DEF write_coil
  <1>6. k \in start .. start + 1 - 1 <=> k = start
    OBVIOUS
  <1>7. CASE k = start
    <2>1. j = q /\ b = s
      BY <1>1, <1>2, <1>7
    <2>2. new[j] = IF status THEN mem[j] \cup {b} ELSE mem[j] \ {b}
      BY <1>5, <2>1 DEF Cells
    <2>3. b \in new[j] <=> status = TRUE
      BY <2>2
    <2>4. Coil(values, 0) <=> status = TRUE
      <3>1. 0 % 8 = 0 /\ 0 \div 8 = 0
        OBVIOUS
      <3> QED
        BY <3>1 DEF Coil
    <2>5. k - start = 0
      BY <1>7
    <2> QED
      BY <1>2, <1>4, <1>6, <1>7, <2>3, <2>4, <2>5 DEF Rewritten, Coil
  <1>8. CASE k # start
    <2>1. CASE j = q
      <3>1. b # s
        BY <1>1, <1>2, <1>8, <2>1
      <3>2. new[j] = IF status THEN mem[j] \cup {s} ELSE mem[j] \ {s}
        BY <1>5, <2>1 DEF Cells
      <3>3. b \in new[j] <=> b \in mem[j]
        BY <3>1, <3>2
      <3> QED
        BY <1>2, <1>4, <1>6, <1>8, <3>3 DEF Rewritten, Coil
    <2>2. CASE j # q
      <3>1. new[j] = mem[j]
        BY <1>5, <2>2 DEF Cells
      <3> QED
        BY <1>2, <1>4, <1>6, <1>8, <3>1 DEF Rewritten, Coil
    <2> QED
      BY <2>1, <2>2
  <1> QED
    BY <1>7, <1>8

(* The octets that a request carries are those of its coils. *)
Filled == phase = "written" => DOMAIN statuses = 0 .. (Num + 7) \div 8 - 1

LEMMA FilledInvariant == Spec => []Filled
  <1>1. Init => Filled
    BY DEF Init, Filled
  <1>2. Filled /\ [Next]_vars => Filled'
    <2> SUFFICES ASSUME Filled, [Next]_vars, phase' = "written"
                 PROVE  DOMAIN statuses' = 0 .. (Num' + 7) \div 8 - 1
      BY DEF Filled
    <2>1. ASSUME NEW start \in Starts, NEW num \in Counts, NEW pattern \in Patterns,
                 WriteCoils(start, num, Carried(num, pattern))
          PROVE  DOMAIN statuses' = 0 .. (Num' + 7) \div 8 - 1
      <3>1. Num' = num /\ statuses' = Carried(num, pattern)
        BY <2>1 DEF WriteCoils, Take, Num
      <3> QED
        BY <3>1 DEF Carried
    <2>2. CASE UNCHANGED vars
      BY <2>2 DEF vars, Filled, Num
    <2> QED
      BY <2>1, <2>2
      DEF Next, Refuse, ReadCoils, ReadRegisters, WriteRegisters, WriteCoil, Take
  <1> QED
    BY <1>1, <1>2, PTL DEF Spec

(* When they are enough for the bit map they are as many, and the range is *)
(* regular.                                                                *)
LEMMA InsideIsRegular ==
  ASSUME NEW start \in Nat, NEW num \in Nat \ {0},
         NEW bitmap \in create_request_bit_map(start, num),
         DOMAIN bitmap \subseteq 0 .. (num + 7) \div 8 - 1
  PROVE  DOMAIN bitmap = 0 .. (num + 7) \div 8 - 1 /\ RegularRange(start, num)
  <1>1. PICK s \in Bits : s = start % 8
    BY OctetAndBit
  <1>2. PICK n \in Nat : n = (num + s) \div 8
    BY DEF Bits
  <1>3. numBytes(start, num) = n + 1
    BY <1>1, <1>2 DEF numBytes
  <1>4. DOMAIN bitmap = 0 .. n
    <2>1. PICK last : bitmap = bit_map(start, num, last)
      BY DEF create_request_bit_map
    <2> QED
      BY <1>3, <2>1 DEF bit_map
  <1>5. PICK m \in Nat : m = (num + 7) \div 8
    OBVIOUS
  <1>6. n <= m - 1
    BY <1>4, <1>5
  <1>7. n = m - 1 /\ (num % 8) + s < 8
    BY <1>2, <1>5, <1>6 DEF Bits
  <1> QED
    BY <1>1, <1>4, <1>5, <1>7 DEF RegularRange

LEMMA WrittenRange ==
  ASSUME HandlerInv, Filled, phase = "written"
  PROVE  /\ Start \in Nat /\ Num \in Nat \ {0} /\ RegularRange(Start, Num)
         /\ \E bitmap \in create_request_bit_map(Start, Num) :
               /\ statuses \in [DOMAIN bitmap -> SUBSET Bits]
               /\ data = write_coils(before.data, bitmap, statuses, Start)
  <1>1. PICK bitmap \in create_request_bit_map(Start, Num) :
           legal_address(access, bitmap, Start) /\ Done(bitmap)
    BY DEF HandlerInv
  <1>2. Start \in Nat /\ Num \in Nat \ {0}
    BY <1>1, EmptyIsIllegal DEF HandlerInv
  <1>3. /\ statuses \in [DOMAIN statuses -> SUBSET Bits]
        /\ DOMAIN bitmap \subseteq DOMAIN statuses
        /\ data = write_coils(before.data, bitmap, statuses, Start)
    BY <1>1 DEF Done
  <1>4. DOMAIN statuses = DOMAIN bitmap /\ RegularRange(Start, Num)
    BY <1>2, <1>3, InsideIsRegular DEF Filled
  <1> QED
    BY <1>2, <1>3, <1>4

LEMMA WritesExactly == HandlerInv /\ Filled => WriteExact
  <1> SUFFICES ASSUME HandlerInv, Filled PROVE WriteExact
    OBVIOUS
  <1>1. phase = "written" => Regular
    BY WrittenRange DEF Regular, RegularRange
  <1>2. ASSUME phase = "coil" \/ (phase = "written" /\ Short), NEW k \in Coils(data)
        PROVE  Rewritten(data, before.data, statuses, Start, Num, k)
    <2>1. PICK bitmap : Done(bitmap)
      BY <1>2 DEF HandlerInv
    <2>2. Start \in Nat /\ Num \in Nat /\ before.data \in Cells /\ NumBytes \in Nat
      BY <1>2, Constants DEF HandlerInv
    <2>3. DOMAIN data = DOMAIN before.data /\ DOMAIN data = 0 .. NumBytes - 1
      <3>1. CASE phase = "coil"
        BY <2>1, <2>2, <3>1 DEF Done, write_coil, Cells
      <3>2. CASE phase = "written"
        BY <2>1, <2>2, <3>2 DEF Done, write_coils, Cells
      <3> QED
        BY <1>2, <3>1, <3>2
    <2>4. k \in Nat /\ k \div 8 \in DOMAIN before.data
      <3>1. PICK i \in 0 .. NumBytes - 1, b \in Bits : k = 8 * i + b
        BY <1>2, <2>3 DEF Coils
      <3>2. k \in Int
        BY <3>1 DEF Bits
      <3>3. k >= 0 /\ k \div 8 \in 0 .. NumBytes - 1
        BY <1>2, <2>2, <2>3, <3>2, CoilsOf
      <3> QED
        BY <2>3, <3>2, <3>3
    <2>5. CASE phase = "coil"
      <3>1. PICK status \in BOOLEAN :
               /\ Num = 1
               /\ data = write_coil(before.data, status, Start)
               /\ statuses = [i \in {0} |-> IF status THEN {0} ELSE {}]
        BY <2>1, <2>5 DEF Done
      <3> QED
        BY <2>2, <2>4, <3>1, WriteCoilExact
    <2>6. CASE phase = "written" /\ Short
      <3>1. Num \in Nat \ {0} /\ RegularRange(Start, Num)
        BY <2>6, WrittenRange
      <3>2. PICK bm \in create_request_bit_map(Start, Num) :
               /\ statuses \in [DOMAIN bm -> SUBSET Bits]
               /\ data = write_coils(before.data, bm, statuses, Start)
        BY <2>6, WrittenRange
      <3>3. Start % 8 = 0 \/ numBytes(Start, Num) <= 2
        BY <2>6 DEF Short
      <3> QED
        BY <2>2, <2>4, <3>1, <3>2, <3>3, WriteCoilsExact
    <2> QED
      BY <1>2, <2>5, <2>6
  <1> QED
    BY <1>1, <1>2 DEF WriteExact, Replaced, Rewritten, Asked

(* A write puts the values of the request where it says and leaves every   *)
(* other coil alone: write_coil always, write_coils for ranges of any size *)
(* for which it stays inside the octets of the request and needs no carry  *)
(* of a carry.                                                             *)
THEOREM CoilsWrittenInPlace == Spec => []WriteExact
  BY WritesExactly, HandlerInvariant, FilledInvariant, PTL
=============================================================================
