------------------------------- MODULE DataMap -------------------------------
(***************************************************************************)
(* The helpers of modbus/server/server_helper.hpp with which a request     *)
(* handler checks and serves requests on its coils and registers.          *)
(*                                                                         *)
(* An octet of coils is the set of its bits that are set, bit 0 the lowest *)
(* coil, so that & | ~ << >> are \cap \cup \ and two shifts.  A buffer_t   *)
(* is a function from 0 .. size - 1, as the code indexes it.               *)
(*                                                                         *)
(* The helpers keep no state of their own: one request on any memory shows *)
(* all they do.  The handler is the one every user writes, bitmap, address *)
(* check, then the copy or the write.                                      *)
(***************************************************************************)
EXTENDS Integers

CONSTANTS
    Memories,    \* contents of the coil memory when the request comes
    NumBytes,    \* octets of coil memory
    Accesses,    \* access bit masks of the handler, of the memory's size
    Starts,      \* start addresses that are requested
    Counts,      \* numbers of coils that are requested
    Patterns,    \* octets a write request carries
    Garbage,     \* octets that may lie outside an array
    Registers    \* values of registers

Bits == 0 .. 7
uint16_t == 0 .. 65535

(* uint8_t shifts: what leaves the octet is lost. *)
Shl(x, k) == {b + k : b \in x} \cap Bits
Shr(x, k) == {b - k : b \in x} \cap Bits

ASSUME DataMapAssumption ==
    /\ NumBytes \in Nat
    /\ Memories \subseteq [0 .. NumBytes - 1 -> SUBSET Bits]
    /\ Accesses \subseteq [0 .. NumBytes - 1 -> SUBSET Bits]
    /\ Starts \subseteq Nat
    /\ Counts \subseteq Nat
    /\ Patterns \subseteq SUBSET Bits
    /\ Garbage \subseteq SUBSET Bits
    /\ Garbage # {}
    /\ Registers \subseteq uint16_t

-----------------------------------------------------------------------------
(* The helpers *)

numBytes(start, num) == (num + (start % 8)) \div 8 + 1

numHighBits(start, num) ==
    IF numBytes(start, num) = 1 THEN num ELSE (num % 8) + (start % 8)

(* bitMasks[n], an array of nine octets: beyond it lies anything. *)
bitMasks(n) == IF n <= 8 THEN {0 .. n - 1} ELSE Garbage

bit_map(start, num, last) ==
    LET filled == [i \in 0 .. numBytes(start, num) - 1 |->
                      IF i = numBytes(start, num) - 1 THEN last ELSE Bits]
    IN  [filled EXCEPT ![0] = Shl(@, start % 8)]

(* What create_request_bit_map may return. *)
create_request_bit_map(start, num) ==
    IF num = 0 THEN {<<>>}
    ELSE {bit_map(start, num, last) : last \in bitMasks(numHighBits(start, num))}

legal_address_but_any_coil(access_, bitmap, start) ==
    /\ DOMAIN bitmap # {}
    /\ \A i \in DOMAIN bitmap :
          /\ i + start \div 8 \in DOMAIN access_
          /\ bitmap[i] \cap access_[i + start \div 8] # {} \/ bitmap[i] = {}

legal_address(access_, bitmap, start) ==
    /\ DOMAIN bitmap # {}
    /\ \A i \in DOMAIN bitmap :
          /\ i + start \div 8 \in DOMAIN access_
          /\ bitmap[i] \subseteq access_[i + start \div 8]

copy_data_bits_but_no_carry(from, bitmap, start, num) ==
    [i \in 0 .. (num - 1) \div 8 |->
        Shr(from[i + start \div 8] \cap bitmap[i], start % 8)]

(* Mask, shift down to bit 0, and drop the last octet when the coils fit   *)
(* without it.                                                             *)
copy_data_bits(from, bitmap, start, num) ==
    LET bit == start % 8
        taken == [i \in DOMAIN bitmap |-> from[i + start \div 8] \cap bitmap[i]]
        carry(i) == IF i + 1 \in DOMAIN bitmap THEN Shl(taken[i + 1], 8 - bit) ELSE {}
        to == [i \in DOMAIN bitmap |-> Shr(taken[i], bit) \cup carry(i)]
        numDataBytes == (num - 1) \div 8 + 1
    IN  IF DOMAIN to = 0 .. numDataBytes - 1 THEN to
        ELSE [i \in {j \in DOMAIN to : j + 1 \in DOMAIN to} |-> to[i]]

write_coil(mem, status, address) ==
    [mem EXCEPT ![address \div 8] = IF status THEN @ \cup {address % 8} ELSE @ \ {address % 8}]

(* The values shifted up in place, from the second octet on: the carry     *)
(* of octet i comes from octet i - 1 as the loop left it.                  *)
shifted(values, bit) ==
    LET s[i \in DOMAIN values] ==
            IF i = 0 THEN values[0]
            ELSE Shl(values[i], bit) \cup Shr(s[i - 1], 8 - bit)
    IN  [s EXCEPT ![0] = Shl(@, bit)]

write_coils_but_only_set(mem, bitmap, values, start) ==
    LET s == shifted(values, start % 8)
    IN  [j \in DOMAIN mem |->
            IF j - start \div 8 \in DOMAIN bitmap
            THEN mem[j] \cup (s[j - start \div 8] \cap bitmap[j - start \div 8])
            ELSE mem[j]]

(* There is an octet of values for each of the bitmap's. *)
write_coils(mem, bitmap, values, start) ==
    LET s == shifted(values, start % 8)
    IN  [j \in DOMAIN mem |->
            LET i == j - start \div 8 IN
            IF i \in DOMAIN bitmap
            THEN (mem[j] \cap (s[i] \cup (Bits \ bitmap[i]))) \cup (s[i] \cap bitmap[i])
            ELSE mem[j]]

(* Registers are two octets each, the high one first. *)
copy_data_registers(from, start, num) ==
    [i \in 0 .. 2 * num - 1 |-> from[i + 2 * start]]

write_registers_but_low_first(from, to, start, num) ==
    [j \in DOMAIN to |->
        LET i == j - 2 * start IN
        IF i \in 0 .. 2 * num - 1
        THEN IF i % 2 = 1 THEN from[i \div 2] \div 256 ELSE from[i \div 2] % 256
        ELSE to[j]]

write_registers(from, to, start, num) ==
    [j \in DOMAIN to |->
        LET i == j - 2 * start IN
        IF i \in 0 .. 2 * num - 1
        THEN IF i % 2 = 0 THEN from[i \div 2] \div 256 ELSE from[i \div 2] % 256
        ELSE to[j]]

write_register(value, to, start) ==
    write_registers([i \in {0} |-> value], to, start, 1)

-----------------------------------------------------------------------------
(* A handler that serves one request *)

VARIABLES
    phase,      \* "ready", "refused", what was done, or "undefined"
    access,     \* the access bit mask
    data,       \* the coil memory
    registers,  \* the register memory, in octets
    before,     \* both memories when the request came
    request,    \* start address and number
    statuses,   \* what a write request carries
    out         \* octets of the response

vars == <<phase, access, data, registers, before, request, statuses, out>>

(* As many registers as coils, neighbouring octets different. *)
InitialRegisters == [i \in 0 .. 16 * NumBytes - 1 |-> (100 + 5 * i) % 256]

Init ==
    /\ phase = "ready"
    /\ access \in Accesses
    /\ data \in Memories
    /\ registers = InitialRegisters
    /\ before = [data |-> data, registers |-> registers]
    /\ request = [start |-> 0, num |-> 0]
    /\ statuses = <<>>
    /\ out = <<>>

Take(start, num, kind) ==
    /\ phase = "ready"
    /\ phase' = kind
    /\ request' = [start |-> start, num |-> num]
    /\ UNCHANGED <<access, before>>

Refuse(start, num) ==
    /\ Take(start, num, "refused")
    /\ \E bitmap \in create_request_bit_map(start, num) :
          ~legal_address(access, bitmap, start)
    /\ UNCHANGED <<data, registers, statuses, out>>

ReadCoils(start, num) ==
    /\ Take(start, num, "read")
    /\ \E bitmap \in create_request_bit_map(start, num) :
          /\ legal_address(access, bitmap, start)
          /\ out' = copy_data_bits(data, bitmap, start, num)
    /\ UNCHANGED <<data, registers, statuses>>

(* The request carries one octet for every eight coils; write_coils reads  *)
(* and writes an octet of them for each octet of the bitmap.  With one     *)
(* octet too few it writes past the end of its vector: whatever was on the *)
(* heap is lost, and nothing is said of the memory from then on.           *)
WriteCoils(start, num, values) ==
    /\ \/ /\ Take(start, num, "written")
          /\ \E bitmap \in create_request_bit_map(start, num) :
                /\ legal_address(access, bitmap, start)
                /\ DOMAIN bitmap \subseteq DOMAIN values
                /\ data' = write_coils(data, bitmap, values, start)
       \/ /\ Take(start, num, "undefined")
          /\ \E bitmap \in create_request_bit_map(start, num) :
                /\ legal_address(access, bitmap, start)
                /\ ~(DOMAIN bitmap \subseteq DOMAIN values)
          /\ data' \in Memories
    /\ statuses' = values
    /\ UNCHANGED <<registers, out>>

(* Octets of a write request: the pattern and, in turn, its complement. *)
Carried(num, pattern) ==
    [i \in 0 .. (num + 7) \div 8 - 1 |-> IF i % 2 = 0 THEN pattern ELSE Bits \ pattern]

WriteCoil(address, status) ==
    /\ Take(address, 1, "coil")
    /\ \E bitmap \in create_request_bit_map(address, 1) :
          legal_address(access, bitmap, address)
    /\ data' = write_coil(data, status, address)
    /\ statuses' = [i \in {0} |-> IF status THEN {0} ELSE {}]
    /\ UNCHANGED <<registers, out>>

ReadRegisters(start, num) ==
    /\ Take(start, num, "registersRead")
    /\ \E bitmap \in create_request_bit_map(start, num) :
          legal_address(access, bitmap, start)
    /\ out' = copy_data_registers(registers, start, num)
    /\ UNCHANGED <<data, registers, statuses>>

WriteRegisters(start, num, value) ==
    /\ Take(start, num, "registersWritten")
    /\ \E bitmap \in create_request_bit_map(start, num) :
          legal_address(access, bitmap, start)
    /\ statuses' = [i \in 0 .. num - 1 |-> (value + i) % 65536]
    /\ registers' = IF num = 1 THEN write_register(value, registers, start)
                    ELSE write_registers(statuses', registers, start, num)
    /\ UNCHANGED <<data, out>>

Next ==
    \E start \in Starts :
        \/ \E num \in Counts :
              \/ Refuse(start, num)
              \/ ReadCoils(start, num)
              \/ \E pattern \in Patterns : WriteCoils(start, num, Carried(num, pattern))
              \/ ReadRegisters(start, num)
              \/ \E value \in Registers : WriteRegisters(start, num, value)
        \/ \E status \in BOOLEAN : WriteCoil(start, status)

Spec == Init /\ [][Next]_vars

-----------------------------------------------------------------------------
(* Properties *)

Start == request.start
Num == request.num
Asked == Start .. Start + Num - 1

Coil(mem, k) == k % 8 \in mem[k \div 8]
Coils(mem) == {8 * i + b : i \in DOMAIN mem, b \in Bits}

(* The coils an access mask allows. *)
Allowed == {k \in Coils(access) : Coil(access, k)}

(* numHighBits is right: the range ends in its first octet, or not so far  *)
(* into the last one that (num % 8) + startBit leaves it.                  *)
Regular == numBytes(Start, Num) = 1 \/ (Num % 8) + (Start % 8) < 8

(* Only one octet is shifted with a carry. *)
Short == Start % 8 = 0 \/ numBytes(Start, Num) <= 2

(* The coils asked for, in order, and zeros up to the end of the last      *)
(* octet.                                                                  *)
AsAsked ==
    out = [i \in 0 .. (Num - 1) \div 8 |->
              {b \in Bits : 8 * i + b < Num /\ Coil(before.data, Start + 8 * i + b)}]

(* copy_data_bits returns the coils asked for and no other, for a regular  *)
(* range, aligned or not, and whatever lies around it.                     *)
ReadExact == phase = "read" /\ Regular => AsAsked

Replaced ==
    \A k \in Coils(data) :
        Coil(data, k) <=> IF k \in Asked THEN Coil(statuses, k - Start) ELSE Coil(before.data, k)

(* write_coil puts the value of the request where it says and leaves every *)
(* other coil alone; so does write_coils where it stays inside the octets  *)
(* of the request and carries into one octet only.  A range for which it   *)
(* stays inside is regular.                                                *)
WriteExact ==
    /\ phase = "coil" \/ (phase = "written" /\ Short) => Replaced
    /\ phase = "written" => Regular

(* No request that is served touches a coil outside the access mask, as    *)
(* long as bitMasks is read within its bounds; and one that is refused     *)
(* asks for such a coil or ends where the mask ends, or (irregular) is     *)
(* taken for a longer one.                                                 *)
AccessRespected ==
    /\ phase \notin {"ready", "refused"} /\ (Num % 8) + (Start % 8) <= 8 => Asked \subseteq Allowed
    /\ phase = "refused" /\ Regular /\ Num > 0 =>
          ~(Asked \subseteq Allowed) \/ Start + Num \notin Coils(access)

(* Registers are read and written high octet first, at twice their         *)
(* address, and their neighbours are left alone.                           *)
RegistersExact ==
    /\ phase = "registersRead" =>
          /\ registers = before.registers
          /\ out = [i \in 0 .. 2 * Num - 1 |-> before.registers[2 * Start + i]]
    /\ phase = "registersWritten" =>
          \A k \in Coils(access) :
              256 * registers[2 * k] + registers[2 * k + 1] =
                  IF k \in Asked THEN statuses[k - Start]
                  ELSE 256 * before.registers[2 * k] + before.registers[2 * k + 1]

(* server_helper.hpp:87, "The coils that were requested": copy_data_bits   *)
(* returns these, wherever the range starts and ends.                      *)
CoilsRequested == phase = "read" => AsAsked

(* server_helper.hpp:145, "The values of the bits to set in memory":       *)
(* write_coils sets the coils of the range to the values it is given,      *)
(* however many octets they take.                                          *)
CoilsWritten == phase = "written" => Replaced

(* server_helper.hpp:142, "Writes several bits in memory": given a legal   *)
(* range and an octet of values for every eight coils, write_coils writes  *)
(* the bits of that memory and nothing else.                               *)
WritesInside == phase # "undefined"

(* server_helper.hpp:50, "Uses an access bit map to determine whether      *)
(* access to a register or coil is allowed": a request is refused only     *)
(* when it asks for a coil that the mask does not allow.                   *)
RefusedForCause == phase = "refused" /\ Num > 0 => ~(Asked \subseteq Allowed)
=============================================================================
