------------------------------ MODULE DataPath ------------------------------
(***************************************************************************)
(* Coils and registers from end to end: what an application reads through  *)
(* a modbus_response_t of the server's memory, and what a vector<bool> of  *)
(* its own becomes there.  The helpers and the handler are DataMap's, the  *)
(* messages Codec's, the typed access ModbusResponse's.                    *)
(*                                                                         *)
(* Receive buffers longer than the message are Exchange's subject; here    *)
(* the buffer is the message.                                              *)
(***************************************************************************)
EXTENDS DataMap, ModbusResponse

VARIABLES
    object,  \* the application's modbus_response_t
    origin,  \* how it was made: "default" or "constructed"
    bools    \* the coils the application has written

clientVars == <<object, origin, bools>>
pathVars == <<vars, clientVars>>

PathInit ==
    /\ Init
    /\ object = default_response
    /\ origin = "default"
    /\ bools = <<>>

-----------------------------------------------------------------------------
(* Octets in DataMap, sets of bits from index 0, and in Codec, numbers     *)
(* from index 1.                                                           *)
Number(bits) ==
    LET sum[k \in 0 .. 8] ==
            IF k = 0 THEN 0 ELSE sum[k - 1] + (IF k - 1 \in bits THEN 2^(k - 1) ELSE 0)
    IN  sum[8]

BitsOf(number) == {b \in Bits : (number \div 2^b) % 2 = 1}

Numbers(octets, n) == [i \in 1 .. n |-> Number(octets[i - 1])]

(* What the other side takes out of message m. *)
Delivered(m) ==
    LET u == tcp_data_unit(1, m)
    IN  pdu(from_buffer(u.buffer, Len(u.buffer), m.layout.type), m.layout).values

(* The constructor of write_multiple_coils_request from a vector<bool>,    *)
(* eight to an octet, the first in bit 0.                                  *)
packed_but_rounded_down(unit, start, v) ==
    Message(write_multiple_coils_request, unit, <<start, Len(v)>>,
            [i \in 1 .. Len(v) \div 8 |->
                Number({b \in Bits : v[8 * (i - 1) + b + 1]})])

packed(unit, start, v) ==
    Message(write_multiple_coils_request, unit, <<start, Len(v)>>,
            [i \in 1 .. Len(v) \div 8 + (IF Len(v) % 8 # 0 THEN 1 ELSE 0) |->
                Number({b \in Bits : 8 * (i - 1) + b + 1 \in {k \in DOMAIN v : v[k]}})])

-----------------------------------------------------------------------------
(* Steps of the application *)

WriteBools(start, v) ==
    LET values == Delivered(packed(1, start, v))
    IN  /\ WriteCoils(start, Len(v), [i \in 0 .. Len(values) - 1 |-> BitsOf(values[i + 1])])
        /\ bools' = v
        /\ UNCHANGED <<object, origin>>

(* The layout in which the handler answers function code fc. *)
ReadLayout(fc) ==
    CHOOSE l \in {read_coils_response, read_discrete_inputs_response,
                  read_holding_registers_response, read_input_registers_response} : l.code = fc

Values(fc) ==
    LET n == IF phase = "read" THEN (Num - 1) \div 8 + 1 ELSE 2 * Num
        octets == IF phase = "read" THEN Numbers(out, n) ELSE [i \in 1 .. n |-> out[i - 1]]
    IN  Delivered(Message(ReadLayout(fc), 1, <<>>, octets))

(* The function codes that read what the response holds. *)
Codes ==
    IF phase = "read" THEN {1, 2} ELSE IF phase = "registersRead" THEN {3, 4} ELSE {}

(* As the README and the tests make the object of a response. *)
Construct(fc) ==
    /\ fc \in Codes
    /\ object = default_response
    /\ object' = modbus_response_t(data_type(fc), Values(fc), Start, Len(Values(fc)) % 65536)
    /\ origin' = "constructed"
    /\ UNCHANGED <<vars, bools>>

(* Or an object made without arguments, filled in afterwards. *)
SetDataModel(type) ==
    /\ Codes # {}
    /\ origin = "default"
    /\ object' = set_data_model(object, type)
    /\ UNCHANGED <<vars, origin, bools>>

SetData(fc) ==
    /\ fc \in Codes
    /\ origin = "default"
    /\ object' = set_data(object, Values(fc))
    /\ UNCHANGED <<vars, origin, bools>>

PathNext ==
    \/ Next /\ UNCHANGED clientVars
    \/ \E start \in Starts, num \in Counts \ {0}, pattern \in Patterns :
          WriteBools(start, [k \in 1 .. num |-> (k - 1) % 8 \in pattern])
    \/ \E fc \in 1 .. 4 : Construct(fc) \/ SetData(fc)
    \/ \E type \in DataModels : SetDataModel(type)

PathSpec == PathInit /\ [][PathNext]_pathVars

-----------------------------------------------------------------------------
(* Properties *)

(* getBool(k) is the coil k places after the start address as the server's *)
(* memory had it, through copy_data_bits, the message and the object, and  *)
(* off for the rest of the last octet; further on it throws.  For regular  *)
(* ranges, as ReadExact.                                                   *)
ClientReadsCoils ==
    phase = "read" /\ Regular /\ origin = "constructed" =>
        LET octets == (Num - 1) \div 8 + 1
        IN  /\ buffer_length(object) = octets
            /\ \A k \in 0 .. 8 * octets - 1 :
                  getBool(object, k) = (k < Num /\ Coil(before.data, Start + k))
            /\ getBool(object, 8 * octets) = Failure("out_of_range")

(* The signed reading of the same octets differs from the unsigned one by  *)
(* a whole turn.                                                           *)
SignedAgree ==
    \A order \in ByteOrders :
        /\ \A k \in 0 .. 2 * Num - 1 :
              LET s == getINT8(object, k) IN s < 128 /\ s % 256 = getUINT8(object, k)
        /\ \A k \in 0 .. Num - 1 :
              LET s == getINT16(object, k, order)
              IN  s < 32768 /\ s % 65536 = getUINT16(object, k, order)
        /\ \A k \in 0 .. (Num \div 2) - 1 :
              LET s == getINT32(object, k, order)
              IN  <<(s \div 65536) % 65536, s % 65536>> = getUINT32(object, k, order)

(* The getters read the registers after the start address, as far as the   *)
(* documentation and the code agree on what an index is: every octet with  *)
(* getUINT8; the first 16 bits, high octet first, and the first 32, high   *)
(* word first; the signed forms are their two's complement; byte_swapped   *)
(* means all octets in reverse order; an incomplete number and one behind  *)
(* the last octet throw.                                                   *)
ClientReadsRegisters ==
    phase = "registersRead" /\ origin = "constructed" =>
        LET memory(k) == Word(before.registers[2 * k], before.registers[2 * k + 1])
            swapped(w) == Word(Lo(w), Hi(w))
            h == memory(Start)
            l == memory(Start + 1)
        IN  /\ \A k \in 0 .. 2 * Num - 1 :
                  getUINT8(object, k) = before.registers[2 * Start + k]
            /\ getUINT16(object, 0, "normal") = h
            /\ getUINT16(object, 0, "byte_swapped") = swapped(h)
            /\ Num = 1 => getUINT32(object, 0, "normal") = Failure("out_of_range")
            /\ Num > 1 => /\ getUINT32(object, 0, "normal") = <<h, l>>
                          /\ getUINT32(object, 0, "byte_swapped") = <<swapped(l), swapped(h)>>
            /\ SignedAgree
            /\ getUINT16(object, 2 * Num, "normal") = Failure("out_of_range")

(* The octets of the request hold the bools the application writes, the    *)
(* first in bit 0 of the first octet, and zeros after the last, however    *)
(* many there are; and where write_coils stays inside those octets and     *)
(* carries into one only, the bools become the coils of the memory.        *)
ClientWritesCoils ==
    bools # <<>> =>
        /\ \A i \in DOMAIN statuses, b \in Bits :
              b \in statuses[i] <=> 8 * i + b + 1 \in {k \in DOMAIN bools : bools[k]}
        /\ \A k \in DOMAIN bools : (k - 1) \div 8 \in DOMAIN statuses
        /\ phase = "written" /\ Short =>
              \A k \in DOMAIN bools : Coil(data, Start + k - 1) = bools[k]

(* modbus_response.hpp:96, "The starting byte index in the data block":    *)
(* getUINT16(index) is the number in octets index and index + 1.           *)
IndexedByOctet ==
    phase = "registersRead" /\ origin = "constructed" =>
        \A k \in 0 .. 2 * Num - 2 :
            getUINT16(object, k, "normal") =
                Word(before.registers[2 * Start + k], before.registers[2 * Start + k + 1])

(* modbus_response.hpp:131-133, "The object is not a valid object if it's  *)
(* data type is Invaliddata_type or id data.size() == 0": an object with a *)
(* type and data is valid.                                                 *)
ValidAsDocumented ==
    isValid(object) <=> object.type_ # "invalid_data_type" /\ Len(object.data_) > 0
=============================================================================
