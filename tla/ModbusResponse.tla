--------------------------- MODULE ModbusResponse ---------------------------
(***************************************************************************)
(* Class modbus_response_t of modbus/core: typed access to the octets of a *)
(* response.  An object is a record of its four members; the octets are a  *)
(* sequence, empty for a null pointer too: no member tells the two apart.  *)
(*                                                                         *)
(* A 32-bit number is the pair of its high and low word: TLC's integers    *)
(* have 32 bits and a sign.                                                *)
(***************************************************************************)
EXTENDS Codec

DataModels ==
    {"invalid_data_type", "input_status", "coil", "input_register",
     "holding_register", "write_confirmation"}

ByteOrders == {"normal", "byte_swapped"}

modbus_response_t(type, data, start, num) ==
    [type_ |-> type, data_ |-> data, start_address_ |-> start, num_values_ |-> num]

default_response == modbus_response_t("invalid_data_type", <<>>, 0, 0)

set_data_model(o, type) == [o EXCEPT !.type_ = type]

(* The number of values is not set with them. *)
set_data(o, data) == [o EXCEPT !.data_ = data]

isValid(o) ==
    /\ o.type_ # "invalid_data_type"
    /\ Len(o.data_) > 0
    /\ o.num_values_ # 0

buffer_length(o) == IF isValid(o) THEN Len(o.data_) % 65536 ELSE 0

(* value if octets 0 .. last are there; at() throws otherwise. *)
Within(o, last, value) ==
    IF last < Len(o.data_) THEN value ELSE Failure("out_of_range")

Octet(o, i) == o.data_[i + 1]

Signed(value, modulus) == IF value < modulus \div 2 THEN value ELSE value - modulus

getBool_but_high_bit_first(o, index) ==
    IF ~isValid(o) THEN FALSE
    ELSE Within(o, index \div 8, (Octet(o, index \div 8) \div 2^(7 - (index % 8))) % 2 = 1)

getBool(o, index) ==
    IF ~isValid(o) THEN FALSE
    ELSE Within(o, index \div 8, (Octet(o, index \div 8) \div 2^(index % 8)) % 2 = 1)

getUINT8(o, index) == IF ~isValid(o) THEN 0 ELSE Within(o, index, Octet(o, index))

getINT8(o, index) == IF ~isValid(o) THEN 0 ELSE Within(o, index, Signed(Octet(o, index), 256))

(* Octets at, at + 1 as a number. *)
WordAt(o, at, order) ==
    IF order = "normal" THEN Word(Octet(o, at), Octet(o, at + 1))
    ELSE Word(Octet(o, at + 1), Octet(o, at))

getUINT16(o, index, order) ==
    IF ~isValid(o) THEN 0 ELSE Within(o, 2 * index + 1, WordAt(o, 2 * index, order))

getINT16(o, index, order) ==
    IF ~isValid(o) THEN 0
    ELSE Within(o, 2 * index + 1, Signed(WordAt(o, 2 * index, order), 65536))

(* Which half of the four octets is the high word. *)
HighWordAt_but_words_in_order(index, order) == 4 * index

HighWordAt(index, order) == IF order = "normal" THEN 4 * index ELSE 4 * index + 2

LongAt(o, index, order) ==
    <<WordAt(o, HighWordAt(index, order), order),
      WordAt(o, 8 * index + 2 - HighWordAt(index, order), order)>>

getUINT32(o, index, order) ==
    IF ~isValid(o) THEN <<0, 0>> ELSE Within(o, 4 * index + 3, LongAt(o, index, order))

getINT32(o, index, order) ==
    IF ~isValid(o) THEN 0
    ELSE Within(o, 4 * index + 3,
                65536 * Signed(LongAt(o, index, order)[1], 65536) + LongAt(o, index, order)[2])

data_type(code) ==
    CASE code = 1 -> "coil"
      [] code = 2 -> "input_status"
      [] code = 3 -> "holding_register"
      [] code = 4 -> "input_register"
      [] code \in {5, 6, 15, 16} -> "write_confirmation"
      [] OTHER -> "invalid_data_type"
=============================================================================
