-------------------------------- MODULE Codec --------------------------------
(***************************************************************************)
(* Messages as octets: the structs of modbus/core/messages, class          *)
(* tcp_data_unit of modbus/core, and tcp_client::validate_response.        *)
(*                                                                         *)
(* All messages but one have the same shape: unit id, function code, some  *)
(* 16-bit members and, for most, an octet count followed by values of one  *)
(* or two octets.  A layout says which.                                    *)
(***************************************************************************)
EXTENDS Integers, Sequences

TCP_HEADER_SIZE == 6
MIN_PDU_SIZE == 4

Octets == 0 .. 255
Words == 0 .. 65535

Hi(w) == w \div 256
Lo(w) == w % 256
Word(h, l) == 256 * h + l

WordsToOctets(v) ==
    [i \in 1 .. 2 * Len(v) |->
        IF i % 2 = 1 THEN Hi(v[(i + 1) \div 2]) ELSE Lo(v[i \div 2])]

OctetsToWords(o) ==
    [i \in 1 .. Len(o) \div 2 |-> Word(o[2 * i - 1], o[2 * i])]

-----------------------------------------------------------------------------
(* The structs: function code, request or response, number of 16-bit       *)
(* members, octets per value (0: no values).                               *)
Layout(code, type, words, width) ==
    [code |-> code, type |-> type, words |-> words, width |-> width]

read_coils_request == Layout(1, "request", 2, 0)
read_discrete_inputs_request == Layout(2, "request", 2, 0)
read_holding_registers_request == Layout(3, "request", 2, 0)
read_input_registers_request == Layout(4, "request", 2, 0)
write_single_coil_request == Layout(5, "request", 2, 0)
write_single_register_request == Layout(6, "request", 2, 0)
write_multiple_coils_request == Layout(15, "request", 2, 1)
write_multiple_registers_request == Layout(16, "request", 2, 2)
mask_write_register_request == Layout(22, "request", 3, 0)
read_write_registers_request == Layout(23, "request", 4, 2)

read_coils_response == Layout(1, "response", 0, 1)
read_discrete_inputs_response == Layout(2, "response", 0, 1)
read_holding_registers_response == Layout(3, "response", 0, 1)
read_input_registers_response == Layout(4, "response", 0, 1)
write_single_coil_response == Layout(5, "response", 2, 0)
write_single_register_response == Layout(6, "response", 2, 0)
write_multiple_coils_response == Layout(15, "response", 2, 0)
write_multiple_registers_response == Layout(16, "response", 2, 0)
mask_write_register_response == Layout(22, "response", 3, 0)
read_write_registers_response == Layout(23, "response", 0, 2)

(* The one of another shape: its members are two octets, the function code *)
(* of the request and the exception code.                                  *)
exception_response == Layout(0, "response", 0, 0)

PlainLayouts ==
    {read_coils_request, read_discrete_inputs_request,
     read_holding_registers_request, read_input_registers_request,
     write_single_coil_request, write_single_register_request,
     write_multiple_coils_request, write_multiple_registers_request,
     mask_write_register_request, read_write_registers_request,
     read_coils_response, read_discrete_inputs_response,
     read_holding_registers_response, read_input_registers_response,
     write_single_coil_response, write_single_register_response,
     write_multiple_coils_response, write_multiple_registers_response,
     mask_write_register_response, read_write_registers_response}

Layouts == PlainLayouts \cup {exception_response}

Message(layout, unit, fields, values) ==
    [layout |-> layout, unit_id |-> unit, fields |-> fields, values |-> values]

-----------------------------------------------------------------------------
(* What size() returns; tcp_data_unit makes room for that many octets. *)
size(m) ==
    IF m.layout = exception_response THEN 3
    ELSE 2 + 2 * Len(m.fields)
           + (IF m.layout.width = 0 THEN 0 ELSE 1 + m.layout.width * Len(m.values))

(* The coil of a write_single_coil message is a bool: it is sent as 0xFF00 *)
(* or 0, and everything but 0xFF00 is read as off.                         *)
on == 65280
off == 0

(* The values of a message, and the octet that counts them. *)
Body(m) == IF m.layout.width = 2 THEN WordsToOctets(m.values) ELSE m.values

(* X_but_...: X with a plausible mistake, for the mutation runs. *)
Counted_but_not_doubled(m) ==
    IF m.layout.width = 0 THEN <<>> ELSE <<Len(m.values) % 256>> \o Body(m)

Counted(m) ==
    IF m.layout.width = 0 THEN <<>> ELSE <<Len(Body(m)) % 256>> \o Body(m)

serialize(m) ==
    IF m.layout = exception_response
    THEN <<m.unit_id, 128 + (m.fields[1] % 128), m.fields[2]>>
    ELSE <<m.unit_id, m.layout.code>> \o WordsToOctets(m.fields) \o Counted(m)

(* What a constructor from an iterator makes of 16-bit members w and       *)
(* values v: the coil is a bool, and write_num_registers is counted anew.  *)
Members(layout, w, v) ==
    IF layout \in {write_single_coil_request, write_single_coil_response}
    THEN [w EXCEPT ![2] = IF @ = on THEN on ELSE off]
    ELSE IF layout = read_write_registers_request
    THEN [w EXCEPT ![4] = Len(v)]
    ELSE w

(* The position in a data unit of the octet that counts the values. *)
CountAt(layout) == TCP_HEADER_SIZE + 3 + 2 * layout.words

(* The last octet the constructor reads.  It trusts the count. *)
LastRead(layout, b) ==
    IF layout = exception_response THEN TCP_HEADER_SIZE + 3
    ELSE IF layout.width = 0 THEN CountAt(layout) - 1
    ELSE IF CountAt(layout) > Len(b) THEN CountAt(layout)
    ELSE CountAt(layout) + layout.width * (b[CountAt(layout)] \div layout.width)

parse(layout, b) ==
    LET at == CountAt(layout)
        body == IF layout.width = 0 THEN <<>> ELSE SubSeq(b, at + 1, LastRead(layout, b))
        v == IF layout.width = 2 THEN OctetsToWords(body) ELSE body
    IN  IF layout = exception_response
        THEN Message(layout, b[7], <<b[8] % 128, b[9]>>, <<>>)
        ELSE Message(layout, b[7],
                     Members(layout, OctetsToWords(SubSeq(b, 9, at - 1)), v), v)

(* The messages that the structs can hold and their count octet can        *)
(* describe: members and values in range, as many members as the struct    *)
(* has, a bool for a coil, and no more than 255 octets of values.          *)
WellFormed(m) ==
    /\ m \in [layout : Layouts, unit_id : Octets, fields : Seq(Words), values : Seq(Words)]
    /\ IF m.layout = exception_response
       THEN /\ Len(m.fields) = 2
            /\ m.fields[1] \in 0 .. 127 /\ m.fields[2] \in Octets
            /\ m.values = <<>>
       ELSE /\ Len(m.fields) = m.layout.words
            /\ m.layout.width = 0 => m.values = <<>>
            /\ m.layout.width = 1 => m.values \in Seq(Octets)
            /\ m.layout.width * Len(m.values) <= 255
            /\ m.layout \in {write_single_coil_request, write_single_coil_response}
                  => m.fields[2] \in {on, off}
            /\ m.layout = read_write_registers_request => m.fields[4] = Len(m.values)

-----------------------------------------------------------------------------
(* tcp_data_unit: a buffer and whether it holds a request or a response.   *)
(* The buffer may be longer than the message in it.                        *)
DataUnit(type, buffer) == [type |-> type, buffer |-> buffer]

(* An exception thrown, an empty optional. *)
Failure(what) == [failure |-> what]

(* What tcp_data_unit() makes: no octets, so that every access throws. *)
empty_unit == DataUnit("invalid_pdu_type", <<>>)

tcp_data_unit(id, m) ==
    DataUnit(m.layout.type,
             <<Hi(id), Lo(id), 0, 0, Hi(size(m)) % 256, Lo(size(m))>> \o serialize(m))

LengthField(b) == Word(b[5], b[6])

(* From a buffer of which bytesRead octets were read; throws when the      *)
(* length field promises more.                                             *)
from_buffer(b, bytesRead, type) ==
    IF bytesRead <= TCP_HEADER_SIZE \/ bytesRead - TCP_HEADER_SIZE < LengthField(b)
    THEN Failure("out_of_range")
    ELSE DataUnit(type, b)

(* From a header and the payload, of which bytesRead octets were read. *)
from_parts_but_any_length(header, payload, bytesRead, type) ==
    IF header[3] # 0 \/ header[4] # 0 THEN Failure("invalid_argument")
    ELSE DataUnit(type, header \o payload)

from_parts(header, payload, bytesRead, type) ==
    IF header[3] # 0 \/ header[4] # 0 THEN Failure("invalid_argument")
    ELSE IF bytesRead <= 0 \/ bytesRead < LengthField(header) THEN Failure("out_of_range")
    ELSE DataUnit(type, header \o payload)

set_transaction_id(u, id) == [u EXCEPT !.buffer[1] = Hi(id), !.buffer[2] = Lo(id)]

transaction_id(u) == Word(u.buffer[1], u.buffer[2])
message_length(u) == LengthField(u.buffer)
unit_id(u) == u.buffer[7]
function_code(u) == u.buffer[8] % 128
is_exception(u) == u.buffer[8] >= 128
exception_code(u) == IF is_exception(u) THEN u.buffer[9] ELSE 0

(* pdu<T>(): nothing when the unit holds another message than T.  A read   *)
(* past the end of the buffer is undefined.                                *)
pdu(u, layout) ==
    IF Len(u.buffer) < 8 THEN Failure("nullopt")
    ELSE IF is_exception(u) # (layout = exception_response) THEN Failure("nullopt")
    ELSE IF layout # exception_response /\ function_code(u) # layout.code THEN Failure("nullopt")
    ELSE IF u.type # layout.type THEN Failure("nullopt")
    ELSE IF LastRead(layout, u.buffer) > Len(u.buffer) THEN Failure("undefined")
    ELSE parse(layout, u.buffer)

(* Does response u answer request q: same id, same function code, and for  *)
(* the single writes the same buffer.                                      *)
validate_response(q, u) ==
    IF \/ transaction_id(q) # transaction_id(u)
       \/ function_code(q) # function_code(u)
       \/ function_code(u) \in {5, 6} /\ ~is_exception(u) /\ q.buffer # u.buffer
    THEN "invalid_response"
    ELSE "success"
=============================================================================
