------------------------------ MODULE Exchange ------------------------------
(***************************************************************************)
(* Requests and responses as they travel in octets: the client writes a    *)
(* data unit, the session reads it into the buffer that it keeps from      *)
(* request to request and hands the handler a data unit over that buffer,  *)
(* the handler's response is written, and read_response reads it into a    *)
(* buffer of its own.                                                      *)
(*                                                                         *)
(* This module is about the data: connections, timeouts and interleavings  *)
(* are TcpClient's and TcpServer's.  A write arrives whole, or as much of  *)
(* it as the reader's buffer holds.                                        *)
(***************************************************************************)
EXTENDS Codec

CONSTANTS
    MAX_APU_SIZE,   \* size of the receive buffers: 256
    TransactionIds,
    Questions,      \* the requests clients send
    Replies         \* the responses handlers return

ASSUME ExchangeAssumption ==
    /\ MAX_APU_SIZE \in Nat
    /\ MAX_APU_SIZE >= TCP_HEADER_SIZE + MIN_PDU_SIZE
    /\ MAX_APU_SIZE <= 256
    /\ TransactionIds \subseteq Words
    /\ \A m \in Questions : WellFormed(m) /\ m.layout.type = "request"
    /\ \A m \in Replies : WellFormed(m) /\ m.layout.type = "response"

VARIABLES
    phase,     \* "idle", "asked", "served", "replied", "answered"
    question,  \* the request sent last
    wanted,    \* the transaction id it is sent under
    asked,     \* its data unit
    buf,       \* the session's buffer
    served,    \* the data unit the handler gets, or a Failure
    reply,     \* the response the handler returned
    replied,   \* its data unit
    answer     \* what read_response returned: a data unit and an error

vars == <<phase, question, wanted, asked, buf, served, reply, replied, answer>>

None == Failure("none")
NoAnswer == [unit |-> empty_unit, error |-> "none"]
Zeros == [i \in 1 .. MAX_APU_SIZE |-> 0]

(* Octets o written over the beginning of buffer b. *)
Overlay(b, o) == [i \in 1 .. Len(b) |-> IF i <= Len(o) THEN o[i] ELSE b[i]]

Init ==
    /\ phase = "idle"
    /\ buf = Zeros
    /\ question = None
    /\ wanted = 0
    /\ asked = None
    /\ served = None
    /\ reply = None
    /\ replied = None
    /\ answer = NoAnswer

SendRequest(id, m) ==
    /\ phase = "idle"
    /\ question' = m
    /\ wanted' = id
    /\ asked' = tcp_data_unit(id, m)
    /\ phase' = "asked"
    /\ UNCHANGED <<buf, served, reply, replied, answer>>

(* async_read_some, the size check and the data unit.  When its            *)
(* constructor throws the coroutine ends, and the next request meets a new *)
(* session with a new buffer.                                              *)
SessionReads ==
    LET n == IF Len(asked.buffer) < MAX_APU_SIZE THEN Len(asked.buffer) ELSE MAX_APU_SIZE
        b == Overlay(buf, asked.buffer)
        u == from_buffer(b, n, "request")
    IN  /\ phase = "asked"
        /\ served' = IF n < TCP_HEADER_SIZE + MIN_PDU_SIZE THEN Failure("malformed") ELSE u
        /\ buf' = IF served' = Failure("out_of_range") THEN Zeros ELSE b
        /\ phase' = "served"
        /\ UNCHANGED <<question, wanted, asked, reply, replied, answer>>

(* The handler answers with the id of the request; the session writes it. *)
HandlerReplies(m) ==
    /\ phase = "served"
    /\ DOMAIN served = {"type", "buffer"}
    /\ reply' = m
    /\ replied' = tcp_data_unit(transaction_id(served), m)
    /\ phase' = "replied"
    /\ UNCHANGED <<question, wanted, asked, buf, served, answer>>

read_response_but_truncating(o) ==
    [unit |-> from_buffer(Overlay(Zeros, o), TCP_HEADER_SIZE + LengthField(o), "response"),
     error |-> "none"]

(* tcp_client::read_response on the octets o. *)
read_response(o) ==
    LET n == TCP_HEADER_SIZE + LengthField(o)
    IN  IF n > MAX_APU_SIZE
        THEN [unit |-> empty_unit, error |-> "invalid_response"]
        ELSE [unit |-> from_buffer(Overlay(Zeros, SubSeq(o, 1, n)), n, "response"),
              error |-> "none"]

ClientReads ==
    /\ phase = "replied"
    /\ answer' = read_response(replied.buffer)
    /\ phase' = "answered"
    /\ UNCHANGED <<question, wanted, asked, buf, served, reply, replied>>

(* The next request: the buffer of the session is all that is kept. *)
Again ==
    /\ phase \in {"served", "answered"}
    /\ phase' = "idle"
    /\ question' = None
    /\ wanted' = 0
    /\ asked' = None
    /\ served' = None
    /\ reply' = None
    /\ replied' = None
    /\ answer' = NoAnswer
    /\ UNCHANGED buf

(* Or the same data unit again, under another transaction id. *)
SendAgain(id) ==
    /\ phase \in {"served", "answered"}
    /\ phase' = "asked"
    /\ wanted' = id
    /\ asked' = set_transaction_id(asked, id)
    /\ served' = None
    /\ reply' = None
    /\ replied' = None
    /\ answer' = NoAnswer
    /\ UNCHANGED <<question, buf>>

Next ==
    \/ \E id \in TransactionIds, m \in Questions : SendRequest(id, m)
    \/ SessionReads
    \/ \E m \in Replies : HandlerReplies(m)
    \/ ClientReads
    \/ Again
    \/ \E id \in TransactionIds : SendAgain(id)

Spec == Init /\ [][Next]_vars

-----------------------------------------------------------------------------
(* Properties *)

(* The buffers have room for the message. *)
Fits(m) == TCP_HEADER_SIZE + size(m) <= MAX_APU_SIZE

(* Unit u is message m and no other, under the id of the request. *)
IsExactly(u, m) ==
    /\ transaction_id(u) = wanted
    /\ message_length(u) = size(m)
    /\ unit_id(u) = m.unit_id
    /\ exception_code(u) = (IF m.layout = exception_response THEN m.fields[2] ELSE 0)
    /\ \A l \in Layouts : pdu(u, l) = (IF l = m.layout THEN m ELSE Failure("nullopt"))

IsNothing(u) == \A l \in Layouts : pdu(u, l) = Failure("nullopt")

(* The handler gets the request the client sent, as a message of that kind *)
(* only and unmixed with what earlier requests left in the session's       *)
(* buffer; a request too long for the buffer is never cut short, it ends   *)
(* the session.                                                            *)
RequestArrives ==
    phase = "served" =>
        IF Fits(question) THEN IsExactly(served, question)
        ELSE served = Failure("out_of_range")

(* The client gets the response the handler returned, exceptions included, *)
(* with the id of its own request (set_transaction_id may have changed it  *)
(* for a second attempt), or invalid_response and a unit in which no       *)
(* message is found when the response does not fit.                        *)
ResponseArrives ==
    phase = "answered" =>
        IF Fits(reply) THEN IsExactly(answer.unit, reply) /\ answer.error = "none"
        ELSE IsNothing(answer.unit) /\ answer.error = "invalid_response"

(* The constructor from header and payload makes the same of a response as *)
(* the one from a receive buffer, and refuses a payload cut short.         *)
PartsAgree ==
    phase = "replied" =>
        LET o == replied.buffer
            header == SubSeq(o, 1, TCP_HEADER_SIZE)
            payload == SubSeq(o, TCP_HEADER_SIZE + 1, Len(o))
        IN  /\ IsExactly(from_parts(header, payload, Len(payload), "response"), reply)
            /\ from_parts(header, Tail(payload), Len(payload) - 1, "response")
                   = Failure("out_of_range")

(* tcp_client.cpp:180, "Data should equal the request": a response that    *)
(* mirrors its request octet by octet is valid.                            *)
EchoIsValid ==
    phase = "answered" /\ answer.error = "none" /\ replied.buffer = asked.buffer =>
        validate_response(asked, answer.unit) = "success"
=============================================================================
