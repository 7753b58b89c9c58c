--------------------------- MODULE ExchangeProofs ---------------------------
(***************************************************************************)
(* Theorems about requests and responses through the buffers of both       *)
(* sides: what arrives is what was sent, whatever a buffer held before.    *)
(***************************************************************************)
EXTENDS Exchange, CodecProofs

-----------------------------------------------------------------------------
(* Messages found in buffers *)

(* A data unit over a buffer that carries m under id is exactly m. *)
LEMMA Exactly ==
  ASSUME NEW m, WellFormed(m), wanted \in Words, NEW b, Carries(b, wanted, m)
  PROVE  IsExactly(DataUnit(m.layout.type, b), m)
  <1>1. PICK u : u = DataUnit(m.layout.type, b) /\ u.buffer = b
    <2>1. DataUnit(m.layout.type, b).buffer = b
      BY DEF DataUnit
    <2> QED
      BY <2>1
  <1>2. transaction_id(u) = wanted
    BY <1>1, Halves DEF transaction_id, Carries
  <1>3. message_length(u) = size(m)
    <2>1. PICK z \in 3 .. 266 : z = size(m)
      BY Sizes
    <2>2. b[5] = Hi(z) /\ b[6] = Lo(z)
      BY <2>1 DEF Carries
    <2>3. Word(Hi(z), Lo(z)) = z
      BY HeaderArithmetic
    <2> QED
      BY <1>1, <2>1, <2>2, <2>3 DEF message_length, LengthField
  <1>4. CASE m.layout = exception_response
    <2>1. /\ unit_id(u) = m.unit_id /\ exception_code(u) = m.fields[2]
          /\ \A l \in Layouts : pdu(u, l) = IF l = m.layout THEN m ELSE Failure("nullopt")
      BY <1>1, <1>4, FoundException
    <2> QED
      BY <1>1, <1>2, <1>3, <1>4, <2>1 DEF IsExactly
  <1>5. CASE m.layout # exception_response
    <2>1. /\ unit_id(u) = m.unit_id
          /\ function_code(u) = m.layout.code /\ ~is_exception(u)
          /\ \A l \in Layouts : pdu(u, l) = IF l = m.layout THEN m ELSE Failure("nullopt")
      BY <1>1, <1>5, FoundPlain
    <2>2. exception_code(u) = 0
      BY <2>1 DEF exception_code
    <2> QED
      BY <1>1, <1>2, <1>3, <1>5, <2>1, <2>2 DEF IsExactly
  <1> QED
    BY <1>4, <1>5

-----------------------------------------------------------------------------
(* Writing, reading and renumbering a data unit *)

(* A receive buffer. *)
Buffers == [1 .. MAX_APU_SIZE -> Octets]

LEMMA BufferSize == MAX_APU_SIZE \in 10 .. 256 /\ MAX_APU_SIZE \in Nat
  BY ExchangeAssumption DEF TCP_HEADER_SIZE, MIN_PDU_SIZE

LEMMA ZerosTyped == Zeros \in Buffers
  BY BufferSize, HeaderArithmetic DEF Zeros, Buffers

LEMMA Overlaid ==
  ASSUME NEW b \in Buffers, NEW o \in Seq(Octets)
  PROVE  /\ Overlay(b, o) \in Buffers
         /\ Overlay(b, o) \in Seq(Octets) /\ Len(Overlay(b, o)) = MAX_APU_SIZE
         /\ \A i \in 1 .. MAX_APU_SIZE : i <= Len(o) => Overlay(b, o)[i] = o[i]
  <1>1. MAX_APU_SIZE \in Nat
    BY BufferSize
  <1>2. b \in Seq(Octets) /\ Len(b) = MAX_APU_SIZE
    BY <1>1, TypedFunction DEF Buffers
  <1>3. PICK l \in Nat : l = Len(o) /\ \A i \in 1 .. l : o[i] \in Octets
    OBVIOUS
  <1>4. Overlay(b, o) = [i \in 1 .. MAX_APU_SIZE |-> IF i <= l THEN o[i] ELSE b[i]]
    BY <1>2, <1>3 DEF Overlay
  <1>5. \A i \in 1 .. MAX_APU_SIZE : (IF i <= l THEN o[i] ELSE b[i]) \in Octets
    BY <1>1, <1>3 DEF Buffers
  <1>6. Overlay(b, o) \in Buffers
    BY <1>4, <1>5 DEF Buffers
  <1>7. \A i \in 1 .. MAX_APU_SIZE : i <= l => Overlay(b, o)[i] = o[i]
    BY <1>4
  <1>8. Overlay(b, o) \in Seq(Octets) /\ Len(Overlay(b, o)) = MAX_APU_SIZE
    BY <1>1, <1>6, TypedFunction DEF Buffers
  <1> QED
    BY <1>3, <1>6, <1>7, <1>8

(* Octets 5 and 6 tell the size of the message. *)
LEMMA LengthRead ==
  ASSUME NEW m, WellFormed(m), NEW o, o[5] = Hi(size(m)), o[6] = Lo(size(m))
  PROVE  LengthField(o) = size(m)
  <1>1. PICK z \in 3 .. 266 : z = size(m)
    BY Sizes
  <1> QED
    BY <1>1, HeaderArithmetic DEF LengthField

LEMMA ReadArithmetic ==
  \A z \in 3 .. 266, M \in 10 .. 256 :
     /\ 6 + z \in Nat /\ 5 \in 1 .. M /\ 6 \in 1 .. M /\ 5 <= 6 + z /\ 6 <= 6 + z
     /\ 6 + z <= M => /\ M >= 6 + z /\ ~(6 + z > M)
                      /\ ~(6 + z <= 6) /\ ~(6 + z - 6 < z)
                      /\ \A i \in 1 .. 6 + z : i \in 1 .. M /\ i <= 6 + z
     /\ ~(6 + z <= M) => ~(6 + z < M) /\ M - 6 < z /\ 6 + z > M
     /\ z >= 6 => ~(6 + z < 10)
     /\ ~(M < 10)
     /\ ~(6 + z < M) /\ 6 + z <= M => M = 6 + z
  OBVIOUS

(* The octets of a unit in the reader's buffer. *)
LEMMA ArrivesIn ==
  ASSUME NEW m, WellFormed(m), NEW id \in Words, NEW b \in Buffers,
         NEW o, o = tcp_data_unit(id, m).buffer
  PROVE  /\ Overlay(b, o) \in Buffers
         /\ LengthField(Overlay(b, o)) = size(m)
         /\ Fits(m) => Carries(Overlay(b, o), id, m)
  <1>1. Carries(o, id, m) /\ o \in Seq(Octets) /\ Len(o) = 6 + size(m)
    BY UnitCarries DEF Carries
  <1>2. PICK z \in 3 .. 266 : z = size(m)
    BY Sizes
  <1>3. PICK v \in Seq(Octets) : /\ v = Overlay(b, o) /\ v \in Buffers
                                 /\ Len(v) = MAX_APU_SIZE
                                 /\ \A i \in 1 .. MAX_APU_SIZE : i <= Len(o) => v[i] = o[i]
    <2>1. /\ Overlay(b, o) \in Buffers
          /\ Overlay(b, o) \in Seq(Octets) /\ Len(Overlay(b, o)) = MAX_APU_SIZE
          /\ \A i \in 1 .. MAX_APU_SIZE : i <= Len(o) => Overlay(b, o)[i] = o[i]
      BY <1>1, Overlaid
    <2> QED
      BY <2>1, Zenon
  <1>4. /\ 5 \in 1 .. MAX_APU_SIZE /\ 6 \in 1 .. MAX_APU_SIZE /\ 5 <= 6 + z /\ 6 <= 6 + z
        /\ 6 + z <= MAX_APU_SIZE =>
              /\ MAX_APU_SIZE >= 6 + z
              /\ \A i \in 1 .. 6 + z : i \in 1 .. MAX_APU_SIZE /\ i <= 6 + z
    <2>1. PICK M \in 10 .. 256 : M = MAX_APU_SIZE
      BY BufferSize
    <2>2. 5 \in 1 .. M /\ 6 \in 1 .. M /\ 5 <= 6 + z /\ 6 <= 6 + z
      OBVIOUS
    <2>3. ASSUME 6 + z <= M
          PROVE  M >= 6 + z /\ \A i \in 1 .. 6 + z : i \in 1 .. M /\ i <= 6 + z
      BY <2>3
    <2> QED
      BY <2>1, <2>2, <2>3, Zenon
  <1>5. v[5] = o[5] /\ v[6] = o[6]
    BY <1>1, <1>2, <1>3, <1>4, Zenon
  <1>6. LengthField(v) = size(m)
    <2>1. v[5] = Hi(size(m)) /\ v[6] = Lo(size(m))
      BY <1>1, <1>5 DEF Carries
    <2> QED
      BY <2>1, LengthRead
  <1>7. ASSUME Fits(m) PROVE Carries(v, id, m)
    <2>1. 6 + z <= MAX_APU_SIZE
      BY <1>2, <1>7 DEF Fits, TCP_HEADER_SIZE
    <2>2. Len(v) >= 6 + size(m) /\ \A i \in 1 .. 6 + size(m) : v[i] = o[i]
      BY <1>1, <1>2, <1>3, <1>4, <2>1, Zenon
    <2> QED
      BY <1>1, <2>2, BeginsAlike
  <1> QED
    BY <1>3, <1>6, <1>7

(* What from_buffer makes of octets read: a unit over all of the buffer,   *)
(* or an exception when the buffer did not hold the message.               *)
LEMMA FromBuffer ==
  ASSUME NEW m, WellFormed(m), NEW b, LengthField(b) = size(m), NEW n, NEW type
  PROVE  /\ Fits(m) /\ n = 6 + size(m) => from_buffer(b, n, type) = DataUnit(type, b)
         /\ ~Fits(m) /\ n = MAX_APU_SIZE => from_buffer(b, n, type) = Failure("out_of_range")
  <1>1. PICK z \in 3 .. 266 : z = size(m)
    BY Sizes
  <1>2. Fits(m) <=> 6 + z <= MAX_APU_SIZE
    BY <1>1 DEF Fits, TCP_HEADER_SIZE
  <1>3. /\ 6 + z <= MAX_APU_SIZE => ~(6 + z <= 6) /\ ~(6 + z - 6 < z)
        /\ ~(6 + z <= MAX_APU_SIZE) => MAX_APU_SIZE - 6 < z
    BY BufferSize, ReadArithmetic
  <1>4. /\ Fits(m) /\ n = 6 + size(m) => ~(n <= 6) /\ ~(n - 6 < LengthField(b))
        /\ ~Fits(m) /\ n = MAX_APU_SIZE => n - 6 < LengthField(b)
    BY <1>1, <1>2, <1>3
  <1> QED
    BY <1>4, Zenon DEF from_buffer, TCP_HEADER_SIZE

LEMMA SeqIsFunction ==
  ASSUME NEW S, NEW s \in Seq(S)
  PROVE  /\ s = [i \in 1 .. Len(s) |-> s[i]] /\ DOMAIN s = 1 .. Len(s)
         /\ SubSeq(s, 1, Len(s)) = s
  OBVIOUS

(* read_response on the octets of a unit. *)
LEMMA ReadResponse ==
  ASSUME NEW m, WellFormed(m), NEW id \in Words, NEW o, o = tcp_data_unit(id, m).buffer
  PROVE  /\ Fits(m) => /\ read_response(o) = [unit |-> DataUnit("response", Overlay(Zeros, o)),
                                              error |-> "none"]
                       /\ Carries(Overlay(Zeros, o), id, m)
         /\ ~Fits(m) => read_response(o) = [unit |-> empty_unit, error |-> "invalid_response"]
  <1>1. /\ Carries(o, id, m) /\ o \in Seq(Octets) /\ Len(o) = 6 + size(m)
        /\ o[5] = Hi(size(m)) /\ o[6] = Lo(size(m))
    BY UnitCarries DEF Carries
  <1>2. PICK z \in 3 .. 266 : z = size(m)
    BY Sizes
  <1>3. LengthField(o) = size(m)
    BY <1>1, LengthRead
  <1>4. SubSeq(o, 1, 6 + size(m)) = o
    <2>1. SubSeq(o, 1, Len(o)) = o
      BY <1>1, SeqIsFunction
    <2> QED
      BY <1>1, <2>1
  <1>5. /\ Fits(m) <=> 6 + size(m) <= MAX_APU_SIZE
        /\ Fits(m) => ~(6 + size(m) > MAX_APU_SIZE)
        /\ ~Fits(m) => 6 + size(m) > MAX_APU_SIZE
    <2>1. /\ 6 + z <= MAX_APU_SIZE => ~(6 + z > MAX_APU_SIZE)
          /\ ~(6 + z <= MAX_APU_SIZE) => 6 + z > MAX_APU_SIZE
      BY BufferSize, ReadArithmetic, Zenon
    <2> QED
      BY <1>2, <2>1, Zenon DEF Fits, TCP_HEADER_SIZE
  <1>6. ASSUME Fits(m)
        PROVE  /\ read_response(o) = [unit |-> DataUnit("response", Overlay(Zeros, o)),
                                      error |-> "none"]
               /\ Carries(Overlay(Zeros, o), id, m)
    <2>1. /\ LengthField(Overlay(Zeros, o)) = size(m)
          /\ Carries(Overlay(Zeros, o), id, m)
      BY <1>6, ZerosTyped, ArrivesIn
    <2>2. from_buffer(Overlay(Zeros, o), 6 + size(m), "response")
             = DataUnit("response", Overlay(Zeros, o))
      BY <1>6, <2>1, FromBuffer
    <2>3. read_response(o) =
             [unit |-> from_buffer(Overlay(Zeros, SubSeq(o, 1, 6 + size(m))), 6 + size(m),
                                   "response"),
              error |-> "none"]
      BY <1>3, <1>5, <1>6, Zenon DEF read_response, TCP_HEADER_SIZE
    <2> QED
      BY <1>4, <2>1, <2>2, <2>3, Zenon
  <1>7. ASSUME ~Fits(m)
        PROVE  read_response(o) = [unit |-> empty_unit, error |-> "invalid_response"]
    BY <1>3, <1>5, <1>7, Zenon DEF read_response, TCP_HEADER_SIZE
  <1> QED
    BY <1>6, <1>7

(* What it means to write the first two octets of f, of length n. *)
Headed(f, n, x, y) ==
  [f EXCEPT ![1] = x, ![2] = y] =
     [i \in 1 .. n |-> IF i = 1 THEN x ELSE IF i = 2 THEN y ELSE f[i]]

LEMMA TwoChanged ==
  ASSUME NEW n \in Nat, NEW f, f = [i \in 1 .. n |-> f[i]], NEW x, NEW y
  PROVE  Headed(f, n, x, y)
  <1>1. DOMAIN f = 1 .. n
    OBVIOUS
  <1>2. PICK g : g = [i \in 1 .. n |-> IF i = 1 THEN x ELSE f[i]]
    OBVIOUS
  <1>3. [f EXCEPT ![1] = x] = g
    BY <1>1, <1>2
  <1>4. [g EXCEPT ![2] = y] = [i \in 1 .. n |-> IF i = 1 THEN x ELSE IF i = 2 THEN y ELSE f[i]]
    BY <1>2
  <1>5. [f EXCEPT ![1] = x, ![2] = y] = [[f EXCEPT ![1] = x] EXCEPT ![2] = y]
    OBVIOUS
  <1> QED
    BY <1>3, <1>4, <1>5 DEF Headed

(* A unit given another transaction id is the unit made with that id. *)
LEMMA Renumbered ==
  ASSUME NEW m, WellFormed(m), NEW id \in Words, NEW id2 \in Words
  PROVE  set_transaction_id(tcp_data_unit(id, m), id2) = tcp_data_unit(id2, m)
  <1>1. PICK a : a = tcp_data_unit(id, m).buffer
    OBVIOUS
  <1>2. PICK b : b = tcp_data_unit(id2, m).buffer
    OBVIOUS
  <1>3. PICK z \in 3 .. 266 : z = size(m)
    BY Sizes
  <1>4. /\ a \in Seq(Octets) /\ Len(a) = 6 + z /\ Carries(a, id, m)
        /\ b \in Seq(Octets) /\ Len(b) = 6 + z /\ Carries(b, id2, m)
    BY <1>1, <1>2, <1>3, UnitCarries DEF Carries
  <1>5. /\ tcp_data_unit(id, m) = [type |-> m.layout.type, buffer |-> a]
        /\ tcp_data_unit(id2, m) = [type |-> m.layout.type, buffer |-> b]
    BY <1>1, <1>2 DEF tcp_data_unit, DataUnit
  <1>6. /\ a[3] = b[3] /\ a[4] = b[4] /\ a[5] = b[5] /\ a[6] = b[6]
        /\ b[1] = Hi(id2) /\ b[2] = Lo(id2)
        /\ \A i \in 1 .. z : a[6 + i] = b[6 + i]
    BY <1>3, <1>4, Zenon DEF Carries
  <1>7. \A i \in 1 .. 6 + z :
           b[i] = (IF i = 1 THEN Hi(id2) ELSE IF i = 2 THEN Lo(id2) ELSE a[i])
    <2>1. \A i \in 1 .. 6 + z : \/ i \in {1, 2, 3, 4, 5, 6}
                                \/ i - 6 \in 1 .. z /\ i # 1 /\ i # 2 /\ i = 6 + (i - 6)
      OBVIOUS
    <2> TAKE i \in 1 .. 6 + z
    <2>2. CASE i \in {1, 2, 3, 4, 5, 6}
      BY <1>6, <2>2
    <2>3. CASE i - 6 \in 1 .. z /\ i # 1 /\ i # 2 /\ i = 6 + (i - 6)
      <3>1. PICK j \in 1 .. z : i = 6 + j /\ i # 1 /\ i # 2
        BY <2>3
      <3> QED
        BY <1>6, <3>1, Zenon
    <2> QED
      BY <2>1, <2>2, <2>3
  <1>8. [a EXCEPT ![1] = Hi(id2), ![2] = Lo(id2)] = b
    <2>1. /\ a = [i \in 1 .. 6 + z |-> a[i]] /\ DOMAIN a = 1 .. 6 + z
          /\ b = [i \in 1 .. 6 + z |-> b[i]]
      BY <1>4, SeqIsFunction
    <2>2. [a EXCEPT ![1] = Hi(id2), ![2] = Lo(id2)] =
             [i \in 1 .. 6 + z |-> IF i = 1 THEN Hi(id2) ELSE IF i = 2 THEN Lo(id2) ELSE a[i]]
      <3>1. PICK n, x, y : n \in Nat /\ n = 6 + z /\ x = Hi(id2) /\ y = Lo(id2)
        OBVIOUS
      <3>2. a = [i \in 1 .. n |-> a[i]]
        BY <2>1, <3>1, Zenon
      <3>3. Headed(a, n, x, y)
        <4>1. n \in Nat
          BY <3>1
        <4> QED
          BY <3>2, <4>1, TwoChanged
      <3>4. Headed(a, 6 + z, Hi(id2), Lo(id2))
        BY <3>1, <3>3, Zenon
      <3> QED
        BY <3>4, Zenon DEF Headed
    <2>3. [i \in 1 .. 6 + z |-> IF i = 1 THEN Hi(id2) ELSE IF i = 2 THEN Lo(id2) ELSE a[i]] =
             [i \in 1 .. 6 + z |-> b[i]]
      BY <1>7, Zenon
    <2> QED
      BY <2>1, <2>2, <2>3, Zenon
  <1>9. set_transaction_id(tcp_data_unit(id, m), id2) =
           [type |-> m.layout.type, buffer |-> [a EXCEPT ![1] = Hi(id2), ![2] = Lo(id2)]]
    <2>1. PICK u, t, x, y : /\ u = tcp_data_unit(id, m) /\ t = m.layout.type
                            /\ x = Hi(id2) /\ y = Lo(id2)
      OBVIOUS
    <2>2. u = [type |-> t, buffer |-> a]
      BY <1>5, <2>1
    <2>3. [u EXCEPT !.buffer[1] = x, !.buffer[2] = y] =
             [type |-> t, buffer |-> [a EXCEPT ![1] = x, ![2] = y]]
      <3>1. [u EXCEPT !.buffer[1] = x] = [type |-> t, buffer |-> [a EXCEPT ![1] = x]]
        BY <2>2
      <3>2. PICK w : w = [type |-> t, buffer |-> [a EXCEPT ![1] = x]]
        OBVIOUS
      <3>3. [w EXCEPT !.buffer[2] = y] =
               [type |-> t, buffer |-> [[a EXCEPT ![1] = x] EXCEPT ![2] = y]]
        BY <3>2
      <3>4. [u EXCEPT !.buffer[1] = x, !.buffer[2] = y] = [w EXCEPT !.buffer[2] = y]
        BY <3>1, <3>2
      <3>5. [[a EXCEPT ![1] = x] EXCEPT ![2] = y] = [a EXCEPT ![1] = x, ![2] = y]
        OBVIOUS
      <3> QED
        BY <3>3, <3>4, <3>5
    <2>4. set_transaction_id(u, id2) = [u EXCEPT !.buffer[1] = x, !.buffer[2] = y]
      BY <2>1 DEF set_transaction_id
    <2> QED
      BY <2>1, <2>3, <2>4
  <1> QED
    BY <1>5, <1>8, <1>9, Zenon

-----------------------------------------------------------------------------
(* The exchange *)

(* What is on its way is what was sent: the inductive invariant. *)
Sent ==
  phase # "idle" => /\ question \in Questions /\ wanted \in TransactionIds
                    /\ asked = tcp_data_unit(wanted, question)

(* The session has the request in its buffer, or has refused it. *)
Served ==
  phase = "served" =>
      IF Fits(question)
      THEN served = DataUnit("request", served.buffer) /\ Carries(served.buffer, wanted, question)
      ELSE served = Failure("out_of_range")

Answered ==
  /\ phase \in {"replied", "answered"} =>
        reply \in Replies /\ replied = tcp_data_unit(wanted, reply)
  /\ phase = "answered" => answer = read_response(replied.buffer)

ExchangeInv ==
  /\ phase \in {"idle", "asked", "served", "replied", "answered"}
  /\ buf \in Buffers
  /\ Sent /\ Served /\ Answered

LEMMA Messages ==
  /\ \A m \in Questions : WellFormed(m) /\ m.layout.type = "request"
  /\ \A m \in Replies : WellFormed(m) /\ m.layout.type = "response"
  /\ \A id \in TransactionIds : id \in Words
  BY ExchangeAssumption

(* What SessionReads does with a request in flight. *)
LEMMA SessionStep ==
  ASSUME NEW m, WellFormed(m), m.layout.type = "request", NEW id \in Words, NEW b \in Buffers,
         NEW o, o = tcp_data_unit(id, m).buffer,
         NEW n, n = IF Len(o) < MAX_APU_SIZE THEN Len(o) ELSE MAX_APU_SIZE
  PROVE  /\ ~(n < TCP_HEADER_SIZE + MIN_PDU_SIZE)
         /\ Overlay(b, o) \in Buffers
         /\ Fits(m) => /\ from_buffer(Overlay(b, o), n, "request")
                             = DataUnit("request", Overlay(b, o))
                       /\ Carries(Overlay(b, o), id, m)
         /\ ~Fits(m) => from_buffer(Overlay(b, o), n, "request") = Failure("out_of_range")
  <1>1. /\ Overlay(b, o) \in Buffers /\ LengthField(Overlay(b, o)) = size(m)
        /\ Fits(m) => Carries(Overlay(b, o), id, m)
    BY ArrivesIn
  <1>2. PICK z \in 3 .. 266 : z = size(m) /\ Len(o) = 6 + z /\ z >= 6
    BY Sizes, UnitCarries
  <1>3. PICK M \in 10 .. 256 : M = MAX_APU_SIZE
    BY BufferSize
  <1>4. n = IF 6 + z < M THEN 6 + z ELSE M
    BY <1>2, <1>3
  <1>5. ~(n < 10)
    BY <1>2, <1>4
  <1>6. 6 + z <= M => n = 6 + z
    BY <1>4
  <1>7. ~(6 + z <= M) => n = M
    BY <1>4
  <1>8. /\ Fits(m) => n = 6 + size(m)
        /\ ~Fits(m) => n = MAX_APU_SIZE
    BY <1>2, <1>3, <1>6, <1>7, Zenon DEF Fits, TCP_HEADER_SIZE
  <1>9. TCP_HEADER_SIZE + MIN_PDU_SIZE = 10
    BY DEF TCP_HEADER_SIZE, MIN_PDU_SIZE
  <1>10. PICK v : v = Overlay(b, o) /\ LengthField(v) = size(m)
    BY <1>1
  <1>11. /\ Fits(m) => from_buffer(v, n, "request") = DataUnit("request", v)
         /\ ~Fits(m) => from_buffer(v, n, "request") = Failure("out_of_range")
    BY <1>8, <1>10, FromBuffer
  <1> QED
    BY <1>1, <1>5, <1>9, <1>10, <1>11, Zenon

LEMMA FailureIsNoUnit ==
  ASSUME NEW t, NEW b, NEW w
  PROVE  DOMAIN Failure(w) # {"type", "buffer"} /\ DataUnit(t, b) # Failure(w)
  BY DEF Failure, DataUnit

LEMMA ExchangeInvInit == Init => ExchangeInv
  BY ZerosTyped DEF Init, ExchangeInv, Sent, Served, Answered

LEMMA ExchangeInvStep == ExchangeInv /\ [Next]_vars => ExchangeInv'
  <1> SUFFICES ASSUME ExchangeInv, [Next]_vars PROVE ExchangeInv'
    OBVIOUS
  <1> USE DEF ExchangeInv, Sent, Served, Answered
  <1>1. ASSUME NEW id \in TransactionIds, NEW m \in Questions, SendRequest(id, m)
        PROVE  ExchangeInv'
    BY <1>1 DEF SendRequest
  <1>2. ASSUME SessionReads PROVE ExchangeInv'
    <2>1. PICK o, n, b : /\ o = tcp_data_unit(wanted, question).buffer
                         /\ n = (IF Len(o) < MAX_APU_SIZE THEN Len(o) ELSE MAX_APU_SIZE)
                         /\ b = Overlay(buf, o)
      OBVIOUS
    <2>2. asked.buffer = o
      BY <1>2, <2>1 DEF SessionReads
    <2>3. /\ phase = "asked" /\ phase' = "served"
          /\ served' = IF n < TCP_HEADER_SIZE + MIN_PDU_SIZE THEN Failure("malformed")
                       ELSE from_buffer(b, n, "request")
          /\ buf' = IF served' = Failure("out_of_range") THEN Zeros ELSE b
          /\ UNCHANGED <<question, wanted, asked, reply, replied, answer>>
      BY <1>2, <2>1, <2>2, Zenon DEF SessionReads
    <2>4. /\ question \in Questions /\ WellFormed(question) /\ question.layout.type = "request"
          /\ wanted \in TransactionIds /\ wanted \in Words
      BY <2>3, Messages
    <2>5. /\ ~(n < TCP_HEADER_SIZE + MIN_PDU_SIZE) /\ b \in Buffers
          /\ Fits(question) => /\ from_buffer(b, n, "request") = DataUnit("request", b)
                               /\ Carries(b, wanted, question)
          /\ ~Fits(question) => from_buffer(b, n, "request") = Failure("out_of_range")
      BY <2>1, <2>4, SessionStep
    <2>6. served' = from_buffer(b, n, "request") /\ buf' \in Buffers
      BY <2>3, <2>5, ZerosTyped
    <2>7. ASSUME Fits(question)
          PROVE  /\ served' = DataUnit("request", served'.buffer)
                 /\ Carries(served'.buffer, wanted, question)
      <3>1. served' = DataUnit("request", b)
        BY <2>5, <2>6, <2>7
      <3>2. served'.buffer = b
        BY <3>1 DEF DataUnit
      <3> QED
        BY <2>5, <2>7, <3>1, <3>2
    <2>8. Served'
      BY <2>3, <2>5, <2>6, <2>7 DEF Fits
    <2> QED
      BY <2>3, <2>6, <2>8
  <1>3. ASSUME NEW m \in Replies, HandlerReplies(m) PROVE ExchangeInv'
    <2>1. phase = "served" /\ DOMAIN served = {"type", "buffer"}
      BY <1>3 DEF HandlerReplies
    <2>2. question \in Questions /\ WellFormed(question) /\ wanted \in Words
      BY <2>1, Messages
    <2>3. served # Failure("out_of_range")
      BY <2>1, FailureIsNoUnit
    <2>4. Carries(served.buffer, wanted, question)
      BY <2>1, <2>3
    <2>5. transaction_id(served) = wanted
      BY <2>2, <2>4, Halves DEF transaction_id, Carries
    <2> QED
      BY <1>3, <2>1, <2>5 DEF HandlerReplies
  <1>4. ASSUME ClientReads PROVE ExchangeInv'
    BY <1>4 DEF ClientReads
  <1>5. ASSUME Again PROVE ExchangeInv'
    BY <1>5 DEF Again
  <1>6. ASSUME NEW id \in TransactionIds, SendAgain(id) PROVE ExchangeInv'
    <2>1. /\ phase # "idle" /\ phase' = "asked" /\ question' = question /\ wanted' = id
          /\ asked' = set_transaction_id(asked, id) /\ buf' = buf
      BY <1>6 DEF SendAgain
    <2>2. /\ question \in Questions /\ WellFormed(question)
          /\ wanted \in Words /\ id \in Words
      BY <2>1, Messages
    <2>3. asked' = tcp_data_unit(id, question)
      BY <2>1, <2>2, Renumbered
    <2> QED
      BY <2>1, <2>2, <2>3
  <1>7. CASE UNCHANGED vars
    BY <1>7 DEF vars, Fits
  <1> QED
    BY <1>1, <1>2, <1>3, <1>4, <1>5, <1>6, <1>7 DEF Next

LEMMA ExchangeInvariant == Spec => []ExchangeInv
  BY ExchangeInvInit, ExchangeInvStep, PTL DEF Spec

(* For all buffers of up to 256 octets, all transaction ids, requests and  *)
(* replies: the handler gets the request the client sent, whatever earlier *)
(* requests left in the session's buffer, or the session ends.             *)
THEOREM RequestsArrive == Spec => []RequestArrives
  <1>1. ExchangeInv => RequestArrives
    <2> SUFFICES ASSUME ExchangeInv, phase = "served"
                 PROVE  IF Fits(question) THEN IsExactly(served, question)
                        ELSE served = Failure("out_of_range")
      BY DEF RequestArrives
    <2>1. /\ WellFormed(question) /\ question.layout.type = "request" /\ wanted \in Words
      BY Messages DEF ExchangeInv, Sent
    <2>2. CASE Fits(question)
      <3>1. /\ served = DataUnit("request", served.buffer)
            /\ Carries(served.buffer, wanted, question)
        BY <2>2 DEF ExchangeInv, Served
      <3>2. IsExactly(DataUnit(question.layout.type, served.buffer), question)
        BY <2>1, <3>1, Exactly
      <3> QED
        BY <2>1, <2>2, <3>1, <3>2
    <2>3. CASE ~Fits(question)
      BY <2>3 DEF ExchangeInv, Served
    <2> QED
      BY <2>2, <2>3
  <1> QED
    BY <1>1, ExchangeInvariant, PTL

(* And the client gets the response the handler returned, or none. *)
THEOREM ResponsesArrive == Spec => []ResponseArrives
  <1>1. ExchangeInv => ResponseArrives
    <2> SUFFICES ASSUME ExchangeInv, phase = "answered"
                 PROVE  IF Fits(reply) THEN IsExactly(answer.unit, reply) /\ answer.error = "none"
                        ELSE IsNothing(answer.unit) /\ answer.error = "invalid_response"
      BY DEF ResponseArrives
    <2>1. /\ WellFormed(reply) /\ reply.layout.type = "response" /\ wanted \in Words
          /\ replied = tcp_data_unit(wanted, reply)
          /\ answer = read_response(replied.buffer)
      BY Messages DEF ExchangeInv, Sent, Answered
    <2>2. PICK o : o = tcp_data_unit(wanted, reply).buffer /\ answer = read_response(o)
      BY <2>1
    <2>3. CASE Fits(reply)
      <3>1. /\ answer = [unit |-> DataUnit("response", Overlay(Zeros, o)), error |-> "none"]
            /\ Carries(Overlay(Zeros, o), wanted, reply)
        BY <2>1, <2>2, <2>3, ReadResponse
      <3>2. IsExactly(DataUnit(reply.layout.type, Overlay(Zeros, o)), reply)
        BY <2>1, <3>1, Exactly
      <3> QED
        BY <2>1, <2>3, <3>1, <3>2
    <2>4. CASE ~Fits(reply)
      <3>1. answer = [unit |-> empty_unit, error |-> "invalid_response"]
        BY <2>1, <2>2, <2>4, ReadResponse
      <3>2. empty_unit.buffer = <<>> /\ Len(<<>>) = 0 /\ 0 < 8
        BY DEF empty_unit, DataUnit
      <3>3. IsNothing(empty_unit)
        BY <3>2 DEF IsNothing, pdu
      <3> QED
        BY <2>4, <3>1, <3>3
    <2> QED
      BY <2>3, <2>4
  <1> QED
    BY <1>1, ExchangeInvariant, PTL

(* A buffer cut after the header and put together again. *)
LEMMA CutAndJoined ==
  ASSUME NEW o \in Seq(Octets), NEW z \in Nat, Len(o) = 6 + z
  PROVE  /\ SubSeq(o, 1, 6) \in Seq(Octets) /\ Len(SubSeq(o, 1, 6)) = 6
         /\ \A i \in 1 .. 6 : SubSeq(o, 1, 6)[i] = o[i]
         /\ SubSeq(o, 7, 6 + z) \in Seq(Octets) /\ Len(SubSeq(o, 7, 6 + z)) = z
         /\ SubSeq(o, 1, 6) \o SubSeq(o, 7, 6 + z) = o
  <1>1. 0 \in Nat /\ 6 \in Nat /\ 0 + 6 <= Len(o) /\ 6 + z <= Len(o)
        /\ 0 + 1 = 1 /\ 0 + 6 = 6 /\ 6 + 1 = 7 /\ \A i \in 1 .. 6 : 0 + i = i
    OBVIOUS
  <1>2. PICK h \in Seq(Octets) : /\ h = SubSeq(o, 1, 6) /\ Len(h) = 6
                                 /\ \A i \in 1 .. 6 : h[i] = o[i]
    <2>1. /\ SubSeq(o, 0 + 1, 0 + 6) \in Seq(Octets) /\ Len(SubSeq(o, 0 + 1, 0 + 6)) = 6
          /\ \A i \in 1 .. 6 : SubSeq(o, 0 + 1, 0 + 6)[i] = o[0 + i]
      BY <1>1, Slice
    <2> QED
      BY <1>1, <2>1, Zenon
  <1>3. PICK p \in Seq(Octets) : /\ p = SubSeq(o, 7, 6 + z) /\ Len(p) = z
                                 /\ \A i \in 1 .. z : p[i] = o[6 + i]
    <2>1. /\ SubSeq(o, 6 + 1, 6 + z) \in Seq(Octets) /\ Len(SubSeq(o, 6 + 1, 6 + z)) = z
          /\ \A i \in 1 .. z : SubSeq(o, 6 + 1, 6 + z)[i] = o[6 + i]
      BY <1>1, Slice
    <2> QED
      BY <1>1, <2>1, Zenon
  <1>4. PICK w \in Seq(Octets) : /\ w = h \o p /\ Len(w) = Len(h) + Len(p)
                                 /\ \A i \in 1 .. Len(h) : w[i] = h[i]
                                 /\ \A i \in 1 .. Len(p) : w[Len(h) + i] = p[i]
    <2>1. /\ h \o p \in Seq(Octets) /\ Len(h \o p) = Len(h) + Len(p)
          /\ \A i \in 1 .. Len(h) : (h \o p)[i] = h[i]
          /\ \A i \in 1 .. Len(p) : (h \o p)[Len(h) + i] = p[i]
      BY Joined
    <2> QED
      BY <2>1, Zenon
  <1>5. /\ Len(w) = 6 + z /\ \A i \in 1 .. 6 : w[i] = o[i]
        /\ \A i \in 1 .. z : w[6 + i] = o[6 + i]
    <2>1. /\ Len(w) = 6 + z /\ \A i \in 1 .. 6 : w[i] = h[i]
          /\ \A i \in 1 .. z : w[6 + i] = p[i]
      BY <1>2, <1>3, <1>4
    <2> QED
      BY <1>2, <1>3, <2>1
  <1>6. \A i \in 1 .. 6 + z : w[i] = o[i]
    <2>1. \A i \in 1 .. 6 + z : i \in 1 .. 6 \/ \E j \in 1 .. z : i = 6 + j
      <3> TAKE i \in 1 .. 6 + z
      <3>1. i \in 1 .. 6 \/ (i - 6 \in 1 .. z /\ i = 6 + (i - 6))
        OBVIOUS
      <3> QED
        BY <3>1
    <2> QED
      BY <1>5, <2>1, Zenon
  <1>7. w = o
    <2>1. Len(w) = Len(o) /\ \A i \in 1 .. Len(w) : w[i] = o[i]
      BY <1>5, <1>6, Zenon
    <2> QED
      BY <2>1, SeqEqual
  <1> QED
    BY <1>2, <1>3, <1>4, <1>7

(* Header and payload make the same of a response as a receive buffer, and *)
(* a payload cut short is refused.                                         *)
THEOREM PartsAlwaysAgree == Spec => []PartsAgree
  <1>1. ExchangeInv => PartsAgree
    <2> SUFFICES ASSUME ExchangeInv, phase = "replied" PROVE PartsAgree
      BY DEF PartsAgree
    <2>1. /\ WellFormed(reply) /\ reply.layout.type = "response" /\ wanted \in Words
          /\ replied = tcp_data_unit(wanted, reply)
      BY Messages DEF ExchangeInv, Sent, Answered
    <2>2. PICK o : o = replied.buffer
      OBVIOUS
    <2>3. PICK z \in 3 .. 266 : z = size(reply)
      BY <2>1, Sizes
    <2>4. /\ o \in Seq(Octets) /\ Len(o) = 6 + z /\ Carries(o, wanted, reply)
          /\ o[3] = 0 /\ o[4] = 0 /\ o[5] = Hi(size(reply)) /\ o[6] = Lo(size(reply))
      BY <2>1, <2>2, <2>3, UnitCarries DEF Carries
    <2>5. z \in Nat /\ ~(z <= 0) /\ ~(z < z) /\ z - 1 < z
      OBVIOUS
    <2>6. PICK h \in Seq(Octets), p \in Seq(Octets) :
             /\ h = SubSeq(o, 1, 6) /\ p = SubSeq(o, 7, 6 + z) /\ h \o p = o
             /\ Len(p) = z /\ \A i \in 1 .. 6 : h[i] = o[i]
      <3>1. /\ SubSeq(o, 1, 6) \in Seq(Octets)
            /\ \A i \in 1 .. 6 : SubSeq(o, 1, 6)[i] = o[i]
            /\ SubSeq(o, 7, 6 + z) \in Seq(Octets) /\ Len(SubSeq(o, 7, 6 + z)) = z
            /\ SubSeq(o, 1, 6) \o SubSeq(o, 7, 6 + z) = o
        BY <2>4, <2>5, CutAndJoined
      <3> QED
        BY <3>1, Zenon
    <2>7. h[3] = 0 /\ h[4] = 0 /\ LengthField(h) = z
      <3>1. h[3] = o[3] /\ h[4] = o[4] /\ h[5] = o[5] /\ h[6] = o[6]
        BY <2>6
      <3>2. h[5] = Hi(size(reply)) /\ h[6] = Lo(size(reply))
        BY <2>4, <3>1
      <3>3. LengthField(h) = size(reply)
        BY <2>1, <3>2, LengthRead
      <3> QED
        BY <2>3, <2>4, <3>1, <3>3
    <2>8. from_parts(h, p, Len(p), "response") = DataUnit("response", o)
      BY <2>5, <2>6, <2>7, Zenon DEF from_parts
    <2>9. from_parts(h, Tail(p), Len(p) - 1, "response") = Failure("out_of_range")
      BY <2>5, <2>6, <2>7, Zenon DEF from_parts
    <2>10. IsExactly(DataUnit("response", o), reply)
      BY <2>1, <2>4, Exactly
    <2>11. TCP_HEADER_SIZE = 6 /\ TCP_HEADER_SIZE + 1 = 7
      BY DEF TCP_HEADER_SIZE
    <2> QED
      BY <2>2, <2>4, <2>6, <2>8, <2>9, <2>10, <2>11, Zenon DEF PartsAgree
  <1> QED
    BY <1>1, ExchangeInvariant, PTL
=============================================================================
