--------------------------- MODULE DataPathProofs ---------------------------
(***************************************************************************)
(* Theorems about the whole way of coils and registers between the memory  *)
(* of a server and the application of a client.                            *)
(***************************************************************************)
EXTENDS DataPath, DataMapProofs, CodecProofs

-----------------------------------------------------------------------------
(* Sets of bits and numbers *)

LEMMA Powers ==
  /\ 2^0 = 1 /\ 2^1 = 2 /\ 2^2 = 4 /\ 2^3 = 8
  /\ 2^4 = 16 /\ 2^5 = 32 /\ 2^6 = 64 /\ 2^7 = 128
  OBVIOUS

(* The binary digits of a number, lowest first. *)
LEMMA Digits ==
  ASSUME NEW n \in Nat,
         NEW x0 \in {0, 1}, NEW x1 \in {0, 1}, NEW x2 \in {0, 1}, NEW x3 \in {0, 1},
         NEW x4 \in {0, 1}, NEW x5 \in {0, 1}, NEW x6 \in {0, 1}, NEW x7 \in {0, 1},
         n = x0 + 2 * x1 + 4 * x2 + 8 * x3 + 16 * x4 + 32 * x5 + 64 * x6 + 128 * x7
  PROVE  /\ n <= 255
         /\ (n \div 1) % 2 = x0 /\ (n \div 2) % 2 = x1
         /\ (n \div 4) % 2 = x2 /\ (n \div 8) % 2 = x3
         /\ (n \div 16) % 2 = x4 /\ (n \div 32) % 2 = x5
         /\ (n \div 64) % 2 = x6 /\ (n \div 128) % 2 = x7
  <1>0. n <= 255 /\ n \div 1 = n
    OBVIOUS
  <1>1. PICK h1 \in Nat : h1 = x1 + 2 * x2 + 4 * x3 + 8 * x4 + 16 * x5 + 32 * x6 + 64 * x7
    OBVIOUS
  <1>2. PICK h2 \in Nat : h2 = x2 + 2 * x3 + 4 * x4 + 8 * x5 + 16 * x6 + 32 * x7
    OBVIOUS
  <1>3. PICK h3 \in Nat : h3 = x3 + 2 * x4 + 4 * x5 + 8 * x6 + 16 * x7
    OBVIOUS
  <1>4. PICK h4 \in Nat : h4 = x4 + 2 * x5 + 4 * x6 + 8 * x7
    OBVIOUS
  <1>5. PICK h5 \in Nat : h5 = x5 + 2 * x6 + 4 * x7
    OBVIOUS
  <1>6. PICK h6 \in Nat : h6 = x6 + 2 * x7
    OBVIOUS
  <1>7. /\ n = x0 + 2 * h1 /\ h1 = x1 + 2 * h2 /\ h2 = x2 + 2 * h3 /\ h3 = x3 + 2 * h4
        /\ h4 = x4 + 2 * h5 /\ h5 = x5 + 2 * h6
    BY <1>1, <1>2, <1>3, <1>4, <1>5, <1>6
  <1>8. /\ n % 2 = x0 /\ h1 % 2 = x1 /\ h2 % 2 = x2 /\ h3 % 2 = x3
        /\ h4 % 2 = x4 /\ h5 % 2 = x5 /\ h6 % 2 = x6 /\ x7 % 2 = x7
    BY <1>6, <1>7
  <1>9. n \div 2 = h1 /\ n \div 4 = h2 /\ n \div 8 = h3 /\ n \div 16 = h4
    BY <1>7
  <1>10. n \div 32 = h5 /\ n \div 64 = h6 /\ n \div 128 = x7
    BY <1>6, <1>7
  <1> QED
    BY <1>0, <1>8, <1>9, <1>10

(* The function by which Number adds up its bits. *)
Adds(f, bits) ==
  f = [k \in 0 .. 8 |->
          IF k = 0 THEN 0 ELSE f[k - 1] + (IF k - 1 \in bits THEN 2^(k - 1) ELSE 0)]

LEMMA NumberAdds ==
  ASSUME NEW bits, \E f : Adds(f, bits)
  PROVE  \E f : Adds(f, bits) /\ Number(bits) = f[8]
  <1>1. PICK c : c = CHOOSE f : Adds(f, bits)
    OBVIOUS
  <1>2. Adds(c, bits)
    BY <1>1, Zenon
  <1>3. c = CHOOSE f : f = [k \in 0 .. 8 |->
          IF k = 0 THEN 0 ELSE f[k - 1] + (IF k - 1 \in bits THEN 2^(k - 1) ELSE 0)]
    BY <1>1, Zenon DEF Adds
  <1>4. Number(bits) = c[8]
    BY <1>3, Zenon DEF Number
  <1> QED
    BY <1>2, <1>4

LEMMA NumberOf ==
  ASSUME NEW bits
  PROVE  \E x0, x1, x2, x3, x4, x5, x6, x7 \in {0, 1} :
            /\ x0 = 1 <=> 0 \in bits
            /\ x1 = 1 <=> 1 \in bits
            /\ x2 = 1 <=> 2 \in bits
            /\ x3 = 1 <=> 3 \in bits
            /\ x4 = 1 <=> 4 \in bits
            /\ x5 = 1 <=> 5 \in bits
            /\ x6 = 1 <=> 6 \in bits
            /\ x7 = 1 <=> 7 \in bits
            /\ Number(bits) =
                  x0 + 2 * x1 + 4 * x2 + 8 * x3 + 16 * x4 + 32 * x5 + 64 * x6 + 128 * x7
  <1>1. PICK x0, x1, x2, x3, x4, x5, x6, x7 \in {0, 1} :
           /\ x0 = 1 <=> 0 \in bits
           /\ x1 = 1 <=> 1 \in bits
           /\ x2 = 1 <=> 2 \in bits
           /\ x3 = 1 <=> 3 \in bits
           /\ x4 = 1 <=> 4 \in bits
           /\ x5 = 1 <=> 5 \in bits
           /\ x6 = 1 <=> 6 \in bits
           /\ x7 = 1 <=> 7 \in bits
    <2>1. \A b : \E x \in {0, 1} : x = 1 <=> b \in bits
      <3> TAKE b
      <3>1. CASE b \in bits
        <4> WITNESS 1 \in {0, 1}
        <4> QED
          BY <3>1
      <3>2. CASE b \notin bits
        <4> WITNESS 0 \in {0, 1}
        <4> QED
          BY <3>2
      <3> QED
        BY <3>1, <3>2
    <2> QED
      BY <2>1, Zenon
  <1>2. PICK e0 \in Nat, e1 \in Nat, e2 \in Nat, e3 \in Nat, e4 \in Nat, e5 \in Nat,
             e6 \in Nat, e7 \in Nat, e8 \in Nat :
           /\ e0 = 0 /\ e1 = e0 + x0 /\ e2 = e1 + 2 * x1 /\ e3 = e2 + 4 * x2 /\ e4 = e3 + 8 * x3
           /\ e5 = e4 + 16 * x4 /\ e6 = e5 + 32 * x5 /\ e7 = e6 + 64 * x6 /\ e8 = e7 + 128 * x7
    OBVIOUS
  <1>3. /\ e1 = e0 + (IF 0 \in bits THEN 2^0 ELSE 0) /\ e2 = e1 + (IF 1 \in bits THEN 2^1 ELSE 0)
        /\ e3 = e2 + (IF 2 \in bits THEN 2^2 ELSE 0) /\ e4 = e3 + (IF 3 \in bits THEN 2^3 ELSE 0)
        /\ e5 = e4 + (IF 4 \in bits THEN 2^4 ELSE 0) /\ e6 = e5 + (IF 5 \in bits THEN 2^5 ELSE 0)
        /\ e7 = e6 + (IF 6 \in bits THEN 2^6 ELSE 0) /\ e8 = e7 + (IF 7 \in bits THEN 2^7 ELSE 0)
    BY <1>1, <1>2, Powers
  <1>4. PICK g : g = [k \in 0 .. 8 |->
           IF k = 0 THEN e0 ELSE IF k = 1 THEN e1 ELSE IF k = 2 THEN e2 ELSE
           IF k = 3 THEN e3 ELSE IF k = 4 THEN e4 ELSE IF k = 5 THEN e5 ELSE
           IF k = 6 THEN e6 ELSE IF k = 7 THEN e7 ELSE e8]
    OBVIOUS
  <1>5. Adds(g, bits)
    <2>1. /\ g[0] = e0 /\ g[1] = e1 /\ g[2] = e2 /\ g[3] = e3 /\ g[4] = e4
          /\ g[5] = e5 /\ g[6] = e6 /\ g[7] = e7 /\ g[8] = e8
      BY <1>4
    <2>2. ASSUME NEW k \in 0 .. 8
          PROVE  g[k] = IF k = 0 THEN 0
                        ELSE g[k - 1] + (IF k - 1 \in bits THEN 2^(k - 1) ELSE 0)
      <3>0. CASE k = 0
        BY <1>2, <2>1, <3>0
      <3>1. CASE k = 1
        <4>1. k - 1 = 0 /\ k # 0
          BY <3>1
        <4> QED
          BY <1>3, <2>1, <3>1, <4>1, Zenon
      <3>2. CASE k = 2
        <4>1. k - 1 = 1 /\ k # 0
          BY <3>2
        <4> QED
          BY <1>3, <2>1, <3>2, <4>1, Zenon
      <3>3. CASE k = 3
        <4>1. k - 1 = 2 /\ k # 0
          BY <3>3
        <4> QED
          BY <1>3, <2>1, <3>3, <4>1, Zenon
      <3>4. CASE k = 4
        <4>1. k - 1 = 3 /\ k # 0
          BY <3>4
        <4> QED
          BY <1>3, <2>1, <3>4, <4>1, Zenon
      <3>5. CASE k = 5
        <4>1. k - 1 = 4 /\ k # 0
          BY <3>5
        <4> QED
          BY <1>3, <2>1, <3>5, <4>1, Zenon
      <3>6. CASE k = 6
        <4>1. k - 1 = 5 /\ k # 0
          BY <3>6
        <4> QED
          BY <1>3, <2>1, <3>6, <4>1, Zenon
      <3>7. CASE k = 7
        <4>1. k - 1 = 6 /\ k # 0
          BY <3>7
        <4> QED
          BY <1>3, <2>1, <3>7, <4>1, Zenon
      <3>8. CASE k = 8
        <4>1. k - 1 = 7 /\ k # 0
          BY <3>8
        <4> QED
          BY <1>3, <2>1, <3>8, <4>1, Zenon
      <3>9. k \in {0, 1, 2, 3, 4, 5, 6, 7, 8}
        OBVIOUS
      <3> QED
        BY <3>0, <3>1, <3>2, <3>3, <3>4, <3>5, <3>6, <3>7, <3>8, <3>9
    <2> QED
      BY <1>4, <2>2 DEF Adds
  <1>6. PICK f : Adds(f, bits) /\ Number(bits) = f[8]
    BY <1>5, NumberAdds
  <1>7. \A k \in 0 .. 8 : f[k] = IF k = 0 THEN 0
                          ELSE f[k - 1] + (IF k - 1 \in bits THEN 2^(k - 1) ELSE 0)
    BY <1>6, Zenon DEF Adds
  <1>8. f[0] = e0
    BY <1>2, <1>7
  <1>9. f[1] = e1
    <2>1. 1 \in 0 .. 8 /\ 1 - 1 = 0 /\ 1 # 0
      OBVIOUS
    <2> QED
      BY <1>3, <1>7, <1>8, <2>1, Zenon
  <1>10. f[2] = e2
    <2>1. 2 \in 0 .. 8 /\ 2 - 1 = 1 /\ 2 # 0
      OBVIOUS
    <2> QED
      BY <1>3, <1>7, <1>9, <2>1, Zenon
  <1>11. f[3] = e3
    <2>1. 3 \in 0 .. 8 /\ 3 - 1 = 2 /\ 3 # 0
      OBVIOUS
    <2> QED
      BY <1>3, <1>7, <1>10, <2>1, Zenon
  <1>12. f[4] = e4
    <2>1. 4 \in 0 .. 8 /\ 4 - 1 = 3 /\ 4 # 0
      OBVIOUS
    <2> QED
      BY <1>3, <1>7, <1>11, <2>1, Zenon
  <1>13. f[5] = e5
    <2>1. 5 \in 0 .. 8 /\ 5 - 1 = 4 /\ 5 # 0
      OBVIOUS
    <2> QED
      BY <1>3, <1>7, <1>12, <2>1, Zenon
  <1>14. f[6] = e6
    <2>1. 6 \in 0 .. 8 /\ 6 - 1 = 5 /\ 6 # 0
      OBVIOUS
    <2> QED
      BY <1>3, <1>7, <1>13, <2>1, Zenon
  <1>15. f[7] = e7
    <2>1. 7 \in 0 .. 8 /\ 7 - 1 = 6 /\ 7 # 0
      OBVIOUS
    <2> QED
      BY <1>3, <1>7, <1>14, <2>1, Zenon
  <1>16. f[8] = e8
    <2>1. 8 \in 0 .. 8 /\ 8 - 1 = 7 /\ 8 # 0
      OBVIOUS
    <2> QED
      BY <1>3, <1>7, <1>15, <2>1, Zenon
  <1>17. e8 = x0 + 2 * x1 + 4 * x2 + 8 * x3 + 16 * x4 + 32 * x5 + 64 * x6 + 128 * x7
    BY <1>2
  <1> QED
    BY <1>1, <1>6, <1>16, <1>17

(* Number and BitsOf are inverse to each other, an octet apart. *)
LEMMA NumberBits ==
  ASSUME NEW bits
  PROVE  /\ Number(bits) \in Octets
         /\ \A b \in Bits : (Number(bits) \div 2^b) % 2 = 1 <=> b \in bits
  <1>1. PICK x0, x1, x2, x3, x4, x5, x6, x7 \in {0, 1} :
           /\ x0 = 1 <=> 0 \in bits
           /\ x1 = 1 <=> 1 \in bits
           /\ x2 = 1 <=> 2 \in bits
           /\ x3 = 1 <=> 3 \in bits
           /\ x4 = 1 <=> 4 \in bits
           /\ x5 = 1 <=> 5 \in bits
           /\ x6 = 1 <=> 6 \in bits
           /\ x7 = 1 <=> 7 \in bits
           /\ Number(bits) =
                 x0 + 2 * x1 + 4 * x2 + 8 * x3 + 16 * x4 + 32 * x5 + 64 * x6 + 128 * x7
    BY NumberOf
  <1>2. PICK n \in Nat :
           /\ n = Number(bits)
           /\ n = x0 + 2 * x1 + 4 * x2 + 8 * x3 + 16 * x4 + 32 * x5 + 64 * x6 + 128 * x7
    BY <1>1
  <1>3. /\ n <= 255
        /\ (n \div 1) % 2 = x0 /\ (n \div 2) % 2 = x1
        /\ (n \div 4) % 2 = x2 /\ (n \div 8) % 2 = x3
        /\ (n \div 16) % 2 = x4 /\ (n \div 32) % 2 = x5
        /\ (n \div 64) % 2 = x6 /\ (n \div 128) % 2 = x7
    <2>1. n = x0 + 2 * x1 + 4 * x2 + 8 * x3 + 16 * x4 + 32 * x5 + 64 * x6 + 128 * x7
      BY <1>2, Zenon
    <2> HIDE <1>1, <1>2
    <2> QED
      BY <2>1, Digits, SMTT(30)
  <1>4. Number(bits) \in Octets
    BY <1>2, <1>3 DEF Octets
  <1>5. ASSUME NEW b \in Bits PROVE (n \div 2^b) % 2 = 1 <=> b \in bits
    <2>0. CASE b = 0
      BY <1>1, <1>3, <2>0, Powers, Zenon
    <2>1. CASE b = 1
      BY <1>1, <1>3, <2>1, Powers, Zenon
    <2>2. CASE b = 2
      BY <1>1, <1>3, <2>2, Powers, Zenon
    <2>3. CASE b = 3
      BY <1>1, <1>3, <2>3, Powers, Zenon
    <2>4. CASE b = 4
      BY <1>1, <1>3, <2>4, Powers, Zenon
    <2>5. CASE b = 5
      BY <1>1, <1>3, <2>5, Powers, Zenon
    <2>6. CASE b = 6
      BY <1>1, <1>3, <2>6, Powers, Zenon
    <2>7. CASE b = 7
      BY <1>1, <1>3, <2>7, Powers, Zenon
    <2>8. b \in {0, 1, 2, 3, 4, 5, 6, 7}
      BY DEF Bits
    <2> QED
      BY <2>0, <2>1, <2>2, <2>3, <2>4, <2>5, <2>6, <2>7, <2>8
  <1> QED
    BY <1>2, <1>4, <1>5

LEMMA BitsOfNumber ==
  ASSUME NEW bits \in SUBSET Bits
  PROVE  BitsOf(Number(bits)) = bits
  BY NumberBits DEF BitsOf

-----------------------------------------------------------------------------
(* Messages *)

LEMMA DeliveredWhole ==
  ASSUME NEW m, WellFormed(m)
  PROVE  Delivered(m) = m.values
  <1>1. PICK u : u = tcp_data_unit(1, m)
    OBVIOUS
  <1>2. 1 \in Words
    BY DEF Words
  <1>3. from_buffer(u.buffer, Len(u.buffer), m.layout.type) = u /\ pdu(u, m.layout) = m
    BY <1>1, <1>2, RoundTrip
  <1> QED
    BY <1>1, <1>3 DEF Delivered

LEMMA OctetsAreWords == \A s \in Seq(Octets) : s \in Seq(Words)
  <1> SUFFICES ASSUME NEW s \in Seq(Octets) PROVE s \in Seq(Words)
    OBVIOUS
  <1>1. \A x \in Octets : x \in Words
    BY DEF Octets, Words
  <1>2. PICK n \in Nat : n = Len(s) /\ s \in [1 .. n -> Octets]
    OBVIOUS
  <1>3. s \in [1 .. n -> Words]
    BY <1>1, <1>2
  <1> QED
    BY <1>3, TypedFunction

ReadLayouts ==
  {read_coils_response, read_discrete_inputs_response,
   read_holding_registers_response, read_input_registers_response}

LEMMA ReadLayoutValues ==
  /\ \A fc \in 1 .. 4 : ReadLayout(fc) \in ReadLayouts
  /\ \A l \in ReadLayouts : /\ l \in Layouts /\ l # exception_response
                            /\ l.words = 0 /\ l.width = 1 /\ l.type = "response"
                            /\ l \notin {write_single_coil_request, write_single_coil_response}
                            /\ l # read_write_registers_request
  <1> USE DEF ReadLayouts, Layout, read_coils_response, read_discrete_inputs_response,
              read_holding_registers_response, read_input_registers_response
  <1>1. ASSUME NEW fc \in 1 .. 4 PROVE ReadLayout(fc) \in ReadLayouts
    <2>1. fc \in {1, 2, 3, 4}
      OBVIOUS
    <2>2. \E l \in ReadLayouts : l.code = fc
      BY <2>1
    <2> QED
      BY <2>2 DEF ReadLayout
  <1>2. ASSUME NEW l \in ReadLayouts
        PROVE  /\ l \in Layouts /\ l # exception_response
               /\ l.words = 0 /\ l.width = 1 /\ l.type = "response"
               /\ l \notin {write_single_coil_request, write_single_coil_response}
               /\ l # read_write_registers_request
    <2>1. l \in Layouts
      BY DEF Layouts, PlainLayouts
    <2>2. l.words = 0 /\ l.width = 1 /\ l.type = "response"
      OBVIOUS
    <2>3. /\ l # exception_response /\ l # read_write_registers_request
          /\ l \notin {write_single_coil_request, write_single_coil_response}
      BY <2>2 DEF exception_response, read_write_registers_request,
                  write_single_coil_request, write_single_coil_response
    <2> QED
      BY <2>1, <2>2, <2>3
  <1> QED
    BY <1>1, <1>2

(* Up to 255 octets reach the other side in a response. *)
LEMMA OctetsDelivered ==
  ASSUME NEW fc \in 1 .. 4, NEW o \in Seq(Octets), Len(o) <= 255
  PROVE  Delivered(Message(ReadLayout(fc), 1, <<>>, o)) = o
  <1>1. PICK l \in ReadLayouts : l = ReadLayout(fc)
    BY ReadLayoutValues
  <1>2. PICK m : m = Message(l, 1, <<>>, o)
    OBVIOUS
  <1>3. m = [layout |-> l, unit_id |-> 1, fields |-> <<>>, values |-> o]
    BY <1>2 DEF Message
  <1>4. m.layout = l /\ m.unit_id = 1 /\ m.fields = <<>> /\ m.values = o
    BY <1>3
  <1>5. /\ l \in Layouts /\ l # exception_response
        /\ l.words = 0 /\ l.width = 1
        /\ l \notin {write_single_coil_request, write_single_coil_response}
        /\ l # read_write_registers_request
    BY ReadLayoutValues
  <1>6. /\ 1 \in Octets /\ <<>> \in Seq(Words) /\ Len(<<>>) = 0 /\ o \in Seq(Words)
        /\ 1 * Len(o) <= 255
    BY OctetsAreWords DEF Octets
  <1>7. m \in [layout : Layouts, unit_id : Octets, fields : Seq(Words), values : Seq(Words)]
    BY <1>3, <1>5, <1>6
  <1>8. WellFormed(m)
    BY <1>4, <1>5, <1>6, <1>7 DEF WellFormed
  <1> QED
    BY <1>1, <1>2, <1>4, <1>8, DeliveredWhole

-----------------------------------------------------------------------------
(* The object and the coils written *)

(* The octets of a write request as they reached the handler. *)
Written ==
  LET values == Delivered(packed(1, Start, bools))
  IN  statuses = [i \in 0 .. Len(values) - 1 |-> BitsOf(values[i + 1])]

(* The inductive invariant: what handler and memory do is what DataMap     *)
(* says, an object has its octets from a response and its number of values *)
(* from the constructor or not at all, and what the application wrote is   *)
(* what the handler took.                                                  *)
PathInv ==
  /\ HandlerInv
  /\ phase \in {"read", "registersRead"} => Num \in Counts
  /\ origin \in {"default", "constructed"}
  /\ origin = "default" => \E type, d : object = modbus_response_t(type, d, 0, 0)
  /\ origin = "constructed" =>
        \E fc \in Codes :
           object = modbus_response_t(data_type(fc), Values(fc), Start, Len(Values(fc)) % 65536)
  /\ bools # <<>> =>
        /\ phase \in {"written", "undefined"} /\ Start \in Starts /\ Num \in Counts \ {0}
        /\ \E pattern \in Patterns : bools = [k \in 1 .. Num |-> (k - 1) % 8 \in pattern]
        /\ Written

LEMMA PathInvInit == PathInit => PathInv
  <1> SUFFICES ASSUME PathInit PROVE PathInv
    OBVIOUS
  <1>1. HandlerInv
    BY HandlerInvInit DEF PathInit
  <1>2. /\ origin = "default" /\ bools = <<>> /\ phase = "ready"
        /\ object = modbus_response_t("invalid_data_type", <<>>, 0, 0)
    BY DEF PathInit, Init, default_response
  <1> QED
    BY <1>1, <1>2 DEF PathInv

(* One request is all a handler takes. *)
LEMMA OneRequest ==
  Next => phase = "ready" /\ (phase' \in {"read", "registersRead"} => Num' \in Counts)
  BY DEF Next, Refuse, ReadCoils, WriteCoils, ReadRegisters, WriteRegisters, WriteCoil, Take, Num

(* Before the request there is no object made of a response, and no coil   *)
(* was written.                                                            *)
LEMMA BeforeRequest ==
  ASSUME PathInv, phase = "ready"
  PROVE  /\ origin = "default" /\ bools = <<>>
         /\ \E type, d : object = modbus_response_t(type, d, 0, 0)
  <1>1. Codes = {}
    BY DEF Codes
  <1>2. origin = "default" /\ bools = <<>>
    BY <1>1 DEF PathInv
  <1> QED
    BY <1>2 DEF PathInv

LEMMA WriteBoolsStep ==
  ASSUME PathInv, NEW start \in Starts, NEW num \in Counts \ {0}, NEW pattern \in Patterns,
         WriteBools(start, [k \in 1 .. num |-> (k - 1) % 8 \in pattern])
  PROVE  PathInv'
  <1>1. PICK v : v = [k \in 1 .. num |-> (k - 1) % 8 \in pattern]
    OBVIOUS
  <1>2. num \in Nat /\ start \in Nat /\ Len(v) = num
    <2>1. num \in Nat /\ start \in Nat
      BY Constants
    <2> QED
      BY <1>1, <2>1
  <1>3. PICK values : values = Delivered(packed(1, start, v))
    OBVIOUS
  <1>4. PICK taken : taken = [i \in 0 .. Len(values) - 1 |-> BitsOf(values[i + 1])]
    OBVIOUS
  <1>5. /\ WriteCoils(start, num, taken) /\ bools' = v
        /\ object' = object /\ origin' = origin
    BY <1>1, <1>2, <1>3, <1>4 DEF WriteBools
  <1>6. taken \in [DOMAIN taken -> SUBSET Bits]
    BY <1>4 DEF BitsOf
  <1>7. HandlerInv'
    <2>1. HandlerInv
      BY DEF PathInv
    <2> QED
      BY <1>2, <1>5, <1>6, <2>1, WriteCoilsStep
  <1>8. /\ phase = "ready" /\ phase' \in {"written", "undefined"}
        /\ Start' = start /\ Num' = num
    BY <1>5 DEF WriteCoils, Take, Start, Num
  <1>9. origin' = "default" /\ (\E type, d : object' = modbus_response_t(type, d, 0, 0))
    BY <1>5, <1>8, BeforeRequest
  <1>10. statuses' = taken
    BY <1>5 DEF WriteCoils
  <1>11. Written'
    BY <1>3, <1>4, <1>5, <1>8, <1>10 DEF Written
  <1> QED
    BY <1>1, <1>5, <1>7, <1>8, <1>9, <1>11 DEF PathInv

LEMMA PathInvStep == PathInv /\ [PathNext]_pathVars => PathInv'
  <1> SUFFICES ASSUME PathInv, [PathNext]_pathVars PROVE PathInv'
    OBVIOUS
  <1>1. CASE Next /\ UNCHANGED clientVars
    <2>1. HandlerInv'
      BY <1>1, HandlerInvStep DEF PathInv
    <2>2. /\ origin = "default" /\ bools = <<>>
          /\ \E type, d : object = modbus_response_t(type, d, 0, 0)
      BY <1>1, OneRequest, BeforeRequest
    <2>3. origin' = origin /\ bools' = bools /\ object' = object
      BY <1>1 DEF clientVars
    <2>4. phase' \in {"read", "registersRead"} => Num' \in Counts
      BY <1>1, OneRequest
    <2> QED
      BY <2>1, <2>2, <2>3, <2>4 DEF PathInv
  <1>2. ASSUME NEW start \in Starts, NEW num \in Counts \ {0}, NEW pattern \in Patterns,
               WriteBools(start, [k \in 1 .. num |-> (k - 1) % 8 \in pattern])
        PROVE  PathInv'
    BY <1>2, WriteBoolsStep
  <1>3. ASSUME UNCHANGED vars
        PROVE  /\ HandlerInv' /\ phase' = phase /\ Start' = Start /\ Num' = Num
               /\ statuses' = statuses /\ Codes' = Codes
               /\ \A fc : Values(fc)' = Values(fc)
    <2>1. HandlerInv'
      BY <1>3, HandlerInvStep DEF PathInv
    <2>2. phase' = phase /\ request' = request /\ out' = out /\ statuses' = statuses
      BY <1>3 DEF vars
    <2>3. Start' = Start /\ Num' = Num
      BY <2>2 DEF Start, Num
    <2>4. Codes' = Codes
      BY <2>2 DEF Codes
    <2>5. \A fc : Values(fc)' = Values(fc)
      BY <2>2, <2>3 DEF Values
    <2> QED
      BY <2>1, <2>2, <2>3, <2>4, <2>5
  <1>4. ASSUME UNCHANGED vars, bools' = bools
        PROVE  bools' # <<>> =>
                  /\ phase' \in {"written", "undefined"}
                  /\ Start' \in Starts /\ Num' \in Counts \ {0}
                  /\ \E pattern \in Patterns : bools' = [k \in 1 .. Num' |-> (k - 1) % 8 \in pattern]
                  /\ Written'
    <2>1. Written' <=> Written
      BY <1>3, <1>4 DEF Written
    <2> QED
      BY <1>3, <1>4, <2>1 DEF PathInv
  <1>5. ASSUME NEW fc \in 1 .. 4, Construct(fc) PROVE PathInv'
    <2>1. /\ fc \in Codes /\ origin' = "constructed" /\ UNCHANGED vars /\ bools' = bools
          /\ object' = modbus_response_t(data_type(fc), Values(fc), Start, Len(Values(fc)) % 65536)
      BY <1>5 DEF Construct
    <2>2. /\ Codes' = Codes /\ Start' = Start /\ Values(fc)' = Values(fc)
      BY <1>3, <2>1
    <2>3. fc \in Codes' /\ object' = modbus_response_t(data_type(fc), Values(fc)', Start', Len(Values(fc)') % 65536)
      BY <2>1, <2>2
    <2> QED
      BY <1>3, <1>4, <2>1, <2>3 DEF PathInv
  <1>6. ASSUME NEW fc \in 1 .. 4, SetData(fc) PROVE PathInv'
    <2>1. /\ origin = "default" /\ origin' = origin /\ UNCHANGED vars /\ bools' = bools
          /\ object' = [object EXCEPT !.data_ = Values(fc)]
      BY <1>6 DEF SetData, set_data
    <2>2. PICK type, d : object = modbus_response_t(type, d, 0, 0)
      BY <2>1 DEF PathInv
    <2>3. object' = modbus_response_t(type, Values(fc), 0, 0)
      BY <2>1, <2>2 DEF modbus_response_t
    <2> QED
      BY <1>3, <1>4, <2>1, <2>3 DEF PathInv
  <1>7. ASSUME NEW kind, SetDataModel(kind) PROVE PathInv'
    <2>1. /\ origin = "default" /\ origin' = origin /\ UNCHANGED vars /\ bools' = bools
          /\ object' = [object EXCEPT !.type_ = kind]
      BY <1>7 DEF SetDataModel, set_data_model
    <2>2. PICK type, d : object = modbus_response_t(type, d, 0, 0)
      BY <2>1 DEF PathInv
    <2>3. object' = modbus_response_t(kind, d, 0, 0)
      BY <2>1, <2>2 DEF modbus_response_t
    <2> QED
      BY <1>3, <1>4, <2>1, <2>3 DEF PathInv
  <1>8. CASE UNCHANGED pathVars
    <2>1. UNCHANGED vars /\ object' = object /\ origin' = origin /\ bools' = bools
      BY <1>8 DEF pathVars, clientVars
    <2> QED
      BY <1>3, <1>4, <2>1 DEF PathInv
  <1> QED
    BY <1>1, <1>2, <1>5, <1>6, <1>7, <1>8 DEF PathNext

LEMMA PathInvariant == PathSpec => []PathInv
  BY PathInvInit, PathInvStep, PTL DEF PathSpec

-----------------------------------------------------------------------------
(* What an application reads *)

(* The numbers of octets that a count octet can describe. *)
SmallLength == 1 .. 255

LEMMA FittingOctets ==
  \A num \in Nat \ {0} : num <= 2040 =>
     /\ (num - 1) \div 8 + 1 \in SmallLength
     /\ ((num - 1) \div 8 + 1) - 1 = (num - 1) \div 8
  BY DEF SmallLength

LEMMA ServedNumbers ==
  ASSUME HandlerInv, phase \notin {"ready", "refused"}
  PROVE  Start \in Nat /\ Num \in Nat \ {0}
  <1>1. PICK bitmap \in create_request_bit_map(Start, Num) : legal_address(access, bitmap, Start)
    BY DEF HandlerInv
  <1>2. Start \in Nat /\ Num \in Nat
    BY DEF HandlerInv
  <1>3. Num # 0
    BY <1>1, EmptyIsIllegal
  <1> QED
    BY <1>2, <1>3

LEMMA ReadTypes == \A fc \in 1 .. 4 : data_type(fc) # "invalid_data_type"
  <1> SUFFICES ASSUME NEW fc \in 1 .. 4 PROVE data_type(fc) # "invalid_data_type"
    OBVIOUS
  <1>1. data_type(1) = "coil"
    BY DEF data_type
  <1>2. data_type(2) = "input_status"
    BY DEF data_type
  <1>3. data_type(3) = "holding_register"
    BY DEF data_type
  <1>4. data_type(4) = "input_register"
    BY DEF data_type
  <1>5. fc = 1 \/ fc = 2 \/ fc = 3 \/ fc = 4
    OBVIOUS
  <1> QED
    BY <1>1, <1>2, <1>3, <1>4, <1>5

LEMMA SmallLengths ==
  \A n \in SmallLength : n % 65536 = n /\ n > 0 /\ n # 0 /\ n \in Nat /\ n <= 255
  BY DEF SmallLength

LEMMA ValidLength ==
  ASSUME NEW o, isValid(o), Len(o.data_) \in SmallLength
  PROVE  buffer_length(o) = Len(o.data_)
  <1>1. PICK n \in SmallLength : n = Len(o.data_)
    OBVIOUS
  <1>2. n \in Nat /\ n % 65536 = n
    BY SmallLengths
  <1>3. buffer_length(o) = n % 65536
    BY <1>1, <1>2 DEF buffer_length
  <1>4. buffer_length(o) = n
    BY <1>2, <1>3
  <1> QED
    BY <1>1, <1>4, Zenon

(* An object over 1 to 255 octets is valid. *)
LEMMA ValidObject ==
  ASSUME NEW fc \in 1 .. 4, NEW octets, Len(octets) \in SmallLength, NEW start, NEW num, num # 0,
         NEW o, o = modbus_response_t(data_type(fc), octets, start, num)
  PROVE  isValid(o) /\ buffer_length(o) = Len(octets) /\ o.data_ = octets
  <1>1. data_type(fc) # "invalid_data_type"
    BY ReadTypes
  <1>2. o.type_ = data_type(fc) /\ o.data_ = octets /\ o.num_values_ = num
    BY DEF modbus_response_t
  <1>3. Len(octets) > 0
    BY SmallLengths
  <1>4. isValid(o)
    BY <1>1, <1>2, <1>3 DEF isValid
  <1>5. buffer_length(o) = Len(octets)
    BY <1>2, <1>4, ValidLength
  <1> QED
    BY <1>2, <1>4, <1>5

LEMMA ObjectOver ==
  ASSUME NEW fc \in 1 .. 4, NEW octets, Len(octets) \in SmallLength, NEW start,
         NEW o, o = modbus_response_t(data_type(fc), octets, start, Len(octets) % 65536)
  PROVE  isValid(o) /\ buffer_length(o) = Len(octets) /\ o.data_ = octets
  <1>1. PICK num : num = Len(octets) % 65536
    OBVIOUS
  <1>2. num # 0
    <2>1. Len(octets) % 65536 = Len(octets) /\ Len(octets) # 0
      BY SmallLengths
    <2> QED
      BY <1>1, <2>1
  <1>3. o = modbus_response_t(data_type(fc), octets, start, num)
    BY <1>1
  <1> QED
    BY <1>2, <1>3, ValidObject

(* A response that the count octet can describe. *)
CoilsFit == \A num \in Counts : num <= 2040

LEMMA ReadOctets ==
  ASSUME NEW fc \in 1 .. 4, phase = "read", NEW n \in SmallLength, n = (Num - 1) \div 8 + 1
  PROVE  Values(fc) = [i \in 1 .. n |-> Number(out[i - 1])] /\ Len(Values(fc)) = n
  <1>1. PICK o : o = [i \in 1 .. n |-> Number(out[i - 1])]
    OBVIOUS
  <1>2. \A i \in 1 .. n : Number(out[i - 1]) \in Octets
    BY NumberBits
  <1>3. n \in Nat /\ n <= 255 /\ o \in [1 .. n -> Octets]
    <2>1. o \in [1 .. n -> Octets]
      BY <1>1, <1>2, Zenon
    <2> QED
      BY <2>1, SmallLengths
  <1>4. o \in Seq(Octets) /\ Len(o) = n
    BY <1>3, TypedFunction
  <1>5. Len(o) <= 255
    BY <1>3, <1>4, Zenon
  <1>6. Delivered(Message(ReadLayout(fc), 1, <<>>, o)) = o
    BY <1>4, <1>5, OctetsDelivered
  <1>7. Values(fc) = Delivered(Message(ReadLayout(fc), 1, <<>>, o))
    BY <1>1 DEF Values, Numbers
  <1> QED
    BY <1>1, <1>4, <1>6, <1>7

(* Through copy_data_bits, the response and getBool an application reads   *)
(* the coils it asked for, whatever the memory and the range.              *)
THEOREM ApplicationReadsCoils == CoilsFit => (PathSpec => []ClientReadsCoils)
  <1> SUFFICES ASSUME CoilsFit PROVE PathSpec => []ClientReadsCoils
    OBVIOUS
  <1>1. PathInv => ClientReadsCoils
    <2> SUFFICES ASSUME PathInv, phase = "read", Regular, origin = "constructed",
                        NEW n, n = (Num - 1) \div 8 + 1
                 PROVE  /\ buffer_length(object) = n
                        /\ \A k \in 0 .. 8 * n - 1 :
                              getBool(object, k) = (k < Num /\ Coil(before.data, Start + k))
                        /\ getBool(object, 8 * n) = Failure("out_of_range")
      BY DEF ClientReadsCoils
    <2>1. HandlerInv /\ Start \in Nat /\ Num \in Nat \ {0} /\ Num <= 2040
      <3>1. HandlerInv /\ Num \in Counts
        BY DEF PathInv
      <3> QED
        BY <3>1, ServedNumbers DEF CoilsFit
    <2>2. n \in SmallLength /\ n \in Nat /\ n - 1 = (Num - 1) \div 8
      BY <2>1, FittingOctets, SmallLengths
    <2>3. \A i \in 0 .. n - 1 :
             out[i] = {b \in Bits : 8 * i + b < Num /\ Coil(before.data, Start + 8 * i + b)}
      <3>1. out = [i \in 0 .. n - 1 |->
               {b \in Bits : 8 * i + b < Num /\ Coil(before.data, Start + 8 * i + b)}]
        BY <2>1, <2>2, ReadsExactly DEF ReadExact, AsAsked
      <3> QED
        BY <3>1
    <2>4. PICK fc \in 1 .. 4 :
             object = modbus_response_t(data_type(fc), Values(fc), Start, Len(Values(fc)) % 65536)
      <3>1. Codes = {1, 2}
        BY DEF Codes
      <3> QED
        BY <3>1 DEF PathInv
    <2>5. PICK octets : /\ octets = Values(fc) /\ Len(octets) = n
                        /\ octets = [i \in 1 .. n |-> Number(out[i - 1])]
      BY <2>2, ReadOctets
    <2>6. isValid(object) /\ buffer_length(object) = n /\ object.data_ = octets
      BY <2>2, <2>4, <2>5, ObjectOver
    <2>7. ASSUME NEW k \in 0 .. 8 * n - 1
          PROVE  getBool(object, k) = (k < Num /\ Coil(before.data, Start + k))
      <3>1. k \in Nat /\ n \in Nat
        BY <2>2
      <3>2. PICK i \in 0 .. n - 1, b \in Bits : i = k \div 8 /\ b = k % 8 /\ k = 8 * i + b
        <4>1. k = 8 * (k \div 8) + (k % 8) /\ k \div 8 \in Nat /\ k % 8 \in Bits
          BY <3>1, OctetAndBit
        <4>2. k \div 8 \in 0 .. n - 1
          BY <3>1, <4>1 DEF Bits
        <4> QED
          BY <4>1, <4>2
      <3>3. i < n /\ i + 1 \in 1 .. n /\ i + 1 - 1 = i
        BY <3>1
      <3>4. object.data_[i + 1] = Number(out[i])
        BY <2>5, <2>6, <3>3
      <3>5. getBool(object, k) = ((Number(out[i]) \div 2^b) % 2 = 1)
        BY <2>5, <2>6, <3>2, <3>3, <3>4 DEF getBool, Within, Octet
      <3>6. (Number(out[i]) \div 2^b) % 2 = 1 <=> b \in out[i]
        BY NumberBits
      <3>7. Start + 8 * i + b = Start + k
        BY <2>1, <3>1, <3>2 DEF Bits
      <3>8. b \in out[i] <=> k < Num /\ Coil(before.data, Start + k)
        BY <2>3, <3>2, <3>7
      <3> QED
        BY <3>5, <3>6, <3>8, Zenon
    <2>8. getBool(object, 8 * n) = Failure("out_of_range")
      <3>1. (8 * n) \div 8 = n /\ ~(n < n)
        BY <2>2
      <3> QED
        BY <2>5, <2>6, <3>1 DEF getBool, Within
    <2> QED
      BY <2>6, <2>7, <2>8
  <1> QED
    BY <1>1, PathInvariant, PTL

-----------------------------------------------------------------------------
(* What an application reads of the registers *)

(* A response that the count octet can describe. *)
RegistersFit == \A num \in Counts : num <= 127

LEMMA FittingRegisters ==
  \A num \in Nat \ {0} : num <= 127 => 2 * num \in SmallLength
  BY DEF SmallLength

(* A request that is served lies in the memory, even when bitMasks was     *)
(* read beyond its end.                                                    *)
LEMMA ServedInMemory ==
  ASSUME HandlerInv, phase \notin {"ready", "refused"}
  PROVE  NumBytes \in Nat /\ Start + Num <= 8 * NumBytes
  <1>1. Start \in Nat /\ Num \in Nat \ {0} /\ access \in Cells /\ NumBytes \in Nat
    BY ServedNumbers, Constants DEF HandlerInv
  <1>2. PICK bitmap \in create_request_bit_map(Start, Num) : legal_address(access, bitmap, Start)
    BY DEF HandlerInv
  <1>3. PICK q \in Nat, s \in Bits, n \in Nat, r \in Bits : ByOctets(Start, Num, q, s, n, r)
    BY <1>1, RangeByOctets
  <1>4. /\ q = Start \div 8 /\ Start = 8 * q + s /\ Num + s = 8 * n + r
        /\ numBytes(Start, Num) = n + 1
    BY <1>3, Zenon DEF ByOctets
  <1>5. n \in DOMAIN bitmap
    <2>1. PICK last : bitmap = bit_map(Start, Num, last)
      BY <1>1, <1>2 DEF create_request_bit_map
    <2>2. numBytes(Start, Num) - 1 = n /\ n \in 0 .. n
      BY <1>4
    <2>3. DOMAIN bitmap = 0 .. numBytes(Start, Num) - 1
      BY <2>1 DEF bit_map
    <2> QED
      BY <2>2, <2>3
  <1>6. n + q \in 0 .. NumBytes - 1
    BY <1>1, <1>2, <1>4, <1>5 DEF legal_address, Cells
  <1>7. Start + Num = 8 * (n + q) + r
    BY <1>1, <1>4 DEF Bits
  <1> QED
    BY <1>1, <1>6, <1>7 DEF Bits

LEMMA RegisterOctets ==
  ASSUME NEW fc \in 1 .. 4, phase = "registersRead", NEW n \in SmallLength, n = 2 * Num,
         \A i \in 1 .. n : out[i - 1] \in Octets
  PROVE  Values(fc) = [i \in 1 .. n |-> out[i - 1]] /\ Len(Values(fc)) = n
  <1>1. PICK o : o = [i \in 1 .. n |-> out[i - 1]]
    OBVIOUS
  <1>2. n \in Nat /\ n <= 255 /\ o \in [1 .. n -> Octets]
    <2>1. o \in [1 .. n -> Octets]
      BY <1>1, Zenon
    <2> QED
      BY <2>1, SmallLengths
  <1>3. o \in Seq(Octets) /\ Len(o) = n
    BY <1>2, TypedFunction
  <1>4. Len(o) <= 255
    BY <1>2, <1>3, Zenon
  <1>5. Delivered(Message(ReadLayout(fc), 1, <<>>, o)) = o
    BY <1>3, <1>4, OctetsDelivered
  <1>6. phase # "read"
    OBVIOUS
  <1>7. Values(fc) = Delivered(Message(ReadLayout(fc), 1, <<>>, o))
    BY <1>1, <1>6 DEF Values
  <1> QED
    BY <1>1, <1>3, <1>5, <1>7

(* Object o shows num registers, the octets of which are those of memory   *)
(* from register start on.                                                 *)
Shows(o, num, memory, start) ==
  /\ isValid(o) /\ Len(o.data_) = 2 * num
  /\ \A i \in 0 .. 2 * num - 1 : Octet(o, i) \in Octets /\ Octet(o, i) = memory[2 * start + i]

LEMMA ObjectShows ==
  ASSUME PathInv, phase = "registersRead", origin = "constructed", RegistersFit
  PROVE  Start \in Nat /\ Num \in Nat /\ Shows(object, Num, before.registers, Start)
  <1>1. HandlerInv /\ Start \in Nat /\ Num \in Nat \ {0} /\ Num <= 127
    <2>1. HandlerInv /\ Num \in Counts
      BY DEF PathInv
    <2> QED
      BY <2>1, ServedNumbers DEF RegistersFit
  <1>2. PICK n \in SmallLength : n = 2 * Num
    BY <1>1, FittingRegisters
  <1>3. n \in Nat
    BY SmallLengths
  <1>4. /\ before.registers \in [0 .. 16 * NumBytes - 1 -> 0 .. 255]
        /\ NumBytes \in Nat /\ Start + Num <= 8 * NumBytes
    BY <1>1, ServedInMemory DEF HandlerInv
  <1>5. \A i \in 0 .. n - 1 : out[i] = before.registers[2 * Start + i]
    <2>1. out = copy_data_registers(before.registers, Start, Num)
      BY <1>1 DEF HandlerInv, Done
    <2>2. \A i \in 0 .. n - 1 : i + 2 * Start = 2 * Start + i
      BY <1>1, <1>3
    <2> QED
      BY <1>2, <2>1, <2>2 DEF copy_data_registers
  <1>6. \A i \in 0 .. n - 1 : before.registers[2 * Start + i] \in Octets
    <2> TAKE i \in 0 .. n - 1
    <2>1. 2 * Start + i \in 0 .. 16 * NumBytes - 1
      BY <1>1, <1>2, <1>3, <1>4
    <2> QED
      BY <1>4, <2>1 DEF Octets
  <1>7. \A i \in 1 .. n : i - 1 \in 0 .. n - 1
    BY <1>3
  <1>8. PICK fc \in 1 .. 4 :
           object = modbus_response_t(data_type(fc), Values(fc), Start, Len(Values(fc)) % 65536)
    <2>1. Codes = {3, 4}
      BY DEF Codes
    <2> QED
      BY <2>1 DEF PathInv
  <1>9. PICK octets : /\ octets = Values(fc) /\ Len(octets) = n
                      /\ octets = [i \in 1 .. n |-> out[i - 1]]
    <2>1. \A i \in 1 .. n : out[i - 1] \in Octets
      BY <1>5, <1>6, <1>7
    <2> QED
      BY <1>2, <2>1, RegisterOctets
  <1>10. isValid(object) /\ object.data_ = octets
    <2>1. Len(octets) \in SmallLength
      BY <1>9
    <2>2. object = modbus_response_t(data_type(fc), octets, Start, Len(octets) % 65536)
      BY <1>8, <1>9
    <2> QED
      BY <2>1, <2>2, ObjectOver
  <1>11. ASSUME NEW i \in 0 .. n - 1
         PROVE  Octet(object, i) \in Octets /\ Octet(object, i) = before.registers[2 * Start + i]
    <2>1. i + 1 \in 1 .. n /\ i + 1 - 1 = i
      BY <1>3
    <2>2. Octet(object, i) = out[i]
      BY <1>9, <1>10, <2>1 DEF Octet
    <2> QED
      BY <1>5, <1>6, <2>2
  <1> QED
    BY <1>1, <1>2, <1>9, <1>10, <1>11 DEF Shows

(* Sixteen and thirty-two bits of octets. *)
LEMMA InWords ==
  ASSUME NEW x \in Int, 0 <= x, x <= 65535
  PROVE  x \in Words
  <1>1. PICK m \in Int : m = 65535
    OBVIOUS
  <1>2. Words = 0 .. m
    BY <1>1 DEF Words
  <1>3. x <= m
    BY <1>1
  <1> QED
    BY <1>2, <1>3

LEMMA WordOfOctets ==
  \A h, l \in Octets : /\ Word(h, l) \in Words /\ Hi(Word(h, l)) = h /\ Lo(Word(h, l)) = l
  <1> SUFFICES ASSUME NEW h \in Octets, NEW l \in Octets
               PROVE  /\ Word(h, l) \in Words /\ Hi(Word(h, l)) = h /\ Lo(Word(h, l)) = l
    OBVIOUS
  <1>1. h \in Nat /\ l \in Nat /\ h <= 255 /\ l <= 255
    BY DEF Octets
  <1>2. (256 * h + l) \div 256 = h /\ (256 * h + l) % 256 = l
    BY <1>1
  <1>3. 256 * h + l \in Words
    <2>1. 256 * h + l \in Int /\ 0 <= 256 * h + l /\ 256 * h + l <= 65535
      BY <1>1
    <2> QED
      BY <2>1, InWords
  <1> QED
    BY <1>2, <1>3 DEF Word, Hi, Lo

LEMMA SignedOctet == \A x \in Octets : Signed(x, 256) < 128 /\ Signed(x, 256) % 256 = x
  BY DEF Octets, Signed

(* Two's complement, of sixteen bits and of a pair of words. *)
SignedWordOf(w) == Signed(w, 65536)
SignedLongOf(p) == 65536 * Signed(p[1], 65536) + p[2]

LEMMA SignedWord == \A x \in Words : /\ Signed(x, 65536) \in Int /\ Signed(x, 65536) < 32768
                                     /\ Signed(x, 65536) % 65536 = x
  <1> SUFFICES ASSUME NEW x \in Words
               PROVE  /\ Signed(x, 65536) \in Int /\ Signed(x, 65536) < 32768
                      /\ Signed(x, 65536) % 65536 = x
    OBVIOUS
  <1>1. x \in Nat /\ x <= 65535
    BY DEF Words
  <1>2. 65536 \div 2 = 32768
    OBVIOUS
  <1>3. CASE x < 32768
    <2>1. Signed(x, 65536) = x
      BY <1>2, <1>3 DEF Signed
    <2>2. x % 65536 = x
      BY <1>1
    <2> QED
      BY <1>1, <1>3, <2>1, <2>2
  <1>4. CASE ~(x < 32768)
    <2>1. Signed(x, 65536) = x - 65536
      BY <1>2, <1>4 DEF Signed
    <2>2. (x - 65536) % 65536 = x /\ x - 65536 < 32768 /\ x - 65536 \in Int
      BY <1>1
    <2> QED
      BY <2>1, <2>2
  <1> QED
    BY <1>3, <1>4

LEMMA SignedLong ==
  \A h \in Int, l \in Words : /\ ((65536 * h + l) \div 65536) % 65536 = h % 65536
                              /\ (65536 * h + l) % 65536 = l
  <1> SUFFICES ASSUME NEW h \in Int, NEW l \in Words
               PROVE  /\ ((65536 * h + l) \div 65536) % 65536 = h % 65536
                      /\ (65536 * h + l) % 65536 = l
    OBVIOUS
  <1>1. l \in Nat /\ l <= 65535
    BY DEF Words
  <1>2. (65536 * h + l) \div 65536 = h
    BY <1>1
  <1>3. (65536 * h + l) % 65536 = l
    BY <1>1
  <1> QED
    BY <1>2, <1>3

(* Positions of octets in an object of num registers. *)
LEMMA RegisterPlaces ==
  ASSUME NEW num \in Nat, NEW k \in 0 .. num - 1, NEW start \in Nat
  PROVE  /\ 2 * k \in 0 .. 2 * num - 1 /\ 2 * k + 1 \in 0 .. 2 * num - 1
         /\ 2 * k + 1 < 2 * num /\ 2 * k < 2 * num
         /\ 2 * start + 2 * k = 2 * (start + k)
         /\ 2 * start + (2 * k + 1) = 2 * (start + k) + 1
  OBVIOUS

LEMMA LongPlaces ==
  ASSUME NEW num \in Nat, NEW k \in 0 .. (num \div 2) - 1
  PROVE  /\ 4 * k = 2 * (2 * k) /\ 4 * k + 2 = 2 * (2 * k + 1)
         /\ 8 * k + 2 - 4 * k = 4 * k + 2 /\ 8 * k + 2 - (4 * k + 2) = 4 * k
         /\ 2 * k \in 0 .. num - 1 /\ 2 * k + 1 \in 0 .. num - 1
         /\ 4 * k + 3 < 2 * num
  OBVIOUS

(* The octets of register k, and the two numbers they make. *)
WordIs(o, memory, start, k) ==
  \E h, l \in Octets :
     /\ h = memory[2 * (start + k)] /\ l = memory[2 * (start + k) + 1]
     /\ Octet(o, 2 * k) = h
     /\ WordAt(o, 2 * k, "normal") = Word(h, l)
     /\ WordAt(o, 2 * k, "byte_swapped") = Word(l, h)

LEMMA WordShown ==
  ASSUME NEW o, NEW num \in Nat, NEW memory, NEW start \in Nat, Shows(o, num, memory, start),
         NEW k \in 0 .. num - 1
  PROVE  WordIs(o, memory, start, k)
  <1>1. /\ 2 * k \in 0 .. 2 * num - 1 /\ 2 * k + 1 \in 0 .. 2 * num - 1
        /\ 2 * start + 2 * k = 2 * (start + k)
        /\ 2 * start + (2 * k + 1) = 2 * (start + k) + 1
    BY RegisterPlaces
  <1>2. \A i \in 0 .. 2 * num - 1 : Octet(o, i) \in Octets /\ Octet(o, i) = memory[2 * start + i]
    BY Zenon DEF Shows
  <1>3. PICK h, l \in Octets : h = Octet(o, 2 * k) /\ l = Octet(o, 2 * k + 1)
    BY <1>1, <1>2, Zenon
  <1>4. h = memory[2 * (start + k)] /\ l = memory[2 * (start + k) + 1]
    <2>1. h = memory[2 * start + 2 * k] /\ l = memory[2 * start + (2 * k + 1)]
      BY <1>1, <1>2, <1>3, Zenon
    <2> QED
      BY <1>1, <2>1, Zenon
  <1>5. WordAt(o, 2 * k, "normal") = Word(h, l)
    BY <1>3 DEF WordAt
  <1>6. WordAt(o, 2 * k, "byte_swapped") = Word(l, h)
    BY <1>3 DEF WordAt
  <1> QED
    BY <1>3, <1>4, <1>5, <1>6, Zenon DEF WordIs

(* An access to register k or octet i, and one behind the last octet. *)
WordReads(o, num, order) ==
  /\ \A k \in 0 .. num - 1 :
        /\ getUINT16(o, k, order) = WordAt(o, 2 * k, order)
        /\ getINT16(o, k, order) = SignedWordOf(WordAt(o, 2 * k, order))
  /\ \A i \in 0 .. 2 * num - 1 :
        /\ getUINT8(o, i) = Octet(o, i)
        /\ getINT8(o, i) = Signed(Octet(o, i), 256)
  /\ getUINT16(o, 2 * num, order) = Failure("out_of_range")

LEMMA WordAccess ==
  ASSUME NEW o, NEW num \in Nat, NEW memory, NEW start \in Nat, Shows(o, num, memory, start),
         NEW order
  PROVE  WordReads(o, num, order)
  <1>1. isValid(o) /\ Len(o.data_) = 2 * num
    BY Zenon DEF Shows
  <1>2. ASSUME NEW k \in 0 .. num - 1
        PROVE  /\ getUINT16(o, k, order) = WordAt(o, 2 * k, order)
               /\ getINT16(o, k, order) = SignedWordOf(WordAt(o, 2 * k, order))
    <2>1. 2 * k + 1 < 2 * num
      BY RegisterPlaces
    <2>2. \A value : Within(o, 2 * k + 1, value) = value
      BY <1>1, <2>1 DEF Within
    <2>3. getUINT16(o, k, order) = WordAt(o, 2 * k, order)
      BY <1>1, <2>2 DEF getUINT16
    <2>4. getINT16(o, k, order) = SignedWordOf(WordAt(o, 2 * k, order))
      BY <1>1, <2>2 DEF getINT16, SignedWordOf
    <2> QED
      BY <2>3, <2>4
  <1>3. ASSUME NEW i \in 0 .. 2 * num - 1
        PROVE  getUINT8(o, i) = Octet(o, i) /\ getINT8(o, i) = Signed(Octet(o, i), 256)
    <2>1. i < 2 * num
      OBVIOUS
    <2>2. \A value : Within(o, i, value) = value
      BY <1>1, <2>1 DEF Within
    <2> QED
      BY <1>1, <2>2 DEF getUINT8, getINT8
  <1>4. getUINT16(o, 2 * num, order) = Failure("out_of_range")
    <2>1. ~(2 * (2 * num) + 1 < 2 * num)
      OBVIOUS
    <2>2. \A value : Within(o, 2 * (2 * num) + 1, value) = Failure("out_of_range")
      BY <1>1, <2>1 DEF Within
    <2> QED
      BY <1>1, <2>2 DEF getUINT16
  <1> QED
    BY <1>2, <1>3, <1>4, Zenon DEF WordReads

(* A 32-bit access to registers 2k and 2k + 1, and one past the last. *)
LongReads(o, num) ==
  /\ \A order \in ByteOrders, k \in 0 .. (num \div 2) - 1 :
        /\ getUINT32(o, k, order) = LongAt(o, k, order)
        /\ getINT32(o, k, order) = SignedLongOf(LongAt(o, k, order))
  /\ \A k \in 0 .. (num \div 2) - 1 :
        /\ LongAt(o, k, "normal") = <<WordAt(o, 2 * (2 * k), "normal"),
                                      WordAt(o, 2 * (2 * k + 1), "normal")>>
        /\ LongAt(o, k, "byte_swapped") = <<WordAt(o, 2 * (2 * k + 1), "byte_swapped"),
                                            WordAt(o, 2 * (2 * k), "byte_swapped")>>
  /\ getUINT32(o, num \div 2, "normal") = Failure("out_of_range")

LEMMA LongAccess ==
  ASSUME NEW o, NEW num \in Nat, NEW memory, NEW start \in Nat, Shows(o, num, memory, start)
  PROVE  LongReads(o, num)
  <1>1. isValid(o) /\ Len(o.data_) = 2 * num
    BY Zenon DEF Shows
  <1>2. ASSUME NEW order \in ByteOrders, NEW k \in 0 .. (num \div 2) - 1
        PROVE  /\ getUINT32(o, k, order) = LongAt(o, k, order)
               /\ getINT32(o, k, order) = SignedLongOf(LongAt(o, k, order))
    <2>1. 4 * k + 3 < 2 * num
      BY LongPlaces
    <2>2. \A value : Within(o, 4 * k + 3, value) = value
      BY <1>1, <2>1 DEF Within
    <2>3. getUINT32(o, k, order) = LongAt(o, k, order)
      BY <1>1, <2>2 DEF getUINT32
    <2>4. getINT32(o, k, order) = SignedLongOf(LongAt(o, k, order))
      BY <1>1, <2>2 DEF getINT32, SignedLongOf
    <2> QED
      BY <2>3, <2>4
  <1>3. ASSUME NEW k \in 0 .. (num \div 2) - 1
        PROVE  /\ LongAt(o, k, "normal") = <<WordAt(o, 2 * (2 * k), "normal"),
                                             WordAt(o, 2 * (2 * k + 1), "normal")>>
               /\ LongAt(o, k, "byte_swapped") = <<WordAt(o, 2 * (2 * k + 1), "byte_swapped"),
                                                   WordAt(o, 2 * (2 * k), "byte_swapped")>>
    <2>1. /\ 4 * k = 2 * (2 * k) /\ 4 * k + 2 = 2 * (2 * k + 1)
          /\ 8 * k + 2 - 4 * k = 4 * k + 2 /\ 8 * k + 2 - (4 * k + 2) = 4 * k
      BY LongPlaces
    <2>2. HighWordAt(k, "normal") = 4 * k /\ HighWordAt(k, "byte_swapped") = 4 * k + 2
      BY DEF HighWordAt
    <2>3. LongAt(o, k, "normal") = <<WordAt(o, 4 * k, "normal"), WordAt(o, 4 * k + 2, "normal")>>
      BY <2>1, <2>2, Zenon DEF LongAt
    <2>4. LongAt(o, k, "byte_swapped") =
             <<WordAt(o, 4 * k + 2, "byte_swapped"), WordAt(o, 4 * k, "byte_swapped")>>
      BY <2>1, <2>2, Zenon DEF LongAt
    <2> QED
      BY <2>1, <2>3, <2>4, Zenon
  <1>4. getUINT32(o, num \div 2, "normal") = Failure("out_of_range")
    <2>1. PICK n : n = num \div 2
      OBVIOUS
    <2>2. ~(4 * n + 3 < 2 * num)
      BY <2>1
    <2>3. \A value : Within(o, 4 * n + 3, value) = Failure("out_of_range")
      BY <1>1, <2>2 DEF Within
    <2>4. getUINT32(o, n, "normal") = Failure("out_of_range")
      BY <1>1, <2>3 DEF getUINT32
    <2> QED
      BY <2>1, <2>4
  <1> QED
    BY <1>2, <1>3, <1>4, Zenon DEF LongReads

(* Both numbers of a register, signed or not. *)
LEMMA SignedReads ==
  ASSUME NEW o, NEW num \in Nat, NEW memory, NEW start \in Nat, Shows(o, num, memory, start),
         NEW order \in ByteOrders
  PROVE  /\ \A k \in 0 .. 2 * num - 1 :
               getINT8(o, k) < 128 /\ getINT8(o, k) % 256 = getUINT8(o, k)
         /\ \A k \in 0 .. num - 1 :
               /\ getINT16(o, k, order) < 32768
               /\ getINT16(o, k, order) % 65536 = getUINT16(o, k, order)
         /\ \A k \in 0 .. (num \div 2) - 1 :
               <<(getINT32(o, k, order) \div 65536) % 65536, getINT32(o, k, order) % 65536>> =
                  getUINT32(o, k, order)
  <1>1. \A k \in 0 .. num - 1 : WordAt(o, 2 * k, order) \in Words
    <2> TAKE k \in 0 .. num - 1
    <2>1. PICK h, l \in Octets : /\ WordAt(o, 2 * k, "normal") = Word(h, l)
                                 /\ WordAt(o, 2 * k, "byte_swapped") = Word(l, h)
      <3>1. WordIs(o, memory, start, k)
        BY WordShown
      <3> QED
        BY <3>1, Zenon DEF WordIs
    <2>2. Word(h, l) \in Words /\ Word(l, h) \in Words
      BY WordOfOctets
    <2>3. order = "normal" \/ order = "byte_swapped"
      BY DEF ByteOrders
    <2> QED
      BY <2>1, <2>2, <2>3
  <1>2. ASSUME NEW k \in 0 .. 2 * num - 1
        PROVE  getINT8(o, k) < 128 /\ getINT8(o, k) % 256 = getUINT8(o, k)
    <2>1. Octet(o, k) \in Octets
      BY DEF Shows
    <2>2. getUINT8(o, k) = Octet(o, k) /\ getINT8(o, k) = Signed(Octet(o, k), 256)
      <3>1. WordReads(o, num, order)
        BY WordAccess
      <3> QED
        BY <3>1, Zenon DEF WordReads
    <2>3. PICK x \in Octets : x = Octet(o, k)
      BY <2>1
    <2>4. Signed(x, 256) < 128 /\ Signed(x, 256) % 256 = x
      BY SignedOctet
    <2> QED
      BY <2>2, <2>3, <2>4
  <1>3. ASSUME NEW k \in 0 .. num - 1
        PROVE  /\ getINT16(o, k, order) < 32768
               /\ getINT16(o, k, order) % 65536 = getUINT16(o, k, order)
    <2>1. PICK w \in Words : w = WordAt(o, 2 * k, order)
      BY <1>1
    <2>2. getUINT16(o, k, order) = w /\ getINT16(o, k, order) = SignedWordOf(w)
      <3>1. WordReads(o, num, order)
        BY WordAccess
      <3> QED
        BY <2>1, <3>1, Zenon DEF WordReads
    <2>3. SignedWordOf(w) < 32768 /\ SignedWordOf(w) % 65536 = w
      BY SignedWord DEF SignedWordOf
    <2> QED
      BY <2>2, <2>3
  <1>0. LongReads(o, num)
    BY LongAccess
  <1>4. ASSUME NEW k \in 0 .. (num \div 2) - 1
        PROVE  <<(getINT32(o, k, order) \div 65536) % 65536, getINT32(o, k, order) % 65536>> =
                  getUINT32(o, k, order)
    <2>1. PICK h, l \in Words : LongAt(o, k, order) = <<h, l>>
      <3>1. 2 * k \in 0 .. num - 1 /\ 2 * k + 1 \in 0 .. num - 1
        BY LongPlaces
      <3>2. /\ WordAt(o, 2 * (2 * k), order) \in Words
            /\ WordAt(o, 2 * (2 * k + 1), order) \in Words
        BY <1>1, <3>1, Zenon
      <3>3. CASE order = "normal"
        <4>1. LongAt(o, k, order) = <<WordAt(o, 2 * (2 * k), order),
                                      WordAt(o, 2 * (2 * k + 1), order)>>
          BY <1>0, <3>3, Zenon DEF LongReads
        <4> QED
          BY <3>2, <4>1, Zenon
      <3>4. CASE order = "byte_swapped"
        <4>1. LongAt(o, k, order) = <<WordAt(o, 2 * (2 * k + 1), order),
                                      WordAt(o, 2 * (2 * k), order)>>
          BY <1>0, <3>4, Zenon DEF LongReads
        <4> QED
          BY <3>2, <4>1, Zenon
      <3> QED
        BY <3>3, <3>4 DEF ByteOrders
    <2>2. SignedLongOf(<<h, l>>) = 65536 * Signed(h, 65536) + l
      BY DEF SignedLongOf
    <2>3. /\ getUINT32(o, k, order) = <<h, l>>
          /\ getINT32(o, k, order) = SignedLongOf(<<h, l>>)
      BY <1>0, <2>1, Zenon DEF LongReads
    <2>4. PICK s \in Int : s = Signed(h, 65536) /\ s % 65536 = h
      BY SignedWord
    <2>5. getINT32(o, k, order) = 65536 * s + l
      BY <2>2, <2>3, <2>4
    <2>6. /\ ((65536 * s + l) \div 65536) % 65536 = s % 65536
          /\ (65536 * s + l) % 65536 = l
      BY SignedLong
    <2> QED
      BY <2>3, <2>4, <2>5, <2>6
  <1> QED
    BY <1>2, <1>3, <1>4

(* Through copy_data_registers, the response and the getters an            *)
(* application reads the octets of the registers it asked for, and the     *)
(* first of them as one number of 16 or 32 bits in either byte order, the  *)
(* signed forms being two's complement, whatever the memory and the range. *)
THEOREM ApplicationReadsRegisters == RegistersFit => (PathSpec => []ClientReadsRegisters)
  <1> SUFFICES ASSUME RegistersFit PROVE PathSpec => []ClientReadsRegisters
    OBVIOUS
  <1>1. PathInv => ClientReadsRegisters
    <2> SUFFICES ASSUME PathInv, phase = "registersRead", origin = "constructed"
                 PROVE  ClientReadsRegisters
      BY DEF ClientReadsRegisters
    <2> DEFINE memory(k) == Word(before.registers[2 * k], before.registers[2 * k + 1])
               swapped(w) == Word(Lo(w), Hi(w))
    <2>1. Start \in Nat /\ Num \in Nat /\ Shows(object, Num, before.registers, Start)
      BY ObjectShows
    <2>2. Num # 0
      BY ServedNumbers DEF PathInv
    <2>3. /\ LongReads(object, Num)
          /\ \A order : WordReads(object, Num, order)
      BY <2>1, LongAccess, WordAccess
    <2>4. ASSUME NEW k \in 0 .. Num - 1
          PROVE  /\ WordAt(object, 2 * k, "normal") = memory(Start + k)
                 /\ WordAt(object, 2 * k, "byte_swapped") = swapped(memory(Start + k))
      <3>1. PICK h, l \in Octets :
               /\ h = before.registers[2 * (Start + k)]
               /\ l = before.registers[2 * (Start + k) + 1]
               /\ WordAt(object, 2 * k, "normal") = Word(h, l)
               /\ WordAt(object, 2 * k, "byte_swapped") = Word(l, h)
        <4>1. WordIs(object, before.registers, Start, k)
          BY <2>1, WordShown
        <4> QED
          BY <4>1, Zenon DEF WordIs
      <3>2. memory(Start + k) = Word(h, l)
        BY <3>1, Zenon
      <3>3. Hi(Word(h, l)) = h /\ Lo(Word(h, l)) = l
        BY WordOfOctets
      <3> QED
        BY <3>1, <3>2, <3>3, Zenon
    <2>5. \A k \in 0 .. 2 * Num - 1 : getUINT8(object, k) = before.registers[2 * Start + k]
      <3> TAKE k \in 0 .. 2 * Num - 1
      <3>1. getUINT8(object, k) = Octet(object, k)
        BY <2>3, Zenon DEF WordReads
      <3>2. Octet(object, k) = before.registers[2 * Start + k]
        BY <2>1, Zenon DEF Shows
      <3> QED
        BY <3>1, <3>2
    <2>6. 0 \in 0 .. Num - 1 /\ Start + 0 = Start
      BY <2>1, <2>2
    <2>7. /\ WordAt(object, 2 * 0, "normal") = memory(Start)
          /\ WordAt(object, 2 * 0, "byte_swapped") = swapped(memory(Start))
      BY <2>4, <2>6
    <2>8. /\ getUINT16(object, 0, "normal") = memory(Start)
          /\ getUINT16(object, 0, "byte_swapped") = swapped(memory(Start))
      <3>1. /\ getUINT16(object, 0, "normal") = WordAt(object, 2 * 0, "normal")
            /\ getUINT16(object, 0, "byte_swapped") = WordAt(object, 2 * 0, "byte_swapped")
        BY <2>3, <2>6, Zenon DEF WordReads
      <3> QED
        BY <2>7, <3>1, Zenon
    <2>9. ASSUME Num > 1
          PROVE  /\ getUINT32(object, 0, "normal") = <<memory(Start), memory(Start + 1)>>
                 /\ getUINT32(object, 0, "byte_swapped") =
                       <<swapped(memory(Start + 1)), swapped(memory(Start))>>
      <3>1. /\ 0 \in 0 .. (Num \div 2) - 1 /\ 1 \in 0 .. Num - 1
            /\ 2 * 0 = 0 /\ 2 * 0 + 1 = 1
        BY <2>1, <2>9
      <3>2. /\ getUINT32(object, 0, "normal") = <<WordAt(object, 2 * (2 * 0), "normal"),
                                                  WordAt(object, 2 * (2 * 0 + 1), "normal")>>
            /\ getUINT32(object, 0, "byte_swapped") =
                  <<WordAt(object, 2 * (2 * 0 + 1), "byte_swapped"),
                    WordAt(object, 2 * (2 * 0), "byte_swapped")>>
        <4>1. "normal" \in ByteOrders /\ "byte_swapped" \in ByteOrders
          BY DEF ByteOrders
        <4> QED
          BY <2>3, <3>1, <4>1, Zenon DEF LongReads
      <3>3. /\ WordAt(object, 2 * 1, "normal") = memory(Start + 1)
            /\ WordAt(object, 2 * 1, "byte_swapped") = swapped(memory(Start + 1))
        BY <2>4, <3>1
      <3> HIDE DEF memory, swapped
      <3> QED
        BY <2>7, <3>1, <3>2, <3>3, Zenon
    <2>10. ASSUME Num = 1 PROVE getUINT32(object, 0, "normal") = Failure("out_of_range")
      <3>1. Num \div 2 = 0
        BY <2>10
      <3>2. getUINT32(object, Num \div 2, "normal") = Failure("out_of_range")
        BY <2>3, Zenon DEF LongReads
      <3> QED
        BY <3>1, <3>2, Zenon
    <2>11. SignedAgree
      BY <2>1, SignedReads DEF SignedAgree
    <2>12. getUINT16(object, 2 * Num, "normal") = Failure("out_of_range")
      BY <2>3, Zenon DEF WordReads
    <2> QED
      BY <2>5, <2>8, <2>9, <2>10, <2>11, <2>12 DEF ClientReadsRegisters
  <1> QED
    BY <1>1, PathInvariant, PTL

-----------------------------------------------------------------------------
(* What an application writes *)

(* What the members of a write request and its count octet can hold. *)
WritesFit == CoilsFit /\ \A start \in Starts : start \in Words

LEMMA PackedLength ==
  \A num \in Nat \ {0} :
     num \div 8 + (IF num % 8 # 0 THEN 1 ELSE 0) = (num - 1) \div 8 + 1
  <1> SUFFICES ASSUME NEW num \in Nat \ {0}
               PROVE  num \div 8 + (IF num % 8 # 0 THEN 1 ELSE 0) = (num - 1) \div 8 + 1
    OBVIOUS
  <1>1. PICK q \in Nat, r \in Bits : num = 8 * q + r /\ num \div 8 = q /\ num % 8 = r
    BY OctetAndBit
  <1>2. CASE r = 0
    <2>1. (num - 1) \div 8 = q - 1
      BY <1>1, <1>2
    <2> QED
      BY <1>1, <1>2, <2>1
  <1>3. CASE r # 0
    <2>1. (num - 1) \div 8 = q
      BY <1>1, <1>3 DEF Bits
    <2> QED
      BY <1>1, <1>3, <2>1
  <1> QED
    BY <1>2, <1>3

(* Numbers of coils that fit. *)
CoilNumbers == 1 .. 2040

LEMMA FittingNumbers ==
  \A num \in CoilNumbers :
     /\ num \in Words /\ num \in Nat \ {0}
     /\ num \div 8 + (IF num % 8 # 0 THEN 1 ELSE 0) \in SmallLength
  <1> SUFFICES ASSUME NEW num \in CoilNumbers
               PROVE  /\ num \in Words /\ num \in Nat \ {0}
                      /\ num \div 8 + (IF num % 8 # 0 THEN 1 ELSE 0) \in SmallLength
    OBVIOUS
  <1>1. num \in Nat \ {0} /\ num <= 2040
    BY DEF CoilNumbers
  <1>2. num \in Words
    <2>1. num \in Int /\ 0 <= num /\ num <= 65535
      BY <1>1
    <2> QED
      BY <2>1, InWords
  <1>3. (num - 1) \div 8 + 1 \in SmallLength
    BY <1>1, FittingOctets
  <1>4. num \div 8 + (IF num % 8 # 0 THEN 1 ELSE 0) = (num - 1) \div 8 + 1
    <2>1. num \in Nat \ {0}
      BY <1>1
    <2> QED
      BY <2>1, PackedLength
  <1>5. num \div 8 + (IF num % 8 # 0 THEN 1 ELSE 0) \in SmallLength
    BY <1>3, <1>4, Zenon
  <1> QED
    BY <1>1, <1>2, <1>5

(* The bits of octet i of the bools v. *)
Eight(v, i) == {b \in Bits : 8 * (i - 1) + b + 1 \in {k \in DOMAIN v : v[k]}}

(* Up to 255 octets of coils reach the server. *)
LEMMA CoilsDelivered ==
  ASSUME NEW start \in Words, NEW num \in Words, NEW o \in Seq(Octets), Len(o) <= 255
  PROVE  Delivered(Message(write_multiple_coils_request, 1, <<start, num>>, o)) = o
  <1>1. PICK l, m, f : /\ l = write_multiple_coils_request /\ f = <<start, num>>
                       /\ m = Message(l, 1, f, o)
    OBVIOUS
  <1>2. m = [layout |-> l, unit_id |-> 1, fields |-> f, values |-> o]
    BY <1>1 DEF Message
  <1>3. m.layout = l /\ m.unit_id = 1 /\ m.fields = f /\ m.values = o
    BY <1>2
  <1>4. l \in Layouts /\ l.words = 2 /\ l.width = 1
    BY <1>1 DEF Layouts, PlainLayouts, write_multiple_coils_request, Layout
  <1>5. /\ l # exception_response /\ l # read_write_registers_request
        /\ l \notin {write_single_coil_request, write_single_coil_response}
    BY <1>4 DEF exception_response, read_write_registers_request, write_single_coil_request,
                write_single_coil_response, Layout
  <1>6. 1 \in Octets /\ f \in Seq(Words) /\ Len(f) = 2
    BY <1>1, OneOrTwo DEF Octets
  <1>7. o \in Seq(Words) /\ 1 * Len(o) <= 255
    BY OctetsAreWords
  <1>8. m \in [layout : Layouts, unit_id : Octets, fields : Seq(Words), values : Seq(Words)]
    BY <1>2, <1>4, <1>6, <1>7
  <1>9. WellFormed(m)
    BY <1>3, <1>4, <1>5, <1>6, <1>7, <1>8 DEF WellFormed
  <1> QED
    BY <1>1, <1>3, <1>9, DeliveredWhole

(* The constructor from a vector<bool> packs them so that the server finds *)
(* the same octets.                                                        *)
LEMMA PackedDelivered ==
  ASSUME NEW start \in Words, NEW num \in CoilNumbers, NEW v, Len(v) = num,
         NEW n \in SmallLength, n = num \div 8 + (IF num % 8 # 0 THEN 1 ELSE 0)
  PROVE  Delivered(packed(1, start, v)) = [i \in 1 .. n |-> Number(Eight(v, i))]
  <1>1. PICK o : o = [i \in 1 .. n |-> Number(Eight(v, i))]
    OBVIOUS
  <1>2. \A i \in 1 .. n : Number(Eight(v, i)) \in Octets
    BY NumberBits
  <1>3. n \in Nat /\ n <= 255 /\ o \in [1 .. n -> Octets]
    <2>1. o \in [1 .. n -> Octets]
      BY <1>1, <1>2, Zenon
    <2> QED
      BY <2>1, SmallLengths
  <1>4. o \in Seq(Octets) /\ Len(o) = n
    BY <1>3, TypedFunction
  <1>5. Len(o) <= 255
    BY <1>3, <1>4, Zenon
  <1>6. num \in Words
    BY FittingNumbers
  <1>7. Delivered(Message(write_multiple_coils_request, 1, <<start, num>>, o)) = o
    BY <1>4, <1>5, <1>6, CoilsDelivered
  <1>8. packed(1, start, v) = Message(write_multiple_coils_request, 1, <<start, num>>, o)
    BY <1>1, Zenon DEF packed, Eight
  <1> QED
    BY <1>1, <1>7, <1>8

(* The bools that octet and bit of a coil number point at. *)
LEMMA EightCoils ==
  ASSUME NEW num \in Nat \ {0}, NEW v, DOMAIN v = 1 .. num, NEW k \in 1 .. num, NEW n \in Nat,
         n = num \div 8 + (IF num % 8 # 0 THEN 1 ELSE 0)
  PROVE  /\ (k - 1) \div 8 \in 0 .. n - 1
         /\ (k - 1) % 8 \in Eight(v, (k - 1) \div 8 + 1) <=> v[k]
  <1>1. PICK i \in Nat, b \in Bits : i = (k - 1) \div 8 /\ b = (k - 1) % 8 /\ k - 1 = 8 * i + b
    <2>1. k - 1 \in Nat
      OBVIOUS
    <2> QED
      BY <2>1, OctetAndBit
  <1>2. n = (num - 1) \div 8 + 1
    BY PackedLength
  <1>3. i \in 0 .. n - 1
    <2>1. PICK q \in Nat, r \in Bits : num - 1 = 8 * q + r /\ q = (num - 1) \div 8
      <3>1. num - 1 \in Nat
        OBVIOUS
      <3> QED
        BY <3>1, OctetAndBit
    <2>2. 8 * i + b <= 8 * q + r
      BY <1>1, <2>1
    <2>3. i <= q
      BY <2>2 DEF Bits
    <2> QED
      BY <1>2, <2>1, <2>3
  <1>4. 8 * (i + 1 - 1) + b + 1 = k
    BY <1>1 DEF Bits
  <1>5. b \in Eight(v, i + 1) <=> v[k]
    BY <1>4 DEF Eight
  <1> QED
    BY <1>1, <1>3, <1>5

(* The coils of a served request are coils of the memory. *)
LEMMA CoilsServed ==
  ASSUME HandlerInv, phase = "written", NEW k \in 1 .. Num
  PROVE  \E c : /\ c = Start + k - 1 /\ c - Start = k - 1
                /\ c \in Coils(data) /\ c \in Asked
  <1>1. Start \in Nat /\ Num \in Nat \ {0} /\ NumBytes \in Nat /\ Start + Num <= 8 * NumBytes
    BY ServedNumbers, ServedInMemory
  <1>2. DOMAIN data = 0 .. NumBytes - 1
    <2>1. PICK bitmap : data = write_coils(before.data, bitmap, statuses, Start)
      BY DEF HandlerInv, Done
    <2>2. DOMAIN data = DOMAIN before.data
      BY <2>1 DEF write_coils
    <2> QED
      BY <2>2 DEF HandlerInv, Cells
  <1>3. PICK c \in Nat : c = Start + k - 1 /\ c < 8 * NumBytes /\ c >= Start /\ c - Start = k - 1
    BY <1>1
  <1>4. c \div 8 \in 0 .. NumBytes - 1
    BY <1>1, <1>3
  <1>5. c \in Coils(data)
    BY <1>1, <1>2, <1>3, <1>4, CoilsOf
  <1>6. c \in Asked
    BY <1>1, <1>3 DEF Asked
  <1> QED
    BY <1>3, <1>5, <1>6, Zenon

(* What the handler is given of bools that the application writes: as many *)
(* octets as they fill, with their bits.                                   *)
LEMMA BoolsCarried ==
  ASSUME WritesFit, PathInv, bools # <<>>
  PROVE  \E n \in Nat :
            /\ Num \in Nat \ {0} /\ n = Num \div 8 + (IF Num % 8 # 0 THEN 1 ELSE 0)
            /\ DOMAIN bools = 1 .. Num /\ \A k \in 1 .. Num : bools[k] \in BOOLEAN
            /\ statuses = [i \in 0 .. n - 1 |-> Eight(bools, i + 1)]
  <1>1. /\ HandlerInv /\ Start \in Starts /\ Num \in Counts \ {0} /\ Written
        /\ \E pattern \in Patterns : bools = [j \in 1 .. Num |-> (j - 1) % 8 \in pattern]
    BY DEF PathInv
  <1>2. Start \in Words /\ Num \in CoilNumbers /\ Num \in Nat \ {0}
    <2>1. Start \in Words /\ Num <= 2040
      BY <1>1 DEF WritesFit, CoilsFit
    <2>2. Num \in Nat \ {0}
      BY <1>1, Constants
    <2> QED
      BY <2>1, <2>2 DEF CoilNumbers
  <1>3. /\ DOMAIN bools = 1 .. Num /\ \A k \in 1 .. Num : bools[k] \in BOOLEAN
        /\ Len(bools) = Num
    BY <1>1, <1>2
  <1>4. PICK n \in SmallLength : n = Num \div 8 + (IF Num % 8 # 0 THEN 1 ELSE 0)
    BY <1>2, FittingNumbers
  <1>5. n \in Nat
    BY SmallLengths
  <1>6. PICK values : /\ values = Delivered(packed(1, Start, bools))
                      /\ values = [i \in 1 .. n |-> Number(Eight(bools, i))]
    BY <1>2, <1>3, <1>4, PackedDelivered
  <1>7. Len(values) = n
    BY <1>5, <1>6
  <1>8. statuses = [i \in 0 .. n - 1 |-> BitsOf(values[i + 1])]
    BY <1>1, <1>6, <1>7 DEF Written
  <1>9. ASSUME NEW i \in 0 .. n - 1 PROVE BitsOf(values[i + 1]) = Eight(bools, i + 1)
    <2>1. i + 1 \in 1 .. n
      BY <1>5
    <2>2. values[i + 1] = Number(Eight(bools, i + 1))
      BY <1>6, <2>1
    <2>3. Eight(bools, i + 1) \in SUBSET Bits
      BY DEF Eight
    <2> QED
      BY <2>2, <2>3, BitsOfNumber
  <1>10. statuses = [i \in 0 .. n - 1 |-> Eight(bools, i + 1)]
    BY <1>8, <1>9
  <1> QED
    BY <1>2, <1>3, <1>4, <1>5, <1>10

(* Through the constructor of the request and its octets the bools of an   *)
(* application reach the handler in order, however many they are; and      *)
(* where write_coils stays inside those octets and needs no carry of a     *)
(* carry they become the coils it named, whatever the memory.              *)
THEOREM ApplicationWritesCoils == WritesFit => (PathSpec => []ClientWritesCoils)
  <1> SUFFICES ASSUME WritesFit PROVE PathSpec => []ClientWritesCoils
    OBVIOUS
  <1>1. PathInv => ClientWritesCoils
    <2> SUFFICES ASSUME PathInv, bools # <<>> PROVE ClientWritesCoils
      BY DEF ClientWritesCoils
    <2>1. PICK n \in Nat :
             /\ Num \in Nat \ {0} /\ n = Num \div 8 + (IF Num % 8 # 0 THEN 1 ELSE 0)
             /\ DOMAIN bools = 1 .. Num /\ \A k \in 1 .. Num : bools[k] \in BOOLEAN
             /\ statuses = [i \in 0 .. n - 1 |-> Eight(bools, i + 1)]
      BY BoolsCarried
    <2>2. ASSUME NEW i \in DOMAIN statuses, NEW b \in Bits
          PROVE  b \in statuses[i] <=> 8 * i + b + 1 \in {k \in DOMAIN bools : bools[k]}
      <3>1. i \in Int /\ (i + 1) - 1 = i
        BY <2>1
      <3>2. statuses[i] = Eight(bools, i + 1)
        BY <2>1
      <3> QED
        BY <3>1, <3>2 DEF Eight
    <2>3. ASSUME NEW k \in DOMAIN bools
          PROVE  /\ (k - 1) \div 8 \in 0 .. n - 1
                 /\ (k - 1) % 8 \in Eight(bools, (k - 1) \div 8 + 1) <=> bools[k]
      BY <2>1, EightCoils
    <2>4. ASSUME NEW k \in DOMAIN bools, phase = "written", Short
          PROVE  Coil(data, Start + k - 1) = bools[k]
      <3>1. HandlerInv
        BY DEF PathInv
      <3>2. Filled
        <4>1. 0 .. n - 1 = 0 .. (Num + 7) \div 8 - 1
          <5>1. n = (Num + 7) \div 8
            BY <2>1
          <5> QED
            BY <5>1
        <4> QED
          BY <2>1, <4>1 DEF Filled
      <3>3. Coil(statuses, k - 1) <=> bools[k]
        BY <2>1, <2>3 DEF Coil
      <3>4. PICK c : /\ c = Start + k - 1 /\ c - Start = k - 1
                     /\ c \in Coils(data) /\ c \in Asked
        BY <2>1, <2>4, <3>1, CoilsServed
      <3>5. Coil(data, c) <=> Coil(statuses, c - Start)
        <4>1. WriteExact
          BY <3>1, <3>2, WritesExactly
        <4>2. Replaced
          BY <2>4, <4>1, Zenon DEF WriteExact
        <4> QED
          BY <3>4, <4>2, Zenon DEF Replaced
      <3>6. Coil(data, c) \in BOOLEAN
        BY DEF Coil
      <3>7. Coil(data, c) <=> bools[k]
        BY <3>3, <3>4, <3>5, Zenon
      <3>8. bools[k] \in BOOLEAN
        BY <2>1
      <3>9. Coil(data, c) = bools[k]
        <4>1. \A p, q \in BOOLEAN : (p <=> q) => p = q
          OBVIOUS
        <4> QED
          BY <3>6, <3>7, <3>8, <4>1, Zenon
      <3> QED
        BY <3>4, <3>9, Zenon
    <2> QED
      BY <2>1, <2>2, <2>3, <2>4 DEF ClientWritesCoils
  <1> QED
    BY <1>1, PathInvariant, PTL
=============================================================================
